------------------------------- MODULE Retention -------------------------------
(* Retention over calendar time: the saved policy and the purge it allows    *)
(* (internal/server/retention.go).                                           *)
(*                                                                           *)
(* CapsuleStore has every call of a deposit and of a purge; here a deposit   *)
(* is its row and its outcome, and removing one capsule is one step, so that *)
(* dates can be real.  A deposit holds its ID's lock from its row to its     *)
(* outcome.  Rows a crash leaves half published are CapsuleStore's.  The     *)
(* clock is an operator's: it stands still and jumps, never back.  Listing is*)
(* by the creation time the client wrote, which no deposit time follows: by  *)
(* ID here.                                                                  *)
EXTENDS RetentionWindows, FiniteSets

CONSTANTS
    Instants,       \* the times at which anything happens
    ProductOf,      \* the paired app and service that deposit under an ID
    Policies,       \* what administrators save
    MaxDeposits,
    NoJob, NoPurge

Ids == DOMAIN ProductOf
KeepForever == [days |-> 0, weeks |-> 0, months |-> 0]
Policy == [days : Nat, weeks : Nat, months : Nat]

ASSUME RetentionAssumption ==
    /\ Instants \subseteq Nat /\ IsFiniteSet(Instants)
    /\ \A t \in Instants : Day(t) \in DOMAIN MonthOfDay       \* the calendar covers them
    /\ Ids \subseteq Nat
    /\ Policies \subseteq {p \in Policy : p.days > 0}
    /\ MaxDeposits \in Nat

VARIABLES
    clock,
    caps,       \* every capsule ever given a row, in the order of their rows
    saved,      \* the setting capsule_retention_policy
    job         \* the purge that holds retentionMu

vars == <<clock, caps, saved, job>>

(* publishing: a row without its file.  unlinked: the file is gone and the   *)
(* row stayed.  purged, failed: neither is left.                             *)
Lives == {"publishing", "stored", "unlinked", "purged", "failed"}
Receipts == DOMAIN caps
Having(lives) == {r \in Receipts : caps[r].life \in lives}
RowsOf(id) == {r \in Having({"publishing", "stored", "unlinked"}) : caps[r].id = id}
Locked(id) == \E r \in RowsOf(id) : caps[r].life = "publishing"
Records(rs) == {caps[r] : r \in rs}
Purging(step) == job # NoJob /\ job.step = step

Init ==
    /\ clock \in Instants
    /\ caps = <<>>
    /\ saved = KeepForever
    /\ job = NoJob

Tick ==
    /\ clock' \in {t \in Instants : t > clock}
    /\ UNCHANGED <<caps, saved, job>>

----------------------------------------------------------------------------
(* Deposits.                                                                *)

\* Mutant: the new row takes the place of the one it finds.
InsertOver(id) ==
    /\ Len(caps) < MaxDeposits
    /\ ~Locked(id)
    /\ caps' = Append(caps, [id |-> id, product |-> ProductOf[id], at |-> clock,
                             life |-> "publishing", by |-> NoPurge])
    /\ UNCHANGED <<clock, saved, job>>

\* An ID with a row is answered from that row.
Insert(id) ==
    /\ Len(caps) < MaxDeposits
    /\ RowsOf(id) = {}
    /\ caps' = Append(caps, [id |-> id, product |-> ProductOf[id], at |-> clock,
                             life |-> "publishing", by |-> NoPurge])
    /\ UNCHANGED <<clock, saved, job>>

\* The file is linked, or the row is taken back.
Publish(r) ==
    /\ caps[r].life = "publishing"
    /\ \E life \in {"stored", "failed"} : caps' = [caps EXCEPT ![r].life = life]
    /\ UNCHANGED <<clock, saved, job>>

----------------------------------------------------------------------------
(* Saving a policy and purging by it: one at a time, under retentionMu.     *)

\* saveRetention: the event, then the setting; either may fail and nothing has
\* changed.  It waits for the mutex, and no one reads the setting meanwhile.
Save(p) ==
    /\ job = NoJob
    /\ saved' = p
    /\ UNCHANGED <<clock, caps, job>>

\* "Require the policy the admin previewed": handleRetentionPurge answers 409 to
\* any other.  Under zero days it lists, waits and removes nothing: left out.
BeginPurge(p) ==
    /\ job = NoJob /\ p = saved
    /\ job' = [step |-> "list", policy |-> p, now |-> clock,
               todo |-> {}, stable |-> {}, expired |-> {}]
    /\ UNCHANGED <<clock, caps, saved>>

List ==
    /\ Purging("list")
    /\ job' = [job EXCEPT !.step = "settle", !.todo = {id \in Ids : RowsOf(id) # {}}]
    /\ UNCHANGED <<clock, caps, saved>>

\* Mutant: a publish is not waited for.
SettleAtOnce(id) ==
    /\ Purging("settle") /\ id \in job.todo /\ \A other \in job.todo : id <= other
    /\ job' = [job EXCEPT !.todo = @ \ {id}, !.stable = @ \cup RowsOf(id)]
    /\ UNCHANGED <<clock, caps, saved>>

\* retentionCapsules: "A row awaiting publication must not displace a completed
\* backup if its publish fails."
Settle(id) ==
    /\ Purging("settle") /\ id \in job.todo /\ \A other \in job.todo : id <= other
    /\ ~Locked(id)
    /\ job' = [job EXCEPT !.todo = @ \ {id}, !.stable = @ \cup RowsOf(id)]
    /\ UNCHANGED <<clock, caps, saved>>

Choose ==
    /\ Purging("settle") /\ job.todo = {}
    /\ job' = [job EXCEPT !.step = "remove",
                          !.expired = {r \in job.stable : caps[r] \in
                              Expired(Records(job.stable), job.policy, job.now)}]
    /\ UNCHANGED <<clock, caps, saved>>

\* One candidate of purgeExpired, re-read under its lock: nothing but a purge
\* removes a row that has settled, so it is there.  The row may stay when the file
\* is gone: DeleteCapsule failed, or the process ended first.
Remove(r) ==
    /\ Purging("remove") /\ r \in job.expired
    /\ \A other \in job.expired : caps[r].id <= caps[other].id
    /\ r \in RowsOf(caps[r].id) /\ ~Locked(caps[r].id)
    /\ \E life \in {"purged", "unlinked"} :
          /\ LET by == IF caps[r].by = NoPurge THEN [policy |-> job.policy, now |-> job.now]
                       ELSE caps[r].by
             IN  caps' = [caps EXCEPT ![r] = [caps[r] EXCEPT !.life = life, !.by = by]]
          /\ job' = IF life = "purged" THEN [job EXCEPT !.expired = @ \ {r}] ELSE NoJob
    /\ UNCHANGED <<clock, saved>>

\* The handler is through, or an error or the end of the process stops it.
Return ==
    /\ job # NoJob /\ job' = NoJob
    /\ UNCHANGED <<clock, caps, saved>>

Next ==
    \/ Tick
    \/ \E id \in Ids : Insert(id) \/ Settle(id)
    \/ \E p \in Policies : Save(p)
    \/ \E p \in Policies : BeginPurge(p)
    \/ List \/ Choose \/ Return
    \/ \E r \in Receipts : Publish(r) \/ Remove(r)

Spec == Init /\ [][Next]_vars

----------------------------------------------------------------------------
(* What a policy promises, said without cutoffs or buckets.                 *)

Superseded(c, among, Period(_)) ==
    \E d \in among : /\ d.product = c.product /\ Period(d.at) = Period(c.at)
                     /\ d.at > c.at \/ (d.at = c.at /\ d.id > c.id)

\* Not more than n months ago, a day the month did not have being its last.
WithinMonths(n, at, now) ==
    LET ago == MonthOf(now) - MonthOf(at)
        last == MonthDays[MonthOf(at)] - 1
    IN  \/ ago < n
        \/ /\ ago = n
           /\ \/ DayOfMonth(at) > DayOfMonth(now)
              \/ /\ DayOfMonth(at) \in {DayOfMonth(now), last}
                 /\ DayOfMonth(at) <= DayOfMonth(now)
                 /\ TimeOfDay(at) >= TimeOfDay(now)

Promised(c, among, p, now) ==
    \/ p.days = 0
    \/ now < c.at + p.days * TicksPerDay
    \/ /\ p.weeks > 0 /\ now <= c.at + 7 * p.weeks * TicksPerDay
       /\ ~Superseded(c, among, WeekOf)
    \/ /\ p.months > 0 /\ WithinMonths(p.months, c.at, now)
       /\ ~Superseded(c, among, MonthOf)

Purges == [policy : Policy, now : Instants]
Capsule == [id : Ids, product : {ProductOf[id] : id \in Ids}, at : Instants,
            life : Lives, by : Purges \cup {NoPurge}]

TypeOK ==
    /\ clock \in Instants
    /\ Len(caps) <= MaxDeposits /\ \A r \in Receipts : caps[r] \in Capsule
    /\ \A id \in Ids : Cardinality(RowsOf(id)) <= 1
    /\ saved \in Policies \cup {KeepForever}
    /\ \/ job = NoJob
       \/ /\ job.step \in {"list", "settle", "remove"}
          /\ job.policy \in Policies /\ job.now \in Instants
          /\ job.todo \subseteq Ids
          /\ job.stable \subseteq Receipts /\ job.expired \subseteq job.stable

Completed == Having({"stored", "unlinked"})

\* Purging removes what the policy in force does not promise and nothing else:
\* a backup whose file goes was outside every window among the backups that were
\* completed, never displaced by one still being published; and what a purge
\* leaves when it is through it promised.  A row whose file an earlier purge took
\* still counts as a backup, as it does in retentionCandidates.
RemovesOnlyTheExpired ==
    \A r \in Receipts : caps[r].life = "stored" /\ caps'[r].life \in {"unlinked", "purged"} =>
        /\ job.policy = saved
        /\ ~Promised(caps[r], Records(Completed), saved, job.now)

LeavesOnlyThePromised ==
    Purging("remove") /\ job.expired = {} /\ job' = NoJob =>
        \A r \in job.stable : caps[r].life # "purged" =>
            Promised(caps[r], Records(job.stable), job.policy, job.now)

PurgeFollowsThePolicy == [][RemovesOnlyTheExpired /\ LeavesOnlyThePromised]_vars

\* Purging often loses nothing that purging once, now, would have kept: the
\* policy a backup was removed under does not promise it now, counting every
\* backup there has been.  The exception is a month's end: one month before noon
\* of March 28 is noon of February 28, and before the next midnight it is that
\* February day's midnight, so the window reaches back over what has gone.
NothingLostEarly ==
    \A r \in Having({"unlinked", "purged"}) :
        LET p == caps[r].by.policy
        IN  \/ ~Promised(caps[r], Records(Having({"stored", "unlinked", "purged"})), p, clock)
            \/ MonthlyCutoff(p, clock) < MonthlyCutoff(p, caps[r].by.now)

=============================================================================
