----------------------------- MODULE Replication -----------------------------
(* Stored capsules are copied to offsite targets: a deposit starts a         *)
(* goroutine that visits every auto-sync target, a request visits one target *)
(* or all (internal/replication, the replication handlers).                  *)
(*                                                                           *)
(* A sync takes no lock: it runs beside other syncs of the same capsule, the *)
(* purge that removes it and the administrator who edits targets.  A target  *)
(* is reached in one of four ways, by what its record says: the offsite      *)
(* library, which creates an object only where there is none ("exclusive"),  *)
(* the same after a look for replicas under two names ("smb"), and the two   *)
(* compatibility clients, upload-and-rename ("staged", absolute SFTP) and a  *)
(* plain PUT ("overwrite", virtual-host S3).                                 *)
EXTENDS Integers, FiniteSets

CONSTANTS
    Capsules, Targets,
    KindOf,         \* how each target is reached; its record names one place
    Syncs,          \* goroutines running SyncAllAutoTargets or SyncCapsule
    Saves,          \* records an administrator may save
    Budget,         \* defaultTransferBudget
    Grace,          \* what reapStaging waits longer than that
    Skew,           \* each target: its server's clock less ours
    MaxTime,        \* bound: the clock stops here
    MaxWork,        \* bound on targets there are and jobs there were, together
    MaxEdits,       \* bound on saved and deleted targets
    MaxFaults,      \* bound on crashes and failed statements
    NoTarget, NoJob

Kind == {"exclusive", "smb", "staged", "overwrite"}
Target == [auto : BOOLEAN, disabled : BOOLEAN]      \* of its status

ASSUME ReplicationAssumption ==
    /\ KindOf \in [Targets -> Kind]
    /\ Saves \subseteq Target
    /\ Budget \in Nat \ {0} /\ Grace \in Nat /\ Skew \in [Targets -> Int]
    /\ {MaxTime, MaxWork, MaxEdits, MaxFaults} \subseteq Nat
    /\ NoTarget \notin Target

VARIABLES
    row, file,      \* the capsules table, and the files under capsules/
    target,         \* replication_targets
    replica,        \* each target: what it holds under the name of a capsule
    legacy,         \* the same under the capsule's historical SMB name
    staging,        \* .ky-offsite-compat- files
    log,            \* the rows of replication_logs that say success
    events,         \* the capsule_replicated events of the chain
    clock,          \* of this store
    pc, job,        \* each goroutine: its next step, and what it holds
    jobs, edits, faults

storeVars == <<row, file>>
adminVars == <<target, edits>>
remoteVars == <<replica, legacy, staging>>
recordVars == <<log, events>>
syncVars == <<pc, job, jobs>>
vars == <<storeVars, adminVars, remoteVars, recordVars, clock, syncVars, faults>>

(* "other": bytes that neither the receipt nor the local file answers for.   *)
Bytes == {"whole", "damaged"}
Held == Bytes \cup {"none", "short", "other"}
Outcome == {"success", "failed"}
Job == [c : Capsules, targets : SUBSET Targets, todo : SUBSET Targets, t : Targets \cup {NoTarget},
        bytes : Bytes \cup {"none"}, start : 0..MaxTime, outcome : Outcome]
Transfer == {"look", "legacy", "put", "compare", "dial", "stage", "rename"}
Steps == Transfer \cup {"idle", "next", "open", "log", "conclude"}
Result == Targets \X Capsules

ASSUME NoJobAssumption == NoJob \notin Job \cup Syncs

Exists(t) == target[t] # NoTarget
Configured == Cardinality({t \in Targets : Exists(t)})

(* Targets may have been in use before: objects that are no replicas and     *)
(* historical ones that are, are there from the start.                       *)
Init ==
    /\ row = [c \in Capsules |-> FALSE] /\ file = [c \in Capsules |-> "none"]
    /\ target \in [Targets -> {NoTarget, [auto |-> TRUE, disabled |-> FALSE]}]
    /\ Configured < MaxWork
    /\ replica \in [Targets -> [Capsules -> {"none", "other"}]]
    /\ legacy \in [{t \in Targets : KindOf[t] = "smb"}
                      -> [Capsules -> {"none", "whole", "other"}]]
    /\ staging = {} /\ log = {} /\ events = {}
    /\ clock = 0 /\ jobs = 0 /\ edits = 0 /\ faults = 0
    /\ pc = [s \in Syncs |-> "idle"] /\ job = [s \in Syncs |-> NoJob]

----------------------------------------------------------------------------
(* Around the syncs: deposits, purges, the administrator, the world.        *)

Eligible(t) == Exists(t) /\ target[t].auto /\ ~target[t].disabled

(* One goroutine is as good as another.                                      *)
Begin(s, c, targets) ==
    /\ pc[s] = "idle" /\ s = CHOOSE r \in Syncs : pc[r] = "idle"
    /\ jobs + Configured < MaxWork /\ jobs' = jobs + 1
    /\ pc' = [pc EXCEPT ![s] = "next"]
    /\ job' = [job EXCEPT ![s] = [c |-> c, targets |-> targets, todo |-> targets, t |-> NoTarget,
                  bytes |-> "none", start |-> 0, outcome |-> "failed"]]

(* handleDeposit has published the capsule and starts SyncAllAutoTargets.    *)
(* Bound: not while a sync of the same ID, purged since, is under way.       *)
Deposit(s, c) ==
    /\ ~row[c] /\ \A r \in Syncs : job[r] # NoJob => job[r].c # c
    /\ row' = [row EXCEPT ![c] = TRUE] /\ file' = [file EXCEPT ![c] = "whole"]
    /\ Begin(s, c, {t \in Targets : Eligible(t)})
    /\ UNCHANGED <<adminVars, remoteVars, recordVars, clock, faults>>

(* POST /api/replication/sync, for every target or for one of any status;    *)
(* one that names no capsule or target comes to nothing.                     *)
Request(s, c) ==
    /\ row[c]
    /\ \/ Begin(s, c, {t \in Targets : Eligible(t)})
       \/ \E t \in Targets : Exists(t) /\ Begin(s, c, {t})
    /\ UNCHANGED <<storeVars, adminVars, remoteVars, recordVars, clock, faults>>

(* purgeExpired removes the file, then the row; syncs are not in its way.    *)
Purge(c) ==
    /\ row[c]
    /\ IF file[c] # "none" THEN file' = [file EXCEPT ![c] = "none"] /\ UNCHANGED row
                           ELSE row' = [row EXCEPT ![c] = FALSE] /\ UNCHANGED file
    /\ UNCHANGED <<adminVars, remoteVars, recordVars, clock, syncVars, faults>>

(* An open file is the damaged one.                                          *)
Damage(c) ==
    /\ file[c] = "whole" /\ file' = [file EXCEPT ![c] = "damaged"]
    /\ job' = [s \in Syncs |-> IF pc[s] \in Transfer /\ job[s].c = c
                               THEN [job[s] EXCEPT !.bytes = "damaged"] ELSE job[s]]
    /\ UNCHANGED <<row, adminVars, remoteVars, recordVars, clock, pc, jobs, faults>>

SaveTarget(t, rec) ==
    /\ edits < MaxEdits /\ edits' = edits + 1
    /\ Exists(t) \/ jobs + Configured < MaxWork
    /\ target' = [target EXCEPT ![t] = rec]
    /\ UNCHANGED <<storeVars, remoteVars, recordVars, clock, syncVars, faults>>

(* The rows of the log go with their target. *)
DeleteTarget(t) ==
    /\ edits < MaxEdits /\ edits' = edits + 1
    /\ target' = [target EXCEPT ![t] = NoTarget]
    /\ log' = {l \in log : l[1] # t}
    /\ UNCHANGED <<storeVars, remoteVars, events, clock, syncVars, faults>>

(* Time passes for staging files alone: nothing else here reads a clock.     *)
Tick ==
    /\ staging # {}
    /\ clock < MaxTime /\ clock' = clock + 1
    /\ UNCHANGED <<storeVars, adminVars, remoteVars, recordVars, syncVars, faults>>

(* A staging file whose name nobody knows any more is abandoned.             *)
Disowned(syncs) == {IF f.of \in syncs THEN [f EXCEPT !.of = NoJob] ELSE f : f \in staging}

(* What was to be copied is forgotten, and staging files are left behind.    *)
Crash ==
    /\ faults < MaxFaults /\ faults' = faults + 1
    /\ pc' = [s \in Syncs |-> "idle"] /\ job' = [s \in Syncs |-> NoJob]
    /\ staging' = Disowned(Syncs)
    /\ UNCHANGED <<storeVars, adminVars, replica, legacy, recordVars, clock, jobs>>

----------------------------------------------------------------------------
(* SyncCapsule, up to the transfer.                                         *)

Goto(s, step) == pc' = [pc EXCEPT ![s] = step]
Local == UNCHANGED <<storeVars, adminVars, remoteVars, recordVars, clock, jobs>>
Fault == faults < MaxFaults /\ faults' = faults + 1

(* GetReplicationTarget; whoever listed the targets, in their one order, may *)
(* be out of date.                                                           *)
NextTarget(s) ==
    /\ pc[s] = "next" /\ job[s].todo # {}
    /\ LET t == CHOOSE u \in job[s].todo : TRUE
       IN /\ job' = [job EXCEPT ![s].t = t, ![s].todo = @ \ {t}]
          /\ \/ Exists(t) /\ Goto(s, "open") /\ UNCHANGED faults
             \/ ~Exists(t) /\ UNCHANGED <<pc, faults>>
             \/ Fault /\ UNCHANGED pc
    /\ Local

Finish(s) ==
    /\ pc[s] = "next" /\ job[s].todo = {}
    /\ Goto(s, "idle") /\ job' = [job EXCEPT ![s] = NoJob]
    /\ UNCHANGED faults /\ Local

FirstStep(t) == CASE KindOf[t] = "smb" -> "look"
                  [] KindOf[t] = "staged" -> "dial"
                  [] OTHER -> "put"

(* The row and then the file: a purge between the two is one before both.    *)
Open(s) ==
    /\ pc[s] = "open"
    /\ LET found == row[job[s].c] /\ file[job[s].c] # "none"
       IN \/ /\ found /\ Goto(s, FirstStep(job[s].t)) /\ UNCHANGED faults
             /\ job' = [job EXCEPT ![s].bytes = file[job[s].c]]
          \/ ~found /\ Goto(s, "next") /\ UNCHANGED <<job, faults>>
          \/ Fault /\ Goto(s, "next") /\ UNCHANGED job
    /\ Local

----------------------------------------------------------------------------
(* transfer.                                                                *)

Here(s) == replica[job[s].t][job[s].c]
Done(s, outcome) ==
    /\ Goto(s, "log")
    /\ job' = [job EXCEPT ![s].outcome = outcome, ![s].bytes = "none", ![s].start = 0]
Place(s, bytes) == replica' = [replica EXCEPT ![job[s].t][job[s].c] = bytes]
TransferKeeps == UNCHANGED <<storeVars, adminVars, legacy, recordVars, clock, jobs, faults>>

(* Mutant: a replica that is there is not read to its end. *)
MatchesUnread(held) == held # "none"

(* matchesReplica: size and digest of the receipt in the row, which was      *)
(* taken from the bytes of the deposit.                                      *)
Matches(held) == held = "whole"

Judge(s, held) == Done(s, IF Matches(held) THEN "success" ELSE "failed")

(* SMB: the canonical name, then the historical one. *)
Look(s) ==
    /\ pc[s] = "look"
    /\ IF Here(s) = "none" THEN Goto(s, "legacy") /\ UNCHANGED job ELSE Judge(s, Here(s))
    /\ UNCHANGED <<replica, staging>> /\ TransferKeeps

LookLegacy(s) ==
    /\ pc[s] = "legacy"
    /\ LET held == legacy[job[s].t][job[s].c]
       IN IF held = "none" THEN Goto(s, "put") /\ UNCHANGED job ELSE Judge(s, held)
    /\ UNCHANGED <<replica, staging>> /\ TransferKeeps

Exclusive(t) == KindOf[t] \in {"exclusive", "smb"}

(* Mutant: the object is put whether or not one is there. *)
PutOver(s) ==
    /\ pc[s] = "put"
    /\ Place(s, job[s].bytes) /\ Done(s, "success")
    /\ UNCHANGED staging /\ TransferKeeps

(* Put of the library refuses an object that exists; the PUT of the          *)
(* compatibility client does not.                                            *)
Put(s) ==
    /\ pc[s] = "put"
    /\ IF Exclusive(job[s].t) /\ Here(s) # "none"
       THEN Goto(s, "compare") /\ UNCHANGED <<job, replica>>
       ELSE Place(s, job[s].bytes) /\ Done(s, "success")
    /\ UNCHANGED staging /\ TransferKeeps

Compare(s) ==
    /\ pc[s] = "compare"
    /\ Judge(s, Here(s))
    /\ UNCHANGED <<replica, staging>> /\ TransferKeeps

(* Absolute SFTP: the budget starts, expired staging files go, as far as the *)
(* server allows, and the bytes go to a new one, whose name no other has.    *)
Dial(s) ==
    /\ pc[s] = "dial" /\ Goto(s, "stage")
    /\ job' = [job EXCEPT ![s].start = clock]
    /\ UNCHANGED <<replica, staging>> /\ TransferKeeps

(* The server stamps it, by its own clock; later writes only make it younger.*)
Staged(s) == [of |-> s, on |-> job[s].t, born |-> clock + Skew[job[s].t]]
Mine(s) == {f \in staging : f.of = s}

(* Mutant: the grace minute is forgotten. *)
ExpiredAtOnce(t) == {f \in staging : f.on = t /\ f.born + Budget < clock}

(* The stamp of the server is compared with our clock. *)
Expired(t) == {f \in staging : f.on = t /\ f.born + Budget + Grace < clock}

(* POST /api/replication/test reaps as well. *)
TestConnection(t) ==
    /\ KindOf[t] = "staged"
    /\ \E reaped \in SUBSET Expired(t) : staging' = staging \ reaped
    /\ UNCHANGED <<storeVars, adminVars, replica, legacy, recordVars, clock, syncVars, faults>>

(* Mutant: the bytes go straight to the final name. *)
StageInPlace(s) ==
    /\ pc[s] = "stage"
    /\ staging' = staging \cup {Staged(s)}
    /\ Place(s, "short")
    /\ Goto(s, "rename") /\ UNCHANGED job /\ TransferKeeps

Stage(s) ==
    /\ pc[s] = "stage"
    /\ \E reaped \in SUBSET Expired(job[s].t) :
          staging' = (staging \ reaped) \cup {Staged(s)}
    /\ Goto(s, "rename")
    /\ UNCHANGED <<job, replica>> /\ TransferKeeps

(* The budget ends the transfer: its connection is closed.                   *)
InTime(s) == clock <= job[s].start + Budget

Rename(s) ==
    /\ pc[s] = "rename" /\ InTime(s)
    /\ IF Mine(s) = {}
       THEN Done(s, "failed") /\ UNCHANGED <<replica, staging>>
       ELSE Place(s, job[s].bytes) /\ staging' = staging \ Mine(s) /\ Done(s, "success")
    /\ TransferKeeps

(* The server is away, refuses, takes too long or is not heard: what was     *)
(* asked may have been done, late perhaps, and what was staged may be left.  *)
TransferFails(s) ==
    /\ pc[s] \in Transfer
    /\ Done(s, "failed")
    /\ \/ UNCHANGED replica /\ staging' \in {staging \ Mine(s), Disowned({s})}
       \/ /\ pc[s] = "put" /\ (Exclusive(job[s].t) => Here(s) = "none")
          /\ Place(s, job[s].bytes) /\ UNCHANGED staging
       \/ /\ pc[s] = "rename" /\ Mine(s) # {}
          /\ Place(s, job[s].bytes) /\ staging' = staging \ Mine(s)
    /\ TransferKeeps

----------------------------------------------------------------------------
(* SyncCapsule, after the transfer: every error is ignored.                 *)

AfterKeeps == UNCHANGED <<storeVars, edits, remoteVars, clock, jobs>>
ResultOf(s) == <<job[s].t, job[s].c>>
Logged(s) == IF job[s].outcome = "success" THEN log \cup {ResultOf(s)} ELSE log

(* A target that has been deleted takes no row. *)
InsertLog(s) ==
    /\ pc[s] = "log" /\ Goto(s, "conclude")
    /\ \/ Exists(job[s].t) /\ log' = Logged(s) /\ UNCHANGED faults
       \/ ~Exists(job[s].t) /\ UNCHANGED <<log, faults>>
       \/ Fault /\ UNCHANGED log
    /\ UNCHANGED <<job, target, events>> /\ AfterKeeps

(* The outcome becomes the status of the target, a "disabled" saved meanwhile*)
(* or before included; then the chain is told.                               *)
SetStatus(s) ==
    target' = IF Exists(job[s].t) THEN [target EXCEPT ![job[s].t].disabled = FALSE]
                                  ELSE target

(* Mutant: the first failure ends the round. *)
ConcludeAndGiveUp(s) ==
    /\ pc[s] = "conclude"
    /\ IF job[s].outcome = "failed"
       THEN Goto(s, "idle") /\ job' = [job EXCEPT ![s] = NoJob]
       ELSE Goto(s, "next") /\ UNCHANGED job
    /\ SetStatus(s) /\ events' = events \cup {ResultOf(s)}
    /\ UNCHANGED <<faults, log>> /\ AfterKeeps

(* Mutant: the round never ends. *)
ConcludeNowhere(s) ==
    /\ pc[s] = "conclude" /\ Goto(s, "done")
    /\ SetStatus(s) /\ events' = events \cup {ResultOf(s)}
    /\ UNCHANGED <<faults, job, log>> /\ AfterKeeps

Conclude(s) ==
    /\ pc[s] = "conclude" /\ Goto(s, "next")
    /\ job' = [job EXCEPT ![s].t = NoTarget, ![s].outcome = "failed"]
    /\ \/ SetStatus(s) /\ events' = events \cup {ResultOf(s)} /\ UNCHANGED faults
       \/ SetStatus(s) /\ UNCHANGED events /\ Fault
       \/ UNCHANGED target /\ events' = events \cup {ResultOf(s)} /\ Fault
    /\ UNCHANGED log /\ AfterKeeps

----------------------------------------------------------------------------

Sync(s) ==
    \/ NextTarget(s) \/ Finish(s) \/ Open(s)
    \/ Look(s) \/ LookLegacy(s) \/ Put(s) \/ Compare(s)
    \/ Dial(s) \/ Stage(s) \/ Rename(s)
    \/ TransferFails(s)
    \/ InsertLog(s) \/ Conclude(s)

Administer(t) ==
    \/ \E rec \in Saves : SaveTarget(t, rec)
    \/ DeleteTarget(t) \/ TestConnection(t)

(* Nothing is asked of the store any more. *)
Quiet == (\A s \in Syncs : pc[s] = "idle") /\ UNCHANGED vars

Next ==
    \/ \E s \in Syncs : Sync(s)
    \/ \E s \in Syncs, c \in Capsules : Deposit(s, c) \/ Request(s, c)
    \/ \E c \in Capsules : Purge(c) \/ Damage(c)
    \/ \E t \in Targets : Administer(t)
    \/ Tick \/ Crash \/ Quiet

Spec == Init /\ [][Next]_vars

----------------------------------------------------------------------------

StagingOwned ==
    \A f \in staging : f.of # NoJob => pc[f.of] = "rename" /\ job[f.of].t = f.on
TypeOK ==
    /\ row \in [Capsules -> BOOLEAN] /\ file \in [Capsules -> Bytes \cup {"none"}]
    /\ target \in [Targets -> Target \cup {NoTarget}]
    /\ replica \in [Targets -> [Capsules -> Held]]
    /\ staging \subseteq [of : Syncs \cup {NoJob}, on : Targets, born : Int]
    /\ StagingOwned
    /\ log \subseteq Result /\ events \subseteq Result
    /\ clock \in 0..MaxTime
    /\ pc \in [Syncs -> Steps] /\ job \in [Syncs -> Job \cup {NoJob}]

(* Whatever races, is purged, times out or crashes: a success in the log      *)
(* means that the target holds a copy this store sent there or compared with *)
(* its receipt, never a stranger's object or a short upload.                 *)
Holds(t, c) ==
    \/ replica[t][c] \in Bytes
    \/ KindOf[t] = "smb" /\ legacy[t][c] = "whole"
SuccessIsACopy == \A r \in log : Holds(r[1], r[2])

(* What a target of the library holds is never replaced, and no target ever  *)
(* trades a whole replica for a part of one.                                 *)
ReplicasAreKept ==
    [][\A t \in Targets, c \in Capsules :
          /\ Exclusive(t) /\ replica[t][c] # "none" => replica'[t][c] = replica[t][c]
          /\ replica[t][c] = "whole" => replica'[t][c] \in Bytes]_vars

(* No other sync and no connection test takes the staging file of a transfer *)
(* within its budget for an abandoned one, as long as the server's clock is   *)
(* behind ours by no more than the grace.                                     *)
StagingIsSafe ==
    \A s \in Syncs :
        pc[s] = "rename" /\ InTime(s) /\ Skew[job[s].t] + Grace >= 0 => Mine(s) # {}

(* A round that ends has tried every target it set out for and told the      *)
(* chain, whatever became of the others: unless the capsule was purged, a    *)
(* target edited or a statement failed meanwhile.  Nothing is retried.       *)
RoundsAreComplete ==
    [][\A s \in Syncs :
          pc[s] # "idle" /\ pc'[s] = "idle" /\ file[job[s].c] # "none"
             /\ edits = 0 /\ faults' = 0
             => \A t \in job[s].targets : <<t, job[s].c>> \in events']_vars

=============================================================================
