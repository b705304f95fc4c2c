----------------------------- MODULE AuditLedger -----------------------------
(***************************************************************************)
(* The audit chain of internal/audit/chain.go over its two tables:         *)
(* audit_events, keyed by sequence number, and the one row of audit_anchor *)
(* that says how long the chain is and how it ends.  Every process that    *)
(* opens the database has a ledger of its own, with a mutex and a chain    *)
(* head in memory: the server's, which records and verifies, and that of   *)
(* each "kyrecovery audit verify".  Rows may be lost or altered, processes *)
(* die, and statements fail.                                               *)
(*                                                                         *)
(* The keyed hash of auditchain is injective here: the hash of an event is *)
(* the sequence of events it closes.                                       *)
(***************************************************************************)
EXTENDS Naturals, Sequences, FiniteSets

CONSTANTS
    Ledgers,        \* one per process
    Server,         \* the one that records
    Writers,        \* goroutines in Record
    Readers,        \* goroutines in Verify
    LedgerOf,       \* the ledger a goroutine uses
    Events,         \* what is recorded: action, actor, target and details
    MaxEvents, MaxStops, MaxDamage,
    DbMayFail,      \* a statement may return an error and change nothing
    NoProc, Lost

Procs == Writers \cup Readers

ASSUME LedgerAssumption ==
    /\ Server \in Ledgers
    /\ LedgerOf \in [Procs -> Ledgers]
    /\ \A w \in Writers : LedgerOf[w] = Server
    /\ Writers \cap Readers = {}
    /\ NoProc \notin Procs
    /\ MaxEvents \in Nat /\ MaxStops \in Nat /\ MaxDamage \in Nat
    /\ DbMayFail \in BOOLEAN

Seqs == 1..MaxEvents
Hash(prev, what) == Append(prev, what)
Genesis == <<>>
Event(prev, what) == [prev |-> prev, hash |-> Hash(prev, what), what |-> what]
Record == [prev : Seq(Events), hash : Seq(Events), what : Events]
Anchor == [count : Nat, hash : Seq(Events)]
Fresh == [count |-> 0, hash |-> Genesis]    \* as if no anchor row were found

ASSUME LostAssumption == Lost \notin Record

VARIABLES
    stored,     \* audit_events by seq; Lost where there is no row
    anchor,     \* the row of audit_anchor; Fresh if there is none
    told,       \* every event ever committed, in order
    damage,     \* rows lost or altered so far
    state,      \* state[l]: "down", "resuming" between the two reads, "up"
    head,       \* head[l]: Ledger.chain, or while resuming the anchor it read
    err,        \* err[l]: Ledger.err is set
    mu,         \* mu[l]: who holds Ledger.mu
    pc,         \* the next step of a goroutine
    seen,       \* seen[v]: the anchor a Verify read
    verdict,    \* verdict[v]: what the last Verify of v returned
    stops       \* processes that died or ended so far

tables == <<stored, anchor, told, damage>>
ledger == <<state, head, err>>
vars == <<tables, ledger, mu, pc, seen, verdict, stops>>

Last == CHOOSE i \in 0..MaxEvents :
            /\ i # 0 => stored[i] # Lost
            /\ \A j \in Seqs : j > i => stored[j] = Lost

Init ==
    /\ stored = [i \in Seqs |-> Lost] /\ anchor = Fresh
    /\ told = <<>> /\ damage = 0
    /\ state = [l \in Ledgers |-> "down"]
    /\ head = [l \in Ledgers |-> Fresh]
    /\ err = [l \in Ledgers |-> FALSE]
    /\ mu = [l \in Ledgers |-> NoProc]
    /\ pc = [p \in Procs |-> "idle"]
    /\ seen = [v \in Readers |-> Fresh]
    /\ verdict = [v \in Readers |-> "none"]
    /\ stops = 0

----------------------------------------------------------------------------
(* NewLedger and resume: two reads, with no lock across processes.         *)

Latch(l) == state' = [state EXCEPT ![l] = "up"] /\ err' = [err EXCEPT ![l] = TRUE]
Others == UNCHANGED <<tables, mu, pc, seen, verdict, stops>>

ReadAnchor(l) ==
    /\ state[l] = "down"
    /\ \/ /\ state' = [state EXCEPT ![l] = "resuming"]
          /\ head' = [head EXCEPT ![l] = anchor]
          /\ UNCHANGED err
       \/ DbMayFail /\ Latch(l) /\ UNCHANGED head
    /\ Others

(* Mutant: the chain goes on from whatever row is last. *)
ResumeFromLastRow(l) ==
    /\ state[l] = "resuming"
    /\ state' = [state EXCEPT ![l] = "up"]
    /\ head' = [head EXCEPT ![l] = IF Last = 0 THEN Fresh
                                   ELSE [count |-> Last, hash |-> stored[Last].hash]]
    /\ UNCHANGED err /\ Others

(* The last row must be the one the anchor names, or both must be missing; *)
(* auditchain.Resume may refuse a last row whose hash is not its own.      *)
ReadLast(l) ==
    /\ state[l] = "resuming"
    /\ LET matches == /\ Last = head[l].count
                      /\ Last # 0 => stored[Last].hash = head[l].hash
           altered == Last # 0 /\ stored[Last].hash # Hash(stored[Last].prev, stored[Last].what)
       IN \/ matches /\ state' = [state EXCEPT ![l] = "up"] /\ UNCHANGED err
          \/ (~matches \/ altered \/ DbMayFail) /\ Latch(l)
    /\ UNCHANGED head /\ Others

----------------------------------------------------------------------------
(* Record.                                                                 *)

Lock(p) == mu[LedgerOf[p]] = NoProc /\ mu' = [mu EXCEPT ![LedgerOf[p]] = p]
Unlock(p) == mu' = [mu EXCEPT ![LedgerOf[p]] = NoProc]
Goto(p, step) == pc' = [pc EXCEPT ![p] = step]
Return(p) == Unlock(p) /\ Goto(p, "idle")
WriterKeeps == UNCHANGED <<damage, state, err, seen, verdict, stops>>

(* Room for every call under way is the bound MaxEvents. *)
CallRecord(w) ==
    /\ pc[w] = "idle" /\ state[Server] = "up"
    /\ head[Server].count + Cardinality({x \in Writers : pc[x] # "idle"}) < MaxEvents
    /\ Goto(w, "lock")
    /\ UNCHANGED <<stored, anchor, told, head, mu>> /\ WriterKeeps

LockRecord(w) ==
    /\ pc[w] = "lock"
    /\ Lock(w) /\ Goto(w, "append")
    /\ UNCHANGED <<stored, anchor, told, head>> /\ WriterKeeps

Refuse(w) ==
    /\ pc[w] = "append" /\ err[Server]
    /\ Return(w)
    /\ UNCHANGED <<stored, anchor, told, head>> /\ WriterKeeps

(* Mutant: the event is committed without the anchor it produced. *)
AppendEventAlone(w, e) ==
    /\ pc[w] = "append" /\ ~err[Server]
    /\ LET n == head[Server].count + 1
       IN /\ stored[n] = Lost
          /\ stored' = [stored EXCEPT ![n] = Event(head[Server].hash, e)]
          /\ head' = [head EXCEPT ![Server] = [count |-> n, hash |-> Hash(@.hash, e)]]
    /\ told' = Append(told, e)
    /\ Return(w)
    /\ UNCHANGED anchor /\ WriterKeeps

(* chain.Append: the event and the anchor it produces are one transaction, *)
(* and the chain in memory moves on only if it committed.  Within Seqs: see *)
(* the bound in CallRecord.                                                 *)
AppendEvent(w, e) ==
    /\ pc[w] = "append" /\ ~err[Server]
    /\ LET n == head[Server].count + 1
           end == [count |-> n, hash |-> Hash(head[Server].hash, e)]
       IN /\ n \in Seqs /\ stored[n] = Lost
          /\ stored' = [stored EXCEPT ![n] = Event(head[Server].hash, e)]
          /\ anchor' = end
          /\ head' = [head EXCEPT ![Server] = end]
    /\ told' = Append(told, e)
    /\ Return(w)
    /\ WriterKeeps

(* Mutant: an append that failed is tried again for as long as it fails. *)
AppendFailsRetrying(w) ==
    /\ pc[w] = "append" /\ ~err[Server]
    /\ DbMayFail \/ (head[Server].count + 1 \in Seqs /\ stored[head[Server].count + 1] # Lost)
    /\ Unlock(w) /\ Goto(w, "lock")
    /\ UNCHANGED <<stored, anchor, told, head>> /\ WriterKeeps

AppendFails(w) ==
    /\ pc[w] = "append" /\ ~err[Server]
    /\ DbMayFail \/ (head[Server].count + 1 \in Seqs /\ stored[head[Server].count + 1] # Lost)
    /\ Return(w)
    /\ UNCHANGED <<stored, anchor, told, head>> /\ WriterKeeps

Write(w) ==
    \/ CallRecord(w) \/ LockRecord(w) \/ Refuse(w) \/ AppendFails(w)
    \/ \E e \in Events : AppendEvent(w, e)

----------------------------------------------------------------------------
(* Verify.                                                                 *)

ReaderKeeps == UNCHANGED <<tables, ledger, stops>>
Answer(v, what) == verdict' = [verdict EXCEPT ![v] = what]

CallVerify(v) ==
    /\ pc[v] = "idle" /\ state[LedgerOf[v]] = "up"
    /\ Goto(v, "lock") /\ Answer(v, "none")
    /\ UNCHANGED <<mu, seen>> /\ ReaderKeeps

(* Mutant: the walk does not exclude appends. *)
VerifyUnlocked(v) ==
    /\ pc[v] = "lock"
    /\ Goto(v, "anchor")
    /\ UNCHANGED <<mu, seen, verdict>> /\ ReaderKeeps

LockVerify(v) ==
    /\ pc[v] = "lock"
    /\ Lock(v) /\ Goto(v, "anchor")
    /\ UNCHANGED <<seen, verdict>> /\ ReaderKeeps

VerifyAnchor(v) ==
    /\ pc[v] = "anchor"
    /\ \/ /\ seen' = [seen EXCEPT ![v] = anchor]
          /\ Goto(v, "walk")
          /\ UNCHANGED <<mu, verdict>>
       \/ DbMayFail /\ Answer(v, "error") /\ Return(v) /\ UNCHANGED seen
    /\ ReaderKeeps

(* auditchain.VerifyStream: the rows in order of seq are 1, 2, ..., each   *)
(* closes the one before, and the anchor closes the last.                  *)
HashBefore(i) == IF i = 1 THEN Genesis ELSE stored[i - 1].hash
Links(n) == /\ \A i \in Seqs : stored[i] # Lost <=> i <= n
            /\ \A i \in 1..n : stored[i] = Event(HashBefore(i), stored[i].what)
LinksAnyhow(a) == Links(Last)   \* mutant: the end of the chain is not compared
MatchesAnchor(a) == /\ Links(a.count)
                    /\ a.hash = HashBefore(a.count + 1)

(* Mutant: the reader is told what went wrong in words of its own. *)
WalkLogLoosely(v) ==
    /\ pc[v] = "walk"
    /\ \/ Answer(v, IF MatchesAnchor(seen[v]) THEN "valid" ELSE "gap")
       \/ DbMayFail /\ Answer(v, "error")
    /\ Return(v)
    /\ UNCHANGED seen /\ ReaderKeeps

WalkLog(v) ==
    /\ pc[v] = "walk"
    /\ \/ Answer(v, IF MatchesAnchor(seen[v]) THEN "valid" ELSE "broken")
       \/ DbMayFail /\ Answer(v, "error")
    /\ Return(v)
    /\ UNCHANGED seen /\ ReaderKeeps

Read(v) == CallVerify(v) \/ LockVerify(v) \/ VerifyAnchor(v) \/ WalkLog(v)

----------------------------------------------------------------------------
(* The world: processes end or die, rows are lost or altered.              *)

Stop(l) ==
    /\ state[l] # "down" /\ stops < MaxStops
    /\ stops' = stops + 1
    /\ state' = [state EXCEPT ![l] = "down"]
    /\ head' = [head EXCEPT ![l] = Fresh]
    /\ err' = [err EXCEPT ![l] = FALSE]
    /\ mu' = [mu EXCEPT ![l] = NoProc]
    /\ pc' = [p \in Procs |-> IF LedgerOf[p] = l THEN "idle" ELSE pc[p]]
    /\ UNCHANGED <<tables, seen, verdict>>

Damage ==
    /\ damage < MaxDamage
    /\ damage' = damage + 1
    /\ \/ \E i \in Seqs :
             /\ stored[i] # Lost
             /\ \/ stored' = [stored EXCEPT ![i] = Lost]
                \/ \E e \in Events \ {stored[i].what} :
                      stored' = [stored EXCEPT ![i].what = e]
             /\ UNCHANGED anchor
       \/ anchor # Fresh /\ anchor' = Fresh /\ UNCHANGED stored
    /\ UNCHANGED <<told, ledger, mu, pc, seen, verdict, stops>>

Next ==
    \/ \E l \in Ledgers : ReadAnchor(l) \/ ReadLast(l) \/ Stop(l)
    \/ \E w \in Writers : Write(w)
    \/ \E v \in Readers : Read(v)
    \/ Damage

Spec == Init /\ [][Next]_vars

(* A process that started goes on, and so does a call: sync.Mutex grants a *)
(* waiter in the end.                                                      *)
Fairness ==
    /\ \A l \in Ledgers : WF_vars(ReadLast(l))
    /\ \A w \in Writers : WF_vars(pc[w] # "idle" /\ Write(w)) /\ SF_vars(LockRecord(w))
    /\ \A v \in Readers : WF_vars(pc[v] # "idle" /\ Read(v)) /\ SF_vars(LockVerify(v))

FairSpec == Spec /\ Fairness

----------------------------------------------------------------------------

TypeOK ==
    /\ stored \in [Seqs -> Record \cup {Lost}]
    /\ anchor \in Anchor
    /\ told \in Seq(Events)
    /\ damage \in 0..MaxDamage
    /\ state \in [Ledgers -> {"down", "resuming", "up"}]
    /\ head \in [Ledgers -> Anchor]
    /\ err \in [Ledgers -> BOOLEAN]
    /\ mu \in [Ledgers -> Procs \cup {NoProc}]
    /\ pc \in [Procs -> {"idle", "lock", "append", "anchor", "walk"}]
    /\ seen \in [Readers -> Anchor]
    /\ verdict \in [Readers -> {"none", "valid", "broken", "error"}]
    /\ stops \in 0..MaxStops

End == [count |-> Len(told), hash |-> told]
Prefix(n) == [j \in 1..n |-> told[j]]
Honest(i) == Event(Prefix(i - 1), told[i])
Whole == \A i \in Seqs : stored[i] = IF i <= Len(told) THEN Honest(i) ELSE Lost

(* While no row is lost or altered, the two tables hold every event whose   *)
(* Record returned, in order, linked, and with the anchor that closes them, *)
(* whatever statement failed and whenever the server died.                  *)
KeepsTheLog == damage = 0 => Whole /\ anchor = End

(* A server that appends goes on from the last event it ever acknowledged,  *)
(* or refuses: after a restart over a log that lost its end, or its anchor, *)
(* it does not start a second history on what is left.                      *)
NoFork == state[Server] = "up" /\ ~err[Server] => head[Server] = End

(* A chain is reported valid only if all of it is there, as it was recorded *)
(* (one lost or altered row is what the run allows).                        *)
ValidMeansWhole ==
    [][\A v \in Readers :
          LedgerOf[v] = Server /\ pc[v] = "walk" /\ verdict'[v] = "valid" => Whole]_vars

(* "An append landing between the anchor read and the last row makes a      *)
(* healthy chain look one record longer than its anchor": it never does, a  *)
(* chain is reported broken only if a row was lost or altered.              *)
HealthyVerifies == \A v \in Readers : verdict[v] = "broken" => damage > 0

(* Record and Verify return, whoever else records, verifies or waits.       *)
EveryCallReturns == \A p \in Procs : pc[p] # "idle" ~> pc[p] = "idle"

=============================================================================
