-------------------------- MODULE AuditLedgerProofs --------------------------
(***************************************************************************)
(* The audit chain keeps every event it acknowledged, and a healthy chain  *)
(* verifies while it grows, for any number of goroutines, events, restarts *)
(* and failed statements.  The first holds whatever other processes read;  *)
(* the second needs every goroutine on the server's own ledger, because no *)
(* lock spans processes.                                                    *)
(***************************************************************************)
EXTENDS AuditLedger, SequenceTheorems, TLAPS

(* The chain in memory, read back or appended to, ends where the log ends. *)
HeadIsEnd ==
    damage = 0 /\ state[Server] # "down" /\ ~err[Server] => head[Server] = End
Running == \A w \in Writers : pc[w] # "idle" => state[Server] # "down"
Within == damage = 0 => Len(told) <= MaxEvents
LInv == TypeOK /\ KeepsTheLog /\ HeadIsEnd /\ Running /\ Within

(* What appending an event does to the sequence of all of them. *)
LEMMA ToldGrows ==
    ASSUME told \in Seq(Events), NEW e \in Events, told' = Append(told, e)
    PROVE  /\ told' \in Seq(Events) /\ Len(told') = Len(told) + 1 /\ Len(told) \in Nat
           /\ told'[Len(told) + 1] = e
           /\ \A i \in 1..Len(told) : told'[i] = told[i]
           /\ \A i \in 1..(Len(told) + 1) : Prefix(i - 1)' = Prefix(i - 1)
           /\ Prefix(Len(told)) = told
<1>1. /\ told' \in Seq(Events) /\ Len(told') = Len(told) + 1 /\ Len(told) \in Nat
      /\ told'[Len(told) + 1] = e
      /\ \A i \in 1..Len(told) : told'[i] = told[i]
  OBVIOUS
<1>2. ASSUME NEW i \in 1..(Len(told) + 1)
      PROVE  Prefix(i - 1)' = Prefix(i - 1)
  BY <1>1 DEF Prefix
<1>3. Prefix(Len(told)) = told
  BY DEF Prefix
<1>4. QED
  BY <1>1, <1>2, <1>3

LEMMA InitLInv == Init => LInv
BY LedgerAssumption DEF Init, LInv, TypeOK, KeepsTheLog, Whole, End, HeadIsEnd, Running, Within,
   Fresh, Genesis, Anchor, Seqs, Procs

(* The step that matters: from a whole log and its end in memory, the next *)
(* event and the anchor that closes it.                                    *)
LEMMA AppendEventKeeps ==
    ASSUME LInv, NEW w \in Writers, NEW e \in Events, AppendEvent(w, e)
    PROVE  LInv'
<1> DEFINE n == head[Server].count + 1
           end == [count |-> n, hash |-> Hash(head[Server].hash, e)]
<1>1. /\ pc[w] = "append" /\ ~err[Server] /\ n \in Seqs
      /\ stored' = [stored EXCEPT ![n] = Event(head[Server].hash, e)]
      /\ anchor' = end /\ head' = [head EXCEPT ![Server] = end] /\ told' = Append(told, e)
      /\ UNCHANGED <<damage, state, err, seen, verdict, stops>>
      /\ mu' = [mu EXCEPT ![Server] = NoProc] /\ pc' = [pc EXCEPT ![w] = "idle"]
  BY LedgerAssumption DEF AppendEvent, Return, Unlock, Goto, WriterKeeps
<1>2. /\ told \in Seq(Events) /\ head[Server] \in Anchor /\ Server \in Ledgers
      /\ Event(head[Server].hash, e) \in Record /\ end \in Anchor
  BY LedgerAssumption DEF LInv, TypeOK, Anchor, Event, Record, Hash
<1>3. /\ told' \in Seq(Events) /\ Len(told') = Len(told) + 1 /\ Len(told) \in Nat
      /\ told'[Len(told) + 1] = e
      /\ \A i \in 1..Len(told) : told'[i] = told[i]
      /\ \A i \in 1..(Len(told) + 1) : Prefix(i - 1)' = Prefix(i - 1)
      /\ Prefix(Len(told)) = told
  BY <1>1, <1>2, ToldGrows
<1>4. TypeOK'
  BY <1>1, <1>2, <1>3 DEF LInv, TypeOK, Procs
<1>5. ASSUME damage = 0
      PROVE  /\ n = Len(told) + 1 /\ end = End' /\ Len(told') <= MaxEvents
             /\ Whole'
  <2>1. head[Server] = End /\ Whole
    BY <1>1, <1>5 DEF LInv, HeadIsEnd, Running, KeepsTheLog
  <2>2. n = Len(told) + 1 /\ end = End' /\ Len(told') <= MaxEvents
    BY <1>1, <1>3, <2>1, LedgerAssumption DEF End, Hash, Seqs
  <2>3. ASSUME NEW i \in Seqs
        PROVE  stored'[i] = IF i <= Len(told') THEN Honest(i)' ELSE Lost
    <3>1. CASE i = n
      BY <1>1, <1>3, <2>1, <2>2, <3>1 DEF Honest, End, Event, LInv, TypeOK
    <3>2. CASE i # n /\ i <= Len(told)
      <4>1. stored'[i] = Honest(i) /\ i \in 1..Len(told)
        BY <1>1, <1>3, <2>1, <3>2 DEF Whole, LInv, TypeOK, Seqs
      <4>2. Honest(i)' = Honest(i)
        BY <1>3, <4>1 DEF Honest
      <4>3. QED
        BY <1>3, <3>2, <4>1, <4>2 DEF Seqs
    <3>3. CASE i # n /\ ~(i <= Len(told))
      BY <1>1, <1>3, <2>1, <2>2, <3>3 DEF Whole, LInv, TypeOK, Seqs
    <3>4. QED
      BY <3>1, <3>2, <3>3
  <2>4. QED
    BY <2>2, <2>3 DEF Whole
<1>6. KeepsTheLog' /\ HeadIsEnd' /\ Within'
  BY <1>1, <1>2, <1>5 DEF KeepsTheLog, HeadIsEnd, Within, LInv, TypeOK
<1>7. Running'
  BY <1>1 DEF LInv, TypeOK, Running
<1>8. QED
  BY <1>4, <1>6, <1>7 DEF LInv

(* Every other step of a goroutine leaves the tables and the heads alone. *)
LEMMA OthersKeep ==
    ASSUME LInv, TypeOK', UNCHANGED <<tables, ledger>>,
           \A w \in Writers : pc'[w] # "idle" => pc[w] # "idle" \/ state[Server] = "up"
    PROVE  LInv'
BY DEF LInv, KeepsTheLog, Whole, Honest, Prefix, End, HeadIsEnd, Running, Within, tables, ledger

LEMMA WriteKeeps ==
    ASSUME LInv, NEW w \in Writers, Write(w)
    PROVE  LInv'
<1>1. w \in Procs /\ LedgerOf[w] = Server /\ Server \in Ledgers
  BY LedgerAssumption DEF Procs
<1>2. CASE CallRecord(w)
  <2>1. TypeOK'
    BY <1>1, <1>2 DEF CallRecord, Goto, WriterKeeps, LInv, TypeOK
  <2>2. QED
    BY <1>1, <1>2, <2>1, OthersKeep DEF CallRecord, Goto, WriterKeeps, tables, ledger, LInv, TypeOK
<1>3. CASE LockRecord(w) \/ Refuse(w) \/ AppendFails(w)
  <2>1. UNCHANGED <<tables, ledger, seen, verdict, stops>>
    BY <1>3 DEF LockRecord, Refuse, AppendFails, WriterKeeps, tables, ledger
  <2>2. mu' \in [Ledgers -> Procs \cup {NoProc}]
    BY <1>1, <1>3 DEF LockRecord, Refuse, AppendFails, Lock, Unlock, Return, LInv, TypeOK
  <2>3. /\ pc' \in [Procs -> {"idle", "lock", "append", "anchor", "walk"}]
        /\ \A x \in Writers : pc'[x] # "idle" => pc[x] # "idle"
    <3>1. pc[w] # "idle" /\ (pc' = [pc EXCEPT ![w] = "append"] \/ pc' = [pc EXCEPT ![w] = "idle"])
      BY <1>3 DEF LockRecord, Refuse, AppendFails, Return, Goto
    <3>2. QED
      BY <1>1, <3>1 DEF LInv, TypeOK, Procs
  <2>4. TypeOK'
    BY <2>1, <2>2, <2>3 DEF tables, ledger, LInv, TypeOK
  <2>5. QED
    BY <2>1, <2>3, <2>4, OthersKeep
<1>4. QED
  BY <1>2, <1>3, AppendEventKeeps DEF Write

LEMMA ReadKeeps ==
    ASSUME LInv, NEW v \in Readers, Read(v)
    PROVE  LInv'
<1>1. v \in Procs /\ LedgerOf[v] \in Ledgers /\ v \notin Writers
  BY LedgerAssumption DEF Procs
<1>2. UNCHANGED <<tables, ledger>> /\ \A x \in Writers : pc'[x] = pc[x]
  BY <1>1 DEF Read, CallVerify, LockVerify, VerifyAnchor, WalkLog, Return, Goto, ReaderKeeps,
     LInv, TypeOK, Procs
<1>3. TypeOK'
  BY <1>1, <1>2, SMTT(30) DEF Read, CallVerify, LockVerify, VerifyAnchor, WalkLog, Lock, Unlock, Return,
     Goto, Answer, ReaderKeeps, tables, ledger, LInv, TypeOK
<1>4. QED
  BY <1>2, <1>3, OthersKeep

(* A process resumes from an anchor that is the end of a whole log, and     *)
(* nobody appends while the server resumes.                                 *)
LEMMA ResumeKeeps ==
    ASSUME LInv, NEW l \in Ledgers, ReadAnchor(l) \/ ReadLast(l)
    PROVE  LInv'
<1>1. UNCHANGED <<tables, mu, pc, seen, verdict, stops>>
  BY DEF ReadAnchor, ReadLast, Others
<1>2. TypeOK'
  BY <1>1, ZenonT(30) DEF ReadAnchor, ReadLast, Latch, tables, LInv, TypeOK
<1>3. Server \in Ledgers /\ (l = Server \/ UNCHANGED <<state[Server], head[Server], err[Server]>>)
  BY LedgerAssumption DEF ReadAnchor, ReadLast, Latch, LInv, TypeOK
<1>4. state[l] # "down" => state'[l] # "down"
  BY DEF ReadAnchor, ReadLast, Latch, LInv, TypeOK
<1>5. ~err'[l] => /\ ~err[l]
                  /\ head'[l] = anchor \/ (head'[l] = head[l] /\ state[l] # "down")
  BY DEF ReadAnchor, ReadLast, Latch, LInv, TypeOK
<1>6. End' = End
  BY <1>1 DEF tables, End
<1>7. HeadIsEnd'
  BY <1>1, <1>3, <1>5, <1>6 DEF tables, LInv, HeadIsEnd, KeepsTheLog
<1>8. Running'
  BY <1>1, <1>3, <1>4 DEF LInv, Running
<1>9. Within' /\ KeepsTheLog'
  BY <1>1 DEF tables, LInv, Within, KeepsTheLog, Whole, Honest, Prefix, End
<1>10. QED
  BY <1>2, <1>7, <1>8, <1>9 DEF LInv

LEMMA StopKeeps ==
    ASSUME LInv, NEW l \in Ledgers, Stop(l)
    PROVE  LInv'
<1>1. UNCHANGED tables
  BY DEF Stop
<1>2. TypeOK'
  BY <1>1, LedgerAssumption DEF Stop, tables, LInv, TypeOK, Fresh, Genesis, Anchor
<1>3. HeadIsEnd' /\ Running'
  BY <1>1, LedgerAssumption DEF Stop, tables, LInv, TypeOK, HeadIsEnd, Running, End, Procs
<1>4. Within' /\ KeepsTheLog'
  BY <1>1 DEF tables, LInv, Within, KeepsTheLog, Whole, Honest, Prefix, End
<1>5. QED
  BY <1>2, <1>3, <1>4 DEF LInv

LEMMA DamageKeeps ==
    ASSUME LInv, Damage
    PROVE  LInv'
<1>1. damage' # 0 /\ damage' \in 0..MaxDamage
  BY LedgerAssumption DEF Damage, LInv, TypeOK
<1>2. anchor' \in Anchor
  <2>1. Fresh \in Anchor
    BY DEF Fresh, Genesis, Anchor
  <2>2. QED
    BY <2>1 DEF Damage, LInv, TypeOK
<1>3. stored' \in [Seqs -> Record \cup {Lost}]
  <2>1. ASSUME NEW i \in Seqs, stored[i] # Lost, NEW e \in Events
        PROVE  [stored[i] EXCEPT !.what = e] \in Record
    BY <2>1 DEF LInv, TypeOK, Record
  <2>2. ASSUME NEW i \in Seqs, stored[i] # Lost, NEW e \in Events,
               stored' = [stored EXCEPT ![i].what = e]
        PROVE  stored' \in [Seqs -> Record \cup {Lost}]
    BY <2>1, <2>2 DEF LInv, TypeOK
  <2>3. QED
    BY <2>2 DEF Damage, LInv, TypeOK
<1>4. QED
  BY <1>1, <1>2, <1>3 DEF Damage, ledger, LInv, TypeOK, KeepsTheLog, HeadIsEnd, Running, Within

LEMMA NextKeeps == LInv /\ [Next]_vars => LInv'
<1>1. ASSUME LInv, UNCHANGED vars
      PROVE  LInv'
  BY <1>1, OthersKeep DEF vars, tables, ledger, LInv, TypeOK
<1>2. QED
  BY <1>1, WriteKeeps, ReadKeeps, ResumeKeeps, StopKeeps, DamageKeeps DEF Next

LEMMA AlwaysLInv == Spec => []LInv
BY InitLInv, NextKeeps, PTL DEF Spec

----------------------------------------------------------------------------

(* Every reachable state of the ledger is well typed. *)
THEOREM LedgerTypeCorrect == Spec => []TypeOK
<1>1. LInv => TypeOK
  BY DEF LInv
<1>2. QED
  BY <1>1, AlwaysLInv, PTL

(* As long as no row is lost or altered, audit_events holds every event    *)
(* Record committed, in order and linked, and audit_anchor closes it:      *)
(* InsertAuditEventAndAnchor is one transaction and chain.Append moves on  *)
(* only after it.                                                          *)
THEOREM LogIsKept == Spec => []KeepsTheLog
<1>1. LInv => KeepsTheLog
  BY DEF LInv
<1>2. QED
  BY <1>1, AlwaysLInv, PTL

----------------------------------------------------------------------------
(* Verify.  With every goroutine on the server's ledger, its mutex keeps    *)
(* appends out of the walk, and the anchor a walk compares with is the end. *)

OneProcess == \A p \in Procs : LedgerOf[p] = Server
Holds == \A p \in Procs : pc[p] \in {"append", "anchor", "walk"} => mu[Server] = p
SeenIsEnd == \A v \in Readers : pc[v] = "walk" /\ damage = 0 => seen[v] = End
VInv == LInv /\ Holds /\ SeenIsEnd /\ HealthyVerifies

LEMMA WholeMatches ==
    ASSUME TypeOK, Whole, Len(told) <= MaxEvents
    PROVE  MatchesAnchor(End)
<1> DEFINE n == Len(told)
<1>1. n \in Nat /\ n <= MaxEvents /\ End.count = n /\ End.hash = told /\ MaxEvents \in Nat
      /\ told \in Seq(Events)
  BY LedgerAssumption DEF TypeOK, End
<1>2. \A i \in Seqs : i <= n => stored[i] = Honest(i) /\ stored[i] # Lost
  <2>1. ASSUME NEW i \in Seqs, i <= n
        PROVE  Honest(i) \in Record
    <3>1. i \in 1..n /\ told[i] \in Events
      BY <1>1, <2>1 DEF Seqs
    <3>2. Prefix(i - 1) \in Seq(Events)
      BY <1>1, <3>1 DEF Prefix
    <3>3. QED
      BY <3>1, <3>2 DEF Honest, Event, Hash, Record
  <2>2. QED
    BY <2>1, LostAssumption DEF Whole
<1>3. ASSUME NEW i \in 1..n
      PROVE  Honest(i).hash = Prefix(i) /\ Honest(i).what = told[i]
  <2>1. Append(Prefix(i - 1), told[i]) = Prefix(i)
    BY <1>1 DEF Prefix
  <2>2. QED
    BY <2>1 DEF Honest, Event, Hash
<1>4. ASSUME NEW i \in 1..(n + 1)
      PROVE  HashBefore(i) = Prefix(i - 1)
  <2>1. CASE i = 1
    BY <2>1 DEF HashBefore, Genesis, Prefix
  <2>2. CASE i # 1
    <3>1. i - 1 \in 1..n /\ i - 1 \in Seqs
      BY <1>1, <2>2 DEF Seqs
    <3>2. QED
      BY <1>2, <1>3, <2>2, <3>1 DEF HashBefore
  <2>3. QED
    BY <2>1, <2>2
<1>5. Links(n)
  <2>1. \A i \in Seqs : stored[i] # Lost <=> i <= n
    BY <1>2 DEF Whole
  <2>2. ASSUME NEW i \in 1..n
        PROVE  stored[i] = Event(HashBefore(i), stored[i].what)
    <3>1. i \in Seqs /\ stored[i] = Honest(i) /\ HashBefore(i) = Prefix(i - 1)
      BY <1>1, <1>2, <1>4 DEF Seqs
    <3>2. QED
      BY <1>3, <3>1 DEF Honest
  <2>3. QED
    BY <2>1, <2>2 DEF Links
<1>6. HashBefore(n + 1) = told
  BY <1>1, <1>4 DEF Prefix
<1>7. QED
  BY <1>1, <1>5, <1>6 DEF MatchesAnchor

LEMMA InitVInv == Init => VInv
BY InitLInv DEF Init, VInv, Holds, SeenIsEnd, HealthyVerifies, Procs

LEMMA WriteKeepsV ==
    ASSUME OneProcess, VInv, LInv', NEW w \in Writers, Write(w)
    PROVE  VInv'
<1>1. w \in Procs /\ LedgerOf[w] = Server /\ Server \in Ledgers /\ w \notin Readers
  BY LedgerAssumption DEF Procs
<1>2. Holds'
  <2>1. CASE CallRecord(w)
    BY <1>1, <2>1 DEF CallRecord, Goto, VInv, LInv, TypeOK, Holds
  <2>2. CASE LockRecord(w)
    BY <1>1, <2>2, LedgerAssumption DEF LockRecord, Lock, Goto, VInv, LInv, TypeOK, Holds
  <2>3. CASE pc[w] = "append" /\ Return(w)
    BY <1>1, <2>3 DEF Return, Unlock, Goto, VInv, LInv, TypeOK, Holds
  <2>4. QED
    BY <2>1, <2>2, <2>3 DEF Write, Refuse, AppendFails, AppendEvent
<1>3. SeenIsEnd'
  <2>1. UNCHANGED <<seen, damage>> /\ \A v \in Readers : pc'[v] = pc[v]
    BY <1>1 DEF Write, CallRecord, LockRecord, Refuse, AppendFails, AppendEvent, Return, Goto,
       WriterKeeps, VInv, LInv, TypeOK, Procs
  <2>2. CASE UNCHANGED told
    BY <2>1, <2>2 DEF VInv, SeenIsEnd, End
  <2>3. CASE pc[w] = "append"
    BY <1>1, <2>1, <2>3 DEF VInv, Holds, SeenIsEnd, Procs
  <2>4. QED
    BY <2>2, <2>3 DEF Write, CallRecord, LockRecord, Refuse, AppendFails, AppendEvent
<1>4. HealthyVerifies'
  BY DEF Write, CallRecord, LockRecord, Refuse, AppendFails, AppendEvent, WriterKeeps, VInv,
     HealthyVerifies
<1>5. QED
  BY <1>2, <1>3, <1>4 DEF VInv

LEMMA ReadKeepsV ==
    ASSUME OneProcess, VInv, LInv', NEW v \in Readers, Read(v)
    PROVE  VInv'
<1>1. v \in Procs /\ LedgerOf[v] = Server /\ Server \in Ledgers
  BY LedgerAssumption DEF Procs, OneProcess
<1>2. UNCHANGED <<told, stored, anchor, damage>>
  BY DEF Read, CallVerify, LockVerify, VerifyAnchor, WalkLog, ReaderKeeps, tables
<1>3. Holds'
  <2>1. CASE CallVerify(v) \/ (VerifyAnchor(v) /\ UNCHANGED mu)
    BY <1>1, <2>1 DEF CallVerify, VerifyAnchor, Return, Goto, VInv, LInv, TypeOK, Holds
  <2>2. CASE LockVerify(v)
    BY <1>1, <2>2, LedgerAssumption DEF LockVerify, Lock, Goto, VInv, LInv, TypeOK, Holds
  <2>3. CASE pc[v] \in {"anchor", "walk"} /\ Return(v)
    BY <1>1, <2>3 DEF Return, Unlock, Goto, VInv, LInv, TypeOK, Holds
  <2>4. QED
    BY <2>1, <2>2, <2>3 DEF Read, VerifyAnchor, WalkLog
<1>4. SeenIsEnd'
  <2>1. pc'[v] = "walk" => seen'[v] = anchor \/ (pc[v] = "walk" /\ seen'[v] = seen[v])
    BY <1>1 DEF Read, CallVerify, LockVerify, VerifyAnchor, WalkLog, Return, Goto, VInv, LInv,
       TypeOK
  <2>2. \A x \in Readers : x # v => pc'[x] = pc[x] /\ seen'[x] = seen[x]
    BY <1>1 DEF Read, CallVerify, LockVerify, VerifyAnchor, WalkLog, Return, Goto, VInv, LInv,
       TypeOK, Procs
  <2>3. QED
    BY <1>2, <2>1, <2>2 DEF VInv, SeenIsEnd, LInv, KeepsTheLog, End
<1>5. HealthyVerifies'
  <2>1. CASE WalkLog(v)
    <3>1. damage = 0 => MatchesAnchor(seen[v])
      BY <1>1, <2>1, WholeMatches DEF WalkLog, VInv, SeenIsEnd, LInv, KeepsTheLog, Within
    <3>2. damage = 0 => verdict'[v] # "broken"
      BY <2>1, <3>1 DEF WalkLog, Answer, VInv, LInv, TypeOK
    <3>3. damage \in Nat /\ \A x \in Readers : x # v => verdict'[x] = verdict[x]
      BY <2>1, LedgerAssumption DEF WalkLog, Answer, VInv, LInv, TypeOK
    <3>4. QED
      BY <1>2, <3>2, <3>3 DEF VInv, HealthyVerifies
  <2>2. CASE ~WalkLog(v)
    BY <1>2, <2>2 DEF Read, CallVerify, LockVerify, VerifyAnchor, Answer, VInv, LInv, TypeOK,
       HealthyVerifies
  <2>3. QED
    BY <2>1, <2>2
<1>6. QED
  BY <1>3, <1>4, <1>5 DEF VInv

LEMMA WorldKeepsV ==
    ASSUME OneProcess, VInv, LInv', Damage \/ \E l \in Ledgers : ReadAnchor(l) \/ ReadLast(l) \/ Stop(l)
    PROVE  VInv'
<1>1. CASE Damage
  <2>1. damage' > 0
    BY <1>1, LedgerAssumption DEF Damage, VInv, LInv, TypeOK
  <2>2. QED
    BY <1>1, <2>1 DEF Damage, VInv, Holds, SeenIsEnd, HealthyVerifies
<1>2. ASSUME NEW l \in Ledgers, ReadAnchor(l) \/ ReadLast(l)
      PROVE  VInv'
  BY <1>2 DEF ReadAnchor, ReadLast, Others, tables, VInv, Holds, SeenIsEnd, HealthyVerifies, End
<1>3. ASSUME NEW l \in Ledgers, Stop(l)
      PROVE  VInv'
  <2>1. CASE l = Server
    BY <1>3, <2>1 DEF Stop, OneProcess, tables, VInv, Holds, SeenIsEnd, HealthyVerifies, End, Procs
  <2>2. CASE l # Server
    BY <1>3, <2>2, LedgerAssumption DEF Stop, OneProcess, tables, VInv, LInv, TypeOK, Holds,
       SeenIsEnd, HealthyVerifies, End, Procs
  <2>3. QED
    BY <2>1, <2>2
<1>4. QED
  BY <1>1, <1>2, <1>3

LEMMA NextKeepsV ==
    ASSUME OneProcess
    PROVE  VInv /\ [Next]_vars => VInv'
<1>1. ASSUME VInv, UNCHANGED vars
      PROVE  VInv'
  BY <1>1, NextKeeps DEF vars, tables, ledger, VInv, Holds, SeenIsEnd, HealthyVerifies, End
<1>2. ASSUME VInv, Next
      PROVE  VInv'
  <2>1. LInv'
    BY <1>2, NextKeeps DEF VInv
  <2>2. QED
    BY <1>2, <2>1, WriteKeepsV, ReadKeepsV, WorldKeepsV DEF Next
<1>3. QED
  BY <1>1, <1>2

(* A healthy chain verifies at any moment, appends and restarts included,   *)
(* if every goroutine shares the server's ledger.                           *)
THEOREM HealthyChainVerifies ==
    ASSUME \A p \in Procs : LedgerOf[p] = Server
    PROVE  Spec => []HealthyVerifies
<1>1. OneProcess
  BY DEF OneProcess
<1>2. VInv /\ [Next]_vars => VInv'
  BY <1>1, NextKeepsV
<1>3. VInv => HealthyVerifies
  BY DEF VInv
<1>4. QED
  BY <1>2, <1>3, InitVInv, PTL DEF Spec

----------------------------------------------------------------------------
(* One lost or altered row.  The anchor, and what the server read of it, is *)
(* the end of the log, or it is missing and then no event is, so that the   *)
(* last row gives the loss away.                                            *)

EndOrMissing(a) == a = End \/ (a = Fresh /\ Whole /\ damage = 1)
Appending == \A w \in Writers : pc[w] # "idle" => state[Server] = "up"
Resuming == state[Server] = "resuming" => EndOrMissing(head[Server])
FInv == LInv /\ Len(told) <= MaxEvents /\ Appending /\ EndOrMissing(anchor) /\ Resuming /\ NoFork

LEMMA LastOfWhole ==
    ASSUME TypeOK, Whole, Len(told) <= MaxEvents
    PROVE  Last = Len(told)
<1> DEFINE n == Len(told)
<1>1. n \in 0..MaxEvents /\ MaxEvents \in Nat /\ told \in Seq(Events)
  BY LedgerAssumption DEF TypeOK
<1>2. \A i \in Seqs : stored[i] # Lost <=> i <= n
  BY <1>1, WholeMatches DEF MatchesAnchor, Links, End
<1>3. \A i \in 0..MaxEvents :
        (/\ i # 0 => stored[i] # Lost
         /\ \A j \in Seqs : j > i => stored[j] = Lost) <=> i = n
  <2>1. ASSUME NEW i \in 0..MaxEvents, i # 0 => stored[i] # Lost,
               \A j \in Seqs : j > i => stored[j] = Lost
        PROVE  i = n
    <3>1. i # 0 => i <= n
      BY <1>1, <1>2, <2>1 DEF Seqs
    <3>2. n # 0 => n <= i
      BY <1>1, <1>2, <2>1 DEF Seqs
    <3>3. QED
      BY <1>1, <3>1, <3>2
  <2>2. /\ n # 0 => stored[n] # Lost
        /\ \A j \in Seqs : j > n => stored[j] = Lost
    BY <1>1, <1>2 DEF Seqs
  <2>3. QED
    BY <2>1, <2>2
<1>4. QED
  BY <1>1, <1>3 DEF Last

LEMMA InitFInv == Init => FInv
<1>1. ASSUME Init
      PROVE  FInv
  <2>1. LInv
    BY <1>1, InitLInv
  <2>2. anchor = End /\ Len(told) <= MaxEvents
    BY <1>1, LedgerAssumption DEF Init, End, Fresh, Genesis
  <2>3. state[Server] = "down" /\ Appending
    BY <1>1, LedgerAssumption DEF Init, Appending, Procs
  <2>4. QED
    BY <2>1, <2>2, <2>3 DEF FInv, EndOrMissing, Resuming, NoFork
<1>2. QED
  BY <1>1

(* A step that leaves the tables and the server's ledger alone.             *)
LEMMA OthersKeepF ==
    ASSUME FInv, LInv', UNCHANGED tables,
           UNCHANGED <<state[Server], head[Server], err[Server]>>,
           \A w \in Writers : pc'[w] # "idle" => pc[w] # "idle" \/ state[Server] = "up"
    PROVE  FInv'
<1>1. End' = End /\ Whole' = Whole /\ damage' = damage /\ anchor' = anchor
  BY DEF tables, End, Whole, Honest, Prefix
<1>2. Len(told') <= MaxEvents
  BY DEF FInv, tables
<1>3. Appending' /\ EndOrMissing(anchor)' /\ Resuming' /\ NoFork'
  BY <1>1 DEF FInv, Appending, EndOrMissing, Resuming, NoFork
<1>4. QED
  BY <1>2, <1>3 DEF FInv

LEMMA AppendEventKeepsF ==
    ASSUME FInv, LInv', NEW w \in Writers, NEW e \in Events, AppendEvent(w, e)
    PROVE  FInv'
<1> DEFINE n == head[Server].count + 1
           end == [count |-> n, hash |-> Hash(head[Server].hash, e)]
<1>1. /\ pc[w] = "append" /\ ~err[Server] /\ n \in Seqs
      /\ anchor' = end /\ head' = [head EXCEPT ![Server] = end] /\ told' = Append(told, e)
      /\ UNCHANGED state /\ pc' = [pc EXCEPT ![w] = "idle"]
  BY DEF AppendEvent, Return, Goto, WriterKeeps
<1>2. Server \in Ledgers /\ told \in Seq(Events) /\ MaxEvents \in Nat
  BY LedgerAssumption DEF FInv, LInv, TypeOK
<1>3. state[Server] = "up" /\ head[Server] = End
  BY <1>1 DEF FInv, Appending, NoFork
<1>4. Len(told') = Len(told) + 1 /\ Len(told') <= MaxEvents
  BY <1>1, <1>2, <1>3 DEF End, Seqs
<1>5. end = End'
  BY <1>1, <1>3, <1>4 DEF End, Hash
<1>6. head'[Server] = End'
  BY <1>1, <1>2, <1>5 DEF FInv, LInv, TypeOK
<1>7. Appending'
  BY <1>1, <1>3 DEF Appending
<1>8. EndOrMissing(anchor)' /\ Resuming' /\ NoFork'
  BY <1>1, <1>3, <1>5, <1>6 DEF EndOrMissing, Resuming, NoFork
<1>9. QED
  BY <1>4, <1>7, <1>8 DEF FInv

LEMMA WriteKeepsF ==
    ASSUME FInv, LInv', NEW w \in Writers, Write(w)
    PROVE  FInv'
<1>1. CASE CallRecord(w) \/ LockRecord(w) \/ Refuse(w) \/ AppendFails(w)
  <2>1. UNCHANGED <<tables, ledger>>
    BY <1>1 DEF CallRecord, LockRecord, Refuse, AppendFails, WriterKeeps, tables, ledger
  <2>2. \A x \in Writers : pc'[x] # "idle" => pc[x] # "idle" \/ state[Server] = "up"
    <3>1. /\ \E step : pc' = [pc EXCEPT ![w] = step]
          /\ pc[w] # "idle" \/ state[Server] = "up"
      BY <1>1 DEF CallRecord, LockRecord, Refuse, AppendFails, Return, Goto
    <3>2. pc \in [Procs -> {"idle", "lock", "append", "anchor", "walk"}]
      BY DEF FInv, LInv, TypeOK
    <3>3. QED
      BY <3>1, <3>2 DEF Procs
  <2>3. QED
    BY <2>1, <2>2, OthersKeepF DEF ledger
<1>2. QED
  BY <1>1, AppendEventKeepsF DEF Write

LEMMA ReadKeepsF ==
    ASSUME FInv, LInv', NEW v \in Readers, Read(v)
    PROVE  FInv'
<1>1. v \in Procs /\ v \notin Writers
  BY LedgerAssumption DEF Procs
<1>2. UNCHANGED <<tables, ledger>> /\ \A x \in Writers : pc'[x] = pc[x]
  BY <1>1 DEF Read, CallVerify, LockVerify, VerifyAnchor, WalkLog, Return, Goto, ReaderKeeps,
     FInv, LInv, TypeOK, Procs
<1>3. QED
  BY <1>2, OthersKeepF DEF ledger

(* If the anchor the server read was missing, a last row that agrees with   *)
(* it means that nothing was ever recorded.                                 *)
LEMMA ResumeKeepsF ==
    ASSUME FInv, LInv', NEW l \in Ledgers, ReadAnchor(l) \/ ReadLast(l)
    PROVE  FInv'
<1>1. UNCHANGED <<tables, pc>> /\ Server \in Ledgers
  BY LedgerAssumption DEF ReadAnchor, ReadLast, Others
<1>2. End' = End /\ Whole' = Whole /\ damage' = damage /\ anchor' = anchor
  BY <1>1 DEF tables, End, Whole, Honest, Prefix
<1>3. CASE l # Server
  <2>1. UNCHANGED <<state[Server], head[Server], err[Server]>>
    BY <1>1, <1>3 DEF ReadAnchor, ReadLast, Latch, FInv, LInv, TypeOK
  <2>2. QED
    BY <1>1, <2>1, OthersKeepF
<1>4. CASE l = Server
  <2>1. state[Server] # "up" /\ \A w \in Writers : pc[w] = "idle"
    BY <1>4 DEF ReadAnchor, ReadLast, FInv, Appending
  <2>2. CASE err'[Server] /\ state'[Server] = "up"
    BY <1>1, <1>2, <2>1, <2>2 DEF tables, FInv, Appending, EndOrMissing, Resuming, NoFork
  <2>3. CASE state'[Server] = "resuming" /\ head'[Server] = anchor
    BY <1>1, <1>2, <2>1, <2>3 DEF tables, FInv, Appending, EndOrMissing, Resuming, NoFork
  <2>4. CASE /\ state[Server] = "resuming" /\ state'[Server] = "up"
             /\ Last = head[Server].count /\ head'[Server] = head[Server]
    <3>1. head[Server] = End
      <4>1. CASE head[Server] = Fresh /\ Whole
        <5>1. Len(told) = 0
          BY <2>4, <4>1, LastOfWhole DEF FInv, LInv, Fresh
        <5>2. told = <<>>
          BY <5>1 DEF FInv, LInv, TypeOK
        <5>3. QED
          BY <4>1, <5>1, <5>2 DEF End, Fresh, Genesis
      <4>2. QED
        BY <2>4, <4>1 DEF FInv, Resuming, EndOrMissing
    <3>2. QED
      BY <1>1, <1>2, <2>1, <2>4, <3>1 DEF tables, FInv, Appending, EndOrMissing, Resuming, NoFork
  <2>5. QED
    BY <1>1, <1>4, <2>2, <2>3, <2>4 DEF ReadAnchor, ReadLast, Latch, FInv, LInv, TypeOK
<1>5. QED
  BY <1>3, <1>4

LEMMA StopKeepsF ==
    ASSUME FInv, LInv', NEW l \in Ledgers, Stop(l)
    PROVE  FInv'
<1>1. UNCHANGED tables /\ Server \in Ledgers
  BY LedgerAssumption DEF Stop
<1>2. CASE l # Server
  <2>1. UNCHANGED <<state[Server], head[Server], err[Server]>>
    BY <1>1, <1>2, ZenonT(30) DEF Stop, FInv, LInv, TypeOK
  <2>2. \A w \in Writers : pc'[w] # "idle" => pc[w] # "idle"
    BY DEF Stop, Procs
  <2>3. QED
    BY <1>1, <2>1, <2>2, OthersKeepF
<1>3. CASE l = Server
  <2>1. state'[Server] = "down" /\ Appending'
    BY <1>1, <1>3, LedgerAssumption DEF Stop, Appending, Procs, FInv, LInv, TypeOK
  <2>2. EndOrMissing(anchor)' /\ Len(told') <= MaxEvents
    BY <1>1 DEF tables, FInv, EndOrMissing, End, Whole, Honest, Prefix
  <2>3. QED
    BY <2>1, <2>2 DEF FInv, Resuming, NoFork
<1>4. QED
  BY <1>2, <1>3

LEMMA DamageKeepsF ==
    ASSUME MaxDamage <= 1, FInv, LInv', Damage
    PROVE  FInv'
<1>1. damage = 0 /\ damage' = 1
  BY LedgerAssumption DEF Damage, FInv, LInv, TypeOK
<1>2. Whole /\ anchor = End
  BY <1>1 DEF FInv, LInv, KeepsTheLog
<1>3. UNCHANGED <<told, ledger, pc>> /\ End' = End
  BY DEF Damage, End
<1>4. EndOrMissing(anchor)'
  <2>1. CASE anchor' = anchor
    BY <1>2, <1>3, <2>1 DEF EndOrMissing
  <2>2. CASE anchor' = Fresh /\ UNCHANGED stored
    <3>1. Whole'
      BY <1>2, <1>3, <2>2 DEF Whole, Honest, Prefix
    <3>2. QED
      BY <1>1, <2>2, <3>1 DEF EndOrMissing
  <2>3. QED
    BY <2>1, <2>2 DEF Damage
<1>5. Resuming' /\ NoFork' /\ Appending' /\ Len(told') <= MaxEvents
  BY <1>1, <1>3 DEF ledger, FInv, EndOrMissing, Resuming, NoFork, Appending
<1>6. QED
  BY <1>4, <1>5 DEF FInv

LEMMA NextKeepsF ==
    ASSUME MaxDamage <= 1, FInv, [Next]_vars
    PROVE  FInv'
<1>1. LInv'
  BY NextKeeps DEF FInv
<1>2. CASE UNCHANGED vars
  BY <1>1, <1>2, OthersKeepF DEF vars, ledger
<1>3. CASE Next
  BY <1>1, <1>3, WriteKeepsF, ReadKeepsF, ResumeKeepsF, StopKeepsF, DamageKeepsF DEF Next
<1>4. QED
  BY <1>2, <1>3

(* A server that appends goes on from the last event it acknowledged: with  *)
(* at most one row lost or altered, resume() never continues on what is     *)
(* left of the log.  (With two, all rows and the anchor of a short log may  *)
(* be gone, and it starts afresh.)                                          *)
THEOREM NoSecondHistory ==
    ASSUME MaxDamage <= 1
    PROVE  Spec => []NoFork
<1>1. FInv => NoFork
  BY DEF FInv
<1>2. FInv /\ [Next]_vars => FInv'
  BY NextKeepsF
<1>3. QED
  BY <1>1, <1>2, InitFInv, PTL DEF Spec

----------------------------------------------------------------------------
(* What Verify reports.  A row that was lost or altered breaks the chain for *)
(* good where it stood, and the walk, which has the mutex to itself, goes as *)
(* far as the end of the log unless the anchor is gone and every row there.  *)

ServerHolds == \A p \in Procs :
    LedgerOf[p] = Server /\ pc[p] \in {"append", "anchor", "walk"} => mu[Server] = p
Unanswered == \A v \in Readers : pc[v] # "idle" => verdict[v] = "none"
Broken(i) == stored[i] = Lost \/ stored[i].hash # Hash(HashBefore(i), stored[i].what)
GivenAway == Whole \/ \E i \in Seqs : i <= Len(told) /\ Broken(i)
SeenIsRead == \A v \in Readers :
    LedgerOf[v] = Server /\ pc[v] = "walk" => EndOrMissing(seen[v])
WInv == FInv /\ ServerHolds /\ Unanswered /\ GivenAway /\ SeenIsRead

(* The mutex of the server's ledger, whatever the other ledgers do. *)
LEMMA NextKeepsHolds ==
    ASSUME TypeOK, ServerHolds, Unanswered, [Next]_vars
    PROVE  ServerHolds' /\ Unanswered'
<1>1. Server \in Ledgers /\ NoProc \notin Procs /\ Writers \cap Readers = {}
      /\ Writers \subseteq Procs /\ Readers \subseteq Procs
      /\ (\A p \in Procs : LedgerOf[p] \in Ledgers) /\ \A w \in Writers : LedgerOf[w] = Server
  BY LedgerAssumption DEF Procs
<1>2. ASSUME NEW p \in Procs, Lock(p), NEW step, Goto(p, step)
      PROVE  ServerHolds'
  BY <1>1, <1>2 DEF Lock, Goto, ServerHolds, TypeOK
<1>3. ASSUME NEW p \in Procs, Return(p), pc[p] \in {"append", "anchor", "walk"}
      PROVE  ServerHolds'
  BY <1>1, <1>3 DEF Return, Unlock, Goto, ServerHolds, TypeOK
<1>4. ASSUME NEW p \in Procs, UNCHANGED mu, NEW step \in {"lock", "anchor", "walk"}, Goto(p, step),
             step = "lock" \/ pc[p] \in {"anchor", "walk"}
      PROVE  ServerHolds'
  BY <1>1, <1>4 DEF Goto, ServerHolds, TypeOK
<1>5. ASSUME NEW w \in Writers, Write(w)
      PROVE  ServerHolds' /\ Unanswered'
  <2>1. ServerHolds'
    BY <1>1, <1>2, <1>3, <1>4, <1>5 DEF Write, CallRecord, LockRecord, Refuse, AppendFails, AppendEvent
  <2>2. UNCHANGED verdict /\ \A v \in Readers : pc'[v] = pc[v]
    BY <1>1, <1>5 DEF Write, CallRecord, LockRecord, Refuse, AppendFails, AppendEvent, Return, Goto,
       WriterKeeps, TypeOK
  <2>3. QED
    BY <2>1, <2>2 DEF Unanswered
<1>6. ASSUME NEW v \in Readers, Read(v)
      PROVE  ServerHolds' /\ Unanswered'
  <2>1. ServerHolds'
    BY <1>1, <1>2, <1>3, <1>4, <1>6 DEF Read, CallVerify, LockVerify, VerifyAnchor, WalkLog
  <2>2. Unanswered'
    BY <1>1, <1>6 DEF Read, CallVerify, LockVerify, VerifyAnchor, WalkLog, Return, Goto, Answer,
       Unanswered, TypeOK
  <2>3. QED
    BY <2>1, <2>2
<1>7. ASSUME NEW l \in Ledgers, ReadAnchor(l) \/ ReadLast(l) \/ Stop(l)
      PROVE  ServerHolds' /\ Unanswered'
  BY <1>1, <1>7 DEF ReadAnchor, ReadLast, Others, Stop, ServerHolds, Unanswered, TypeOK
<1>8. CASE Damage \/ UNCHANGED vars
  BY <1>8 DEF Damage, vars, ServerHolds, Unanswered
<1>9. QED
  BY <1>5, <1>6, <1>7, <1>8 DEF Next

(* The only step that records, seen from the log. *)
LEMMA RecordedAtEnd ==
    ASSUME FInv, NEW w \in Writers, NEW e \in Events, AppendEvent(w, e)
    PROVE  LET n == Len(told) + 1
           IN n \in Seqs /\ told' = Append(told, e) /\ stored' = [stored EXCEPT ![n] = Event(told, e)]
<1>1. head[Server] = End
  BY DEF AppendEvent, FInv, Appending, NoFork
<1>2. QED
  BY <1>1 DEF AppendEvent, End

LEMMA AppendKeepsGiven ==
    ASSUME FInv, GivenAway, NEW w \in Writers, NEW e \in Events, AppendEvent(w, e)
    PROVE  GivenAway'
<1> DEFINE n == Len(told) + 1
<1>1. /\ n \in Seqs /\ told' = Append(told, e) /\ stored' = [stored EXCEPT ![n] = Event(told, e)]
      /\ told \in Seq(Events) /\ MaxEvents \in Nat /\ stored \in [Seqs -> Record \cup {Lost}]
  BY RecordedAtEnd, LedgerAssumption DEF FInv, LInv, TypeOK
<1>2. /\ Len(told') = n /\ Len(told) \in Nat /\ told'[n] = e
      /\ (\A i \in 1..Len(told) : told'[i] = told[i])
      /\ \A i \in 1..n : Prefix(i - 1)' = Prefix(i - 1)
      /\ Prefix(Len(told)) = told
  BY <1>1, ToldGrows
<1>3. CASE Whole
  <2>1. SUFFICES ASSUME NEW i \in Seqs
                 PROVE  stored'[i] = IF i <= Len(told') THEN Honest(i)' ELSE Lost
    BY DEF GivenAway, Whole
  <2>2. CASE i < n
    <3>1. i \in 1..Len(told) /\ Prefix(i - 1)' = Prefix(i - 1)
      BY <1>1, <1>2, <2>2 DEF Seqs
    <3>2. stored'[i] = stored[i] /\ stored[i] = Honest(i) /\ Honest(i)' = Honest(i)
      BY <1>1, <1>2, <1>3, <2>2, <3>1 DEF Whole, Honest
    <3>3. QED
      BY <1>2, <2>2, <3>2 DEF Seqs
  <2>3. CASE i = n
    <3>1. Prefix(i - 1)' = told
      BY <1>1, <1>2, <2>3 DEF Seqs
    <3>2. QED
      BY <1>1, <1>2, <2>3, <3>1 DEF Honest
  <2>4. CASE i > n
    <3>1. stored'[i] = stored[i] /\ ~(i <= Len(told)) /\ ~(i <= Len(told'))
      BY <1>1, <1>2, <2>4 DEF Seqs
    <3>2. QED
      BY <1>3, <3>1 DEF Whole
  <2>5. QED
    BY <1>1, <2>2, <2>3, <2>4 DEF Seqs
<1>4. ASSUME NEW i \in Seqs, i <= Len(told), Broken(i)
      PROVE  GivenAway'
  <2>1. stored'[i] = stored[i]
    BY <1>1, <1>2, <1>4 DEF Seqs
  <2>2. HashBefore(i)' = HashBefore(i)
    BY <1>1, <1>2, <1>4 DEF Seqs, HashBefore
  <2>3. Broken(i)' /\ i <= Len(told')
    BY <1>2, <1>4, <2>1, <2>2 DEF Broken, Seqs
  <2>4. QED
    BY <2>3 DEF GivenAway
<1>5. QED
  BY <1>3, <1>4 DEF GivenAway

(* A lost row is a gap; an altered one no longer has the hash it is under. *)
LEMMA DamageKeepsGiven ==
    ASSUME MaxDamage <= 1, FInv, Damage
    PROVE  GivenAway'
<1>1. /\ damage = 0 /\ MaxEvents \in Nat /\ TypeOK /\ Whole /\ Len(told) <= MaxEvents
      /\ UNCHANGED told /\ Len(told) \in Nat
  BY LedgerAssumption DEF Damage, FInv, LInv, KeepsTheLog, TypeOK
<1>2. Links(Len(told))
  BY <1>1, WholeMatches DEF MatchesAnchor, End
<1>3. ASSUME NEW i \in Seqs, stored[i] # Lost, NEW x, stored' = [stored EXCEPT ![i] = x],
             x = Lost \/ \E e \in Events \ {stored[i].what} : x = [stored[i] EXCEPT !.what = e]
      PROVE  GivenAway'
  <2>1. i <= Len(told) /\ stored'[i] = x /\ i \in 1..Len(told)
    BY <1>1, <1>2, <1>3 DEF Links, TypeOK, Seqs
  <2>2. ASSUME NEW e \in Events \ {stored[i].what}, x = [stored[i] EXCEPT !.what = e]
        PROVE  x.hash # Hash(HashBefore(i)', x.what)
    <3>1. stored[i] \in Record /\ x.hash = stored[i].hash /\ x.what = e
      BY <1>1, <1>3, <2>2 DEF TypeOK, Record
    <3>2. HashBefore(i)' = HashBefore(i)
      BY <1>1, <1>3 DEF HashBefore, TypeOK, Seqs
    <3>3. stored[i].prev = HashBefore(i) /\ stored[i].hash = Hash(HashBefore(i), stored[i].what)
      <4>1. stored[i] = Event(HashBefore(i), stored[i].what)
        BY <1>2, <2>1 DEF Links
      <4>2. \A p, w : Event(p, w).prev = p /\ Event(p, w).hash = Hash(p, w)
        BY DEF Event
      <4>3. QED
        BY <4>1, <4>2
    <3>4. HashBefore(i) \in Seq(Events)
      BY <3>1, <3>3 DEF Record
    <3>5. Append(HashBefore(i), stored[i].what) # Append(HashBefore(i), e)
      <4>1. /\ Append(HashBefore(i), stored[i].what)[Len(HashBefore(i)) + 1] = stored[i].what
            /\ Append(HashBefore(i), e)[Len(HashBefore(i)) + 1] = e
        BY <3>1, <3>4 DEF Record
      <4>2. QED
        BY <4>1
    <3>6. QED
      BY <3>1, <3>2, <3>3, <3>5 DEF Hash
  <2>3. Broken(i)'
    BY <1>3, <2>1, <2>2 DEF Broken
  <2>4. QED
    BY <1>1, <2>1, <2>3 DEF GivenAway
<1>4. CASE UNCHANGED stored
  BY <1>1, <1>4 DEF GivenAway, Whole, Honest, Prefix
<1>5. QED
  BY <1>1, <1>3, <1>4 DEF Damage, TypeOK, Record

LEMMA InitWInv == Init => WInv
<1>1. Init => FInv
  BY InitFInv
<1>2. Init => ServerHolds /\ Unanswered /\ SeenIsRead
  BY DEF Init, ServerHolds, Unanswered, SeenIsRead, Procs
<1>3. Init => GivenAway
  BY <1>1 DEF Init, FInv, LInv, KeepsTheLog, GivenAway
<1>4. QED
  BY <1>1, <1>2, <1>3 DEF WInv

LEMMA NextKeepsW ==
    ASSUME MaxDamage <= 1, WInv, FInv', [Next]_vars
    PROVE  WInv'
<1>1. ServerHolds' /\ Unanswered'
  BY NextKeepsHolds DEF WInv, FInv, LInv
<1>2. GivenAway'
  <2>1. CASE UNCHANGED <<stored, told>>
    BY <2>1 DEF WInv, GivenAway, Whole, Honest, Prefix, Broken, HashBefore
  <2>2. CASE Damage
    BY <2>2, DamageKeepsGiven DEF WInv
  <2>3. CASE \E w \in Writers, e \in Events : AppendEvent(w, e)
    BY <2>3, AppendKeepsGiven DEF WInv
  <2>4. QED
    BY <2>1, <2>2, <2>3 DEF Next, Write, CallRecord, LockRecord, Refuse, AppendFails, Read, CallVerify,
       LockVerify, VerifyAnchor, WalkLog, ReaderKeeps, ReadAnchor, ReadLast, Others, Stop, tables, vars
<1>3. SeenIsRead'
  <2>1. SUFFICES ASSUME NEW v \in Readers, LedgerOf[v] = Server, pc'[v] = "walk"
                 PROVE  EndOrMissing(seen[v])'
    BY DEF SeenIsRead
  <2>2. CASE VerifyAnchor(v)
    <3>1. seen'[v] = anchor /\ UNCHANGED tables
      BY <2>1, <2>2 DEF VerifyAnchor, Return, Goto, ReaderKeeps, WInv, FInv, LInv, TypeOK, Procs
    <3>2. QED
      BY <3>1 DEF WInv, FInv, EndOrMissing, tables, End, Whole, Honest, Prefix
  <2>3. ASSUME pc[v] = "walk", seen'[v] = seen[v]
        PROVE  EndOrMissing(seen[v])'
    <3>1. EndOrMissing(seen[v]) /\ mu[Server] = v /\ v \notin Writers
      BY <2>1, <2>3, LedgerAssumption DEF WInv, SeenIsRead, ServerHolds, Procs
    <3>2. CASE UNCHANGED tables
      BY <2>3, <3>1, <3>2 DEF EndOrMissing, tables, End, Whole, Honest, Prefix
    <3>3. CASE Damage
      <4>1. damage = 0 /\ UNCHANGED told
        BY <3>3, LedgerAssumption DEF Damage, WInv, FInv, LInv, TypeOK
      <4>2. QED
        BY <2>3, <3>1, <4>1 DEF EndOrMissing, End
    <3>4. ~ \E w \in Writers, e \in Events : AppendEvent(w, e)
      BY <3>1, LedgerAssumption DEF AppendEvent, WInv, ServerHolds, Procs
    <3>5. QED
      BY <3>2, <3>3, <3>4 DEF Next, Write, CallRecord, LockRecord, Refuse, AppendFails, WriterKeeps, Read,
         CallVerify, LockVerify, VerifyAnchor, WalkLog, ReaderKeeps, ReadAnchor, ReadLast, Others, Stop,
         tables, vars
  <2>4. VerifyAnchor(v) \/ (pc[v] = "walk" /\ seen'[v] = seen[v])
    <3>1. v \in Procs /\ v \notin Writers /\ pc \in [Procs -> {"idle", "lock", "append", "anchor", "walk"}]
      BY LedgerAssumption DEF WInv, FInv, LInv, TypeOK, Procs
    <3>2. ASSUME NEW w \in Writers, Write(w)
          PROVE  pc'[v] = pc[v] /\ UNCHANGED seen
      BY <3>1, <3>2 DEF Write, CallRecord, LockRecord, Refuse, AppendFails, AppendEvent, Return, Goto,
         WriterKeeps, Procs
    <3>3. ASSUME NEW x \in Readers, Read(x)
          PROVE  VerifyAnchor(v) \/ (pc[v] = "walk" /\ seen'[v] = seen[v])
      BY <2>1, <3>1, <3>3 DEF Read, CallVerify, LockVerify, VerifyAnchor, WalkLog, Return, Goto, Procs,
         WInv, FInv, LInv, TypeOK
    <3>4. QED
      BY <2>1, <3>1, <3>2, <3>3 DEF Next, ReadAnchor, ReadLast, Others, Stop, Damage, vars
  <2>5. QED
    BY <2>2, <2>3, <2>4
<1>4. QED
  BY <1>1, <1>2, <1>3 DEF WInv

(* A chain that Verify calls valid is there from its first event to its last, *)
(* as it was recorded, even after one row or the anchor was lost or altered,  *)
(* while the server records, restarts and other processes read.               *)
THEOREM ValidStaysWhole ==
    ASSUME MaxDamage <= 1
    PROVE  Spec => ValidMeansWhole
<1> DEFINE Sound == \A v \in Readers :
                        LedgerOf[v] = Server /\ pc[v] = "walk" /\ verdict'[v] = "valid" => Whole
<1>1. ASSUME WInv, Next
      PROVE  Sound
  <2>1. SUFFICES ASSUME NEW v \in Readers, LedgerOf[v] = Server, pc[v] = "walk", verdict'[v] = "valid"
                 PROVE  Whole
    OBVIOUS
  <2>2. verdict[v] = "none"
    BY <1>1, <2>1 DEF WInv, Unanswered
  <2>3. MatchesAnchor(seen[v])
    <3>1. verdict'[v] # verdict[v]
      BY <2>1, <2>2
    <3>2. QED
      BY <1>1, <2>1, <3>1 DEF Next, Write, CallRecord, LockRecord, Refuse, AppendFails, AppendEvent,
         WriterKeeps, Read, CallVerify, LockVerify, VerifyAnchor, WalkLog, Answer, ReadAnchor, ReadLast,
         Others, Stop, Damage, WInv, FInv, LInv, TypeOK
  <2>4. EndOrMissing(seen[v])
    BY <1>1, <2>1 DEF WInv, SeenIsRead
  <2>5. CASE seen[v] = End
    <3>1. \A i \in Seqs : i <= Len(told) => ~Broken(i)
      <4>1. SUFFICES ASSUME NEW i \in Seqs, i <= Len(told)
                     PROVE  ~Broken(i)
        OBVIOUS
      <4>2. i \in 1..Len(told) /\ Links(Len(told))
        BY <1>1, <2>3, <2>5, <4>1, LedgerAssumption
        DEF MatchesAnchor, End, Seqs, WInv, FInv, LInv, TypeOK
      <4>3. stored[i] # Lost /\ stored[i] = Event(HashBefore(i), stored[i].what)
        BY <4>1, <4>2 DEF Links
      <4>4. \A p, w : Event(p, w).hash = Hash(p, w)
        BY DEF Event
      <4>5. QED
        BY <4>3, <4>4 DEF Broken
    <3>2. QED
      BY <1>1, <3>1 DEF WInv, GivenAway
  <2>6. QED
    BY <2>4, <2>5 DEF EndOrMissing
<1>2. WInv /\ [Next]_vars => [Sound]_vars
  BY <1>1
<1>3. WInv /\ [Next]_vars => WInv'
  BY NextKeepsF, NextKeepsW DEF WInv
<1>4. Spec => [][Sound]_vars
  BY <1>2, <1>3, InitWInv, PTL DEF Spec
<1>5. QED
  BY <1>4 DEF ValidMeansWhole

=============================================================================
