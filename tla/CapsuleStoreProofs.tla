-------------------------- MODULE CapsuleStoreProofs --------------------------
(***************************************************************************)
(* The capsule store, for any number of deposits, IDs, verifiers and       *)
(* server processes and any combination of failures and crashes.           *)
(*                                                                         *)
(* Part 1, whatever the paths (case-insensitive volumes included) and with *)
(* power losses: the store is well typed, leaves no file without its row   *)
(* and publishes none the audit chain does not announce.                   *)
(* Part 2, for the deployment the code is written for, one process on the  *)
(* data directory (OneProcess) and a volume that keeps the names of two    *)
(* IDs apart (OwnPaths), each assumed where it is needed: what an answer   *)
(* said stays true, an acknowledged capsule stays unless it was damaged or *)
(* its purge requested, a corrupt status stays evidence of damage, and the *)
(* store implements BlindStore.                                            *)
(***************************************************************************)
EXTENDS CapsuleStore, TLAPS

(* Part 1. Types.                                                           *)

(* A deposit that arrived has a container, and a verifier at work has an ID *)
(* of the catalog: what TypeOK needs to be inductive.                       *)
Arrived == \A r \in Requests : pc[r] # "new" => req[r] \in Container
HasTarget == \A v \in Verifiers : vpc[v] # "idle" => vid[v] \in Ids
TInv == TypeOK /\ Arrived /\ HasTarget

LEMMA InitTInv == Init => TInv
BY StoreAssumption, SentinelAssumption DEF Init, TInv, TypeOK, Arrived, HasTarget,
   KeepAll, Policy, Codes, DepositSteps, VerifySteps, PurgeSteps, Action, Requests

(* A row whose status is written is still a row. *)
LEMMA StatusIsTyped ==
    ASSUME TInv, NEW id, NEW s \in {"active", "corrupt"}, SetStatus(id, s)
    PROVE  row' \in [Ids -> Row \cup {NoRow}]
BY SentinelAssumption, ZenonT(30) DEF TInv, TypeOK, SetStatus, Row

LEMMA ReceiveKeepsTInv ==
    ASSUME TInv, NEW r \in Requests, NEW c \in Container, Receive(r, c)
    PROVE  TInv'
BY DEF TInv, TypeOK, Arrived, HasTarget, Receive, DepositKeeps, Go, Decide, storeVars,
   verifyVars, purgeVars, DepositSteps, Codes

(* Moving on, deciding and finishing keep their types and un-arrive nobody. *)
PcTyped == pc' \in [Requests -> DepositSteps] /\ \A q \in Requests : pc'[q] # "new" => pc[q] # "new"
LockTyped == lock' \in [Hosts -> [Ids -> Procs \cup {NoProc}]]

LEMMA GoTypes ==
    ASSUME TInv, NEW r \in Requests, pc[r] # "new", NEW s \in DepositSteps, Go(r, s)
    PROVE  PcTyped
BY DEF TInv, TypeOK, Go, PcTyped

LEMMA LockTypes ==
    ASSUME TInv, NEW p \in Procs, NEW id, Take(p, id) \/ Release(p, id)
    PROVE  LockTyped
<1> DEFINE h == HostOf[p]
<1>1. h \in Hosts /\ lock[h] \in [Ids -> Procs \cup {NoProc}]
  BY StoreAssumption DEF TInv, TypeOK
<1>2. [lock[h] EXCEPT ![id] = p] \in [Ids -> Procs \cup {NoProc}]
  BY <1>1
<1>3. [lock[h] EXCEPT ![id] = NoProc] \in [Ids -> Procs \cup {NoProc}]
  BY <1>1
<1>4. lock' = [lock EXCEPT ![h] = [lock[h] EXCEPT ![id] = p]]
      \/ lock' = [lock EXCEPT ![h] = [lock[h] EXCEPT ![id] = NoProc]]
  BY <1>1 DEF TInv, TypeOK, Take, Release
<1>5. QED
  BY <1>1, <1>2, <1>3, <1>4 DEF TInv, TypeOK, LockTyped

LEMMA FinishTypes ==
    ASSUME TInv, NEW r \in Requests, pc[r] # "new", NEW code \in Codes, Finish(r, code)
    PROVE  PcTyped /\ LockTyped /\ answer' \in [Requests -> Codes]
<1>1. Go(r, "done") /\ Decide(r, code) /\ Release(r, IdOf(r))
  BY DEF Finish
<1>2. PcTyped
  BY <1>1, GoTypes DEF DepositSteps
<1>3. LockTyped
  BY <1>1, LockTypes DEF Procs
<1>4. QED
  BY <1>1, <1>2, <1>3 DEF Decide, TInv, TypeOK

(* What a row names is a receipt, what a deposit brought is a container. *)
LEMMA RowReceipt ==
    ASSUME TInv, NEW id \in Ids, row[id] # NoRow
    PROVE  row[id].at \in Requests /\ row[id].at \in 0..MaxRequests
BY StoreAssumption DEF TInv, TypeOK, Row, Requests

LEMMA ArrivedBytes ==
    ASSUME TInv, NEW r \in Requests, pc[r] # "new"
    PROVE  IdOf(r) \in Ids /\ PathFor(r) \in Paths /\ Bytes(r) \in File
BY StoreAssumption DEF TInv, Arrived, Container, IdOf, PathFor, Bytes, File

LEMMA RecordTypes ==
    ASSUME TInv, NEW r, NEW act \in Action, Record(act, r)
    PROVE  log' \in [Requests -> SUBSET Action]
BY DEF TInv, TypeOK, Record

LEMMA AcquireDepositKeepsTInv ==
    ASSUME TInv, NEW r \in Requests, AcquireDeposit(r)
    PROVE  TInv'
BY GoTypes, LockTypes, FinishTypes
   DEF TInv, TypeOK, Arrived, HasTarget, AcquireDeposit, DepositKeeps, Decide, PcTyped, LockTyped,
   Procs, storeVars, verifyVars, purgeVars, DepositSteps, Codes

LEMMA CheckRowKeepsTInv ==
    ASSUME TInv, NEW r \in Requests, CheckRow(r)
    PROVE  TInv'
BY RowReceipt, ArrivedBytes, GoTypes, LockTypes, FinishTypes
   DEF TInv, TypeOK, Arrived, HasTarget, CheckRow, DepositKeeps, Decide, PcTyped, LockTyped,
   Procs, storeVars, verifyVars, purgeVars, DepositSteps, Codes

LEMMA ReadFailsKeepsTInv ==
    ASSUME TInv, NEW r \in Requests, ReadFails(r)
    PROVE  TInv'
BY GoTypes, LockTypes, FinishTypes
   DEF TInv, TypeOK, Arrived, HasTarget, ReadFails, DepositKeeps, Decide, PcTyped, LockTyped,
   Procs, storeVars, verifyVars, purgeVars, DepositSteps, Codes

LEMMA StatFileKeepsTInv ==
    ASSUME TInv, NEW r \in Requests, StatFile(r)
    PROVE  TInv'
BY GoTypes, LockTypes, FinishTypes
   DEF TInv, TypeOK, Arrived, HasTarget, StatFile, DepositKeeps, Decide, PcTyped, LockTyped,
   Procs, storeVars, verifyVars, purgeVars, DepositSteps, Codes

LEMMA MarkMissingKeepsTInv ==
    ASSUME TInv, NEW r \in Requests, MarkMissing(r)
    PROVE  TInv'
BY StatusIsTyped, GoTypes, LockTypes, FinishTypes
   DEF TInv, TypeOK, Arrived, HasTarget, MarkMissing, DepositKeeps, Decide, PcTyped, LockTyped,
   Procs, storeVars, verifyVars, purgeVars, DepositSteps, Codes

LEMMA WriteTempKeepsTInv ==
    ASSUME TInv, NEW r \in Requests, WriteTemp(r)
    PROVE  TInv'
BY GoTypes, LockTypes, FinishTypes
   DEF TInv, TypeOK, Arrived, HasTarget, WriteTemp, DepositKeeps, Decide, PcTyped, LockTyped,
   Procs, storeVars, verifyVars, purgeVars, DepositSteps, Codes

LEMMA InsertRowKeepsTInv ==
    ASSUME TInv, NEW r \in Requests, InsertRow(r)
    PROVE  TInv'
BY GoTypes, LockTypes, FinishTypes
   DEF TInv, TypeOK, Arrived, HasTarget, InsertRow, DepositKeeps, Decide, PcTyped, LockTyped,
   Procs, storeVars, verifyVars, purgeVars, DepositSteps, Codes, Row, NewRow

LEMMA InsertLosesKeepsTInv ==
    ASSUME TInv, NEW r \in Requests, InsertLoses(r)
    PROVE  TInv'
BY GoTypes, LockTypes, FinishTypes
   DEF TInv, TypeOK, Arrived, HasTarget, InsertLoses, DepositKeeps, Decide, PcTyped, LockTyped,
   Procs, storeVars, verifyVars, purgeVars, DepositSteps, Codes

LEMMA InsertFailsKeepsTInv ==
    ASSUME TInv, NEW r \in Requests, InsertFails(r)
    PROVE  TInv'
BY GoTypes, LockTypes, FinishTypes
   DEF TInv, TypeOK, Arrived, HasTarget, InsertFails, DepositKeeps, Decide, PcTyped, LockTyped,
   Procs, storeVars, verifyVars, purgeVars, DepositSteps, Codes

LEMMA RereadKeepsTInv ==
    ASSUME TInv, NEW r \in Requests, Reread(r)
    PROVE  TInv'
BY RowReceipt, ArrivedBytes, GoTypes, LockTypes, FinishTypes
   DEF TInv, TypeOK, Arrived, HasTarget, Reread, DepositKeeps, Decide, PcTyped, LockTyped,
   Procs, storeVars, verifyVars, purgeVars, DepositSteps, Codes

LEMMA RecordDepositKeepsTInv ==
    ASSUME TInv, NEW r \in Requests, RecordDeposit(r)
    PROVE  TInv'
BY RecordTypes, GoTypes, LockTypes, FinishTypes
   DEF TInv, TypeOK, Arrived, HasTarget, RecordDeposit, DepositKeeps, Decide, PcTyped, LockTyped,
   Procs, storeVars, verifyVars, purgeVars, DepositSteps, Codes, Action

LEMMA LinkKeepsTInv ==
    ASSUME TInv, NEW r \in Requests, Link(r)
    PROVE  TInv'
BY ArrivedBytes, GoTypes, LockTypes, FinishTypes
   DEF TInv, TypeOK, Arrived, HasTarget, Link, DepositKeeps, Decide, PcTyped, LockTyped,
   Procs, storeVars, verifyVars, purgeVars, DepositSteps, Codes

LEMMA RollbackKeepsTInv ==
    ASSUME TInv, NEW r \in Requests, Rollback(r)
    PROVE  TInv'
BY GoTypes, LockTypes, FinishTypes
   DEF TInv, TypeOK, Arrived, HasTarget, Rollback, DepositKeeps, Decide, PcTyped, LockTyped,
   Procs, storeVars, verifyVars, purgeVars, DepositSteps, Codes

LEMMA CorrectKeepsTInv ==
    ASSUME TInv, NEW r \in Requests, Correct(r)
    PROVE  TInv'
BY RecordTypes, GoTypes, LockTypes, FinishTypes, SMTT(30)
   DEF TInv, TypeOK, Arrived, HasTarget, Correct, DepositKeeps, Decide, PcTyped, LockTyped,
   Procs, storeVars, verifyVars, purgeVars, DepositSteps, Codes, Action

LEMMA PublishKeepsTInv ==
    ASSUME TInv, NEW r \in Requests, Publish(r)
    PROVE  TInv'
BY GoTypes, LockTypes, FinishTypes
   DEF TInv, TypeOK, Arrived, HasTarget, Publish, DepositKeeps, Decide, PcTyped, LockTyped,
   Procs, storeVars, verifyVars, purgeVars, DepositSteps, Codes

LEMMA DepositKeepsTInv ==
    ASSUME TInv, NEW r \in Requests, Deposit(r)
    PROVE  TInv'
BY ReceiveKeepsTInv, AcquireDepositKeepsTInv, CheckRowKeepsTInv, ReadFailsKeepsTInv, StatFileKeepsTInv,
   MarkMissingKeepsTInv, WriteTempKeepsTInv, InsertRowKeepsTInv, InsertLosesKeepsTInv,
   InsertFailsKeepsTInv, RereadKeepsTInv, RecordDepositKeepsTInv, LinkKeepsTInv,
   RollbackKeepsTInv, CorrectKeepsTInv, PublishKeepsTInv
   DEF Deposit

(* Verification. *)
VerifyTyped ==
    /\ vpc' \in [Verifiers -> VerifySteps]
    /\ vid' \in [Verifiers -> Ids \cup {NoId}]
    /\ vrec' \in [Verifiers -> 0..MaxRequests]
    /\ \A v \in Verifiers : vpc'[v] # "idle" => vid'[v] \in Ids

LEMMA VEndTypes ==
    ASSUME TInv, NEW v \in Verifiers, VEnd(v)
    PROVE  VerifyTyped /\ LockTyped
<1>1. LockTyped
  BY LockTypes DEF VEnd, Procs
<1>2. VerifyTyped
  BY StoreAssumption DEF VEnd, VGo, VerifyTyped, TInv, TypeOK, HasTarget, VerifySteps
<1>3. QED
  BY <1>1, <1>2

LEMMA VGoOnTypes ==
    ASSUME TInv, NEW v \in Verifiers, vpc[v] # "idle", NEW s \in VerifySteps, VGoOn(v, s)
    PROVE  VerifyTyped /\ LockTyped
BY DEF VGoOn, VGo, VerifyTyped, LockTyped, TInv, TypeOK, HasTarget

(* A step of a verifier touches its own variables, the lock, the status of  *)
(* a row and the log.                                                       *)
LEMMA VerifyKeepsTInv ==
    ASSUME TInv, NEW v \in Verifiers, Verify(v)
    PROVE  TInv'
<1> DEFINE Rows == row' \in [Ids -> Row \cup {NoRow}]
           Logs == log' \in [Requests -> SUBSET Action]
<1>1. SUFFICES VerifyTyped /\ LockTyped /\ Rows /\ Logs /\ VerifyKeeps
  BY DEF TInv, TypeOK, Arrived, HasTarget, VerifyTyped, LockTyped, VerifyKeeps,
     depositVars, purgeVars, worldVars
<1>2. ASSUME NEW id \in Ids, VerifyStart(v, id)
      PROVE  VerifyTyped /\ LockTyped /\ Rows /\ Logs /\ VerifyKeeps
  BY <1>2 DEF VerifyStart, VGo, VerifyTyped, LockTyped, TInv, TypeOK, HasTarget, VerifySteps
<1>3. CASE VerifyAcquire(v)
  <2>1. LockTyped
    BY <1>3, LockTypes DEF VerifyAcquire, Procs
  <2>2. QED
    BY <1>3, <2>1 DEF VerifyAcquire, VGo, VerifyTyped, TInv, TypeOK, HasTarget, VerifySteps
<1>4. CASE VerifyReread(v)
  <2>1. CASE VEnd(v)
    BY <1>4, <2>1, VEndTypes DEF VerifyReread, TInv, TypeOK
  <2>2. CASE ~VEnd(v)
    <3>1. vid[v] \in Ids /\ row[vid[v]] # NoRow
      BY <1>4, <2>2 DEF VerifyReread, TInv, HasTarget
    <3>2. QED
      BY <1>4, <2>2, <3>1, RowReceipt DEF VerifyReread, VGo, VerifyTyped, LockTyped, TInv,
         TypeOK, HasTarget, VerifySteps
  <2>3. QED
    BY <2>1, <2>2
<1>5. CASE VerifyOpen(v)
  BY <1>5, VEndTypes, VGoOnTypes DEF VerifyOpen, TInv, TypeOK, VerifySteps
<1>6. CASE VerifySetStatus(v)
  BY <1>6, VEndTypes, VGoOnTypes, StatusIsTyped DEF VerifySetStatus, TInv, TypeOK, VerifySteps
<1>7. CASE VerifyRecord(v)
  BY <1>7, VEndTypes, RecordTypes DEF VerifyRecord, TInv, TypeOK, Action
<1>8. QED
  BY <1>2, <1>3, <1>4, <1>5, <1>6, <1>7 DEF Verify

(* The purge. *)
PurgeTyped ==
    /\ ppc' \in PurgeSteps /\ policy' \in Policy
    /\ ptodo' \subseteq Ids /\ pstable' \subseteq Requests /\ pcand' \subseteq Requests
    /\ pcur' \in 0..MaxRequests

LEMMA PEndTypes == PEnd => PurgeTyped
BY StoreAssumption DEF PEnd, PGo, PurgeTyped, PurgeSteps, KeepAll, Policy

LEMMA PurgeOnTypes ==
    ASSUME TInv, NEW s \in PurgeSteps, PurgeOn(s)
    PROVE  PurgeTyped /\ LockTyped
BY DEF PurgeOn, PGo, PurgeTyped, LockTyped, TInv, TypeOK

LEMMA PurgeStopTypes ==
    ASSUME TInv, PurgeStop
    PROVE  PurgeTyped /\ LockTyped
BY PEndTypes, LockTypes DEF PurgeStop, Procs

LEMMA PurgeNextTypes ==
    ASSUME TInv, PurgeNext
    PROVE  PurgeTyped /\ LockTyped
<1>1. LockTyped
  BY LockTypes DEF PurgeNext, Procs
<1>2. PurgeTyped
  BY StoreAssumption DEF PurgeNext, PGo, PurgeTyped, TInv, TypeOK, PurgeSteps
<1>3. QED
  BY <1>1, <1>2

LEMMA PurgeKeepsTInv ==
    ASSUME TInv, PurgeStep \/ \E p \in Policies : PurgeStart(p)
    PROVE  TInv'
<1> DEFINE Rows == row' \in [Ids -> Row \cup {NoRow}]
           Files == file' \in [Paths -> File \cup {NoFile}]
           Logs == log' \in [Requests -> SUBSET Action]
           Flushes == unflushed' \subseteq Paths
           Good == /\ PurgeTyped /\ LockTyped /\ Rows /\ Files /\ Logs /\ Flushes
                   /\ PurgeKeeps
<1>1. SUFFICES Good
  BY DEF TInv, TypeOK, Arrived, HasTarget, PurgeTyped, LockTyped, PurgeKeeps,
     depositVars, verifyVars
<1>2. ASSUME NEW p \in Policies, PurgeStart(p)
      PROVE  Good
  BY <1>2, SentinelAssumption DEF PurgeStart, PGo, PurgeTyped, LockTyped, TInv, TypeOK,
     PurgeSteps, storeVars
<1>3. ASSUME NEW id \in Ids, Settle(id)
      PROVE  Good
  <2>1. row[id] # NoRow => row[id].at \in Requests
    BY RowReceipt
  <2>2. QED
    BY <1>3, <2>1, PEndTypes DEF Settle, PurgeTyped, LockTyped, TInv, TypeOK, storeVars
<1>4. CASE Choose
  BY <1>4 DEF Choose, Candidates, PGo, PurgeTyped, LockTyped, TInv, TypeOK, PurgeSteps, storeVars
<1>5. ASSUME NEW r \in pcand, PurgeAcquire(r)
      PROVE  Good
  <2>1. LockTyped
    BY <1>5, LockTypes DEF PurgeAcquire, Procs
  <2>2. r \in 0..MaxRequests
    BY <1>5, StoreAssumption DEF TInv, TypeOK, Requests
  <2>3. QED
    BY <1>5, <2>1, <2>2 DEF PurgeAcquire, PGo, PurgeTyped, TInv, TypeOK, PurgeSteps, storeVars
<1>6. CASE PurgeReread
  BY <1>6, PurgeOnTypes, PurgeNextTypes, PurgeStopTypes
  DEF PurgeReread, TInv, TypeOK, PurgeSteps, storeVars
<1>7. CASE PurgeRequest
  BY <1>7, PurgeOnTypes, PurgeStopTypes, RecordTypes
  DEF PurgeRequest, TInv, TypeOK, PurgeSteps, Action
<1>8. CASE PurgeRemove
  BY <1>8, PurgeOnTypes, PurgeStopTypes DEF PurgeRemove, TInv, TypeOK, PurgeSteps
<1>9. CASE PurgeDelete
  BY <1>9, PurgeOnTypes, PurgeStopTypes DEF PurgeDelete, TInv, TypeOK, PurgeSteps
<1>10. CASE PurgeLog
  BY <1>10, PurgeNextTypes, PurgeStopTypes, RecordTypes DEF PurgeLog, TInv, TypeOK, Action
<1>11. CASE PurgeEnd
  BY <1>11, PEndTypes DEF PurgeEnd, LockTyped, TInv, TypeOK, storeVars
<1>12. QED
  BY <1>2, <1>3, <1>4, <1>5, <1>6, <1>7, <1>8, <1>9, <1>10, <1>11 DEF PurgeStep

(* The world. *)
LEMMA DieKeepsTypes ==
    ASSUME TInv, NEW hs, Die(hs), file' \in [Paths -> File \cup {NoFile}], unflushed' \subseteq Paths
    PROVE  TInv'
<1>1. PurgeTyped
  BY PEndTypes DEF Die, PurgeTyped, purgeVars, TInv, TypeOK
<1>2. LockTyped
  BY DEF Die, LockTyped, TInv, TypeOK
<1>3. /\ pc' \in [Requests -> DepositSteps]
      /\ \A q \in Requests : pc'[q] # "new" => pc[q] # "new"
  BY DEF Die, InFlight, Idle, DepositSteps, TInv, TypeOK
<1>4. VerifyTyped
  BY StoreAssumption DEF Die, VerifyTyped, VerifySteps, TInv, TypeOK, HasTarget
<1>5. crashes' \in 0..MaxCrashes
  BY StoreAssumption DEF Die, TInv, TypeOK
<1>6. QED
  BY <1>1, <1>2, <1>3, <1>4, <1>5 DEF Die, TInv, TypeOK, Arrived, HasTarget, PurgeTyped,
     LockTyped, VerifyTyped

LEMMA WorldKeepsTInv ==
    ASSUME TInv, Crash \/ PowerLoss \/ Flush \/ \E p \in Paths : Damage(p)
    PROVE  TInv'
<1>1. CASE Crash
  BY <1>1, DieKeepsTypes DEF Crash, TInv, TypeOK
<1>2. CASE PowerLoss
  <2>1. file' \in [Paths -> File \cup {NoFile}] /\ unflushed' \subseteq Paths
    BY <1>2 DEF PowerLoss, TInv, TypeOK
  <2>2. QED
    BY <1>2, <2>1, DieKeepsTypes DEF PowerLoss
<1>3. CASE Flush
  BY <1>3 DEF Flush, TInv, TypeOK, Arrived, HasTarget, storeVars, depositVars, verifyVars, purgeVars
<1>4. ASSUME NEW p \in Paths, Damage(p)
      PROVE  TInv'
  <2>1. file[p] \in File
    BY <1>4 DEF Damage, TInv, TypeOK
  <2>2. file[p].by \in Requests /\ [file[p] EXCEPT !.body = Garbage] \in File
    BY <2>1 DEF File
  <2>3. file' \in [Paths -> File \cup {NoFile}]
    BY <1>4, <2>2 DEF Damage, TInv, TypeOK
  <2>4. QED
    BY <1>4, <2>2, <2>3 DEF Damage, TInv, TypeOK, Arrived, HasTarget, depositVars,
       verifyVars, purgeVars
<1>5. QED
  BY <1>1, <1>2, <1>3, <1>4

LEMMA NextKeepsTInv == TInv /\ [Next]_vars => TInv'
<1>1. ASSUME TInv, Next
      PROVE  TInv'
  BY <1>1, DepositKeepsTInv, VerifyKeepsTInv, PurgeKeepsTInv, WorldKeepsTInv DEF Next
<1>2. ASSUME TInv, UNCHANGED vars
      PROVE  TInv'
  BY <1>2 DEF TInv, TypeOK, Arrived, HasTarget, vars, storeVars, depositVars, verifyVars,
     purgeVars, worldVars
<1>3. QED
  BY <1>1, <1>2

LEMMA AlwaysTInv == Spec => []TInv
BY InitTInv, NextKeepsTInv, PTL DEF Spec

(* Every reachable state of the store is well typed. *)
THEOREM StoreTypeCorrect == Spec => []TypeOK
<1>1. TInv => TypeOK
  BY DEF TInv
<1>2. QED
  BY <1>1, AlwaysTInv, PTL

----------------------------------------------------------------------------
(* Part 1. Safety.  Each theorem follows from one invariant, SInv, about who *)
(* owns a row and a file; its proof sorts the steps by what they do to the   *)
(* row, the file, the log and the purge.                                     *)

Settled == {"done", "dead"}
Owning == {"record", "link", "rollback"}
Removing == {"request", "remove", "delete"}

(* A row is its depositor's until it is published or withdrawn. *)
Mine == \A r \in Requests :
    pc[r] \in Owning => row[IdOf(r)] # NoRow /\ row[IdOf(r)].at = r

(* A file is at the path, under the ID, of a deposit past its link. *)
FileOf == \A p \in Paths : file[p] # NoFile =>
    LET r == file[p].by
    IN p = PathFor(r) /\ file[p].id = IdOf(r) /\ pc[r] \in Settled \cup {"publish"}

Announced == \A r \in Requests : pc[r] = "link" => "capsule_deposited" \in log[r]

(* A purge chooses among capsules older than its window, whose deposits are *)
(* long over.                                                               *)
Old == ppc # "idle" => \A r \in Requests : r <= policy.recent => pc[r] \in Settled
Chosen == \A r \in pcand : ppc # "idle" /\ r <= policy.recent
Current == ppc \in {"reread", "log"} \cup Removing => pcur \in pcand

(* The row a purge re-read stays that row until the purge deletes it, and   *)
(* the file goes first.                                                     *)
PurgeRow == ppc \in Removing => row[IdOf(pcur)] # NoRow /\ row[IdOf(pcur)].at = pcur
PurgeGone == ppc = "delete" => \A p \in Paths : file[p] # NoFile => file[p].by # pcur

PurgeInv == Old /\ Chosen /\ Current /\ PurgeRow /\ PurgeGone
SInv == TInv /\ Mine /\ FileOf /\ Announced /\ PurgeInv
             /\ NoUndescribedFile /\ FileHasEntry /\ TempIsInFlight

LEMMA InitSInv == Init => SInv
BY InitTInv DEF Init, SInv, PurgeInv, Mine, FileOf, Announced, Old, Chosen, Current, PurgeRow,
   PurgeGone, NoUndescribedFile, FileHasEntry, TempIsInFlight, Owning, Removing

----------------------------------------------------------------------------
(* What steps do.  Deposits move on and settle for good, the log grows, and *)
(* what a deposit brought does not change.                                  *)
TempSteps == {"insert", "record", "link", "rollback", "publish", "dead"}
Onward == \A r \in Requests :
    /\ pc[r] \in Settled => pc'[r] = pc[r]
    /\ pc[r] = "publish" => pc'[r] \in Settled \cup {"publish"}
    /\ pc[r] # "new" => req'[r] = req[r]
    /\ log[r] \subseteq log'[r]
    /\ pc'[r] = "link" => pc[r] = "link" \/ "capsule_deposited" \in log'[r]
    /\ r \in tmp' => pc'[r] \in TempSteps \/ (r \in tmp /\ pc'[r] = pc[r])
OwnersStay == \A r \in Requests : pc'[r] \in Owning => pc[r] \in Owning

RowsStay == \A id \in Ids :
    /\ row'[id] = NoRow <=> row[id] = NoRow
    /\ row[id] # NoRow => row'[id].at = row[id].at
FilesStay == \A p \in Paths : file'[p] # NoFile =>
    file[p] # NoFile /\ file'[p].by = file[p].by /\ file'[p].id = file[p].id
PurgeStays == UNCHANGED purgeVars \/ PEnd
Quiet == OwnersStay /\ RowsStay /\ FilesStay /\ PurgeStays

LEMMA StatusKeepsRows ==
    ASSUME TInv, NEW id, NEW s \in {"active", "corrupt"}, SetStatus(id, s)
    PROVE  RowsStay
BY SentinelAssumption DEF TInv, TypeOK, SetStatus, Row, RowsStay

LEMMA RecordGrows ==
    ASSUME TInv, NEW r \in Requests, NEW act, Record(act, r)
    PROVE  (\A q \in Requests : log[q] \subseteq log'[q]) /\ act \in log'[r]
BY DEF TInv, TypeOK, Record

(* Every deposit step is onward, and but four of them are quiet. *)
LEMMA DepositOnward ==
    ASSUME TInv, TempIsInFlight, NEW r \in Requests, Deposit(r)
    PROVE  /\ Onward
           /\ Quiet \/ InsertRow(r) \/ Rollback(r) \/ Link(r)
<1>1. ASSUME NEW c \in Container, Receive(r, c)
      PROVE  Onward /\ Quiet
  BY <1>1 DEF Receive, Go, Decide, DepositKeeps, TInv, TypeOK, storeVars, Onward, Quiet, OwnersStay,
     RowsStay, FilesStay, PurgeStays, Settled, Owning, TempSteps, TempIsInFlight
<1>2. CASE AcquireDeposit(r)
  BY <1>2 DEF AcquireDeposit, Go, Decide, Finish, DepositKeeps, TInv, TypeOK, storeVars,
     Onward, Quiet, OwnersStay, RowsStay, FilesStay, PurgeStays, Settled, Owning, TempSteps, TempIsInFlight
<1>3. CASE CheckRow(r)
  BY <1>3 DEF CheckRow, Go, Decide, Finish, DepositKeeps, TInv, TypeOK, storeVars,
     Onward, Quiet, OwnersStay, RowsStay, FilesStay, PurgeStays, Settled, Owning, TempSteps, TempIsInFlight
<1>4. CASE ReadFails(r)
  BY <1>4 DEF ReadFails, Go, Decide, Finish, DepositKeeps, TInv, TypeOK, storeVars,
     Onward, Quiet, OwnersStay, RowsStay, FilesStay, PurgeStays, Settled, Owning, TempSteps, TempIsInFlight
<1>5. CASE StatFile(r)
  BY <1>5 DEF StatFile, Go, Decide, Finish, DepositKeeps, TInv, TypeOK, storeVars,
     Onward, Quiet, OwnersStay, RowsStay, FilesStay, PurgeStays, Settled, Owning, TempSteps, TempIsInFlight
<1>6. CASE MarkMissing(r)
  BY <1>6, StatusKeepsRows DEF MarkMissing, Go, Decide, Finish, DepositKeeps, TInv, TypeOK, storeVars,
     Onward, Quiet, OwnersStay, RowsStay, FilesStay, PurgeStays, Settled, Owning, TempSteps, TempIsInFlight
<1>7. CASE WriteTemp(r)
  BY <1>7 DEF WriteTemp, Go, Decide, Finish, DepositKeeps, TInv, TypeOK, storeVars,
     Onward, Quiet, OwnersStay, RowsStay, FilesStay, PurgeStays, Settled, Owning, TempSteps, TempIsInFlight
<1>8. CASE InsertRow(r)
  <2>1. Onward
    BY <1>8 DEF InsertRow, Go, Decide, Finish, DepositKeeps, TInv, TypeOK, Onward, Settled, Owning,
       TempSteps, TempIsInFlight
  <2>2. QED
    BY <1>8, <2>1
<1>9. CASE InsertLoses(r)
  BY <1>9 DEF InsertLoses, Go, Decide, Finish, DepositKeeps, TInv, TypeOK, storeVars,
     Onward, Quiet, OwnersStay, RowsStay, FilesStay, PurgeStays, Settled, Owning, TempSteps, TempIsInFlight
<1>10. CASE InsertFails(r)
  BY <1>10 DEF InsertFails, Go, Decide, Finish, DepositKeeps, TInv, TypeOK, storeVars,
     Onward, Quiet, OwnersStay, RowsStay, FilesStay, PurgeStays, Settled, Owning, TempSteps, TempIsInFlight
<1>11. CASE Reread(r)
  BY <1>11 DEF Reread, Go, Decide, Finish, DepositKeeps, TInv, TypeOK, storeVars,
     Onward, Quiet, OwnersStay, RowsStay, FilesStay, PurgeStays, Settled, Owning, TempSteps, TempIsInFlight
<1>12. CASE RecordDeposit(r)
  BY <1>12, RecordGrows DEF RecordDeposit, Go, Decide, Finish, DepositKeeps, TInv, TypeOK, storeVars,
     Onward, Quiet, OwnersStay, RowsStay, FilesStay, PurgeStays, Settled, Owning, TempSteps, TempIsInFlight
<1>13. CASE Link(r)
  <2>1. Onward
    BY <1>13 DEF Link, Go, Decide, Finish, DepositKeeps, TInv, TypeOK, Onward, Settled, Owning,
       TempSteps, TempIsInFlight
  <2>2. QED
    BY <1>13, <2>1
<1>14. CASE Rollback(r)
  <2>1. Onward
    BY <1>14 DEF Rollback, Go, Decide, Finish, DepositKeeps, TInv, TypeOK, Onward, Settled, Owning,
       TempSteps, TempIsInFlight
  <2>2. QED
    BY <1>14, <2>1
<1>15. CASE Correct(r)
  BY <1>15, RecordGrows DEF Correct, Go, Decide, Finish, DepositKeeps, TInv, TypeOK, storeVars,
     Onward, Quiet, OwnersStay, RowsStay, FilesStay, PurgeStays, Settled, Owning, TempSteps, TempIsInFlight
<1>16. CASE Publish(r)
  BY <1>16 DEF Publish, Go, Decide, Finish, DepositKeeps, TInv, TypeOK, storeVars,
     Onward, Quiet, OwnersStay, RowsStay, FilesStay, PurgeStays, Settled, Owning, TempSteps, TempIsInFlight
<1>17. QED
  BY <1>1, <1>2, <1>3, <1>4, <1>5, <1>6, <1>7, <1>8, <1>9, <1>10, <1>11, <1>12, <1>13, <1>14, <1>15, <1>16 DEF Deposit

(* So is a verification step: it can touch the status of a row and the log. *)
LEMMA VerifyOnward ==
    ASSUME TInv, TempIsInFlight, NEW v \in Verifiers, Verify(v)
    PROVE  Onward /\ Quiet
<1>1. RowsStay
  <2>1. CASE VerifySetStatus(v)
    BY <2>1, StatusKeepsRows DEF VerifySetStatus, TInv, TypeOK, RowsStay
  <2>2. CASE UNCHANGED row
    BY <2>2 DEF RowsStay
  <2>3. QED
    BY <2>1, <2>2 DEF Verify, VerifyStart, VerifyAcquire, VerifyReread, VerifyOpen, VerifyRecord
<1>2. \A r \in Requests : log[r] \subseteq log'[r]
  <2>1. CASE VerifyRecord(v)
    BY <2>1 DEF VerifyRecord, Record, TInv, TypeOK
  <2>2. CASE UNCHANGED log
    BY <2>2
  <2>3. QED
    BY <2>1, <2>2 DEF Verify, VerifyStart, VerifyAcquire, VerifyReread, VerifyOpen, VerifySetStatus
<1>3. UNCHANGED <<file, depositVars, purgeVars>>
  BY DEF Verify, VerifyStart, VerifyAcquire, VerifyReread, VerifyOpen, VerifySetStatus,
     VerifyRecord, VerifyKeeps
<1>4. QED
  BY <1>1, <1>2, <1>3 DEF Onward, Quiet, OwnersStay, RowsStay, FilesStay, PurgeStays, depositVars

(* A crash kills deposits in flight and the purge, and takes files at most. *)
LEMMA WorldOnward ==
    ASSUME TInv, TempIsInFlight, Crash \/ PowerLoss \/ Flush \/ \E p \in Paths : Damage(p)
    PROVE  Onward /\ Quiet
<1>1. ASSUME NEW hs, Die(hs), FilesStay
      PROVE  Onward /\ Quiet
  BY <1>1 DEF Die, InFlight, Idle, TInv, TypeOK, TempIsInFlight, TempSteps, Settled, Owning,
     Onward, Quiet, OwnersStay, RowsStay, PurgeStays
<1>2. CASE Crash
  BY <1>1, <1>2 DEF Crash, FilesStay
<1>3. CASE PowerLoss
  <2>1. FilesStay
    BY <1>3 DEF PowerLoss, FilesStay
  <2>2. QED
    BY <1>1, <1>3, <2>1 DEF PowerLoss
<1>4. CASE Flush
  BY <1>4 DEF Flush, Onward, Quiet, OwnersStay, RowsStay, FilesStay, PurgeStays, storeVars,
     depositVars
<1>5. ASSUME NEW p \in Paths, Damage(p)
      PROVE  Onward /\ Quiet
  <2>1. file[p] \in File
    BY <1>5 DEF Damage, TInv, TypeOK
  <2>2. FilesStay
    BY <1>5, <2>1 DEF Damage, FilesStay, File, TInv, TypeOK
  <2>3. QED
    BY <1>5, <2>2 DEF Damage, Onward, Quiet, OwnersStay, RowsStay, PurgeStays, depositVars
<1>6. QED
  BY <1>2, <1>3, <1>4, <1>5

(* A purge step leaves the deposits alone, and all but one the rows too. *)
LEMMA PurgeOnward ==
    ASSUME TInv, TempIsInFlight, PurgeStep \/ \E p \in Policies : PurgeStart(p)
    PROVE  /\ Onward /\ OwnersStay /\ FilesStay /\ UNCHANGED depositVars
           /\ RowsStay \/ PurgeDelete
<1>1. UNCHANGED depositVars
  BY DEF PurgeStep, PurgeStart, Settle, Choose, PurgeAcquire, PurgeReread, PurgeRequest,
     PurgeRemove, PurgeDelete, PurgeLog, PurgeEnd, PurgeKeeps
<1>2. FilesStay
  <2>1. CASE PurgeRemove
    BY <2>1 DEF PurgeRemove, FilesStay, TInv, TypeOK
  <2>2. CASE UNCHANGED file
    BY <2>2 DEF FilesStay
  <2>3. QED
    BY <2>1, <2>2 DEF PurgeStep, PurgeStart, Settle, Choose, PurgeAcquire, PurgeReread,
       PurgeRequest, PurgeDelete, PurgeLog, PurgeEnd, storeVars
<1>3. UNCHANGED row \/ PurgeDelete
  BY DEF PurgeStep, PurgeStart, Settle, Choose, PurgeAcquire, PurgeReread,
     PurgeRequest, PurgeRemove, PurgeLog, PurgeEnd, storeVars
<1>4. \A r \in Requests : log[r] \subseteq log'[r]
  <2>1. CASE PurgeRequest \/ PurgeLog
    BY <2>1 DEF PurgeRequest, PurgeLog, Record, TInv, TypeOK
  <2>2. CASE UNCHANGED log
    BY <2>2
  <2>3. QED
    BY <2>1, <2>2 DEF PurgeStep, PurgeStart, Settle, Choose, PurgeAcquire, PurgeReread,
       PurgeRemove, PurgeDelete, PurgeEnd, storeVars
<1>5. QED
  BY <1>1, <1>2, <1>3, <1>4 DEF Onward, OwnersStay, RowsStay, depositVars

----------------------------------------------------------------------------
(* Preservation, by what a step does. *)

(* An onward step keeps what the chain and the temporary files say. *)
LEMMA OnwardKeeps ==
    ASSUME SInv, TInv', Onward
    PROVE  /\ Announced' /\ TempIsInFlight'
           /\ FilesStay => FileHasEntry' /\ FileOf'
<1>1. Announced' /\ TempIsInFlight'
  BY DEF SInv, Announced, TempIsInFlight, TempSteps, Onward, TInv, TypeOK
<1>2. ASSUME FilesStay, NEW p \in Paths, file'[p] # NoFile
      PROVE  /\ "capsule_deposited" \in log'[file'[p].by]
             /\ LET r == file'[p].by
                IN p = PathOf[req'[r].id] /\ file'[p].id = req'[r].id
                   /\ pc'[r] \in Settled \cup {"publish"}
  <2>1. file[p] \in File /\ file'[p].by = file[p].by /\ file'[p].id = file[p].id
    BY <1>2 DEF SInv, TInv, TypeOK, FilesStay
  <2>2. file[p].by \in Requests
    BY <2>1 DEF File
  <2>3. QED
    BY <1>2, <2>1, <2>2 DEF SInv, FileHasEntry, FileOf, Onward, Settled, FilesStay, PathFor, IdOf
<1>3. QED
  BY <1>1, <1>2 DEF FileHasEntry, FileOf, PathFor, IdOf

(* The capsule a purge is at was deposited long ago. *)
LEMMA PurgedIsSettled ==
    ASSUME SInv, ppc \in {"reread", "log"} \cup Removing
    PROVE  pcur \in Requests /\ pc[pcur] \in Settled /\ IdOf(pcur) \in Ids
<1>1. pcur \in Requests /\ pc[pcur] \in Settled
  BY DEF SInv, PurgeInv, Current, Chosen, Old, TInv, TypeOK
<1>2. QED
  BY <1>1, ArrivedBytes DEF Settled, SInv

(* A step of anyone else keeps the purge's part, if it spares its row and  *)
(* restores no file of it.                                                 *)
LEMMA OthersKeepPurge ==
    ASSUME SInv, TInv', Onward, UNCHANGED purgeVars,
           ppc \in Removing => row'[IdOf(pcur)] # NoRow /\ row'[IdOf(pcur)].at = pcur,
           \A p \in Paths : file'[p] # NoFile /\ file[p] # file'[p] => pc[file'[p].by] \notin Settled
                                \/ (file[p] # NoFile /\ file'[p].by = file[p].by)
    PROVE  PurgeInv'
<1>1. Old' /\ Chosen' /\ Current'
  BY DEF SInv, PurgeInv, Old, Chosen, Current, Onward, purgeVars
<1>2. PurgeRow'
  <2>1. CASE ppc \in Removing
    <3>1. pcur' = pcur /\ req'[pcur] = req[pcur] /\ row'[req[pcur].id] # NoRow
          /\ row'[req[pcur].id].at = pcur
      BY <2>1, PurgedIsSettled DEF Onward, Settled, purgeVars, IdOf
    <3>2. QED
      BY <3>1 DEF PurgeRow, IdOf
  <2>2. QED
    BY <2>1 DEF PurgeRow, purgeVars
<1>3. PurgeGone'
  BY PurgedIsSettled DEF SInv, PurgeInv, PurgeGone, Removing, purgeVars
<1>4. QED
  BY <1>1, <1>2, <1>3 DEF PurgeInv

LEMMA EndedPurge == PEnd => PurgeInv'
BY DEF PEnd, PGo, PurgeInv, Old, Chosen, Current, PurgeRow, PurgeGone, Removing

(* Files whose rows stay are described still. *)
LEMMA StayingRows ==
    ASSUME SInv, TInv', Onward, RowsStay, OwnersStay
    PROVE  /\ Mine' /\ (FilesStay => NoUndescribedFile')
           /\ ppc \in Removing => row'[IdOf(pcur)] # NoRow /\ row'[IdOf(pcur)].at = pcur
<1>1. Mine'
  <2>1. SUFFICES ASSUME NEW r \in Requests, pc'[r] \in Owning
                 PROVE  row'[req'[r].id] # NoRow /\ row'[req'[r].id].at = r
    BY DEF Mine, IdOf
  <2>2. pc[r] \in Owning /\ pc[r] # "new"
    BY <2>1 DEF OwnersStay, Owning
  <2>3. req'[r] = req[r] /\ req[r].id \in Ids /\ row[req[r].id] # NoRow /\ row[req[r].id].at = r
    BY <2>2, ArrivedBytes DEF SInv, Mine, Onward, IdOf
  <2>4. QED
    BY <2>3 DEF RowsStay
<1>2. ASSUME FilesStay, NEW p \in Paths, file'[p] # NoFile
      PROVE  row'[file'[p].id] # NoRow /\ row'[file'[p].id].at = file'[p].by
  <2>1. file[p] # NoFile /\ file[p] \in File /\ file'[p].by = file[p].by /\ file'[p].id = file[p].id
    BY <1>2 DEF FilesStay, SInv, TInv, TypeOK
  <2>2. file[p].id \in Ids
    BY <2>1 DEF File
  <2>3. QED
    BY <2>1, <2>2 DEF SInv, NoUndescribedFile, RowsStay
<1>3. ppc \in Removing => row'[IdOf(pcur)] # NoRow /\ row'[IdOf(pcur)].at = pcur
  BY PurgedIsSettled DEF SInv, PurgeInv, PurgeRow, RowsStay
<1>4. QED
  BY <1>1, <1>2, <1>3 DEF NoUndescribedFile

LEMMA QuietKeeps ==
    ASSUME SInv, TInv', Onward, Quiet
    PROVE  SInv'
<1>1. PurgeInv'
  <2>1. CASE UNCHANGED purgeVars
    BY <2>1, OthersKeepPurge, StayingRows DEF Quiet, FilesStay
  <2>2. QED
    BY <2>1, EndedPurge DEF Quiet, PurgeStays
<1>2. QED
  BY <1>1, OnwardKeeps, StayingRows DEF SInv, Quiet

LEMMA InsertKeeps ==
    ASSUME SInv, TInv', Onward, NEW r \in Requests, InsertRow(r)
    PROVE  SInv'
<1>1. /\ pc[r] = "insert" /\ IdOf(r) \in Ids /\ row[IdOf(r)] = NoRow
      /\ row' = [row EXCEPT ![IdOf(r)] = NewRow(r)] /\ NewRow(r) # NoRow /\ NewRow(r).at = r
      /\ UNCHANGED file /\ UNCHANGED purgeVars /\ UNCHANGED req
  BY ArrivedBytes, SentinelAssumption DEF InsertRow, DepositKeeps, SInv, NewRow, Row
<1>2. FilesStay
  BY <1>1 DEF FilesStay
<1>3. \A id \in Ids : row[id] # NoRow => row'[id] = row[id]
  BY <1>1 DEF SInv, TInv, TypeOK
<1>4. row'[IdOf(r)] = NewRow(r)
  BY <1>1 DEF SInv, TInv, TypeOK
<1>5. Mine'
  <2>1. SUFFICES ASSUME NEW q \in Requests, pc'[q] \in Owning
                 PROVE  row'[IdOf(q)] # NoRow /\ row'[IdOf(q)].at = q
    BY <1>1 DEF Mine, IdOf
  <2>2. CASE q = r
    BY <1>1, <1>4, <2>2
  <2>3. CASE q # r
    <3>1. pc[q] \in Owning
      BY <2>1, <2>3 DEF InsertRow, Go, SInv, TInv, TypeOK
    <3>2. QED
      BY <1>3, <3>1, ArrivedBytes DEF SInv, Mine, Owning
  <2>4. QED
    BY <2>2, <2>3
<1>6. NoUndescribedFile'
  BY <1>1, <1>3 DEF SInv, NoUndescribedFile, TInv, TypeOK, File
<1>7. PurgeInv'
  <2>1. ppc \in Removing => row'[IdOf(pcur)] # NoRow /\ row'[IdOf(pcur)].at = pcur
    BY <1>3, PurgedIsSettled DEF SInv, PurgeInv, PurgeRow
  <2>2. QED
    BY <1>1, <2>1, OthersKeepPurge
<1>8. QED
  BY <1>2, <1>5, <1>6, <1>7, OnwardKeeps DEF SInv

LEMMA RollbackKeeps ==
    ASSUME SInv, TInv', Onward, NEW r \in Requests, Rollback(r)
    PROVE  SInv'
<1>1. /\ pc[r] = "rollback" /\ IdOf(r) \in Ids /\ UNCHANGED file /\ UNCHANGED purgeVars
      /\ UNCHANGED req /\ (row' = [row EXCEPT ![IdOf(r)] = NoRow] \/ UNCHANGED row)
  BY ArrivedBytes DEF Rollback, DepositKeeps, SInv
<1>2. FilesStay /\ OwnersStay
  BY DEF Rollback, Finish, Go, SInv, TInv, TypeOK, FilesStay, OwnersStay, Owning
<1>3. CASE UNCHANGED row
  <2>1. RowsStay
    BY <1>3 DEF RowsStay
  <2>2. QED
    BY <1>1, <1>2, <2>1, QuietKeeps DEF Quiet, PurgeStays
<1>4. CASE row' = [row EXCEPT ![IdOf(r)] = NoRow]
  <2>1. row[IdOf(r)] # NoRow /\ row[IdOf(r)].at = r
    BY <1>1 DEF SInv, Mine, Owning
  <2>2. \A id \in Ids : row[id] # NoRow /\ row[id].at # r => row'[id] = row[id]
    BY <1>4, <2>1 DEF SInv, TInv, TypeOK
  <2>3. Mine'
    <3>1. SUFFICES ASSUME NEW q \in Requests, pc'[q] \in Owning
                   PROVE  row'[IdOf(q)] # NoRow /\ row'[IdOf(q)].at = q
      BY <1>1 DEF Mine, IdOf
    <3>2. pc[q] \in Owning /\ q # r
      BY <3>1, <1>2 DEF OwnersStay, Rollback, Finish, Go, SInv, TInv, TypeOK, Owning
    <3>3. QED
      BY <2>2, <3>2, ArrivedBytes DEF SInv, Mine, Owning
  <2>4. NoUndescribedFile'
    BY <1>1, <2>2, ZenonT(30) DEF SInv, NoUndescribedFile, FileOf, Settled, TInv, TypeOK, File
  <2>5. PurgeInv'
    <3>1. ppc \in Removing => row'[IdOf(pcur)] # NoRow /\ row'[IdOf(pcur)].at = pcur
      BY <1>1, <2>2, PurgedIsSettled DEF SInv, PurgeInv, PurgeRow, Settled
    <3>2. QED
      BY <1>1, <3>1, OthersKeepPurge
  <2>6. QED
    BY <1>2, <2>3, <2>4, <2>5, OnwardKeeps DEF SInv
<1>5. QED
  BY <1>1, <1>3, <1>4

LEMMA LinkKeeps ==
    ASSUME SInv, TInv', Onward, NEW r \in Requests, Link(r)
    PROVE  SInv'
<1>1. /\ pc[r] = "link" /\ IdOf(r) \in Ids /\ PathFor(r) \in Paths /\ Bytes(r) \in File
      /\ UNCHANGED <<row, log, req>> /\ UNCHANGED purgeVars
  BY ArrivedBytes DEF Link, DepositKeeps, SInv
<1>2. RowsStay /\ OwnersStay
  BY DEF Link, Go, SInv, TInv, TypeOK, RowsStay, OwnersStay, Owning
<1>3. CASE UNCHANGED file
  <2>1. FilesStay
    BY <1>3 DEF FilesStay
  <2>2. QED
    BY <1>1, <1>2, <2>1, QuietKeeps DEF Quiet, PurgeStays
<1>4. CASE file' = [file EXCEPT ![PathFor(r)] = Bytes(r)] /\ Go(r, "publish")
  <2>1. \A p \in Paths : file'[p] = IF p = PathFor(r) THEN Bytes(r) ELSE file[p]
    BY <1>4 DEF SInv, TInv, TypeOK
  <2>2. /\ Bytes(r).by = r /\ Bytes(r).id = IdOf(r) /\ row[IdOf(r)] # NoRow
        /\ row[IdOf(r)].at = r /\ "capsule_deposited" \in log[r]
    BY <1>1 DEF Bytes, SInv, Mine, Owning, Announced
  <2>3. FileOf'
    <3>1. SUFFICES ASSUME NEW p \in Paths, file'[p] # NoFile
                   PROVE  LET q == file'[p].by
                          IN p = PathFor(q) /\ file'[p].id = IdOf(q)
                             /\ pc'[q] \in Settled \cup {"publish"}
      BY <1>1 DEF FileOf, PathFor, IdOf
    <3>2. CASE p = PathFor(r)
      BY <1>4, <2>1, <2>2, <3>2 DEF Go, SInv, TInv, TypeOK
    <3>3. CASE p # PathFor(r)
      <4>1. file'[p] = file[p] /\ file[p] \in File /\ file[p].by \in Requests
        BY <2>1, <3>1, <3>3 DEF SInv, TInv, TypeOK, File
      <4>2. QED
        BY <3>1, <4>1 DEF SInv, FileOf, Onward, Settled
    <3>4. QED
      BY <3>2, <3>3
  <2>4. FileHasEntry'
    BY <1>1, <2>1, <2>2 DEF SInv, FileHasEntry
  <2>5. NoUndescribedFile'
    BY <1>1, <2>1, <2>2 DEF SInv, NoUndescribedFile
  <2>6. PurgeInv'
    BY <1>1, <1>2, <2>1, <2>2, StayingRows, OthersKeepPurge DEF Settled
  <2>7. QED
    BY <1>1, <1>2, <2>3, <2>4, <2>5, <2>6, StayingRows, OnwardKeeps DEF SInv
<1>5. QED
  BY <1>3, <1>4 DEF Link

(* A purge step: each part of PurgeInv is set up by the step before. *)
LEMMA DeleteKeepsSInv ==
    ASSUME SInv, TInv', Onward, OwnersStay, FilesStay, UNCHANGED depositVars, PurgeDelete
    PROVE  SInv'
<1>1. /\ ppc = "delete" /\ IdOf(pcur) \in Ids /\ pcur \in Requests /\ pc[pcur] \in Settled
      /\ row[IdOf(pcur)] # NoRow /\ row[IdOf(pcur)].at = pcur
      /\ \A p \in Paths : file[p] # NoFile => file[p].by # pcur
      /\ UNCHANGED <<file, req, pc>>
  BY PurgedIsSettled DEF PurgeDelete, SInv, PurgeInv, PurgeRow, PurgeGone, Removing, depositVars
<1>2. CASE UNCHANGED row /\ PEnd
  BY <1>2, QuietKeeps DEF Quiet, PurgeStays, RowsStay
<1>3. CASE row' = [row EXCEPT ![IdOf(pcur)] = NoRow] /\ PurgeOn("log")
  <2>1. \A id \in Ids : row[id] # NoRow /\ row[id].at # pcur => row'[id] = row[id]
    BY <1>1, <1>3 DEF SInv, TInv, TypeOK
  <2>2. Mine'
    BY <1>1, <2>1, ArrivedBytes DEF SInv, Mine, Owning, Settled, IdOf
  <2>3. NoUndescribedFile'
    BY <1>1, <2>1 DEF SInv, NoUndescribedFile, TInv, TypeOK, File
  <2>4. PurgeInv'
    BY <1>1, <1>3 DEF PurgeOn, PGo, SInv, PurgeInv, Old, Chosen, Current, PurgeRow, PurgeGone,
       Removing
  <2>5. QED
    BY <2>2, <2>3, <2>4, OnwardKeeps DEF SInv
<1>4. QED
  BY <1>2, <1>3 DEF PurgeDelete, PurgeStop

LEMMA PurgeKeepsPurgeInv ==
    ASSUME SInv, TInv', UNCHANGED depositVars, ~PEnd,
           PurgeStep \/ \E p \in Policies : PurgeStart(p), ~PurgeDelete
    PROVE  PurgeInv'
<1>1. UNCHANGED <<pc, req>>
  BY DEF depositVars
<1>2. ASSUME NEW p \in Policies, PurgeStart(p)
      PROVE  PurgeInv'
  <2>1. p.recent \in Nat /\ Requests \subseteq Nat
    BY StoreAssumption, SentinelAssumption DEF Policy, Requests
  <2>2. Old'
    BY <1>1, <1>2, <2>1 DEF PurgeStart, Old, Settled
  <2>3. pcand' = {} /\ ppc' = "settle"
    BY <1>2 DEF PurgeStart, PGo, SInv, PurgeInv, Chosen
  <2>4. QED
    BY <2>2, <2>3 DEF PurgeInv, Chosen, Current, PurgeRow, PurgeGone, Removing
<1>3. ASSUME NEW id \in Ids, Settle(id)
      PROVE  PurgeInv'
  BY <1>1, <1>3 DEF Settle, SInv, PurgeInv, Old, Chosen, Current, PurgeRow, PurgeGone, Removing
<1>4. CASE Choose
  BY <1>1, <1>4 DEF Choose, Candidates, PGo, SInv, PurgeInv, Old, Chosen, Current, PurgeRow,
     PurgeGone, Removing
<1>5. ASSUME NEW r \in pcand, PurgeAcquire(r)
      PROVE  PurgeInv'
  BY <1>1, <1>5 DEF PurgeAcquire, PGo, SInv, PurgeInv, Old, Chosen, Current, PurgeRow,
     PurgeGone, Removing
<1>6. ASSUME PurgeNext, ppc # "idle"
      PROVE  PurgeInv'
  BY <1>1, <1>6 DEF PurgeNext, PGo, SInv, PurgeInv, Old, Chosen, Current, PurgeRow,
     PurgeGone, Removing
<1>7. CASE PurgeReread
  BY <1>1, <1>6, <1>7 DEF PurgeReread, PurgeStop, PurgeOn, PGo, storeVars, SInv, PurgeInv, Old, Chosen,
     Current, PurgeRow, PurgeGone, Removing, IdOf
<1>8. CASE PurgeRequest
  BY <1>1, <1>8 DEF PurgeRequest, PurgeStop, PurgeOn, PGo, SInv, PurgeInv, Old, Chosen,
     Current, PurgeRow, PurgeGone, Removing, IdOf
<1>9. CASE PurgeRemove
  <2>1. PurgeOn("delete") /\ file' = [file EXCEPT ![PathFor(pcur)] = NoFile] /\ UNCHANGED row
    BY <1>9 DEF PurgeRemove, PurgeStop
  <2>2. \A p \in Paths : file'[p] # NoFile => file'[p].by # pcur
    BY <2>1 DEF SInv, FileOf, TInv, TypeOK
  <2>3. QED
    BY <1>1, <1>9, <2>1, <2>2 DEF PurgeRemove, PurgeOn, PGo, SInv, PurgeInv, Old, Chosen,
       Current, PurgeRow, PurgeGone, Removing, IdOf
<1>10. CASE PurgeLog
  BY <1>6, <1>10 DEF PurgeLog, PurgeStop
<1>11. CASE PurgeEnd
  BY <1>11 DEF PurgeEnd
<1>12. QED
  BY <1>2, <1>3, <1>4, <1>5, <1>7, <1>8, <1>9, <1>10, <1>11 DEF PurgeStep

LEMMA PurgeKeepsSInv ==
    ASSUME SInv, TInv', PurgeStep \/ \E p \in Policies : PurgeStart(p)
    PROVE  SInv'
<1>1. Onward /\ OwnersStay /\ FilesStay /\ UNCHANGED depositVars /\ (RowsStay \/ PurgeDelete)
  BY PurgeOnward DEF SInv
<1>2. CASE PurgeDelete
  BY <1>1, <1>2, DeleteKeepsSInv
<1>3. CASE ~PurgeDelete
  <2>1. PurgeInv'
    BY <1>1, <1>3, PurgeKeepsPurgeInv, EndedPurge
  <2>2. QED
    BY <1>1, <1>3, <2>1, OnwardKeeps, StayingRows DEF SInv
<1>4. QED
  BY <1>2, <1>3

LEMMA NextKeepsSInv == SInv /\ TInv' /\ [Next]_vars => SInv'
<1>1. ASSUME SInv, TInv', NEW r \in Requests, Deposit(r)
      PROVE  SInv'
  BY <1>1, DepositOnward, QuietKeeps, InsertKeeps, RollbackKeeps, LinkKeeps DEF SInv
<1>2. ASSUME SInv, TInv', NEW v \in Verifiers, Verify(v)
      PROVE  SInv'
  BY <1>2, VerifyOnward, QuietKeeps DEF SInv
<1>3. ASSUME SInv, TInv', Crash \/ PowerLoss \/ Flush \/ \E p \in Paths : Damage(p)
      PROVE  SInv'
  BY <1>3, WorldOnward, QuietKeeps DEF SInv
<1>4. ASSUME SInv, TInv', UNCHANGED vars
      PROVE  SInv'
  BY <1>4 DEF SInv, PurgeInv, Mine, FileOf, Announced, Old, Chosen, Current, PurgeRow,
     PurgeGone, NoUndescribedFile, FileHasEntry, TempIsInFlight, IdOf, PathFor, vars, storeVars,
     depositVars, verifyVars, purgeVars, worldVars
<1>5. QED
  BY <1>1, <1>2, <1>3, <1>4, PurgeKeepsSInv DEF Next

LEMMA AlwaysSInv == Spec => []SInv
<1>1. SInv /\ TInv /\ [Next]_vars => SInv' /\ TInv'
  BY NextKeepsSInv, NextKeepsTInv
<1>2. QED
  BY <1>1, InitSInv, InitTInv, PTL DEF Spec

----------------------------------------------------------------------------

(* Every file under capsules/ is accounted for: none without its row or its   *)
(* entry in the audit chain, and no temporary file but that of a deposit under*)
(* way or killed on the way; not in the middle of a deposit or a purge, not   *)
(* after a crash between two of their calls, whatever failed (publishCapsule, *)
(* purgeExpired).                                                             *)
THEOREM FilesStayKnown == Spec => []FilesAreKnown
<1>1. SInv => FilesAreKnown
  BY DEF SInv, FilesAreKnown
<1>2. QED
  BY <1>1, AlwaysSInv, PTL

----------------------------------------------------------------------------
(* Part 2. What the deployment the code is written for adds.                *)

(* What the deployment provides: one process on the data directory, and a   *)
(* volume on which two IDs are two paths.                                   *)
OneProcess == \A p, q \in Procs : HostOf[p] = HostOf[q]
OwnPaths == \A i, j \in Ids : PathOf[i] = PathOf[j] => i = j

----------------------------------------------------------------------------
(* The locks, for any number of processes: whoever is past acquire holds    *)
(* the lock of its ID in its process.                                       *)
Waiting == {"new", "arrived", "done", "dead"}
DepositsHold == \A r \in Requests : pc[r] \notin Waiting => lock[HostOf[r]][IdOf(r)] = r
VerifiersHold == \A v \in Verifiers :
    vpc[v] \notin {"idle", "arrived"} => lock[HostOf[v]][vid[v]] = v
PurgerHolds == ppc \in {"reread", "log"} \cup Removing => lock[HostOf[Purger]][IdOf(pcur)] = Purger
LockInv == DepositsHold /\ VerifiersHold /\ PurgerHolds

(* A row is of a deposit that inserted it, and is of its ID. *)
Inserted == {"record", "link", "rollback", "correct", "publish", "done", "dead"}
RowsHaveOwners == \A id \in Ids : row[id] # NoRow =>
    pc[row[id].at] \in Inserted /\ IdOf(row[id].at) = id

Requested(r) == "capsule_purge_requested" \in log[r]
Kept(r) == Intact(r) \/ Requested(r) \/ r \in damaged

(* A purge is announced before the file goes, and only of a settled capsule. *)
PurgeAnnounced == /\ ppc \in {"remove", "delete", "log"} => Requested(pcur)
                  /\ \A r \in Requests : Requested(r) => pc[r] \in Settled
BytesAreTheirs == \A p \in Paths : file[p] # NoFile =>
    file[p].body = req[file[p].by].body \/ file[p].by \in damaged
Published == \A r \in Requests : pc[r] = "publish" => Intact(r) \/ r \in damaged

KInv == SInv /\ RowsHaveOwners /\ PurgeAnnounced /\ BytesAreTheirs /\ Published

(* While its lock is held the row a deposit or a verifier has read stays. *)
SeenIsThere == \A r \in Requests : pc[r] \in {"stat", "mark"} =>
    row[IdOf(r)] # NoRow /\ row[IdOf(r)].at = seen[r]
VerifiedIsThere == \A v \in Verifiers :
    vpc[v] \in {"open", "active", "corrupt", "logactive", "logcorrupt"} =>
        row[vid[v]] # NoRow /\ row[vid[v]].at = vrec[v]
Refused == \A r \in Requests :
    pc[r] \in {"rollback", "correct"} => answer[r] \in {"409", "500", "503"}
HInv == KInv /\ LockInv /\ SeenIsThere /\ VerifiedIsThere /\ Refused

(* A reason for a verdict: the deposit died or was refused, the disk damaged *)
(* the bytes, or a purge was announced.                                      *)
Excused(r) == \/ pc[r] = "dead" \/ (pc[r] = "done" /\ answer[r] # "201")
              \/ r \in damaged \/ Requested(r)
Evidence ==
    /\ \A r \in Requests : pc[r] = "mark" => Excused(seen[r])
    /\ \A v \in Verifiers : vpc[v] \in {"corrupt", "logcorrupt"} => Excused(vrec[v])
    /\ \A id \in Ids : row[id] # NoRow /\ row[id].status # "active" => Excused(row[id].at)
    /\ \A r \in Requests : "capsule_corrupt" \in log[r] => Excused(r)
Receipts == \A r \in Requests : Accepted(r) =>
    Receipt(r) \in Requests /\ pc[Receipt(r)] \in Inserted
EInv == HInv /\ AckedDurable /\ Receipts /\ Evidence

----------------------------------------------------------------------------
(* The locks are held by whom they are said to be. *)

(* A step of p takes a free lock or gives back its own: it spares the others'. *)
SparesLocks(p) == \A h \in Hosts, id \in Ids, q \in Procs \ {p} :
    lock[h][id] = q => lock'[h][id] = q

LEMMA LockMoves ==
    ASSUME TInv, NEW p \in Procs, NEW id \in Ids
    PROVE  /\ UNCHANGED lock => SparesLocks(p)
           /\ Take(p, id) => SparesLocks(p) /\ lock'[HostOf[p]][id] = p
           /\ Release(p, id) /\ lock[HostOf[p]][id] = p => SparesLocks(p)
<1>1. /\ HostOf[p] \in Hosts /\ NoProc \notin Procs
      /\ lock \in [Hosts -> [Ids -> Procs \cup {NoProc}]]
  BY StoreAssumption DEF TInv, TypeOK
<1>2. QED
  BY <1>1 DEF SparesLocks, Take, Release

(* What a deposit's step leaves alone: the other deposits and their locks. *)
Alone(r) == \A q \in Requests \ {r} :
    /\ pc'[q] = pc[q] /\ req'[q] = req[q] /\ seen'[q] = seen[q] /\ answer'[q] = answer[q]

LEMMA DepositAlone ==
    ASSUME TInv, NEW r \in Requests, Deposit(r)
    PROVE  Alone(r) /\ UNCHANGED <<verifyVars, purgeVars, damaged>>
BY DEF Deposit, Receive, AcquireDeposit, CheckRow, ReadFails, StatFile, MarkMissing, WriteTemp,
   InsertRow, InsertLoses, InsertFails, Reread, RecordDeposit, Link, Rollback, Correct, Publish,
   Finish, Go, Decide, DepositKeeps, Alone, TInv, TypeOK

(* The deposit itself has its lock from acquire to the end. *)
LEMMA DepositLocks ==
    ASSUME TInv, DepositsHold, NEW r \in Requests, Deposit(r)
    PROVE  /\ SparesLocks(r)
           /\ pc'[r] \notin Waiting => lock'[HostOf[r]][IdOf(r)'] = r
<1>1. CASE \E c \in Container : Receive(r, c)
  BY <1>1, LockMoves, ArrivedBytes DEF Receive, Go, Waiting, SparesLocks, TInv, TypeOK
<1>2. CASE ~ \E c \in Container : Receive(r, c)
  <2>1. pc[r] # "new" /\ IdOf(r) \in Ids /\ r \in Procs
    BY <1>2, ArrivedBytes DEF Deposit, AcquireDeposit, CheckRow, ReadFails, StatFile, MarkMissing,
       WriteTemp, InsertRow, InsertLoses, InsertFails, Reread, RecordDeposit, Link, Rollback,
       Correct, Publish, Procs
  <2>2. UNCHANGED req /\ IdOf(r)' = IdOf(r)
    BY <1>2 DEF Deposit, AcquireDeposit, CheckRow, ReadFails, StatFile, MarkMissing, WriteTemp,
       InsertRow, InsertLoses, InsertFails, Reread, RecordDeposit, Link, Rollback, Correct,
       Publish, IdOf
  <2>3. CASE AcquireDeposit(r)
    BY <2>1, <2>2, <2>3, LockMoves DEF AcquireDeposit
  <2>4. CASE ~AcquireDeposit(r)
    <3>1. lock[HostOf[r]][IdOf(r)] = r
      BY <1>2, <2>4 DEF DepositsHold, Waiting, Deposit, CheckRow, ReadFails, StatFile, MarkMissing,
         WriteTemp, InsertRow, InsertLoses, InsertFails, Reread, RecordDeposit, Link, Rollback,
         Correct, Publish
    <3>2. UNCHANGED lock \/ (Release(r, IdOf(r)) /\ pc'[r] = "done")
      BY <1>2, <2>4 DEF Deposit, CheckRow, ReadFails, StatFile, MarkMissing, WriteTemp, InsertRow,
         InsertLoses, InsertFails, Reread, RecordDeposit, Link, Rollback, Correct, Publish, Finish,
         Go, TInv, TypeOK
    <3>3. QED
      BY <2>1, <2>2, <3>1, <3>2, LockMoves DEF Waiting
  <2>5. QED
    BY <2>3, <2>4
<1>3. QED
  BY <1>1, <1>2

LEMMA DepositKeepsLocks ==
    ASSUME SInv, LockInv, NEW r \in Requests, Deposit(r)
    PROVE  LockInv'
<1>1. Alone(r) /\ UNCHANGED <<verifyVars, purgeVars>> /\ SparesLocks(r)
      /\ (pc'[r] \notin Waiting => lock'[HostOf[r]][IdOf(r)'] = r)
  BY DepositAlone, DepositLocks DEF LockInv, SInv
<1>2. r \in Procs /\ r \notin Verifiers /\ r # Purger /\ HostOf \in [Procs -> Hosts]
      /\ Purger \in Procs /\ Requests \subseteq Procs /\ Verifiers \subseteq Procs
  BY StoreAssumption DEF Procs
<1>3. DepositsHold'
  <2>1. ASSUME NEW q \in Requests, q # r, pc'[q] \notin Waiting
        PROVE  lock'[HostOf[q]][IdOf(q)'] = q
    <3>1. pc[q] \notin Waiting /\ IdOf(q)' = IdOf(q)
      BY <1>1, <2>1 DEF Alone, IdOf
    <3>2. IdOf(q) \in Ids /\ lock[HostOf[q]][IdOf(q)] = q /\ HostOf[q] \in Hosts
      BY <1>2, <3>1, ArrivedBytes DEF SInv, LockInv, DepositsHold, Waiting
    <3>3. QED
      BY <1>1, <1>2, <2>1, <3>1, <3>2 DEF SparesLocks
  <2>2. QED
    BY <1>1, <2>1 DEF DepositsHold
<1>4. VerifiersHold'
  BY <1>1, <1>2 DEF LockInv, VerifiersHold, SparesLocks, verifyVars, SInv, TInv, HasTarget
<1>5. PurgerHolds'
  <2>1. SUFFICES ASSUME ppc \in {"reread", "log"} \cup Removing
                 PROVE  lock'[HostOf[Purger]][IdOf(pcur)'] = Purger
    BY <1>1 DEF PurgerHolds, purgeVars
  <2>2. pcur \in Requests /\ IdOf(pcur) \in Ids /\ pc[pcur] \in Settled /\ pcur' = pcur
    BY <1>1, <2>1, PurgedIsSettled DEF purgeVars
  <2>3. IdOf(pcur)' = IdOf(pcur)
    BY <2>2, DepositOnward DEF SInv, Onward, Settled, IdOf
  <2>4. QED
    BY <1>1, <1>2, <2>1, <2>2, <2>3 DEF LockInv, PurgerHolds, SparesLocks
<1>6. QED
  BY <1>3, <1>4, <1>5 DEF LockInv

(* A verifier takes its lock at the start and gives it back at the end. *)
LEMMA VerifyKeepsLocks ==
    ASSUME SInv, LockInv, NEW v \in Verifiers, Verify(v)
    PROVE  LockInv'
<1>1. v \in Procs /\ v \notin Requests /\ v # Purger /\ HostOf \in [Procs -> Hosts]
      /\ Purger \in Procs /\ Requests \subseteq Procs /\ Verifiers \subseteq Procs
  BY StoreAssumption DEF Procs
<1>2. UNCHANGED <<depositVars, purgeVars>> /\ \A w \in Verifiers \ {v} : vpc'[w] = vpc[w] /\ vid'[w] = vid[w]
  BY DEF Verify, VerifyStart, VerifyAcquire, VerifyReread, VerifyOpen, VerifySetStatus,
     VerifyRecord, VEnd, VGoOn, VGo, VerifyKeeps, SInv, TInv, TypeOK
<1>3. SparesLocks(v) /\ (vpc'[v] \notin {"idle", "arrived"} => lock'[HostOf[v]][vid'[v]] = v)
  <2>1. CASE \E id \in Ids : VerifyStart(v, id)
    BY <2>1 DEF VerifyStart, VGo, SparesLocks, SInv, TInv, TypeOK
  <2>2. CASE VerifyAcquire(v)
    BY <1>1, <2>2, LockMoves DEF VerifyAcquire, SInv, TInv, HasTarget
  <2>3. CASE ~(VerifyAcquire(v) \/ \E id \in Ids : VerifyStart(v, id))
    <3>1. vid[v] \in Ids /\ lock[HostOf[v]][vid[v]] = v /\ (VEnd(v) \/ UNCHANGED <<lock, vid>>)
      BY <2>3 DEF Verify, VerifyReread, VerifyOpen, VerifySetStatus, VerifyRecord, VGoOn, VGo,
         LockInv, VerifiersHold, SInv, TInv, HasTarget
    <3>2. QED
      BY <1>1, <3>1, LockMoves DEF VEnd, VGo, SInv, TInv, TypeOK
  <2>4. QED
    BY <2>1, <2>2, <2>3
<1>4. DepositsHold'
  <2>1. SUFFICES ASSUME NEW q \in Requests, pc[q] \notin Waiting
                 PROVE  lock'[HostOf[q]][IdOf(q)] = q
    BY <1>2 DEF DepositsHold, depositVars, IdOf
  <2>2. IdOf(q) \in Ids /\ HostOf[q] \in Hosts /\ lock[HostOf[q]][IdOf(q)] = q
    BY <1>1, <2>1, ArrivedBytes DEF SInv, LockInv, DepositsHold, Waiting
  <2>3. QED
    BY <1>1, <1>3, <2>2 DEF SparesLocks
<1>5. VerifiersHold'
  BY <1>1, <1>2, <1>3 DEF LockInv, VerifiersHold, SparesLocks, SInv, TInv, HasTarget
<1>6. PurgerHolds'
  <2>1. SUFFICES ASSUME ppc \in {"reread", "log"} \cup Removing
                 PROVE  lock'[HostOf[Purger]][IdOf(pcur)] = Purger
    BY <1>2 DEF PurgerHolds, purgeVars, depositVars, IdOf
  <2>2. pcur \in Requests /\ IdOf(pcur) \in Ids
    BY <2>1, PurgedIsSettled
  <2>3. QED
    BY <1>1, <1>3, <2>1, <2>2 DEF LockInv, PurgerHolds, SparesLocks
<1>7. QED
  BY <1>4, <1>5, <1>6 DEF LockInv

(* So does the purge, around each candidate. *)
LEMMA PurgeKeepsLocks ==
    ASSUME SInv, LockInv, PurgeStep \/ \E p \in Policies : PurgeStart(p)
    PROVE  LockInv'
<1>1. Purger \in Procs /\ Purger \notin Requests \cup Verifiers /\ HostOf \in [Procs -> Hosts]
      /\ Requests \subseteq Procs /\ Verifiers \subseteq Procs
  BY StoreAssumption DEF Procs
<1>2. UNCHANGED <<depositVars, verifyVars>>
  BY DEF PurgeStep, PurgeStart, Settle, Choose, PurgeAcquire, PurgeReread, PurgeRequest,
     PurgeRemove, PurgeDelete, PurgeLog, PurgeEnd, PurgeKeeps
<1>3. SparesLocks(Purger)
      /\ (ppc' \in {"reread", "log"} \cup Removing => lock'[HostOf[Purger]][IdOf(pcur)'] = Purger)
  <2>1. CASE UNCHANGED lock /\ ~(\E r \in pcand : PurgeAcquire(r)) /\ ~PurgeReread /\ ~PurgeRequest /\ ~PurgeRemove /\ ~PurgeDelete /\ ~PurgeLog
    <3>1. ppc' \notin {"reread", "log"} \cup Removing
      BY <1>2, <2>1 DEF PurgeStep, PurgeStart, Settle, Choose, PurgeEnd, PEnd, PGo,
         Removing
    <3>2. QED
      BY <1>1, <2>1, <3>1 DEF SparesLocks
  <2>2. ASSUME NEW r \in pcand, PurgeAcquire(r)
        PROVE  SparesLocks(Purger) /\ lock'[HostOf[Purger]][IdOf(pcur)'] = Purger
    <3>1. IdOf(r) \in Ids
      BY ArrivedBytes DEF SInv, PurgeInv, Chosen, Old, Settled, TInv, TypeOK
    <3>2. pcur' = r /\ IdOf(pcur)' = IdOf(r)
      BY <1>2, <2>2 DEF PurgeAcquire, depositVars, IdOf
    <3>3. QED
      BY <1>1, <2>2, <3>1, <3>2, LockMoves DEF PurgeAcquire, SInv
  <2>3. CASE PurgeReread \/ PurgeRequest \/ PurgeRemove \/ PurgeDelete \/ PurgeLog
    <3>1. /\ IdOf(pcur) \in Ids /\ lock[HostOf[Purger]][IdOf(pcur)] = Purger
      BY <2>3, PurgedIsSettled DEF PurgeReread, PurgeRequest, PurgeRemove, PurgeDelete, PurgeLog,
         LockInv, PurgerHolds, Removing
    <3>2. \/ Release(Purger, IdOf(pcur)) /\ ppc' \in {"idle", "next"}
          \/ UNCHANGED <<lock, pcur>>
      BY <2>3 DEF PurgeReread, PurgeRequest, PurgeRemove, PurgeDelete, PurgeLog, PurgeOn,
         PurgeNext, PurgeStop, PEnd, PGo
    <3>3. QED
      BY <1>1, <1>2, <3>1, <3>2, LockMoves DEF depositVars, IdOf, Removing, SInv
  <2>4. QED
    BY <2>1, <2>2, <2>3 DEF PurgeStep, PurgeStart, Settle, Choose, PurgeEnd
<1>4. DepositsHold'
  <2>1. SUFFICES ASSUME NEW q \in Requests, pc[q] \notin Waiting
                 PROVE  lock'[HostOf[q]][IdOf(q)] = q
    BY <1>2 DEF DepositsHold, depositVars, IdOf
  <2>2. IdOf(q) \in Ids /\ HostOf[q] \in Hosts /\ lock[HostOf[q]][IdOf(q)] = q
    BY <1>1, <2>1, ArrivedBytes DEF SInv, LockInv, DepositsHold, Waiting
  <2>3. QED
    BY <1>1, <1>3, <2>2 DEF SparesLocks
<1>5. VerifiersHold'
  BY <1>1, <1>2, <1>3 DEF LockInv, VerifiersHold, SparesLocks, verifyVars, SInv, TInv, HasTarget
<1>6. QED
  BY <1>2, <1>3, <1>4, <1>5 DEF LockInv, PurgerHolds

(* A process that dies takes its locks and everyone who held them along. *)
LEMMA WorldKeepsLocks ==
    ASSUME SInv, LockInv, Crash \/ PowerLoss \/ Flush \/ \E p \in Paths : Damage(p)
    PROVE  LockInv'
<1>1. ASSUME NEW hs, Die(hs)
      PROVE  LockInv'
  <2>1. HostOf[Purger] \in Hosts /\ \A p \in Procs : HostOf[p] \in Hosts
    BY StoreAssumption DEF Procs
  <2>2. DepositsHold'
    BY <1>1, <2>1 DEF Die, InFlight, Idle, Waiting, Procs, IdOf, LockInv, DepositsHold, SInv, TInv, TypeOK
  <2>3. VerifiersHold'
    BY <1>1, <2>1 DEF Die, Procs, LockInv, VerifiersHold, SInv, TInv, TypeOK
  <2>4. PurgerHolds'
    BY <1>1, <2>1 DEF Die, PEnd, PGo, purgeVars, Removing, IdOf, LockInv, PurgerHolds, SInv, TInv, TypeOK
  <2>5. QED
    BY <2>2, <2>3, <2>4 DEF LockInv
<1>2. CASE Flush \/ \E p \in Paths : Damage(p)
  BY <1>2 DEF Flush, Damage, depositVars, verifyVars, purgeVars, LockInv, DepositsHold,
     VerifiersHold, PurgerHolds, IdOf
<1>3. QED
  BY <1>1, <1>2 DEF Crash, PowerLoss

LEMMA NextKeepsLocks == SInv /\ LockInv /\ [Next]_vars => LockInv'
<1>1. ASSUME LockInv, UNCHANGED vars
      PROVE  LockInv'
  BY <1>1 DEF vars, depositVars, verifyVars, purgeVars, LockInv, DepositsHold, VerifiersHold,
     PurgerHolds, IdOf
<1>2. QED
  BY <1>1, DepositKeepsLocks, VerifyKeepsLocks, PurgeKeepsLocks, WorldKeepsLocks DEF Next

----------------------------------------------------------------------------
(* What keeps a capsule: rows, files and what the chain says of them. *)

LEMMA NextOnward ==
    ASSUME SInv, Next
    PROVE  Onward
BY DepositOnward, VerifyOnward, PurgeOnward, WorldOnward DEF SInv, Next

(* Seven kinds of steps touch a row's owner or a file; the others neither. *)
Calm == RowsStay /\ UNCHANGED file
LEMMA StoreSteps ==
    ASSUME SInv, Next
    PROVE  \/ Calm
           \/ \E r \in Requests : InsertRow(r) \/ Rollback(r) \/ Link(r)
           \/ PurgeRemove \/ PurgeDelete \/ PowerLoss \/ \E p \in Paths : Damage(p)
<1>1. ASSUME NEW r \in Requests, Deposit(r), ~InsertRow(r), ~Rollback(r), ~Link(r)
      PROVE  Calm
  <2>1. RowsStay
    BY <1>1, DepositOnward DEF Quiet, SInv
  <2>2. UNCHANGED file
    BY <1>1 DEF Deposit, Receive, AcquireDeposit, CheckRow, ReadFails, StatFile, MarkMissing,
       WriteTemp, InsertLoses, InsertFails, Reread, RecordDeposit, Correct, Publish, storeVars
  <2>3. QED
    BY <2>1, <2>2 DEF Calm
<1>2. ASSUME NEW v \in Verifiers, Verify(v)
      PROVE  Calm
  <2>1. UNCHANGED file
    BY <1>2 DEF Verify, VerifyStart, VerifyAcquire, VerifyReread, VerifyOpen, VerifySetStatus,
       VerifyRecord, VerifyKeeps
  <2>2. QED
    BY <1>2, <2>1, VerifyOnward DEF Calm, Quiet, SInv
<1>3. ASSUME PurgeStep \/ \E p \in Policies : PurgeStart(p), ~PurgeRemove, ~PurgeDelete
      PROVE  Calm
  <2>1. UNCHANGED file
    BY <1>3 DEF PurgeStep, PurgeStart, Settle, Choose, PurgeAcquire, PurgeReread, PurgeRequest,
       PurgeLog, PurgeEnd, storeVars
  <2>2. QED
    BY <1>3, <2>1, PurgeOnward DEF Calm, SInv
<1>4. CASE Crash \/ Flush
  BY <1>4 DEF Crash, Die, Flush, storeVars, Calm, RowsStay
<1>5. QED
  BY <1>1, <1>2, <1>3, <1>4 DEF Next

LEMMA DamagedStay ==
    ASSUME SInv, Next
    PROVE  damaged \subseteq damaged'
BY DEF Next, Deposit, Receive, AcquireDeposit, CheckRow, ReadFails, StatFile, MarkMissing,
   WriteTemp, InsertRow, InsertLoses, InsertFails, Reread, RecordDeposit, Link, Rollback, Correct,
   Publish, DepositKeeps, Verify, VerifyStart, VerifyAcquire, VerifyReread, VerifyOpen,
   VerifySetStatus, VerifyRecord, VerifyKeeps, worldVars, PurgeStep, PurgeStart, Settle, Choose,
   PurgeAcquire, PurgeReread, PurgeRequest, PurgeRemove, PurgeDelete, PurgeLog, PurgeEnd,
   PurgeKeeps, Crash, PowerLoss, Die, Flush, Damage

(* A row stays with its owner until a rollback or a purge deletes it. *)
LEMMA RowMoves ==
    ASSUME SInv, Next, NEW id \in Ids
    PROVE  \/ (row'[id] = NoRow <=> row[id] = NoRow)
              /\ (row[id] # NoRow => row'[id].at = row[id].at)
           \/ \E r \in Requests : /\ InsertRow(r) /\ id = IdOf(r) /\ row[id] = NoRow
                                  /\ row'[id] = NewRow(r)
           \/ \E r \in Requests : /\ Rollback(r) /\ id = IdOf(r) /\ row'[id] = NoRow
                                  /\ row[id] # NoRow /\ row[id].at = r
           \/ /\ PurgeDelete /\ id = IdOf(pcur) /\ row'[id] = NoRow
              /\ row[id] # NoRow /\ row[id].at = pcur
<1>1. CASE RowsStay \/ UNCHANGED row
  BY <1>1 DEF RowsStay
<1>2. ASSUME NEW r \in Requests, InsertRow(r)
      PROVE  row'[id] = row[id] \/ (id = IdOf(r) /\ row[id] = NoRow /\ row'[id] = NewRow(r))
  BY <1>2 DEF InsertRow, SInv, TInv, TypeOK
<1>3. ASSUME NEW r \in Requests, Rollback(r)
      PROVE  row'[id] = row[id]
             \/ (id = IdOf(r) /\ row'[id] = NoRow /\ row[id] # NoRow /\ row[id].at = r)
  BY <1>3 DEF Rollback, Mine, Owning, SInv, TInv, TypeOK
<1>4. ASSUME PurgeDelete
      PROVE  row'[id] = row[id]
             \/ (id = IdOf(pcur) /\ row'[id] = NoRow /\ row[id] # NoRow /\ row[id].at = pcur)
  BY <1>4 DEF PurgeDelete, PurgeInv, PurgeRow, Removing, SInv, TInv, TypeOK
<1>5. CASE (\E r \in Requests : Link(r)) \/ PurgeRemove \/ PowerLoss \/ \E p \in Paths : Damage(p)
  <2>1. UNCHANGED row
    BY <1>5 DEF Link, PurgeRemove, PowerLoss, Die, Damage
  <2>2. QED
    BY <1>1, <2>1
<1>6. CASE Calm
  BY <1>1, <1>6 DEF Calm
<1>7. QED
  BY <1>2, <1>3, <1>4, <1>5, <1>6, StoreSteps

(* A file stays until a purge, a power loss or the disk takes it. *)
LEMMA FileMoves ==
    ASSUME SInv, Next, NEW p \in Paths
    PROVE  \/ file'[p] = file[p]
           \/ \E r \in Requests : /\ Link(r) /\ pc'[r] = "publish" /\ p = PathFor(r)
                                  /\ file[p] = NoFile /\ file'[p] = Bytes(r)
           \/ PurgeRemove /\ p = PathFor(pcur) /\ file'[p] = NoFile
           \/ PowerLoss /\ file'[p] = NoFile
           \/ /\ Damage(p) /\ file[p] # NoFile /\ damaged' = damaged \cup {file[p].by}
              /\ file'[p] \in {NoFile, [file[p] EXCEPT !.body = Garbage]}
<1>1. ASSUME NEW r \in Requests, Link(r)
      PROVE  file'[p] = file[p] \/ (/\ pc'[r] = "publish" /\ p = PathFor(r)
                                    /\ file[p] = NoFile /\ file'[p] = Bytes(r))
  BY <1>1 DEF Link, Go, SInv, TInv, TypeOK
<1>2. CASE PurgeRemove
  BY <1>2 DEF PurgeRemove, SInv, TInv, TypeOK
<1>3. CASE PowerLoss
  BY <1>3 DEF PowerLoss
<1>4. ASSUME NEW x \in Paths, Damage(x)
      PROVE  file'[p] = file[p] \/ (/\ x = p /\ file[p] # NoFile /\ damaged' = damaged \cup {file[p].by}
                                    /\ file'[p] \in {NoFile, [file[p] EXCEPT !.body = Garbage]})
  BY <1>4 DEF Damage, SInv, TInv, TypeOK
<1>5. CASE \E r \in Requests : InsertRow(r) \/ Rollback(r)
  BY <1>5 DEF InsertRow, Rollback
<1>6. CASE PurgeDelete
  BY <1>6 DEF PurgeDelete
<1>7. QED
  BY <1>1, <1>2, <1>3, <1>4, <1>5, <1>6, StoreSteps DEF Calm

LEMMA OwnersGoOn ==
    ASSUME SInv, Next, NEW q \in Requests, pc[q] \in Inserted
    PROVE  pc'[q] \in Inserted /\ req'[q] = req[q]
<1>1. req'[q] = req[q]
  BY NextOnward DEF Onward, Inserted
<1>2. ASSUME NEW r \in Requests, Deposit(r)
      PROVE  pc'[q] \in Inserted
  <2>1. CASE q # r
    BY <1>2, <2>1, DepositAlone DEF Alone, SInv
  <2>2. CASE q = r
    BY <1>2, <2>2 DEF Deposit, Receive, AcquireDeposit, CheckRow, ReadFails, StatFile, MarkMissing,
       WriteTemp, InsertRow, InsertLoses, InsertFails, Reread, RecordDeposit, Link, Rollback, Correct,
       Publish, Finish, Go, Inserted, SInv, TInv, TypeOK
  <2>3. QED
    BY <2>1, <2>2
<1>3. CASE UNCHANGED pc
  BY <1>1, <1>3
<1>4. CASE Crash \/ PowerLoss
  BY <1>1, <1>4 DEF Crash, PowerLoss, Die, Inserted, SInv, TInv, TypeOK
<1>5. CASE PurgeStep \/ \E p \in Policies : PurgeStart(p)
  BY <1>3, <1>5, PurgeOnward DEF depositVars, SInv
<1>6. CASE (\E v \in Verifiers : Verify(v)) \/ Flush \/ \E p \in Paths : Damage(p)
  BY <1>3, <1>6 DEF Verify, VerifyStart, VerifyAcquire, VerifyReread, VerifyOpen, VerifySetStatus,
     VerifyRecord, VerifyKeeps, Flush, Damage, depositVars
<1>7. QED
  BY <1>1, <1>2, <1>4, <1>5, <1>6 DEF Next

LEMMA RowsKeepOwners ==
    ASSUME SInv, RowsHaveOwners, Next
    PROVE  RowsHaveOwners'
<1>1. SUFFICES ASSUME NEW id \in Ids, row'[id] # NoRow
               PROVE  pc'[row'[id].at] \in Inserted /\ req'[row'[id].at].id = id
  BY DEF RowsHaveOwners, IdOf
<1>2. CASE row[id] # NoRow /\ row'[id].at = row[id].at
  BY <1>2, RowReceipt, OwnersGoOn DEF RowsHaveOwners, IdOf, SInv
<1>3. ASSUME NEW r \in Requests, InsertRow(r), id = IdOf(r), row'[id] = NewRow(r)
      PROVE  pc'[row'[id].at] \in Inserted /\ req'[row'[id].at].id = id
  BY <1>3 DEF InsertRow, Go, NewRow, IdOf, Inserted, SInv, TInv, TypeOK
<1>4. QED
  BY <1>1, <1>2, <1>3, RowMoves

(* Only PurgeRequest announces a purge, and PurgeRequest comes before the rest. *)
LEMMA RequestIsAnnouncement ==
    ASSUME SInv, Next, NEW r \in Requests, Requested(r)', ~Requested(r)
    PROVE  PurgeRequest /\ r = pcur
<1>1. ASSUME NEW q, NEW act, Record(act, q), act # "capsule_purge_requested"
      PROVE  FALSE
  BY <1>1 DEF Record, Requested, SInv, TInv, TypeOK
<1>2. ASSUME Record("capsule_purge_requested", pcur)
      PROVE  r = pcur
  BY <1>2 DEF Record, Requested, SInv, TInv, TypeOK
<1>3. ASSUME UNCHANGED log
      PROVE  FALSE
  BY <1>3 DEF Requested
<1>4. ~ \E q \in Requests : Deposit(q)
  BY <1>1, <1>3 DEF Deposit, Receive, AcquireDeposit, CheckRow, ReadFails, StatFile, MarkMissing,
     WriteTemp, InsertRow, InsertLoses, InsertFails, Reread, RecordDeposit, Link, Rollback, Correct,
     Publish, storeVars
<1>5. ~ \E v \in Verifiers : Verify(v)
  BY <1>1, <1>3 DEF Verify, VerifyStart, VerifyAcquire, VerifyReread, VerifyOpen, VerifySetStatus,
     VerifyRecord
<1>6. ~ (Crash \/ PowerLoss \/ Flush \/ \E p \in Paths : Damage(p))
  BY <1>3 DEF Crash, PowerLoss, Die, Flush, Damage, storeVars
<1>7. QED
  BY <1>1, <1>2, <1>3, <1>4, <1>5, <1>6 DEF Next, PurgeStep, PurgeStart, Settle, Choose, PurgeAcquire,
     PurgeReread, PurgeRequest, PurgeRemove, PurgeDelete, PurgeLog, PurgeEnd, storeVars

LEMMA PurgeStaysAnnounced ==
    ASSUME SInv, PurgeAnnounced, Next
    PROVE  PurgeAnnounced'
<1>1. \A r \in Requests : Requested(r)' => pc'[r] \in Settled
  BY RequestIsAnnouncement, NextOnward, PurgedIsSettled DEF PurgeAnnounced, Onward, Settled, PurgeRequest, Removing
<1>2. ppc' \in {"remove", "delete", "log"} => Requested(pcur)'
  <2>1. ASSUME NEW x \in Requests, Requested(x)
        PROVE  Requested(x)'
    BY <2>1, NextOnward DEF Onward, Requested
  <2>2. ppc \in {"remove", "delete", "log"} => pcur \in Requests
    BY PurgedIsSettled DEF Removing
  <2>3. CASE UNCHANGED purgeVars \/ PEnd
    BY <2>1, <2>2, <2>3 DEF PurgeAnnounced, purgeVars, PEnd, PGo
  <2>4. CASE PurgeRequest
    <3>1. pcur \in Requests
      BY <2>4, PurgedIsSettled DEF PurgeRequest, Removing
    <3>2. QED
      BY <2>4, <3>1 DEF PurgeRequest, PurgeStop, PEnd, PurgeOn, PGo, Record, Requested, SInv, TInv, TypeOK
  <2>5. CASE PurgeRemove \/ PurgeDelete
    BY <2>1, <2>2, <2>5 DEF PurgeRemove, PurgeDelete, PurgeStop, PEnd, PurgeOn, PGo, PurgeAnnounced
  <2>6. CASE /\ PurgeStep \/ \E p \in Policies : PurgeStart(p)
             /\ ~PurgeRequest /\ ~PurgeRemove /\ ~PurgeDelete
    BY <2>1, <2>2, <2>6 DEF PurgeStep, PurgeStart, Settle, Choose, PurgeAcquire, PurgeReread, PurgeLog,
       PurgeEnd, PurgeStop, PurgeNext, PEnd, PurgeOn, PGo, PurgeAnnounced
  <2>7. QED
    BY <2>3, <2>4, <2>5, <2>6 DEF Next, Deposit, Receive, AcquireDeposit, CheckRow, ReadFails, StatFile,
       MarkMissing, WriteTemp, InsertRow, InsertLoses, InsertFails, Reread, RecordDeposit, Link,
       Rollback, Correct, Publish, DepositKeeps, Verify, VerifyStart, VerifyAcquire, VerifyReread,
       VerifyOpen, VerifySetStatus, VerifyRecord, VerifyKeeps, Crash, PowerLoss, Die, Flush, Damage
<1>3. QED
  BY <1>1, <1>2 DEF PurgeAnnounced

LEMMA BytesStayTheirs ==
    ASSUME SInv, BytesAreTheirs, Next
    PROVE  BytesAreTheirs'
<1>1. SUFFICES ASSUME NEW p \in Paths, file'[p] # NoFile
               PROVE  file'[p].body = req'[file'[p].by].body \/ file'[p].by \in damaged'
  BY DEF BytesAreTheirs
<1>2. CASE file'[p] = file[p]
  <2>1. file[p].by \in Requests /\ pc[file[p].by] \in Settled \cup {"publish"}
    BY <1>1, <1>2 DEF SInv, FileOf, TInv, TypeOK, File
  <2>2. req'[file[p].by] = req[file[p].by]
    BY <2>1, OwnersGoOn DEF Inserted, Settled
  <2>3. QED
    BY <1>1, <1>2, <2>2, DamagedStay DEF BytesAreTheirs
<1>3. ASSUME NEW r \in Requests, Link(r), file'[p] = Bytes(r)
      PROVE  file'[p].body = req'[file'[p].by].body
  BY <1>3 DEF Link, Bytes
<1>4. CASE /\ file[p] # NoFile /\ damaged' = damaged \cup {file[p].by}
           /\ file'[p] \in {NoFile, [file[p] EXCEPT !.body = Garbage]}
  BY <1>1, <1>4 DEF SInv, TInv, TypeOK, File
<1>5. QED
  BY <1>1, <1>2, <1>3, <1>4, FileMoves

----------------------------------------------------------------------------
(* What was published stays whole until a purge is announced or the disk or *)
(* a power failure takes it.                                                *)

LEMMA IntactStays ==
    ASSUME OwnPaths, SInv, PurgeAnnounced, Next, ~PowerLoss,
           NEW r \in Requests, pc[r] \in Settled \cup {"publish"}, Intact(r)
    PROVE  Kept(r)'
<1> DEFINE id == IdOf(r)
           p == PathFor(r)
<1>1. /\ id \in Ids /\ p \in Paths /\ Bytes(r) # NoFile /\ Bytes(r).by = r
      /\ req'[r] = req[r] /\ req[r] # NoReq
      /\ row[id] # NoRow /\ row[id].at = r /\ file[p] = Bytes(r)
  BY ArrivedBytes, OwnersGoOn, SentinelAssumption DEF Intact, Settled, Inserted, Bytes, SInv
<1>2. SUFFICES ASSUME ~Requested(r)'
               PROVE  r \in damaged' \/ (file'[p] = file[p] /\ row'[id] # NoRow /\ row'[id].at = r)
  BY <1>1 DEF Kept, Intact, Bytes, IdOf, PathFor
<1>3. ~Requested(r)
  BY <1>2, NextOnward DEF Onward, Requested
<1>4. file'[p] = file[p] \/ r \in damaged'
  <2>1. ASSUME PurgeRemove, p = PathFor(pcur)
        PROVE  FALSE
    <3>1. IdOf(pcur) \in Ids /\ row[IdOf(pcur)].at = pcur /\ Requested(pcur)
      BY <2>1, PurgedIsSettled DEF PurgeRemove, Removing, SInv, PurgeInv, PurgeRow, PurgeAnnounced
    <3>2. IdOf(pcur) = id
      BY <1>1, <2>1, <3>1 DEF OwnPaths, PathFor
    <3>3. QED
      BY <1>1, <1>3, <3>1, <3>2
  <2>2. QED
    BY <1>1, <2>1, FileMoves
<1>5. row'[id] # NoRow /\ row'[id].at = r
  <2>1. ~(PurgeDelete /\ id = IdOf(pcur) /\ row[id].at = pcur)
    BY <1>1, <1>3 DEF PurgeDelete, PurgeAnnounced
  <2>2. ASSUME NEW q \in Requests, Rollback(q), row[id].at = q
        PROVE  FALSE
    BY <1>1, <2>2 DEF Rollback, Settled
  <2>3. QED
    BY <1>1, <2>1, <2>2, RowMoves
<1>6. QED
  BY <1>4, <1>5

LEMMA KeptStays ==
    ASSUME OwnPaths, SInv, PurgeAnnounced, Next, ~PowerLoss,
           NEW r \in Requests, pc[r] \in Settled \cup {"publish"}, Kept(r)
    PROVE  Kept(r)'
BY IntactStays, DamagedStay, NextOnward DEF Kept, Onward, Requested

LEMMA PublishedStays ==
    ASSUME OwnPaths, SInv, TInv', PurgeAnnounced, PurgeAnnounced', Published, Next
    PROVE  Published'
<1>1. SUFFICES ASSUME NEW r \in Requests, pc'[r] = "publish"
               PROVE  Kept(r)'
  BY DEF Published, Kept, PurgeAnnounced, Settled
<1>2. CASE pc[r] = "publish" /\ ~PowerLoss
  BY <1>2, KeptStays DEF Published, Kept
<1>3. CASE PowerLoss
  BY <1>1, <1>3, StoreAssumption DEF PowerLoss, Die, InFlight, Idle, Procs, SInv, TInv, TypeOK
<1>4. CASE pc[r] # "publish" /\ ~PowerLoss
  <2>1. Link(r) /\ file' = [file EXCEPT ![PathFor(r)] = Bytes(r)]
    <3>1. ASSUME NEW q \in Requests, Deposit(q)
          PROVE  q = r /\ Link(r) /\ file' = [file EXCEPT ![PathFor(r)] = Bytes(r)]
      <4>1. q = r
        BY <1>1, <1>4, <3>1, DepositAlone DEF Alone, SInv
      <4>2. QED
        BY <1>1, <1>4, <3>1, <4>1 DEF Deposit, Receive, AcquireDeposit, CheckRow, ReadFails, StatFile,
           MarkMissing, WriteTemp, InsertRow, InsertLoses, InsertFails, Reread, RecordDeposit, Link,
           Rollback, Correct, Publish, Finish, Go, SInv, TInv, TypeOK
    <3>2. ASSUME UNCHANGED pc
          PROVE  FALSE
      BY <1>1, <1>4, <3>2
    <3>3. ASSUME Crash
          PROVE  FALSE
      BY <1>1, <1>4, <3>3 DEF Crash, Die, SInv, TInv, TypeOK
    <3>4. QED
      BY <1>4, <3>1, <3>2, <3>3, PurgeOnward DEF Next, Verify, VerifyStart, VerifyAcquire,
         VerifyReread, VerifyOpen, VerifySetStatus, VerifyRecord, VerifyKeeps, Flush, Damage,
         depositVars, SInv
  <2>2. /\ pc[r] = "link" /\ IdOf(r) \in Ids /\ PathFor(r) \in Paths
        /\ row[IdOf(r)] # NoRow /\ row[IdOf(r)].at = r /\ UNCHANGED <<row, req>>
        /\ req[r] \in Container
    BY <2>1, ArrivedBytes DEF Link, SInv, Mine, Owning, TInv, Arrived
  <2>3. QED
    BY <2>1, <2>2, SentinelAssumption DEF Kept, Intact, Bytes, IdOf, PathFor, SInv, TInv, TypeOK
<1>5. QED
  BY <1>2, <1>3, <1>4

LEMMA NextKeepsKInv == OwnPaths /\ KInv /\ SInv' /\ [Next]_vars => KInv'
<1>1. ASSUME KInv, UNCHANGED vars
      PROVE  /\ RowsHaveOwners' /\ PurgeAnnounced' /\ BytesAreTheirs' /\ Published'
  BY <1>1 DEF vars, storeVars, depositVars, verifyVars, purgeVars, worldVars, KInv, RowsHaveOwners,
     PurgeAnnounced, BytesAreTheirs, Published, Requested, Intact, IdOf, PathFor, Bytes
<1>2. ASSUME OwnPaths, KInv, SInv', Next
      PROVE  KInv'
  BY <1>2, RowsKeepOwners, PurgeStaysAnnounced, BytesStayTheirs, PublishedStays DEF KInv, SInv
<1>3. QED
  BY <1>1, <1>2 DEF KInv

----------------------------------------------------------------------------
(* In one process, whoever holds an ID's lock finds the row it has read.    *)

LEMMA RowOfHolder ==
    ASSUME OneProcess, SInv, LockInv, Next, NEW h \in Procs, NEW id \in Ids,
           lock[HostOf[h]][id] = h, row[id] # NoRow, h # Purger,
           \A r \in Requests : h = r => pc[r] # "rollback"
    PROVE  row'[id] # NoRow /\ row'[id].at = row[id].at
<1>1. ASSUME NEW r \in Requests, Rollback(r), id = IdOf(r)
      PROVE  FALSE
  <2>1. r \in Procs /\ lock[HostOf[r]][id] = r /\ HostOf[r] = HostOf[h]
    BY <1>1 DEF Rollback, LockInv, DepositsHold, Waiting, OneProcess, Procs
  <2>2. QED
    BY <1>1, <2>1 DEF Rollback
<1>2. ASSUME PurgeDelete, id = IdOf(pcur)
      PROVE  FALSE
  BY <1>2 DEF PurgeDelete, LockInv, PurgerHolds, Removing, OneProcess, Procs
<1>3. QED
  BY <1>1, <1>2, RowMoves

LEMMA SeenStaysThere ==
    ASSUME OneProcess, SInv, TInv', LockInv, SeenIsThere, Next
    PROVE  SeenIsThere'
<1>1. SUFFICES ASSUME NEW q \in Requests, pc'[q] \in {"stat", "mark"}
               PROVE  row'[req'[q].id] # NoRow /\ row'[req'[q].id].at = seen'[q]
  BY DEF SeenIsThere, IdOf
<1>2. ASSUME pc[q] \in {"stat", "mark"}, seen'[q] = seen[q]
      PROVE  row'[req'[q].id] # NoRow /\ row'[req'[q].id].at = seen'[q]
  <2>1. /\ req'[q] = req[q] /\ IdOf(q) \in Ids /\ q \in Procs /\ q # Purger
        /\ lock[HostOf[q]][IdOf(q)] = q /\ row[IdOf(q)] # NoRow /\ row[IdOf(q)].at = seen[q]
    BY <1>2, NextOnward, ArrivedBytes, StoreAssumption
    DEF Onward, LockInv, DepositsHold, Waiting, SeenIsThere, Procs, SInv
  <2>2. row'[IdOf(q)] # NoRow /\ row'[IdOf(q)].at = row[IdOf(q)].at
    BY <1>2, <2>1, RowOfHolder
  <2>3. QED
    BY <1>2, <2>1, <2>2 DEF IdOf
<1>3. ASSUME CheckRow(q) \/ Reread(q)
      PROVE  row'[req'[q].id] # NoRow /\ row'[req'[q].id].at = seen'[q]
  BY <1>1, <1>3 DEF CheckRow, Reread, Go, IdOf, storeVars, SInv, TInv, TypeOK
<1>4. ASSUME NEW r \in Requests, Deposit(r)
      PROVE  (pc[q] \in {"stat", "mark"} /\ seen'[q] = seen[q]) \/ CheckRow(q) \/ Reread(q)
  <2>1. CASE q # r
    BY <1>1, <1>4, <2>1, DepositAlone DEF Alone, SInv
  <2>2. CASE q = r
    BY <1>1, <1>4, <2>2 DEF Deposit, Receive, AcquireDeposit, ReadFails, StatFile, MarkMissing,
       WriteTemp, InsertRow, InsertLoses, InsertFails, RecordDeposit, Link, Rollback, Correct,
       Publish, Finish, Go, SInv, TInv, TypeOK
  <2>3. QED
    BY <2>1, <2>2
<1>5. CASE UNCHANGED <<pc, seen>>
  BY <1>1, <1>2, <1>5
<1>6. CASE Crash \/ PowerLoss
  BY <1>1, <1>2, <1>6 DEF Crash, PowerLoss, Die, SInv, TInv, TypeOK
<1>7. QED
  <2>1. CASE PurgeStep \/ \E p \in Policies : PurgeStart(p)
    BY <1>5, <2>1, PurgeOnward DEF depositVars, SInv
  <2>2. CASE (\E v \in Verifiers : Verify(v)) \/ Flush \/ \E p \in Paths : Damage(p)
    BY <1>5, <2>2 DEF Verify, VerifyStart, VerifyAcquire, VerifyReread, VerifyOpen, VerifySetStatus,
       VerifyRecord, VerifyKeeps, Flush, Damage, depositVars
  <2>3. QED
    BY <1>2, <1>3, <1>4, <1>6, <2>1, <2>2 DEF Next

AtWork == {"open", "active", "corrupt", "logactive", "logcorrupt"}
LEMMA VerifiedStaysThere ==
    ASSUME OneProcess, SInv, TInv', LockInv, VerifiedIsThere, Next
    PROVE  VerifiedIsThere'
<1>1. SUFFICES ASSUME NEW v \in Verifiers, vpc'[v] \in AtWork
               PROVE  row'[vid'[v]] # NoRow /\ row'[vid'[v]].at = vrec'[v]
  BY DEF VerifiedIsThere, AtWork
<1>2. ASSUME vpc[v] \in AtWork, vid'[v] = vid[v], vrec'[v] = vrec[v]
      PROVE  row'[vid'[v]] # NoRow /\ row'[vid'[v]].at = vrec'[v]
  <2>1. /\ vid[v] \in Ids /\ v \in Procs /\ v # Purger /\ v \notin Requests
        /\ lock[HostOf[v]][vid[v]] = v /\ row[vid[v]] # NoRow /\ row[vid[v]].at = vrec[v]
    BY <1>2, StoreAssumption DEF AtWork, LockInv, VerifiersHold, VerifiedIsThere, Procs, SInv, TInv, HasTarget
  <2>2. QED
    BY <1>2, <2>1, RowOfHolder
<1>3. ASSUME VerifyReread(v)
      PROVE  row'[vid'[v]] # NoRow /\ row'[vid'[v]].at = vrec'[v]
  BY <1>1, <1>3 DEF VerifyReread, VEnd, VGo, AtWork, SInv, TInv, TypeOK
<1>4. ASSUME NEW w \in Verifiers, Verify(w)
      PROVE  (vpc[v] \in AtWork /\ vid'[v] = vid[v] /\ vrec'[v] = vrec[v]) \/ VerifyReread(v)
  BY <1>1, <1>4 DEF Verify, VerifyStart, VerifyAcquire, VerifyReread, VerifyOpen, VerifySetStatus,
     VerifyRecord, VEnd, VGoOn, VGo, AtWork, SInv, TInv, TypeOK
<1>5. CASE UNCHANGED verifyVars
  BY <1>1, <1>2, <1>5 DEF verifyVars
<1>6. CASE Crash \/ PowerLoss
  BY <1>1, <1>2, <1>6 DEF Crash, PowerLoss, Die, AtWork, SInv, TInv, TypeOK
<1>7. QED
  <2>1. CASE PurgeStep \/ \E p \in Policies : PurgeStart(p)
    BY <1>5, <2>1 DEF PurgeStep, PurgeStart, Settle, Choose, PurgeAcquire, PurgeReread, PurgeRequest,
       PurgeRemove, PurgeDelete, PurgeLog, PurgeEnd, PurgeKeeps
  <2>2. CASE (\E r \in Requests : Deposit(r)) \/ Flush \/ \E p \in Paths : Damage(p)
    BY <1>5, <2>2, DepositAlone DEF Flush, Damage, SInv
  <2>3. QED
    BY <1>2, <1>3, <1>4, <1>6, <2>1, <2>2 DEF Next

LEMMA StaysRefused ==
    ASSUME SInv, Refused, Next
    PROVE  Refused'
<1>1. ASSUME NEW r \in Requests, Deposit(r)
      PROVE  Refused'
  <2>1. pc'[r] \in {"rollback", "correct"} => answer'[r] \in {"409", "500", "503"}
    BY <1>1 DEF Deposit, Receive, AcquireDeposit, CheckRow, ReadFails, StatFile, MarkMissing,
       WriteTemp, InsertRow, InsertLoses, InsertFails, Reread, RecordDeposit, Link, Rollback, Correct,
       Publish, Finish, Go, Decide, Refused, SInv, TInv, TypeOK
  <2>2. QED
    BY <1>1, <2>1, DepositAlone DEF Alone, Refused, SInv
<1>2. CASE UNCHANGED <<pc, answer>>
  BY <1>2 DEF Refused
<1>3. CASE Crash \/ PowerLoss
  BY <1>3 DEF Crash, PowerLoss, Die, Refused, SInv, TInv, TypeOK
<1>4. CASE PurgeStep \/ \E p \in Policies : PurgeStart(p)
  BY <1>2, <1>4, PurgeOnward DEF depositVars, SInv
<1>5. CASE (\E v \in Verifiers : Verify(v)) \/ Flush \/ \E p \in Paths : Damage(p)
  BY <1>2, <1>5 DEF Verify, VerifyStart, VerifyAcquire, VerifyReread, VerifyOpen, VerifySetStatus,
     VerifyRecord, VerifyKeeps, Flush, Damage, depositVars
<1>6. QED
  BY <1>1, <1>3, <1>4, <1>5 DEF Next

LEMMA NextKeepsHInv == OneProcess /\ OwnPaths /\ HInv /\ SInv' /\ [Next]_vars => HInv'
<1>1. ASSUME HInv, UNCHANGED vars
      PROVE  SeenIsThere' /\ VerifiedIsThere' /\ Refused'
  BY <1>1 DEF vars, storeVars, depositVars, verifyVars, HInv, SeenIsThere, VerifiedIsThere, Refused, IdOf
<1>2. QED
  BY <1>1, NextKeepsKInv, NextKeepsLocks, SeenStaysThere, VerifiedStaysThere, StaysRefused
  DEF HInv, KInv, SInv

LEMMA InitHInv == Init => HInv
BY InitSInv DEF Init, HInv, KInv, LockInv, RowsHaveOwners, PurgeAnnounced, BytesAreTheirs, Published,
   DepositsHold, VerifiersHold, PurgerHolds, SeenIsThere, VerifiedIsThere, Refused, Requested,
   Waiting, Removing, KeepAll

LEMMA AlwaysKInv ==
    ASSUME OwnPaths
    PROVE  Spec => [](KInv /\ Refused)
<1>1. ASSUME Refused, UNCHANGED vars
      PROVE  Refused'
  BY <1>1 DEF vars, depositVars, Refused
<1>2. SInv /\ TInv /\ KInv /\ Refused /\ [Next]_vars => SInv' /\ TInv' /\ KInv' /\ Refused'
  BY <1>1, NextKeepsSInv, NextKeepsTInv, NextKeepsKInv, StaysRefused
<1>3. Init => KInv /\ Refused
  BY InitHInv DEF HInv
<1>4. QED
  BY <1>2, <1>3, InitSInv, InitTInv, PTL DEF Spec

LEMMA AlwaysHInv ==
    ASSUME OneProcess, OwnPaths
    PROVE  Spec => []HInv
<1>1. SInv /\ TInv /\ HInv /\ [Next]_vars => SInv' /\ TInv' /\ HInv'
  BY NextKeepsSInv, NextKeepsTInv, NextKeepsHInv
<1>2. QED
  BY <1>1, InitHInv, InitSInv, InitTInv, PTL DEF Spec

----------------------------------------------------------------------------
(* Answers. *)

(* A file where a duplicate looks is the capsule its row is about. *)
LEMMA PresentIsIntact ==
    ASSUME OwnPaths, HInv, NEW r \in Requests, pc[r] = "stat", file[PathFor(r)] # NoFile
    PROVE  /\ seen[r] \in Requests /\ pc[seen[r]] \in Settled \cup {"publish"}
           /\ Intact(seen[r]) \/ seen[r] \in damaged
<1> DEFINE p == PathFor(r)
           q == file[p].by
<1>1. /\ IdOf(r) \in Ids /\ p \in Paths /\ file[p] \in File /\ q \in Requests
      /\ row[IdOf(r)] # NoRow /\ row[IdOf(r)].at = seen[r]
  BY ArrivedBytes DEF HInv, KInv, SInv, SeenIsThere, TInv, TypeOK, File
<1>2. p = PathFor(q) /\ file[p].id = IdOf(q) /\ pc[q] \in Settled \cup {"publish"}
  BY <1>1 DEF HInv, KInv, SInv, FileOf
<1>3. req[q] \in Container /\ IdOf(q) \in Ids /\ row[IdOf(q)] # NoRow /\ row[IdOf(q)].at = q
  BY <1>1, <1>2, ArrivedBytes DEF HInv, KInv, SInv, TInv, Arrived, Settled, NoUndescribedFile
<1>4. IdOf(q) = IdOf(r) /\ q = seen[r]
  BY <1>1, <1>2, <1>3 DEF OwnPaths, PathFor
<1>5. q \in damaged \/ file[p] = Bytes(q)
  BY <1>1, <1>2 DEF HInv, KInv, BytesAreTheirs, Bytes, File
<1>6. QED
  BY <1>1, <1>2, <1>3, <1>4, <1>5, SentinelAssumption DEF Intact

LEMMA AnswerSteps ==
    ASSUME SInv, Refused, Next, NEW r \in Requests, Answers(r, {"200", "201"})
    PROVE  /\ UNCHANGED <<storeVars, req, seen>>
           /\ \/ Publish(r) /\ pc[r] = "publish" /\ answer'[r] = "201"
              \/ /\ StatFile(r) /\ pc[r] = "stat" /\ answer'[r] = "200"
                 /\ file[PathFor(r)] # NoFile /\ req[seen[r]] = req[r]
<1>1. ASSUME NEW q \in Requests, Deposit(q)
      PROVE  q = r
  BY <1>1, DepositAlone DEF Alone, Answers, SInv
<1>2. CASE Deposit(r)
  BY <1>2 DEF Deposit, Receive, AcquireDeposit, CheckRow, ReadFails, StatFile, MarkMissing,
     WriteTemp, InsertRow, InsertLoses, InsertFails, Reread, RecordDeposit, Link, Rollback, Correct,
     Publish, Finish, Go, Decide, Refused, Answers, SInv, TInv, TypeOK
<1>3. ~UNCHANGED pc
  BY DEF Answers
<1>4. ~(PurgeStep \/ \E p \in Policies : PurgeStart(p))
  BY <1>3, PurgeOnward DEF depositVars, SInv
<1>5. ~((\E v \in Verifiers : Verify(v)) \/ Flush \/ \E p \in Paths : Damage(p))
  BY <1>3 DEF Verify, VerifyStart, VerifyAcquire, VerifyReread, VerifyOpen, VerifySetStatus,
     VerifyRecord, VerifyKeeps, Flush, Damage, depositVars
<1>6. ~(Crash \/ PowerLoss)
  BY DEF Crash, PowerLoss, Die, Answers, SInv, TInv, TypeOK
<1>7. QED
  BY <1>1, <1>2, <1>4, <1>5, <1>6 DEF Next

(* With other processes about, the row a retry has read may have been another *)
(* deposit's by the time it looks for the file; who links is sure of it.      *)
LEMMA PresentIsSomeones ==
    ASSUME OwnPaths, KInv, NEW r \in Requests, pc[r] = "stat", file[PathFor(r)] # NoFile,
           row[IdOf(seen[r])] # NoRow, row[IdOf(seen[r])].at = seen[r],
           req[seen[r]] = req[r]
    PROVE  Intact(seen[r]) \/ seen[r] \in damaged
<1> DEFINE p == PathFor(r)
           q == file[p].by
<1>1. /\ IdOf(r) \in Ids /\ p \in Paths /\ file[p] \in File /\ q \in Requests
      /\ IdOf(seen[r]) = IdOf(r)
  BY ArrivedBytes DEF KInv, SInv, TInv, TypeOK, File, IdOf
<1>2. p = PathFor(q) /\ file[p].id = IdOf(q) /\ pc[q] \in Settled \cup {"publish"}
  BY <1>1 DEF KInv, SInv, FileOf
<1>3. req[q] \in Container /\ IdOf(q) \in Ids /\ row[IdOf(q)] # NoRow /\ row[IdOf(q)].at = q
  BY <1>1, <1>2, ArrivedBytes DEF KInv, SInv, TInv, Arrived, Settled, NoUndescribedFile
<1>4. IdOf(q) = IdOf(r) /\ q = seen[r]
  BY <1>1, <1>2, <1>3 DEF OwnPaths, PathFor
<1>5. q \in damaged \/ file[p] = Bytes(q)
  BY <1>1, <1>2 DEF KInv, BytesAreTheirs, Bytes, File
<1>6. QED
  BY <1>1, <1>2, <1>3, <1>4, <1>5, SentinelAssumption DEF Intact

(* On a volume that tells IDs apart, a deposit is told 201 only when its       *)
(* capsule is there, and 200 only when the one it repeats is, power failures   *)
(* and any number of processes included (publishCapsule, respondToDuplicate);  *)
(* only beside a second process may the row behind a 200 be gone.              *)
THEOREM AnswersStayTrue ==
    ASSUME OwnPaths
    PROVE  Spec => AnswersAreTrue
<1> DEFINE True == \A r \in Requests : Answers(r, {"200", "201"}) => IsTrue(r)
<1>1. ASSUME UNCHANGED vars
      PROVE  True
  BY <1>1 DEF vars, depositVars, Answers
<1>2. CASE OneProcess
  <2>1. ASSUME HInv, Next
        PROVE  True
    BY <2>1, AnswerSteps, PresentIsIntact DEF HInv, KInv, Published, IsTrue
  <2>2. HInv /\ [Next]_vars => [True]_vars
    BY <1>1, <2>1
  <2>3. Spec => [][True]_vars
    BY <1>2, <2>2, AlwaysHInv, PTL DEF Spec
  <2>4. QED
    BY <2>3 DEF AnswersAreTrue
<1>3. CASE ~OneProcess
  <2>1. ASSUME KInv, Refused, Next
        PROVE  True
    <3>1. SUFFICES ASSUME NEW r \in Requests, Answers(r, {"200", "201"})
                   PROVE  IsTrue(r)
      OBVIOUS
    <3>2. Elsewhere(r)
      BY <1>3 DEF Elsewhere, OneProcess, Procs
    <3>3. CASE pc[r] = "publish" /\ answer'[r] = "201"
      BY <2>1, <3>3 DEF KInv, Published, IsTrue
    <3>4. CASE pc[r] = "stat" /\ answer'[r] = "200" /\ file[PathFor(r)] # NoFile
               /\ req[seen[r]] = req[r]
      BY <2>1, <3>2, <3>4, PresentIsSomeones DEF IsTrue
    <3>5. QED
      BY <2>1, <3>1, <3>3, <3>4, AnswerSteps DEF KInv
  <2>2. KInv /\ Refused /\ [Next]_vars => [True]_vars
    BY <1>1, <2>1
  <2>3. Spec => [](KInv /\ Refused)
    BY AlwaysKInv
  <2>4. Spec => [][True]_vars
    BY <2>2, <2>3, PTL DEF Spec
  <2>5. QED
    BY <2>4 DEF AnswersAreTrue
<1>4. QED
  BY <1>2, <1>3

----------------------------------------------------------------------------
(* What was acknowledged stays, on a medium whose power does not fail.      *)

LEMMA SettledAnswers ==
    ASSUME SInv, Next, NEW q \in Requests, pc[q] \in Settled
    PROVE  answer'[q] = answer[q] /\ seen'[q] = seen[q] /\ pc'[q] = pc[q] /\ req'[q] = req[q]
<1>1. pc'[q] = pc[q] /\ req'[q] = req[q]
  BY NextOnward DEF Onward, Settled
<1>2. ASSUME NEW r \in Requests, Deposit(r)
      PROVE  answer'[q] = answer[q] /\ seen'[q] = seen[q]
  <2>1. CASE q # r
    BY <1>2, <2>1, DepositAlone DEF Alone, SInv
  <2>2. CASE q = r
    BY <1>2, <2>2 DEF Deposit, Receive, AcquireDeposit, CheckRow, ReadFails, StatFile, MarkMissing,
       WriteTemp, InsertRow, InsertLoses, InsertFails, Reread, RecordDeposit, Link, Rollback, Correct,
       Publish, Settled
  <2>3. QED
    BY <2>1, <2>2
<1>3. CASE PurgeStep \/ \E p \in Policies : PurgeStart(p)
  BY <1>1, <1>3, PurgeOnward DEF depositVars, SInv
<1>4. CASE (\E v \in Verifiers : Verify(v)) \/ Crash \/ PowerLoss \/ Flush \/ \E p \in Paths : Damage(p)
  BY <1>1, <1>4 DEF Verify, VerifyStart, VerifyAcquire, VerifyReread, VerifyOpen, VerifySetStatus,
     VerifyRecord, VerifyKeeps, Crash, PowerLoss, Die, Flush, Damage, depositVars
<1>5. QED
  BY <1>1, <1>2, <1>3, <1>4 DEF Next

LEMMA AckedStays ==
    ASSUME OwnPaths, ~PowerMayFail, HInv, AckedDurable, Receipts, Next
    PROVE  AckedDurable' /\ Receipts'
<1>1. SUFFICES ASSUME NEW r \in Requests, pc'[r] = "done", answer'[r] \in {"200", "201"}
               PROVE  \E q \in Requests : /\ q = IF answer'[r] = "201" THEN r ELSE seen'[r]
                                         /\ pc'[q] \in Inserted /\ req'[q] = req'[r] /\ Kept(q)'
  BY ZenonT(30) DEF AckedDurable, Receipts, Accepted, Receipt, Kept, Requested, Intact, IdOf, PathFor, Bytes
<1>2. SInv /\ PurgeAnnounced /\ ~PowerLoss
  BY DEF HInv, KInv, PowerLoss
<1>3. ASSUME NEW q \in Requests, pc[q] \in Inserted, pc[r] # "new", req[q] = req[r], Kept(q)
      PROVE  pc'[q] \in Inserted /\ req'[q] = req'[r] /\ Kept(q)'
  <2>1. pc'[q] \in Inserted /\ req'[q] = req[q] /\ req'[r] = req[r]
    BY <1>2, <1>3, OwnersGoOn, NextOnward DEF Onward
  <2>2. ASSUME Intact(q)
        PROVE  pc[q] \in Settled \cup {"publish"}
    <3>1. PathFor(q) \in Paths /\ file[PathFor(q)] # NoFile /\ file[PathFor(q)].by = q
      BY <1>2, <1>3, <2>2, ArrivedBytes, SentinelAssumption DEF SInv, Intact, Bytes, Inserted
    <3>2. QED
      BY <1>2, <3>1 DEF SInv, FileOf
  <2>3. Kept(q)'
    BY <1>2, <1>3, <2>2, IntactStays, DamagedStay, NextOnward DEF Kept, Onward, Requested
  <2>4. QED
    BY <1>3, <2>1, <2>3
<1>4. CASE pc[r] = "done"
  <2>1. answer'[r] = answer[r] /\ seen'[r] = seen[r]
    BY <1>2, <1>4, SettledAnswers DEF Settled
  <2>2. PICK q \in Requests : q = Receipt(r)
    BY <1>1, <1>4, <2>1 DEF Receipts, Accepted
  <2>3. pc[q] \in Inserted /\ req[q] = req[r] /\ Kept(q)
    BY <1>1, <1>4, <2>1, <2>2 DEF AckedDurable, Receipts, Accepted, Kept, Requested
  <2>4. QED
    BY <1>3, <1>4, <2>1, <2>2, <2>3 DEF Receipt
<1>5. CASE pc[r] # "done"
  <2>1. Answers(r, {"200", "201"})
    BY <1>1, <1>5 DEF Answers
  <2>2. CASE pc[r] = "publish" /\ answer'[r] = "201"
    BY <1>3, <2>2 DEF HInv, KInv, Published, Kept, Inserted
  <2>3. CASE /\ pc[r] = "stat" /\ answer'[r] = "200" /\ UNCHANGED seen
             /\ file[PathFor(r)] # NoFile /\ req[seen[r]] = req[r]
    <3>1. /\ seen[r] \in Requests /\ pc[seen[r]] \in Settled \cup {"publish"}
          /\ Intact(seen[r]) \/ seen[r] \in damaged
      BY <2>3, PresentIsIntact
    <3>2. QED
      BY <1>3, <2>3, <3>1 DEF Kept, Settled, Inserted
  <2>4. QED
    BY <1>2, <2>1, <2>2, <2>3, AnswerSteps DEF HInv
<1>6. QED
  BY <1>4, <1>5

----------------------------------------------------------------------------
(* Verdicts. *)

LEMMA ExcusedStays ==
    ASSUME SInv, Next, NEW q \in Requests, Excused(q)
    PROVE  Excused(q)'
BY SettledAnswers, DamagedStay, NextOnward DEF Excused, Onward, Requested, Settled

(* Whoever holds the ID looks at a capsule whose deposit is over, and at one *)
(* that is not whole only for a reason.                                      *)
LEMMA BrokenIsEvidence ==
    ASSUME OneProcess, HInv, AckedDurable, NEW h \in Procs, NEW id \in Ids,
           lock[HostOf[h]][id] = h, row[id] # NoRow,
           h \in Requests => pc[h] \in {"stat", "mark"}, ~Intact(row[id].at)
    PROVE  row[id].at \in Requests /\ Excused(row[id].at)
<1> DEFINE q == row[id].at
<1>1. q \in Requests /\ pc[q] \in Inserted /\ IdOf(q) = id /\ q \in Procs
  BY RowReceipt DEF HInv, KInv, RowsHaveOwners, SInv, Procs
<1>2. pc[q] \in Settled
  <2>1. SUFFICES ASSUME pc[q] \notin Settled
                 PROVE  FALSE
    OBVIOUS
  <2>2. lock[HostOf[q]][id] = q
    BY <1>1, <2>1 DEF HInv, LockInv, DepositsHold, Inserted, Waiting, Settled
  <2>3. q = h
    BY <1>1, <2>2 DEF OneProcess
  <2>4. QED
    BY <1>1, <2>3 DEF Inserted
<1>3. CASE pc[q] = "done" /\ answer[q] = "201"
  <2>1. Accepted(q) /\ Receipt(q) = q
    BY <1>3 DEF Accepted, Receipt
  <2>2. QED
    BY <1>1, <2>1 DEF AckedDurable, Excused, Requested
<1>4. QED
  BY <1>1, <1>2, <1>3 DEF Excused, Settled

(* A status is written by a duplicate or a verifier, and under the lock. *)
LEMMA StatusMoves ==
    ASSUME SInv, Next, NEW id \in Ids, row'[id] # NoRow, row'[id].status # "active"
    PROVE  /\ row[id] # NoRow /\ row'[id].at = row[id].at
           /\ \/ row[id].status = row'[id].status
              \/ \E r \in Requests : MarkMissing(r) /\ pc[r] = "mark" /\ id = IdOf(r)
              \/ \E v \in Verifiers : VerifySetStatus(v) /\ vpc[v] = "corrupt" /\ id = vid[v]
<1>1. CASE row'[id] = row[id]
  BY <1>1
<1>2. row \in [Ids -> Row \cup {NoRow}] /\ \A x \in Row : x # NoRow
  BY SentinelAssumption DEF SInv, TInv, TypeOK
<1>3. ASSUME NEW r \in Requests, MarkMissing(r)
      PROVE  row'[id] = row[id] \/ (pc[r] = "mark" /\ id = IdOf(r) /\ row[id] # NoRow
                                     /\ row'[id].at = row[id].at)
  BY <1>2, <1>3 DEF MarkMissing, SetStatus, Row
<1>4. ASSUME NEW v \in Verifiers, VerifySetStatus(v)
      PROVE  row'[id] = row[id] \/ (vpc[v] = "corrupt" /\ id = vid[v] /\ row[id] # NoRow
                                     /\ row'[id].at = row[id].at)
  BY <1>2, <1>4 DEF VerifySetStatus, SetStatus, Row
<1>5. ASSUME NEW r \in Requests, InsertRow(r)
      PROVE  row'[id] = row[id]
  BY <1>2, <1>5 DEF InsertRow, NewRow
<1>6. ASSUME NEW r \in Requests, Rollback(r)
      PROVE  row'[id] = row[id]
  BY <1>2, <1>6 DEF Rollback
<1>7. ASSUME PurgeDelete
      PROVE  row'[id] = row[id]
  BY <1>2, <1>7 DEF PurgeDelete
<1>8. ASSUME NEW r \in Requests, Deposit(r), ~MarkMissing(r), ~InsertRow(r), ~Rollback(r)
      PROVE  UNCHANGED row
  BY <1>8 DEF Deposit, Receive, AcquireDeposit, CheckRow, ReadFails, StatFile, WriteTemp,
     InsertLoses, InsertFails, Reread, RecordDeposit, Link, Correct, Publish, storeVars
<1>9. ASSUME NEW v \in Verifiers, Verify(v), ~VerifySetStatus(v)
      PROVE  UNCHANGED row
  BY <1>9 DEF Verify, VerifyStart, VerifyAcquire, VerifyReread, VerifyOpen, VerifyRecord
<1>10. ASSUME PurgeStep \/ \E p \in Policies : PurgeStart(p), ~PurgeDelete
       PROVE  UNCHANGED row
  BY <1>10 DEF PurgeStep, PurgeStart, Settle, Choose, PurgeAcquire, PurgeReread, PurgeRequest,
     PurgeRemove, PurgeLog, PurgeEnd, storeVars
<1>11. ASSUME Crash \/ PowerLoss \/ Flush \/ \E p \in Paths : Damage(p)
       PROVE  UNCHANGED row
  BY <1>11 DEF Crash, PowerLoss, Die, Flush, Damage, storeVars
<1>12. QED
  BY <1>1, <1>3, <1>4, <1>5, <1>6, <1>7, <1>8, <1>9, <1>10, <1>11 DEF Next

(* A duplicate that is about to mark a row found no file for it. *)
LEMMA MarkedIsExcused ==
    ASSUME OneProcess, EInv, Next, NEW r \in Requests, pc'[r] = "mark"
    PROVE  \E q \in Requests : q = seen'[r] /\ Excused(q)'
<1>1. SInv /\ SeenIsThere /\ RowsHaveOwners /\ LockInv
  BY DEF EInv, HInv, KInv
<1>2. ASSUME pc[r] \in {"stat", "mark"}, Excused(seen[r]), seen'[r] = seen[r]
      PROVE  \E q \in Requests : q = seen'[r] /\ Excused(q)'
  <2>1. IdOf(r) \in Ids /\ row[IdOf(r)] # NoRow /\ row[IdOf(r)].at = seen[r]
    BY <1>1, <1>2, ArrivedBytes DEF SInv, SeenIsThere
  <2>2. seen[r] \in Requests
    BY <1>1, <2>1, RowReceipt DEF SInv
  <2>3. QED
    BY <1>1, <1>2, <2>2, ExcusedStays
<1>3. CASE pc[r] = "mark" /\ seen'[r] = seen[r]
  BY <1>2, <1>3 DEF EInv, Evidence
<1>4. CASE StatFile(r) /\ file[PathFor(r)] = NoFile
  <2>1. /\ IdOf(r) \in Ids /\ row[IdOf(r)] # NoRow /\ row[IdOf(r)].at = seen[r] /\ r \in Procs
        /\ lock[HostOf[r]][IdOf(r)] = r /\ pc[r] = "stat" /\ seen'[r] = seen[r]
    BY <1>1, <1>4, ArrivedBytes DEF StatFile, SInv, SeenIsThere, LockInv, DepositsHold, Waiting, Procs
  <2>2. seen[r] \in Requests /\ IdOf(seen[r]) = IdOf(r) /\ pc[seen[r]] \in Inserted
    BY <1>1, <2>1, RowReceipt DEF SInv, RowsHaveOwners
  <2>3. Bytes(seen[r]) # NoFile
    BY <1>1, <2>2, ArrivedBytes, SentinelAssumption DEF Inserted, SInv
  <2>4. ~Intact(row[IdOf(r)].at)
    BY <1>4, <2>1, <2>2, <2>3 DEF Intact, PathFor
  <2>5. Excused(seen[r])
    BY <2>1, <2>4, BrokenIsEvidence DEF EInv
  <2>6. QED
    BY <1>2, <2>1, <2>5
<1>5. ASSUME NEW d \in Requests, Deposit(d)
      PROVE  (pc[r] = "mark" /\ seen'[r] = seen[r]) \/ (StatFile(r) /\ file[PathFor(r)] = NoFile)
  <2>1. CASE r # d
    BY <1>1, <1>5, <2>1, DepositAlone DEF Alone, SInv
  <2>2. CASE r = d
    BY <1>1, <1>5, <2>2 DEF Deposit, Receive, AcquireDeposit, CheckRow, ReadFails, StatFile, MarkMissing,
       WriteTemp, InsertRow, InsertLoses, InsertFails, Reread, RecordDeposit, Link, Rollback, Correct,
       Publish, Finish, Go, SInv, TInv, TypeOK
  <2>3. QED
    BY <2>1, <2>2
<1>6. CASE Crash \/ PowerLoss
  BY <1>1, <1>3, <1>6 DEF Crash, PowerLoss, Die, SInv, TInv, TypeOK
<1>7. CASE PurgeStep \/ \E p \in Policies : PurgeStart(p)
  BY <1>1, <1>3, <1>7, PurgeOnward DEF depositVars, SInv
<1>8. CASE (\E v \in Verifiers : Verify(v)) \/ Flush \/ \E p \in Paths : Damage(p)
  BY <1>3, <1>8 DEF Verify, VerifyStart, VerifyAcquire, VerifyReread, VerifyOpen, VerifySetStatus,
     VerifyRecord, VerifyKeeps, Flush, Damage, depositVars
<1>9. QED
  BY <1>3, <1>4, <1>5, <1>6, <1>7, <1>8 DEF Next

(* A verifier with a finding found no file, or other bytes than the row's. *)
LEMMA FoundIsExcused ==
    ASSUME OneProcess, EInv, Next, NEW v \in Verifiers, vpc'[v] \in {"corrupt", "logcorrupt"}
    PROVE  \E q \in Requests : q = vrec'[v] /\ Excused(q)'
<1>1. SInv /\ VerifiedIsThere /\ RowsHaveOwners /\ LockInv
  BY DEF EInv, HInv, KInv
<1>2. ASSUME vpc[v] \in {"open", "corrupt", "logcorrupt"}, Excused(vrec[v]), vrec'[v] = vrec[v]
      PROVE  \E q \in Requests : q = vrec'[v] /\ Excused(q)'
  <2>1. vid[v] \in Ids /\ row[vid[v]] # NoRow /\ row[vid[v]].at = vrec[v]
    BY <1>1, <1>2 DEF SInv, TInv, HasTarget, VerifiedIsThere
  <2>2. vrec[v] \in Requests
    BY <1>1, <2>1, RowReceipt DEF SInv
  <2>3. QED
    BY <1>1, <1>2, <2>2, ExcusedStays
<1>3. CASE vpc[v] \in {"corrupt", "logcorrupt"} /\ vrec'[v] = vrec[v]
  BY <1>2, <1>3 DEF EInv, Evidence
<1>4. CASE VerifyOpen(v)
  <2>1. /\ vid[v] \in Ids /\ row[vid[v]] # NoRow /\ row[vid[v]].at = vrec[v] /\ v \in Procs
        /\ lock[HostOf[v]][vid[v]] = v /\ v \notin Requests /\ vpc[v] = "open"
    BY <1>1, <1>4, StoreAssumption DEF VerifyOpen, SInv, TInv, HasTarget, VerifiedIsThere, LockInv,
       VerifiersHold, Procs
  <2>2. vrec[v] \in Requests /\ IdOf(vrec[v]) = vid[v] /\ pc[vrec[v]] \in Inserted
    BY <1>1, <2>1, RowReceipt DEF SInv, RowsHaveOwners
  <2>3. req[vrec[v]] \in Container
    BY <1>1, <2>2, ArrivedBytes DEF Inserted, SInv, TInv, Arrived
  <2>4. Bytes(vrec[v]) # NoFile
    BY <1>1, <2>2, ArrivedBytes, SentinelAssumption DEF Inserted, SInv
  <2>5. /\ vrec'[v] = vrec[v]
        /\ LET f == file[PathOf[vid[v]]]
           IN f = NoFile \/ [id |-> f.id, body |-> f.body] # req[vrec[v]]
    BY <1>1, <1>4 DEF VerifyOpen, VGoOn, VGo, VEnd, SInv, TInv, TypeOK
  <2>6. ~Intact(row[vid[v]].at)
    BY <2>1, <2>2, <2>3, <2>4, <2>5 DEF Intact, PathFor, Bytes, IdOf, Container
  <2>7. Excused(vrec[v])
    BY <2>1, <2>6, BrokenIsEvidence DEF EInv
  <2>8. QED
    BY <1>2, <2>1, <2>5, <2>7
<1>5. ASSUME NEW w \in Verifiers, Verify(w)
      PROVE  (vpc[v] \in {"corrupt", "logcorrupt"} /\ vrec'[v] = vrec[v]) \/ VerifyOpen(v)
  BY <1>1, <1>5 DEF Verify, VerifyStart, VerifyAcquire, VerifyReread, VerifyOpen, VerifySetStatus,
     VerifyRecord, VEnd, VGoOn, VGo, SInv, TInv, TypeOK
<1>6. CASE Crash \/ PowerLoss
  BY <1>1, <1>3, <1>6 DEF Crash, PowerLoss, Die, SInv, TInv, TypeOK
<1>7. CASE PurgeStep \/ \E p \in Policies : PurgeStart(p)
  BY <1>3, <1>7 DEF PurgeStep, PurgeStart, Settle, Choose, PurgeAcquire, PurgeReread, PurgeRequest,
     PurgeRemove, PurgeDelete, PurgeLog, PurgeEnd, PurgeKeeps, verifyVars
<1>8. CASE (\E r \in Requests : Deposit(r)) \/ Flush \/ \E p \in Paths : Damage(p)
  BY <1>1, <1>3, <1>8, DepositAlone DEF Flush, Damage, verifyVars, SInv
<1>9. QED
  BY <1>3, <1>4, <1>5, <1>6, <1>7, <1>8 DEF Next

LEMMA StatusIsExcused ==
    ASSUME EInv, Next, NEW id \in Ids, row'[id] # NoRow, row'[id].status # "active"
    PROVE  \E q \in Requests : q = row'[id].at /\ Excused(q)'
<1>1. SInv /\ SeenIsThere /\ VerifiedIsThere
  BY DEF EInv, HInv, KInv
<1>2. row[id] # NoRow /\ row'[id].at = row[id].at /\ row[id].at \in Requests
  BY <1>1, StatusMoves, RowReceipt DEF SInv
<1>3. Excused(row[id].at)
  <2>1. CASE row[id].status = row'[id].status
    BY <1>2, <2>1 DEF EInv, Evidence
  <2>2. ASSUME NEW r \in Requests, pc[r] = "mark", id = IdOf(r)
        PROVE  Excused(row[id].at)
    BY <1>1, <2>2 DEF SeenIsThere, EInv, Evidence
  <2>3. ASSUME NEW v \in Verifiers, vpc[v] = "corrupt", id = vid[v]
        PROVE  Excused(row[id].at)
    BY <1>1, <2>3 DEF VerifiedIsThere, EInv, Evidence
  <2>4. QED
    BY <1>1, <2>1, <2>2, <2>3, StatusMoves
<1>4. QED
  BY <1>1, <1>2, <1>3, ExcusedStays

LEMMA LoggedIsExcused ==
    ASSUME EInv, Next, NEW r \in Requests, "capsule_corrupt" \in log'[r]
    PROVE  Excused(r)'
<1>1. SInv
  BY DEF EInv, HInv, KInv
<1>2. CASE "capsule_corrupt" \in log[r]
  BY <1>1, <1>2, ExcusedStays DEF EInv, Evidence
<1>3. CASE "capsule_corrupt" \notin log[r]
  <2>1. ASSUME NEW q, NEW act, Record(act, q), act # "capsule_corrupt"
        PROVE  FALSE
    BY <1>1, <1>3, <2>1 DEF Record, SInv, TInv, TypeOK
  <2>2. ASSUME UNCHANGED log
        PROVE  FALSE
    BY <1>3, <2>2
  <2>3. ASSUME NEW v \in Verifiers, VerifyRecord(v)
        PROVE  vpc[v] = "logcorrupt" /\ r = vrec[v]
    BY <1>1, <1>3, <2>3 DEF VerifyRecord, Record, SInv, TInv, TypeOK
  <2>4. ~ \E q \in Requests : Deposit(q)
    BY <2>1, <2>2 DEF Deposit, Receive, AcquireDeposit, CheckRow, ReadFails, StatFile, MarkMissing,
       WriteTemp, InsertRow, InsertLoses, InsertFails, Reread, RecordDeposit, Link, Rollback, Correct,
       Publish, storeVars
  <2>5. ~ (PurgeStep \/ \E p \in Policies : PurgeStart(p))
    BY <2>1, <2>2 DEF PurgeStep, PurgeStart, Settle, Choose, PurgeAcquire, PurgeReread, PurgeRequest,
       PurgeRemove, PurgeDelete, PurgeLog, PurgeEnd, storeVars
  <2>6. ~ (Crash \/ PowerLoss \/ Flush \/ \E p \in Paths : Damage(p))
    BY <2>2 DEF Crash, PowerLoss, Die, Flush, Damage, storeVars
  <2>7. \E v \in Verifiers : vpc[v] = "logcorrupt" /\ r = vrec[v]
    BY <2>2, <2>3, <2>4, <2>5, <2>6 DEF Next, Verify, VerifyStart, VerifyAcquire, VerifyReread, VerifyOpen,
       VerifySetStatus
  <2>8. Excused(r)
    BY <2>7 DEF EInv, Evidence
  <2>9. QED
    BY <1>1, <2>8, ExcusedStays
<1>4. QED
  BY <1>2, <1>3

LEMMA AlwaysEInv ==
    ASSUME OneProcess, OwnPaths, ~PowerMayFail
    PROVE  Spec => []EInv
<1>1. Init => EInv
  BY InitHInv DEF Init, EInv, AckedDurable, Accepted, Receipts, Evidence
<1>2. ASSUME EInv, SInv', Next
      PROVE  EInv'
  <2>1. HInv' /\ AckedDurable' /\ Receipts'
    BY <1>2, NextKeepsHInv, AckedStays DEF EInv
  <2>2. Evidence'
    BY <1>2, MarkedIsExcused, FoundIsExcused, StatusIsExcused, LoggedIsExcused
    DEF Evidence, Excused, Requested
  <2>3. QED
    BY <2>1, <2>2 DEF EInv
<1>3. ASSUME EInv, SInv', UNCHANGED vars
      PROVE  EInv'
  <2>1. HInv'
    BY <1>3, NextKeepsHInv DEF EInv
  <2>2. AckedDurable' /\ Receipts' /\ Evidence'
    BY <1>3 DEF vars, storeVars, depositVars, verifyVars, worldVars, EInv, AckedDurable, Receipts,
       Evidence, Excused, Requested, Accepted, Receipt, Intact, IdOf, PathFor, Bytes
  <2>3. QED
    BY <2>1, <2>2 DEF EInv
<1>4. SInv /\ TInv /\ EInv /\ [Next]_vars => SInv' /\ TInv' /\ EInv'
  BY <1>2, <1>3, NextKeepsSInv, NextKeepsTInv
<1>5. QED
  BY <1>1, <1>4, InitSInv, InitTInv, PTL DEF Spec

(* A deposit that was told 201 or 200 stays stored, row and bytes, through    *)
(* every later deposit, retry, sweep, crash and failed purge, until a purge of *)
(* it was announced in the chain or the disk damaged it (publishCapsule,       *)
(* respondToDuplicate, purgeExpired); a directory entry that a power failure   *)
(* can still take back is the exception the code leaves open.                  *)
THEOREM AckedStayDurable ==
    ASSUME OneProcess, OwnPaths, ~PowerMayFail
    PROVE  Spec => []AckedDurable
<1>1. EInv => AckedDurable
  BY DEF EInv
<1>2. QED
  BY <1>1, AlwaysEInv, PTL

(* Neither verifyCapsule nor respondToDuplicate calls a capsule corrupt because *)
(* it looked at a bad moment: the row's status and the chain's capsule_corrupt  *)
(* stand only against a deposit that died or was refused, damaged bytes, or a   *)
(* purge that was announced.                                                    *)
THEOREM CorruptStaysEvidence ==
    ASSUME OneProcess, OwnPaths, ~PowerMayFail
    PROVE  Spec => []CorruptIsEvidence
<1>1. EInv => CorruptIsEvidence
  BY ArrivedBytes DEF EInv, Evidence, Excused, Requested, CorruptIsEvidence, HInv, KInv, SInv, TInv,
     Arrived, TypeOK, Container, IdOf
<1>2. QED
  BY <1>1, AlwaysEInv, PTL

(* In one process, no row is marked corrupt between the removal of its file  *)
(* and its own: verifyCapsule, the sweep's or an admin's, and a duplicate's   *)
(* markCorrupt wait for the ID that purgeExpired holds.                       *)
THEOREM PurgeIsNeverCorruption ==
    ASSUME OneProcess
    PROVE  Spec => PurgeIsNotCorruption
<1> DEFINE Spared == \A id \in Ids :
                         /\ row[id] # NoRow /\ row[id].status = "active"
                         /\ row'[id] # NoRow /\ row'[id].status = "corrupt"
                         => ~(ppc = "delete" /\ IdOf(pcur) = id)
<1>1. ASSUME SInv, LockInv, Next
      PROVE  Spared
  <2>1. SUFFICES ASSUME NEW id \in Ids, row[id] # NoRow, row[id].status = "active",
                        row'[id] # NoRow, row'[id].status = "corrupt",
                        ppc = "delete", IdOf(pcur) = id
                 PROVE  FALSE
    OBVIOUS
  <2>2. lock[HostOf[Purger]][id] = Purger /\ Purger \in Procs /\ Purger \notin Requests \cup Verifiers
    BY <1>1, <2>1, StoreAssumption DEF LockInv, PurgerHolds, Removing, Procs
  <2>3. ASSUME NEW r \in Requests, pc[r] = "mark", id = IdOf(r)
        PROVE  FALSE
    BY <1>1, <2>2, <2>3 DEF LockInv, DepositsHold, Waiting, OneProcess, Procs
  <2>4. ASSUME NEW v \in Verifiers, vpc[v] = "corrupt", id = vid[v]
        PROVE  FALSE
    BY <1>1, <2>2, <2>4 DEF LockInv, VerifiersHold, OneProcess, Procs
  <2>5. QED
    BY <1>1, <2>1, <2>3, <2>4, StatusMoves
<1>2. SInv /\ LockInv /\ [Next]_vars => [Spared]_vars
  BY <1>1
<1>3. SInv /\ TInv /\ LockInv /\ [Next]_vars => SInv' /\ TInv' /\ LockInv'
  BY NextKeepsSInv, NextKeepsTInv, NextKeepsLocks
<1>4. Init => LockInv
  BY InitHInv DEF HInv
<1>5. Spec => [][Spared]_vars
  BY <1>2, <1>3, <1>4, InitSInv, InitTInv, PTL DEF Spec
<1>6. QED
  BY <1>5 DEF PurgeIsNotCorruption

----------------------------------------------------------------------------
(* The refinement: every step of the store is a step of BlindStore.  What   *)
(* the map looks at are the two announcements, the file and the damage.     *)

Deposited(r) == "capsule_deposited" \in log[r]
HasFile(r) == \E p \in Paths : file[p] # NoFile /\ file[p].by = r

(* Only what was published can be damaged, only what arrived is announced. *)
DamagedWereOut == \A r \in damaged : pc[r] \in Settled \cup {"publish"}
AnnouncedArrived == \A r \in Requests : Deposited(r) => pc[r] # "new"
BInv == SInv /\ PurgeAnnounced /\ DamagedWereOut /\ AnnouncedArrived

LEMMA StageIs ==
    ASSUME NEW r \in Requests
    PROVE  /\ Stage(r) = IF r \in damaged THEN "damaged"
                         ELSE IF HasFile(r) THEN IF Requested(r) THEN "condemned" ELSE "stored"
                         ELSE IF Requested(r) THEN "removed"
                         ELSE IF Deposited(r) THEN "announced" ELSE "unknown"
           /\ Stage(r)' = IF r \in damaged' THEN "damaged"
                          ELSE IF HasFile(r)' THEN IF Requested(r)' THEN "condemned" ELSE "stored"
                          ELSE IF Requested(r)' THEN "removed"
                          ELSE IF Deposited(r)' THEN "announced" ELSE "unknown"
<1>1. (\A p \in Paths : file[p] = NoFile \/ file[p].by # r) <=> ~HasFile(r)
  BY DEF HasFile
<1>2. (\A p \in Paths : file'[p] = NoFile \/ file'[p].by # r) <=> ~HasFile(r)'
  BY DEF HasFile
<1>3. (\E p \in Paths : file[p] # NoFile /\ file[p].by = r) <=> HasFile(r)
  BY DEF HasFile
<1>4. (\E p \in Paths : file'[p] # NoFile /\ file'[p].by = r) <=> HasFile(r)'
  BY DEF HasFile
<1>5. QED
  BY <1>1, <1>2, <1>3, <1>4 DEF Stage, Requested, Deposited

(* Who announces, who damages, who moves files. *)
LEMMA DepositAnnounced ==
    ASSUME SInv, Next, NEW r \in Requests
    PROVE  /\ Deposited(r) => Deposited(r)'
           /\ Deposited(r)' => Deposited(r) \/ RecordDeposit(r)
           /\ Requested(r) => Requested(r)'
           /\ Requested(r)' => Requested(r) \/ (PurgeRequest /\ r = pcur)
<1>1. log[r] \subseteq log'[r]
  BY NextOnward DEF Onward
<1>2. ASSUME Deposited(r)', ~Deposited(r), ~RecordDeposit(r)
      PROVE  FALSE
  <2>1. ASSUME NEW q, NEW act, Record(act, q), act # "capsule_deposited"
        PROVE  FALSE
    BY <1>2, <2>1 DEF Record, Deposited, SInv, TInv, TypeOK
  <2>2. ASSUME NEW q \in Requests, RecordDeposit(q)
        PROVE  FALSE
    BY <1>2, <2>2 DEF RecordDeposit, Record, Deposited, SInv, TInv, TypeOK
  <2>3. ASSUME UNCHANGED log
        PROVE  FALSE
    BY <1>2, <2>3 DEF Deposited
  <2>4. ~ \E q \in Requests : Deposit(q)
    BY <2>1, <2>2, <2>3 DEF Deposit, Receive, AcquireDeposit, CheckRow, ReadFails, StatFile, MarkMissing,
       WriteTemp, InsertRow, InsertLoses, InsertFails, Reread, Link, Rollback, Correct, Publish, storeVars
  <2>5. ~ \E v \in Verifiers : Verify(v)
    BY <2>1, <2>3 DEF Verify, VerifyStart, VerifyAcquire, VerifyReread, VerifyOpen, VerifySetStatus,
       VerifyRecord
  <2>6. ~ (Crash \/ PowerLoss \/ Flush \/ \E p \in Paths : Damage(p))
    BY <2>3 DEF Crash, PowerLoss, Die, Flush, Damage, storeVars
  <2>7. QED
    BY <2>1, <2>3, <2>4, <2>5, <2>6 DEF Next, PurgeStep, PurgeStart, Settle, Choose, PurgeAcquire,
       PurgeReread, PurgeRequest, PurgeRemove, PurgeDelete, PurgeLog, PurgeEnd, storeVars
<1>3. QED
  BY <1>1, <1>2, RequestIsAnnouncement DEF Deposited, Requested

LEMMA OnlyDiskDamages ==
    ASSUME Next
    PROVE  UNCHANGED damaged \/ \E p \in Paths : Damage(p)
BY DEF Next, Deposit, Receive, AcquireDeposit, CheckRow, ReadFails, StatFile, MarkMissing,
   WriteTemp, InsertRow, InsertLoses, InsertFails, Reread, RecordDeposit, Link, Rollback, Correct,
   Publish, DepositKeeps, Verify, VerifyStart, VerifyAcquire, VerifyReread, VerifyOpen,
   VerifySetStatus, VerifyRecord, VerifyKeeps, worldVars, PurgeStep, PurgeStart, Settle, Choose,
   PurgeAcquire, PurgeReread, PurgeRequest, PurgeRemove, PurgeDelete, PurgeLog, PurgeEnd,
   PurgeKeeps, Crash, PowerLoss, Die, Flush

LEMMA ArrivedStay ==
    ASSUME SInv, Next, NEW q \in Requests, pc[q] # "new"
    PROVE  pc'[q] # "new"
<1>1. ASSUME NEW r \in Requests, Deposit(r)
      PROVE  pc'[q] # "new"
  <2>1. CASE q # r
    BY <1>1, <2>1, DepositAlone DEF Alone, SInv
  <2>2. CASE q = r
    BY <1>1, <2>2 DEF Deposit, Receive, AcquireDeposit, CheckRow, ReadFails, StatFile, MarkMissing,
       WriteTemp, InsertRow, InsertLoses, InsertFails, Reread, RecordDeposit, Link, Rollback, Correct,
       Publish, Finish, Go, SInv, TInv, TypeOK
  <2>3. QED
    BY <2>1, <2>2
<1>2. CASE Crash \/ PowerLoss
  BY <1>2 DEF Crash, PowerLoss, Die, SInv, TInv, TypeOK
<1>3. CASE PurgeStep \/ \E p \in Policies : PurgeStart(p)
  BY <1>3, PurgeOnward DEF depositVars, SInv
<1>4. CASE (\E v \in Verifiers : Verify(v)) \/ Flush \/ \E p \in Paths : Damage(p)
  BY <1>4 DEF Verify, VerifyStart, VerifyAcquire, VerifyReread, VerifyOpen, VerifySetStatus,
     VerifyRecord, VerifyKeeps, Flush, Damage, depositVars
<1>5. QED
  BY <1>1, <1>2, <1>3, <1>4 DEF Next

LEMMA NextKeepsBInv == BInv /\ SInv' /\ [Next]_vars => BInv'
<1>1. ASSUME BInv, UNCHANGED vars
      PROVE  PurgeAnnounced' /\ DamagedWereOut' /\ AnnouncedArrived'
  BY <1>1 DEF vars, storeVars, depositVars, purgeVars, worldVars, BInv, PurgeAnnounced, Requested,
     DamagedWereOut, AnnouncedArrived, Deposited
<1>2. ASSUME BInv, SInv', Next
      PROVE  PurgeAnnounced' /\ DamagedWereOut' /\ AnnouncedArrived'
  <2>1. PurgeAnnounced'
    BY <1>2, PurgeStaysAnnounced DEF BInv
  <2>2. DamagedWereOut'
    <3>1. SUFFICES ASSUME NEW r \in damaged'
                   PROVE  pc[r] \in Settled \cup {"publish"} /\ r \in Requests
      BY <1>2, NextOnward DEF DamagedWereOut, BInv, Onward
    <3>2. ASSUME NEW p \in Paths, Damage(p)
          PROVE  r \in damaged \/ (pc[r] \in Settled \cup {"publish"} /\ r \in Requests)
      BY <1>2, <3>1, <3>2 DEF Damage, BInv, SInv, FileOf, TInv, TypeOK, File
    <3>3. damaged \subseteq Requests
      BY <1>2 DEF BInv, SInv, TInv, TypeOK
    <3>4. QED
      BY <1>2, <3>1, <3>2, <3>3, OnlyDiskDamages DEF BInv, DamagedWereOut
  <2>3. AnnouncedArrived'
    <3>1. SUFFICES ASSUME NEW r \in Requests, Deposited(r)'
                   PROVE  pc'[r] # "new"
      BY DEF AnnouncedArrived
    <3>2. pc[r] # "new"
      BY <1>2, <3>1, DepositAnnounced DEF RecordDeposit, BInv, AnnouncedArrived
    <3>3. QED
      BY <1>2, <3>2, ArrivedStay DEF BInv, SInv
  <2>4. QED
    BY <2>1, <2>2, <2>3
<1>3. QED
  BY <1>1, <1>2 DEF BInv

(* A receipt whose four signs stay keeps its stage. *)
Same(q) == /\ Deposited(q)' <=> Deposited(q)
           /\ Requested(q)' <=> Requested(q)
           /\ HasFile(q)' <=> HasFile(q)
           /\ q \in damaged' <=> q \in damaged

LEMMA StageMoves ==
    ASSUME NEW r \in Requests, \A q \in Requests \ {r} : Same(q)
    PROVE  [q \in Requests |-> Stage(q)]' = [[q \in Requests |-> Stage(q)] EXCEPT ![r] = Stage(r)']
<1>1. \A q \in Requests \ {r} : Stage(q)' = Stage(q)
  BY StageIs DEF Same
<1>2. QED
  BY <1>1

LEMMA NamesStay ==
    ASSUME BInv, Next, \A q \in Requests : Deposited(q)' <=> Deposited(q)
    PROVE  UNCHANGED [q \in Requests |-> IF "capsule_deposited" \in log[q] THEN {IdOf(q)} ELSE {}]
<1>1. \A q \in Requests : Deposited(q) => req'[q] = req[q]
  BY NextOnward DEF BInv, AnnouncedArrived, Onward
<1>2. QED
  BY <1>1 DEF Deposited, IdOf

(* A file moves only as far as the receipt it carries. *)
LEMMA FilesOfOthers ==
    ASSUME SInv, Next, ~PowerMayFail, ~PurgeRemove, NEW q \in Requests, ~Link(q),
           \A p \in Paths : Damage(p) => file[p].by # q
    PROVE  HasFile(q)' <=> HasFile(q)
<1>1. ~PowerLoss
  BY DEF PowerLoss
<1>2. ASSUME NEW p \in Paths
      PROVE  (file'[p] # NoFile /\ file'[p].by = q) <=> (file[p] # NoFile /\ file[p].by = q)
  <2>1. ASSUME NEW r \in Requests, Link(r), file[p] = NoFile, file'[p] = Bytes(r)
        PROVE  file'[p].by # q
    BY <2>1 DEF Bytes
  <2>2. ASSUME Damage(p), file[p] # NoFile, file'[p] \in {NoFile, [file[p] EXCEPT !.body = Garbage]}
        PROVE  (file'[p] # NoFile => file'[p].by # q) /\ file[p].by # q
    BY <2>2 DEF SInv, TInv, TypeOK, File
  <2>3. QED
    BY <1>1, <2>1, <2>2, FileMoves
<1>3. QED
  BY <1>2 DEF HasFile

LEMMA RecordIsAnnounce ==
    ASSUME BInv, Next, ~PowerMayFail, NEW r \in Requests, RecordDeposit(r)
    PROVE  [Blind!Next]_(Blind!vars)
<1>1. /\ SInv /\ pc[r] = "record" /\ IdOf(r) \in Ids /\ UNCHANGED <<file, damaged, req>>
      /\ r \notin damaged /\ ~Requested(r)
  BY ArrivedBytes DEF RecordDeposit, DepositKeeps, BInv, SInv, DamagedWereOut, PurgeAnnounced, Settled
<1>2. ~HasFile(r)
  BY <1>1 DEF HasFile, SInv, FileOf, Settled
<1>3. \A q \in Requests : (HasFile(q)' <=> HasFile(q)) /\ (q \in damaged' <=> q \in damaged)
  BY <1>1 DEF HasFile
<1>4. \A q \in Requests : Requested(q)' <=> Requested(q)
  <2>1. ~PurgeRequest
    BY <1>1 DEF RecordDeposit, Go, PurgeRequest, PurgeKeeps, depositVars, SInv, TInv, TypeOK
  <2>2. QED
    BY <1>1, <2>1, DepositAnnounced
<1>5. \A q \in Requests \ {r} : Deposited(q)' <=> Deposited(q)
  BY <1>1 DEF RecordDeposit, Record, Deposited, SInv, TInv, TypeOK
<1>6. CASE Deposited(r)' <=> Deposited(r)
  <2>1. \A q \in Requests : Deposited(q)' <=> Deposited(q)
    BY <1>5, <1>6
  <2>2. \A q \in Requests : Stage(q)' = Stage(q)
    BY <1>3, <1>4, <2>1, StageIs
  <2>3. QED
    BY <2>1, <2>2, NamesStay DEF Blind!vars
<1>7. CASE ~(Deposited(r)' <=> Deposited(r))
  <2>1. ~Deposited(r) /\ Deposited(r)'
    BY <1>1, <1>7, DepositAnnounced
  <2>2. Stage(r) = "unknown" /\ Stage(r)' = "announced"
    BY <1>1, <1>2, <1>3, <1>4, <2>1, StageIs
  <2>3. [q \in Requests |-> Stage(q)]' = [[q \in Requests |-> Stage(q)] EXCEPT ![r] = "announced"]
    BY <1>3, <1>4, <1>5, <2>2, StageMoves DEF Same
  <2>4. PICK n \in Ids : n = IdOf(r)
    BY <1>1
  <2>5. [q \in Requests |-> IF "capsule_deposited" \in log[q] THEN {IdOf(q)} ELSE {}]'
        = [[q \in Requests |-> IF "capsule_deposited" \in log[q] THEN {IdOf(q)} ELSE {}] EXCEPT ![r] = {n}]
    BY <1>1, <1>5, <2>1, <2>4 DEF Deposited, IdOf
  <2>6. Blind!Announce(r, n)
    BY <2>2, <2>3, <2>5 DEF Blind!Announce, Blind!Move
  <2>7. QED
    BY <2>6 DEF Blind!Next
<1>8. QED
  BY <1>6, <1>7

(* The names of two files differ, for the path of a name is one place. *)
LEMMA LinkIsStore ==
    ASSUME BInv, Next, ~PowerMayFail, NEW r \in Requests, Link(r)
    PROVE  [Blind!Next]_(Blind!vars)
<1>1. /\ SInv /\ pc[r] = "link" /\ IdOf(r) \in Ids /\ PathFor(r) \in Paths
      /\ UNCHANGED <<log, damaged, req>> /\ r \notin damaged /\ ~Requested(r) /\ Deposited(r)
      /\ Bytes(r) # NoFile
  BY ArrivedBytes, SentinelAssumption
  DEF Link, DepositKeeps, BInv, SInv, DamagedWereOut, PurgeAnnounced, Announced, Deposited, Settled
<1>2. ~HasFile(r)
  BY <1>1 DEF HasFile, SInv, FileOf, Settled
<1>3. \A q \in Requests : /\ Deposited(q)' <=> Deposited(q)
                          /\ Requested(q)' <=> Requested(q)
                          /\ q \in damaged' <=> q \in damaged
  BY <1>1 DEF Deposited, Requested
<1>4. CASE UNCHANGED file
  <2>1. \A q \in Requests : Stage(q)' = Stage(q)
    BY <1>3, <1>4, StageIs DEF HasFile
  <2>2. QED
    BY <1>3, <2>1, NamesStay DEF Blind!vars
<1>5. CASE file[PathFor(r)] = NoFile /\ file' = [file EXCEPT ![PathFor(r)] = Bytes(r)]
  <2>1. \A p \in Paths : file'[p] = IF p = PathFor(r) THEN Bytes(r) ELSE file[p]
    BY <1>1, <1>5 DEF SInv, TInv, TypeOK
  <2>2. Bytes(r).by = r
    BY DEF Bytes
  <2>3. HasFile(r)'
    BY <1>1, <2>1, <2>2 DEF HasFile
  <2>4. \A q \in Requests \ {r} : HasFile(q)' <=> HasFile(q)
    BY <1>5, <2>1, <2>2 DEF HasFile
  <2>5. Stage(r) = "announced" /\ Stage(r)' = "stored"
    BY <1>1, <1>2, <1>3, <2>3, StageIs
  <2>6. [q \in Requests |-> Stage(q)]' = [[q \in Requests |-> Stage(q)] EXCEPT ![r] = "stored"]
    BY <1>3, <2>4, <2>5, StageMoves DEF Same
  <2>7. ASSUME NEW q \in Requests, Stage(q) \in {"stored", "condemned"}
        PROVE  Deposited(q) /\ IdOf(q) # IdOf(r)
    <3>1. HasFile(q)
      BY <2>7, StageIs
    <3>2. PICK p \in Paths : file[p] # NoFile /\ file[p].by = q
      BY <3>1 DEF HasFile
    <3>3. p = PathFor(q) /\ Deposited(q)
      BY <1>1, <3>2 DEF SInv, FileOf, FileHasEntry, Deposited
    <3>4. QED
      BY <1>5, <3>2, <3>3 DEF PathFor
  <2>8. Blind!Store(r)
    BY <1>1, <1>3, <2>5, <2>6, <2>7, NamesStay
    DEF Blind!Store, Blind!Move, Blind!Present, Deposited
  <2>9. QED
    BY <2>8 DEF Blind!Next
<1>6. QED
  BY <1>4, <1>5 DEF Link, storeVars

(* An announced purge condemns what is stored, and discards what is not. *)
LEMMA RequestIsCondemn ==
    ASSUME BInv, Next, ~PowerMayFail, PurgeRequest, NEW r \in Requests, r = pcur
    PROVE  [Blind!Next]_(Blind!vars)
<1>1. SInv /\ UNCHANGED <<file, damaged, req>>
  BY PurgedIsSettled DEF PurgeRequest, PurgeKeeps, Removing, depositVars, BInv
<1>2. \A q \in Requests : /\ HasFile(q)' <=> HasFile(q)
                          /\ q \in damaged' <=> q \in damaged
  BY <1>1 DEF HasFile
<1>3. \A q \in Requests : Deposited(q)' <=> Deposited(q)
  BY <1>1 DEF PurgeRequest, Record, Deposited, SInv, TInv, TypeOK
<1>4. \A q \in Requests \ {r} : Requested(q)' <=> Requested(q)
  BY <1>1, DepositAnnounced
<1>5. CASE (Requested(r)' <=> Requested(r)) \/ r \in damaged
  <2>1. \A q \in Requests : Stage(q)' = Stage(q)
    BY <1>2, <1>3, <1>4, <1>5, StageIs
  <2>2. QED
    BY <1>3, <2>1, NamesStay DEF Blind!vars
<1>6. CASE ~(Requested(r)' <=> Requested(r)) /\ r \notin damaged
  <2>1. ~Requested(r) /\ Requested(r)'
    BY <1>1, <1>6, DepositAnnounced
  <2>2. \/ Stage(r) = "stored" /\ Stage(r)' = "condemned"
        \/ Stage(r) \in {"unknown", "announced"} /\ Stage(r)' = "removed"
    BY <1>1, <1>2, <1>6, <2>1, StageIs
  <2>3. [q \in Requests |-> Stage(q)]' = [[q \in Requests |-> Stage(q)] EXCEPT ![r] = Stage(r)']
    BY <1>1, <1>2, <1>3, <1>4, StageMoves DEF Same
  <2>4. Blind!Condemn(r) \/ Blind!Discard(r)
    BY <1>1, <1>3, <2>2, <2>3, NamesStay DEF Blind!Condemn, Blind!Discard, Blind!Move
  <2>5. QED
    BY <1>1, <2>4 DEF Blind!Next
<1>7. QED
  BY <1>5, <1>6

(* The file a purge removes is that of the capsule it announced. *)
LEMMA RemoveIsRemove ==
    ASSUME OwnPaths, BInv, Next, ~PowerMayFail, PurgeRemove, NEW r \in Requests, r = pcur
    PROVE  [Blind!Next]_(Blind!vars)
<1>1. /\ SInv /\ IdOf(r) \in Ids /\ row[IdOf(r)].at = r
      /\ UNCHANGED <<log, damaged, req>> /\ Requested(r)
  BY PurgedIsSettled
  DEF PurgeRemove, PurgeKeeps, Removing, depositVars, BInv, SInv, PurgeInv, PurgeRow, PurgeAnnounced
<1>2. \A q \in Requests : /\ Deposited(q)' <=> Deposited(q)
                          /\ Requested(q)' <=> Requested(q)
                          /\ q \in damaged' <=> q \in damaged
  BY <1>1 DEF Deposited, Requested
<1>3. ASSUME NEW q \in Requests, q # r
      PROVE  HasFile(q)' <=> HasFile(q)
  <2>1. ASSUME file[PathFor(r)] # NoFile
        PROVE  file[PathFor(r)].by = r
    <3>1. /\ PathFor(r) \in Paths /\ file[PathFor(r)] \in File
          /\ PathFor(r) = PathFor(file[PathFor(r)].by)
          /\ file[PathFor(r)].id = IdOf(file[PathFor(r)].by)
          /\ row[file[PathFor(r)].id].at = file[PathFor(r)].by
      BY <1>1, <2>1, StoreAssumption DEF SInv, FileOf, NoUndescribedFile, PathFor, TInv, TypeOK
    <3>2. file[PathFor(r)].id \in Ids
      BY <3>1 DEF File
    <3>3. QED
      BY <1>1, <3>1, <3>2 DEF OwnPaths, PathFor
  <2>2. \A p \in Paths : \/ file'[p] = file[p]
                         \/ p = PathFor(r) /\ file'[p] = NoFile
    BY <1>1 DEF PurgeRemove, SInv, TInv, TypeOK
  <2>3. QED
    BY <1>3, <2>1, <2>2 DEF HasFile
<1>4. HasFile(r)' => HasFile(r)
  BY <1>1 DEF PurgeRemove, HasFile, SInv, TInv, TypeOK
<1>5. CASE (HasFile(r)' <=> HasFile(r)) \/ r \in damaged
  <2>1. \A q \in Requests : Stage(q)' = Stage(q)
    BY <1>2, <1>3, <1>5, StageIs
  <2>2. QED
    BY <1>2, <2>1, NamesStay DEF Blind!vars
<1>6. CASE HasFile(r) /\ ~HasFile(r)' /\ r \notin damaged
  <2>1. Stage(r) = "condemned" /\ Stage(r)' = "removed"
    BY <1>1, <1>2, <1>6, StageIs
  <2>2. [q \in Requests |-> Stage(q)]' = [[q \in Requests |-> Stage(q)] EXCEPT ![r] = "removed"]
    BY <1>1, <1>2, <1>3, <2>1, StageMoves DEF Same
  <2>3. Blind!Remove(r)
    BY <1>1, <1>2, <2>1, <2>2, NamesStay DEF Blind!Remove, Blind!Move
  <2>4. QED
    BY <1>1, <2>3 DEF Blind!Next
<1>7. QED
  BY <1>4, <1>5, <1>6

LEMMA DamageIsDecay ==
    ASSUME BInv, Next, ~PowerMayFail, NEW p \in Paths, Damage(p)
    PROVE  [Blind!Next]_(Blind!vars)
<1> DEFINE r == file[p].by
<1>1. /\ SInv /\ r \in Requests /\ HasFile(r) /\ UNCHANGED <<log, req>> /\ damaged' = damaged \cup {r}
  BY DEF Damage, depositVars, BInv, SInv, HasFile, TInv, TypeOK, File
<1>2. \A q \in Requests : /\ Deposited(q)' <=> Deposited(q)
                          /\ Requested(q)' <=> Requested(q)
  BY <1>1 DEF Deposited, Requested
<1>3. ASSUME NEW q \in Requests, q # r
      PROVE  HasFile(q)' <=> HasFile(q)
  <2>1. \A x \in Paths : \/ file'[x] = file[x]
                         \/ x = p /\ (file'[x] # NoFile => file'[x].by = r)
    BY <1>1 DEF Damage, SInv, TInv, TypeOK, File
  <2>2. QED
    BY <1>3, <2>1 DEF Damage, HasFile
<1>4. \A q \in Requests \ {r} : q \in damaged' <=> q \in damaged
  BY <1>1
<1>5. CASE r \in damaged
  <2>1. \A q \in Requests : Stage(q)' = Stage(q)
    BY <1>1, <1>2, <1>3, <1>4, <1>5, StageIs
  <2>2. QED
    BY <1>2, <2>1, NamesStay DEF Blind!vars
<1>6. CASE r \notin damaged
  <2>1. Stage(r) \in {"stored", "condemned"}
    BY <1>1, <1>6, StageIs
  <2>2. ASSUME NEW q \in Requests, q = r
        PROVE  Stage(q)' = "damaged"
    BY <1>1, <2>2, StageIs
  <2>3. [q \in Requests |-> Stage(q)]' = [[q \in Requests |-> Stage(q)] EXCEPT ![r] = "damaged"]
    <3>1. PICK x \in Requests : x = r
      BY <1>1
    <3>2. [q \in Requests |-> Stage(q)]' = [[q \in Requests |-> Stage(q)] EXCEPT ![x] = Stage(x)']
      BY <1>2, <1>3, <1>4, <3>1, StageMoves DEF Same
    <3>3. QED
      BY <2>2, <3>1, <3>2
  <2>4. Blind!Decay(r)
    BY <1>1, <1>2, <2>1, <2>3, NamesStay DEF Blind!Decay, Blind!Move, Blind!Present
  <2>5. QED
    BY <1>1, <2>4 DEF Blind!Next
<1>7. QED
  BY <1>5, <1>6

LEMMA StepsRefine ==
    ASSUME OwnPaths, ~PowerMayFail, BInv, [Next]_vars
    PROVE  [Blind!Next]_(Blind!vars)
<1>1. CASE UNCHANGED vars
  <2>1. \A q \in Requests : Stage(q)' = Stage(q)
    BY <1>1, StageIs DEF vars, storeVars, worldVars, Deposited, Requested, HasFile
  <2>2. UNCHANGED [q \in Requests |-> IF "capsule_deposited" \in log[q] THEN {IdOf(q)} ELSE {}]
    BY <1>1 DEF vars, storeVars, depositVars, IdOf
  <2>3. QED
    BY <2>1, <2>2 DEF Blind!vars
<1>2. ASSUME Next, ~PurgeRequest, ~PurgeRemove, ~ \E r \in Requests : RecordDeposit(r) \/ Link(r),
             ~ \E p \in Paths : Damage(p)
      PROVE  UNCHANGED Blind!vars
  <2>1. \A q \in Requests : Deposited(q)' <=> Deposited(q)
    BY <1>2, DepositAnnounced DEF BInv
  <2>2. \A q \in Requests : Requested(q)' <=> Requested(q)
    BY <1>2, DepositAnnounced DEF BInv
  <2>3. \A q \in Requests : HasFile(q)' <=> HasFile(q)
    BY <1>2, FilesOfOthers DEF BInv
  <2>4. UNCHANGED damaged
    BY <1>2, OnlyDiskDamages
  <2>5. \A q \in Requests : Stage(q)' = Stage(q)
    BY <2>1, <2>2, <2>3, <2>4, StageIs
  <2>6. QED
    BY <1>2, <2>1, <2>5, NamesStay DEF Blind!vars
<1>3. PurgeRequest \/ PurgeRemove => \E r \in Requests : r = pcur
  BY PurgedIsSettled DEF PurgeRequest, PurgeRemove, Removing, BInv
<1>4. QED
  BY <1>1, <1>2, <1>3, RecordIsAnnounce, LinkIsStore, RequestIsCondemn, RemoveIsRemove, DamageIsDecay

(* Seen through the chain and the directory, deposits, purges, sweeps and     *)
(* crashes are steps of BlindStore, on a volume that tells IDs apart and       *)
(* without power failures, for any number of processes: nothing is stored      *)
(* unannounced (publishCapsule), replaced (os.Link) or removed before its      *)
(* purge is in the chain (purgeExpired).                                       *)
THEOREM StoreIsBlindStore ==
    ASSUME OwnPaths, ~PowerMayFail
    PROVE  Spec => ImplementsBlindStore
<1>1. Init => Blind!Init
  BY StageIs DEF Init, Blind!Init, HasFile, Requested, Deposited
<1>2. Init => BInv
  BY InitSInv DEF Init, BInv, PurgeAnnounced, Requested, DamagedWereOut, AnnouncedArrived, Deposited
<1>3. SInv /\ TInv /\ BInv /\ [Next]_vars => SInv' /\ TInv' /\ BInv'
  BY NextKeepsSInv, NextKeepsTInv, NextKeepsBInv
<1>4. BInv /\ [Next]_vars => [Blind!Next]_(Blind!vars)
  BY StepsRefine
<1>5. Spec => Blind!Spec
  BY <1>1, <1>2, <1>3, <1>4, InitSInv, InitTInv, PTL DEF Spec, Blind!Spec
<1>6. QED
  BY <1>5 DEF ImplementsBlindStore

==============================================================================
