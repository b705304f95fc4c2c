---------------------------- MODULE CapsuleStore ----------------------------
(***************************************************************************)
(* The capsule store of internal/server: deposits (deposit.go, limits.go), *)
(* verification (verify.go) and retention purges (retention.go) over three *)
(* kinds of durable state that no transaction spans: the capsules table,   *)
(* the files in capsules/, and the audit chain.  Each call to one of the   *)
(* three is a step of its own, so every interleaving and every crash       *)
(* between two calls is a behaviour.  The per-ID lock is one step, as      *)
(* IdMutex promises and IdLocks proves.                                    *)
(*                                                                         *)
(* Request r is the r-th deposit to arrive, so r also stands for its       *)
(* DepositedAt and, once stored, for the receipt of the capsule.           *)
(***************************************************************************)
EXTENDS Naturals, FiniteSets

CONSTANTS
    MaxRequests,    \* how many deposits arrive
    Verifiers,      \* goroutines in verifyCapsule: the sweep, admin requests
    Purger,         \* the goroutine that holds retentionMu
    Hosts,          \* server processes on this data directory: one, as deployed
    HostOf,         \* the server process a goroutine runs in
    Ids, Bodies,    \* capsule IDs and container bytes
    Paths, PathOf,  \* files in capsules/ and capsulePath, not injective on a
                    \* case-insensitive volume
    Failing,        \* what may return an error: "db", "disk", "ledger"
    Policies,       \* the retention policies admins purge with
    MaxCrashes, MaxDamage, PowerMayFail,
    NoProc, NoId, NoRow, NoFile, NoReq, Garbage

Requests == 1..MaxRequests
Procs == Requests \cup Verifiers \cup {Purger}

ASSUME StoreAssumption ==
    /\ MaxRequests \in Nat
    /\ HostOf \in [Procs -> Hosts]
    /\ PathOf \in [Ids -> Paths]
    /\ NoProc \notin Procs
    /\ Purger \notin Requests \cup Verifiers
    /\ Requests \cap Verifiers = {}
    /\ Garbage \notin Bodies /\ NoId \notin Ids
    /\ Failing \subseteq {"db", "disk", "ledger"}
    /\ MaxCrashes \in Nat /\ MaxDamage \in Nat
    /\ PowerMayFail \in BOOLEAN

Policy == [recent : 0..MaxRequests, newest : BOOLEAN]
Container == [id : Ids, body : Bodies]
NewRow(r) == [at |-> r, status |-> "active"]
Row == [at : Requests, status : {"active", "corrupt"}]
File == [id : Ids, body : Bodies \cup {Garbage}, by : Requests]
Action == {"capsule_deposited", "capsule_deposit_failed", "capsule_verified",
           "capsule_corrupt", "capsule_purge_requested", "capsule_purged"}

ASSUME SentinelAssumption ==
    /\ Policies \subseteq Policy
    /\ NoRow \notin Row /\ NoFile \notin File /\ NoReq \notin Container

VARIABLES
    row,        \* the capsules table, by primary key
    file,       \* the capsules directory, by path
    log,        \* log[r]: the audit events about the capsule of receipt r
    lock,       \* lock[h][id]: who holds idLocks of process h for id
    pc,         \* pc[r]: the next call of deposit r
    req,        \* req[r]: the container deposit r brought
    seen,       \* seen[r]: the receipt of the existing row deposit r found, 0 if none
    answer,     \* answer[r]: the status deposit r answers, decided before it is sent
    tmp,        \* deposits whose private temporary file exists
    vpc, vid, vrec,     \* a verifier's next call, its ID, the receipt it re-read
    ppc, ptodo, pstable, pcand, pcur, policy,   \* the purge, see PurgeStart
    healthy,    \* the ledger could resume its chain at startup
    unflushed,  \* paths whose directory entry has not reached the disk
    damaged,    \* receipts whose bytes the disk lost or altered
    crashes     \* crashes so far

storeVars == <<row, file, log>>
depositVars == <<pc, req, seen, answer, tmp>>
verifyVars == <<vpc, vid, vrec>>
purgeVars == <<ppc, ptodo, pstable, pcand, pcur, policy>>
worldVars == <<healthy, unflushed, damaged, crashes>>
vars == <<storeVars, lock, depositVars, verifyVars, purgeVars, worldVars>>

DepositSteps == {"new", "arrived", "check", "stat", "mark", "write", "insert",
                 "reread", "record", "link", "rollback", "correct", "publish",
                 "done", "dead"}
VerifySteps == {"idle", "arrived", "reread", "open", "corrupt", "logcorrupt",
                "active", "logactive"}
PurgeSteps == {"idle", "settle", "next", "reread", "request", "remove",
               "delete", "log"}
Codes == {"none", "200", "201", "409", "500", "503"}
Idle == {"new", "done", "dead"}         \* a deposit that is not in flight
InFlight(r) == pc[r] \notin Idle

Fails(what) == what \in Failing
Refuses == ~healthy \/ Fails("ledger")  \* ledger.Record may return an error

IdOf(r) == req[r].id
PathFor(r) == PathOf[IdOf(r)]

(* The capsule of receipt r is whole: its row, and the bytes the row describes. *)
Bytes(r) == [id |-> IdOf(r), body |-> req[r].body, by |-> r]
Intact(r) == /\ req[r] # NoReq
             /\ row[IdOf(r)] # NoRow /\ row[IdOf(r)].at = r
             /\ file[PathFor(r)] = Bytes(r)

----------------------------------------------------------------------------

KeepAll == [recent |-> 0, newest |-> FALSE]    \* no purge is running

Init ==
    /\ row = [id \in Ids |-> NoRow]
    /\ file = [p \in Paths |-> NoFile]
    /\ log = [r \in Requests |-> {}]
    /\ lock = [h \in Hosts |-> [id \in Ids |-> NoProc]]
    /\ pc = [r \in Requests |-> "new"]
    /\ req = [r \in Requests |-> NoReq]
    /\ seen = [r \in Requests |-> 0]
    /\ answer = [r \in Requests |-> "none"]
    /\ tmp = {}
    /\ vpc = [v \in Verifiers |-> "idle"]
    /\ vid = [v \in Verifiers |-> NoId]
    /\ vrec = [v \in Verifiers |-> 0]
    /\ ppc = "idle" /\ ptodo = {} /\ pstable = {} /\ pcand = {} /\ pcur = 0
    /\ policy = KeepAll
    /\ healthy \in BOOLEAN /\ (healthy \/ Fails("ledger"))
    /\ unflushed = {} /\ damaged = {} /\ crashes = 0

Take(p, id) ==
    /\ lock[HostOf[p]][id] = NoProc
    /\ lock' = [lock EXCEPT ![HostOf[p]][id] = p]
Release(p, id) == lock' = [lock EXCEPT ![HostOf[p]][id] = NoProc]

(* ledger.Record about receipt r succeeds. *)
Record(act, r) == healthy /\ log' = [log EXCEPT ![r] = @ \cup {act}]

(* The status is written by ID, whatever row has that ID by now. *)
SetStatus(id, s) ==
    row' = [row EXCEPT ![id] = IF @ = NoRow THEN NoRow ELSE [@ EXCEPT !.status = s]]

----------------------------------------------------------------------------
(* Deposit: handleDeposit, respondToDuplicate and publishCapsule. *)

Go(r, step) == pc' = [pc EXCEPT ![r] = step]
Decide(r, code) == answer' = [answer EXCEPT ![r] = code]
Finish(r, code) == Go(r, "done") /\ Decide(r, code) /\ Release(r, IdOf(r))
DepositKeeps == UNCHANGED <<verifyVars, purgeVars, healthy, damaged, crashes>>

(* Everything before the lock that does not touch the store: the ledger's  *)
(* health decides, then the body names its ID.                             *)
Receive(r, c) ==
    /\ pc[r] = "new" /\ \A q \in 1..(r-1) : pc[q] # "new"
    /\ req' = [req EXCEPT ![r] = c]
    /\ \/ healthy /\ Go(r, "arrived") /\ UNCHANGED answer
       \/ ~healthy /\ Go(r, "done") /\ Decide(r, "503")
    /\ UNCHANGED <<storeVars, lock, seen, tmp, unflushed>> /\ DepositKeeps

AcquireDeposit(r) ==
    /\ pc[r] = "arrived"
    /\ Take(r, IdOf(r))
    /\ Go(r, "check")
    /\ UNCHANGED <<storeVars, req, seen, answer, tmp, unflushed>> /\ DepositKeeps

CheckRow(r) ==
    /\ pc[r] = "check"
    /\ IF row[IdOf(r)] = NoRow
         THEN Go(r, "write") /\ UNCHANGED seen
         ELSE Go(r, "stat") /\ seen' = [seen EXCEPT ![r] = row[IdOf(r)].at]
    /\ UNCHANGED <<storeVars, lock, req, answer, tmp, unflushed>> /\ DepositKeeps

(* A read of the row, before or after a lost race, that returns an error. *)
ReadFails(r) ==
    /\ pc[r] \in {"check", "reread"}
    /\ Fails("db") \/ (pc[r] = "reread" /\ row[IdOf(r)] = NoRow)
    /\ Finish(r, "500")
    /\ UNCHANGED <<storeVars, req, seen, tmp, unflushed>> /\ DepositKeeps

(* Mutant: the digest in the row is believed without looking for the file. *)
StatFileBlindly(r) ==
    /\ pc[r] = "stat"
    /\ Finish(r, IF req[seen[r]] = req[r] THEN "200" ELSE "409")
    /\ UNCHANGED <<storeVars, req, seen, tmp, unflushed>> /\ DepositKeeps

(* respondToDuplicate: only a missing file is evidence, and a present file *)
(* is compared by the digest of its row, which was read before.            *)
StatFile(r) ==
    /\ pc[r] = "stat"
    /\ \/ /\ file[PathFor(r)] = NoFile
          /\ Go(r, "mark") /\ UNCHANGED <<answer, lock>>
       \/ /\ file[PathFor(r)] # NoFile
          /\ Finish(r, IF req[seen[r]] = req[r] THEN "200" ELSE "409")
       \/ Fails("disk") /\ Finish(r, "500")
    /\ UNCHANGED <<storeVars, req, seen, tmp, unflushed>> /\ DepositKeeps

(* Mutant: a status the rest of the code does not know. *)
MarkMissingOddly(r) ==
    /\ pc[r] = "mark"
    /\ SetStatus(IdOf(r), "missing")
    /\ Finish(r, "409")
    /\ UNCHANGED <<file, log, req, seen, tmp, unflushed>> /\ DepositKeeps

MarkMissing(r) ==
    /\ pc[r] = "mark"
    /\ \/ SetStatus(IdOf(r), "corrupt")
       \/ Fails("db") /\ UNCHANGED row
    /\ Finish(r, "409")
    /\ UNCHANGED <<file, log, req, seen, tmp, unflushed>> /\ DepositKeeps

WriteTemp(r) ==
    /\ pc[r] = "write"
    /\ \/ Go(r, "insert") /\ tmp' = tmp \cup {r} /\ UNCHANGED <<answer, lock>>
       \/ Fails("disk") /\ Finish(r, "500") /\ UNCHANGED tmp
    /\ UNCHANGED <<storeVars, req, seen, unflushed>> /\ DepositKeeps

InsertRow(r) ==
    /\ pc[r] = "insert"
    /\ row[IdOf(r)] = NoRow
    /\ row' = [row EXCEPT ![IdOf(r)] = NewRow(r)]
    /\ Go(r, "record")
    /\ UNCHANGED <<file, log, lock, req, seen, answer, tmp, unflushed>> /\ DepositKeeps

(* Mutant: the loser deletes the file, which is the winner's. *)
InsertLosesAndDeletes(r) ==
    /\ pc[r] = "insert"
    /\ row[IdOf(r)] # NoRow
    /\ tmp' = tmp \ {r}
    /\ file' = [file EXCEPT ![PathFor(r)] = NoFile]
    /\ Go(r, "reread")
    /\ UNCHANGED <<row, log, lock, req, seen, answer, unflushed>> /\ DepositKeeps

(* The primary key refused the insert: another process won the ID. *)
InsertLoses(r) ==
    /\ pc[r] = "insert"
    /\ row[IdOf(r)] # NoRow
    /\ tmp' = tmp \ {r}
    /\ Go(r, "reread")
    /\ UNCHANGED <<storeVars, lock, req, seen, answer, unflushed>> /\ DepositKeeps

(* Mutant: one error path without its cleanup. *)
InsertFailsUntidily(r) ==
    /\ pc[r] = "insert" /\ Fails("db")
    /\ Finish(r, "500")
    /\ UNCHANGED <<storeVars, req, seen, tmp, unflushed>> /\ DepositKeeps

InsertFails(r) ==
    /\ pc[r] = "insert" /\ Fails("db")
    /\ tmp' = tmp \ {r}
    /\ Finish(r, "500")
    /\ UNCHANGED <<storeVars, req, seen, unflushed>> /\ DepositKeeps

Reread(r) ==
    /\ pc[r] = "reread"
    /\ row[IdOf(r)] # NoRow
    /\ seen' = [seen EXCEPT ![r] = row[IdOf(r)].at]
    /\ Go(r, "stat")
    /\ UNCHANGED <<storeVars, lock, req, answer, tmp, unflushed>> /\ DepositKeeps

(* Mutant: the ledger's refusal is ignored, as it is everywhere else. *)
RecordDepositAnyway(r) ==
    /\ pc[r] = "record"
    /\ \/ Record("capsule_deposited", r)
       \/ Refuses /\ UNCHANGED log
    /\ Go(r, "link")
    /\ UNCHANGED <<row, file, lock, req, seen, answer, tmp, unflushed>> /\ DepositKeeps

RecordDeposit(r) ==
    /\ pc[r] = "record"
    /\ \/ Record("capsule_deposited", r) /\ Go(r, "link") /\ UNCHANGED answer
       \/ Refuses /\ Go(r, "rollback") /\ Decide(r, "503") /\ UNCHANGED log
    /\ UNCHANGED <<row, file, lock, req, seen, tmp, unflushed>> /\ DepositKeeps

(* Mutant: a rename, which replaces whatever is at the path. *)
Rename(r) ==
    /\ pc[r] = "link"
    /\ file' = [file EXCEPT ![PathFor(r)] = Bytes(r)]
    /\ Go(r, "publish")
    /\ UNCHANGED <<row, log, lock, req, seen, answer, tmp, unflushed>> /\ DepositKeeps

(* os.Link: refuses an existing target.  The new name is durable only once *)
(* the directory is, which the code leaves to the kernel.                  *)
Link(r) ==
    /\ pc[r] = "link"
    /\ \/ /\ file[PathFor(r)] = NoFile
          /\ file' = [file EXCEPT ![PathFor(r)] = Bytes(r)]
          /\ unflushed' = IF PowerMayFail THEN unflushed \cup {PathFor(r)} ELSE unflushed
          /\ Go(r, "publish") /\ UNCHANGED answer
       \/ /\ file[PathFor(r)] # NoFile
          /\ Go(r, "rollback") /\ Decide(r, "409") /\ UNCHANGED <<file, unflushed>>
       \/ /\ Fails("disk")
          /\ Go(r, "rollback") /\ Decide(r, "500") /\ UNCHANGED <<file, unflushed>>
    /\ UNCHANGED <<row, log, lock, req, seen, tmp>> /\ DepositKeeps

(* DeleteCapsule releases the row; its error is ignored. *)
Rollback(r) ==
    /\ pc[r] = "rollback"
    /\ \/ row' = [row EXCEPT ![IdOf(r)] = NoRow]
       \/ Fails("db") /\ UNCHANGED row
    /\ tmp' = tmp \ {r}
    /\ IF answer[r] = "503"
         THEN Finish(r, "503")
         ELSE Go(r, "correct") /\ UNCHANGED <<answer, lock>>
    /\ UNCHANGED <<file, log, req, seen, unflushed>> /\ DepositKeeps

(* The chain already says deposited, so a second event corrects it, if the *)
(* ledger takes it.                                                        *)
Correct(r) ==
    /\ pc[r] = "correct"
    /\ \/ Record("capsule_deposit_failed", r)
       \/ Refuses /\ UNCHANGED log
    /\ Finish(r, answer[r])
    /\ UNCHANGED <<row, file, req, seen, tmp, unflushed>> /\ DepositKeeps

Publish(r) ==
    /\ pc[r] = "publish"
    /\ tmp' = tmp \ {r}
    /\ Finish(r, "201")
    /\ UNCHANGED <<storeVars, req, seen, unflushed>> /\ DepositKeeps

Deposit(r) ==
    \/ \E c \in Container : Receive(r, c)
    \/ AcquireDeposit(r) \/ CheckRow(r) \/ ReadFails(r) \/ StatFile(r)
    \/ MarkMissing(r) \/ WriteTemp(r) \/ InsertRow(r) \/ InsertLoses(r)
    \/ InsertFails(r) \/ Reread(r) \/ RecordDeposit(r) \/ Link(r)
    \/ Rollback(r) \/ Correct(r) \/ Publish(r)

----------------------------------------------------------------------------
(* Verification: verifyCapsule and markCorrupt, from the sweep or an admin. *)

VGo(v, step) == vpc' = [vpc EXCEPT ![v] = step]
VEnd(v) == /\ VGo(v, "idle") /\ Release(v, vid[v])
           /\ vid' = [vid EXCEPT ![v] = NoId] /\ vrec' = [vrec EXCEPT ![v] = 0]
VGoOn(v, step) == VGo(v, step) /\ UNCHANGED <<lock, vid, vrec>>
VerifyKeeps == UNCHANGED <<file, depositVars, purgeVars, worldVars>>

(* The caller listed the capsule, or an admin named it. *)
VerifyStart(v, id) ==
    /\ vpc[v] = "idle"
    /\ row[id] # NoRow
    /\ vid' = [vid EXCEPT ![v] = id]
    /\ VGo(v, "arrived")
    /\ UNCHANGED <<row, log, lock, vrec>> /\ VerifyKeeps

VerifyAcquire(v) ==
    /\ vpc[v] = "arrived"
    /\ Take(v, vid[v])
    /\ VGo(v, "reread")
    /\ UNCHANGED <<row, log, vid, vrec>> /\ VerifyKeeps

VerifyReread(v) ==
    /\ vpc[v] = "reread"
    /\ \/ /\ row[vid[v]] # NoRow
          /\ vrec' = [vrec EXCEPT ![v] = row[vid[v]].at]
          /\ VGo(v, "open") /\ UNCHANGED <<lock, vid>>
       \/ (row[vid[v]] = NoRow \/ Fails("db")) /\ VEnd(v)
    /\ UNCHANGED <<row, log>> /\ VerifyKeeps

(* Mutant: any failure to read is taken for evidence. *)
VerifyOpenHastily(v) ==
    /\ vpc[v] = "open"
    /\ LET f == file[PathOf[vid[v]]]
           same == f # NoFile /\ [id |-> f.id, body |-> f.body] = req[vrec[v]]
       IN \/ VGoOn(v, IF same THEN "active" ELSE "corrupt")
          \/ Fails("disk") /\ VGoOn(v, "corrupt")
    /\ UNCHANGED <<row, log>> /\ VerifyKeeps

(* Opening and hashing: a missing file and a wrong digest are findings, any *)
(* other error is not.  An open file keeps its bytes, so reading is one step. *)
VerifyOpen(v) ==
    /\ vpc[v] = "open"
    /\ LET f == file[PathOf[vid[v]]]
           same == f # NoFile /\ [id |-> f.id, body |-> f.body] = req[vrec[v]]
       IN \/ VGoOn(v, IF same THEN "active" ELSE "corrupt")
          \/ Fails("disk") /\ VEnd(v)
    /\ UNCHANGED <<row, log>> /\ VerifyKeeps

VerifySetStatus(v) ==
    /\ vpc[v] \in {"active", "corrupt"}
    /\ \/ /\ SetStatus(vid[v], vpc[v])
          /\ VGoOn(v, IF vpc[v] = "corrupt" THEN "logcorrupt" ELSE "logactive")
       \/ Fails("db") /\ VEnd(v) /\ UNCHANGED row
    /\ UNCHANGED log /\ VerifyKeeps

(* Mutant: the lock is not released after the last event. *)
VerifyRecordHoldingOn(v) ==
    /\ vpc[v] \in {"logactive", "logcorrupt"}
    /\ Refuses \/ healthy
    /\ VGo(v, "idle") /\ vid' = [vid EXCEPT ![v] = NoId] /\ vrec' = [vrec EXCEPT ![v] = 0]
    /\ UNCHANGED <<row, log, lock>> /\ VerifyKeeps

VerifyRecord(v) ==
    /\ vpc[v] \in {"logactive", "logcorrupt"}
    /\ \/ Record(IF vpc[v] = "logcorrupt" THEN "capsule_corrupt" ELSE "capsule_verified",
                 vrec[v])
       \/ Refuses /\ UNCHANGED log
    /\ VEnd(v)
    /\ UNCHANGED row /\ VerifyKeeps

Verify(v) ==
    \/ \E id \in Ids : VerifyStart(v, id)
    \/ VerifyAcquire(v) \/ VerifyReread(v) \/ VerifyOpen(v)
    \/ VerifySetStatus(v) \/ VerifyRecord(v)

----------------------------------------------------------------------------
(* Purge: handleRetentionPurge, retentionCapsules and purgeExpired.  The   *)
(* retention windows are abstracted to "keep everything after recent" and, *)
(* with weeks or months set, "keep the newest of the period"; all requests *)
(* are of one product and one period.  Retention has the windows in full.  *)

PGo(step) == ppc' = step
PEnd == /\ PGo("idle") /\ policy' = KeepAll
        /\ ptodo' = {} /\ pstable' = {} /\ pcand' = {} /\ pcur' = 0
PurgeKeeps == UNCHANGED <<depositVars, verifyVars, healthy, damaged, crashes>>

(* ListCapsules.  The shortest window is a day and no deposit takes one,   *)
(* so whatever is still in flight is recent.                               *)
PurgeStart(p) ==
    /\ ppc = "idle" /\ healthy
    /\ \A r \in Requests : pc[r] \notin {"done", "dead"} => r > p.recent
    /\ policy' = p
    /\ ptodo' = {id \in Ids : row[id] # NoRow}
    /\ PGo("settle")
    /\ UNCHANGED <<storeVars, lock, pstable, pcand, pcur, unflushed>> /\ PurgeKeeps

(* Mutant: the survivors are chosen without waiting for publishes. *)
SettleAtOnce(id) ==
    /\ ppc = "settle" /\ id \in ptodo
    /\ ptodo' = ptodo \ {id}
    /\ pstable' = IF row[id] = NoRow THEN pstable ELSE pstable \cup {row[id].at}
    /\ UNCHANGED <<storeVars, lock, ppc, pcand, pcur, policy, unflushed>> /\ PurgeKeeps

(* retentionCapsules: lock, re-read and release one listed ID.  Nothing    *)
(* can happen under the lock in between, so it is one step.                *)
Settle(id) ==
    /\ ppc = "settle" /\ id \in ptodo
    /\ lock[HostOf[Purger]][id] = NoProc
    /\ \/ /\ ptodo' = ptodo \ {id}
          /\ pstable' = IF row[id] = NoRow THEN pstable ELSE pstable \cup {row[id].at}
          /\ UNCHANGED <<ppc, pcand, pcur, policy>>
       \/ Fails("db") /\ PEnd
    /\ UNCHANGED <<storeVars, lock, unflushed>> /\ PurgeKeeps

(* retentionCandidates: every row counts, whatever its status. *)
Candidates(stable, p) ==
    {r \in stable : /\ r <= p.recent
                    /\ p.newest => \E q \in stable : q > r}

Choose ==
    /\ ppc = "settle" /\ ptodo = {}
    /\ pcand' = Candidates(pstable, policy)
    /\ PGo("next")
    /\ UNCHANGED <<storeVars, lock, ptodo, pstable, pcur, policy, unflushed>> /\ PurgeKeeps

PurgeAcquire(r) ==
    /\ ppc = "next" /\ r \in pcand
    /\ Take(Purger, IdOf(r))
    /\ pcur' = r
    /\ PGo("reread")
    /\ UNCHANGED <<storeVars, ptodo, pstable, pcand, policy, unflushed>> /\ PurgeKeeps

PurgeNext == /\ PGo("next") /\ pcand' = pcand \ {pcur} /\ pcur' = 0
             /\ Release(Purger, IdOf(pcur)) /\ UNCHANGED <<ptodo, pstable, policy>>
PurgeStop == PEnd /\ Release(Purger, IdOf(pcur))
PurgeOn(step) == PGo(step) /\ UNCHANGED <<lock, ptodo, pstable, pcand, pcur, policy>>

(* Mutant: the purge is not announced in the chain before it begins. *)
PurgeRereadUnannounced ==
    /\ ppc = "reread"
    /\ IF row[IdOf(pcur)] # NoRow /\ row[IdOf(pcur)].at = pcur
         THEN PurgeOn("remove")
         ELSE PurgeNext
    /\ UNCHANGED <<storeVars, unflushed>> /\ PurgeKeeps

PurgeReread ==
    /\ ppc = "reread"
    /\ \/ IF row[IdOf(pcur)] # NoRow /\ row[IdOf(pcur)].at = pcur
            THEN PurgeOn("request")
            ELSE PurgeNext
       \/ Fails("db") /\ PurgeStop
    /\ UNCHANGED <<storeVars, unflushed>> /\ PurgeKeeps

(* Mutant: the purge goes on when the ledger refuses its announcement. *)
PurgeRequestAnyway ==
    /\ ppc = "request"
    /\ Record("capsule_purge_requested", pcur) \/ (Refuses /\ UNCHANGED log)
    /\ PurgeOn("remove")
    /\ UNCHANGED <<row, file, unflushed>> /\ PurgeKeeps

PurgeRequest ==
    /\ ppc = "request"
    /\ \/ Record("capsule_purge_requested", pcur) /\ PurgeOn("remove")
       \/ Refuses /\ PurgeStop /\ UNCHANGED log
    /\ UNCHANGED <<row, file, unflushed>> /\ PurgeKeeps

(* Mutants: the error of os.Remove is ignored; the lock is released early. *)
PurgeRemoveAnyway ==
    /\ ppc = "remove"
    /\ \/ file' = [file EXCEPT ![PathFor(pcur)] = NoFile]
       \/ Fails("disk") /\ UNCHANGED file
    /\ PurgeOn("delete")
    /\ UNCHANGED <<row, log, unflushed>> /\ PurgeKeeps

PurgeRemoveUnlocking ==
    /\ ppc = "remove"
    /\ file' = [file EXCEPT ![PathFor(pcur)] = NoFile]
    /\ PGo("delete") /\ Release(Purger, IdOf(pcur))
    /\ UNCHANGED <<row, log, ptodo, pstable, pcand, pcur, policy, unflushed>> /\ PurgeKeeps

PurgeRemove ==
    /\ ppc = "remove"
    /\ \/ /\ file' = [file EXCEPT ![PathFor(pcur)] = NoFile]
          /\ unflushed' = unflushed \ {PathFor(pcur)}
          /\ PurgeOn("delete")
       \/ Fails("disk") /\ PurgeStop /\ UNCHANGED <<file, unflushed>>
    /\ UNCHANGED <<row, log>> /\ PurgeKeeps

PurgeDelete ==
    /\ ppc = "delete"
    /\ \/ row' = [row EXCEPT ![IdOf(pcur)] = NoRow] /\ PurgeOn("log")
       \/ Fails("db") /\ PurgeStop /\ UNCHANGED row
    /\ UNCHANGED <<file, log, unflushed>> /\ PurgeKeeps

PurgeLog ==
    /\ ppc = "log"
    /\ \/ Record("capsule_purged", pcur) /\ PurgeNext
       \/ Refuses /\ PurgeStop /\ UNCHANGED log
    /\ UNCHANGED <<row, file, unflushed>> /\ PurgeKeeps

PurgeEnd ==
    /\ ppc = "next" /\ pcand = {}
    /\ PEnd
    /\ UNCHANGED <<storeVars, lock, unflushed>> /\ PurgeKeeps

PurgeStep ==
    \/ \E id \in Ids : Settle(id)
    \/ Choose
    \/ \E r \in pcand : PurgeAcquire(r)
    \/ PurgeReread \/ PurgeRequest \/ PurgeRemove \/ PurgeDelete \/ PurgeLog
    \/ PurgeEnd

----------------------------------------------------------------------------
(* The world: processes die, the power fails, disks lose and alter bytes.  *)

(* The processes in hs die with everything they had in memory and restart  *)
(* at once; NewLedger then looks at the chain again.                       *)
Die(hs) ==
    /\ crashes < MaxCrashes
    /\ crashes' = crashes + 1
    /\ pc' = [r \in Requests |-> IF HostOf[r] \in hs /\ InFlight(r) THEN "dead" ELSE pc[r]]
    /\ vpc' = [v \in Verifiers |-> IF HostOf[v] \in hs THEN "idle" ELSE vpc[v]]
    /\ vid' = [v \in Verifiers |-> IF HostOf[v] \in hs THEN NoId ELSE vid[v]]
    /\ vrec' = [v \in Verifiers |-> IF HostOf[v] \in hs THEN 0 ELSE vrec[v]]
    /\ lock' = [h \in Hosts |-> IF h \in hs THEN [id \in Ids |-> NoProc] ELSE lock[h]]
    /\ IF HostOf[Purger] \in hs THEN PEnd ELSE UNCHANGED purgeVars
    /\ healthy' \in BOOLEAN /\ (Fails("ledger") \/ healthy' = healthy)
    /\ UNCHANGED <<row, log, req, seen, answer, tmp, damaged>>

Crash == \E h \in Hosts : Die({h}) /\ UNCHANGED <<file, unflushed>>

PowerLoss ==
    /\ PowerMayFail
    /\ \E gone \in SUBSET unflushed :
          file' = [p \in Paths |-> IF p \in gone THEN NoFile ELSE file[p]]
    /\ unflushed' = {}
    /\ Die(Hosts)

Flush ==
    /\ unflushed # {}
    /\ unflushed' = {}
    /\ UNCHANGED <<storeVars, lock, depositVars, verifyVars, purgeVars, healthy,
                   damaged, crashes>>

Damage(p) ==
    /\ file[p] # NoFile
    /\ Cardinality(damaged) < MaxDamage
    /\ damaged' = damaged \cup {file[p].by}
    /\ file' \in {[file EXCEPT ![p] = NoFile], [file EXCEPT ![p].body = Garbage]}
    /\ UNCHANGED <<row, log, lock, depositVars, verifyVars, purgeVars, healthy,
                   unflushed, crashes>>

Next ==
    \/ \E r \in Requests : Deposit(r)
    \/ \E v \in Verifiers : Verify(v)
    \/ \E p \in Policies : PurgeStart(p)
    \/ PurgeStep
    \/ Crash \/ PowerLoss \/ Flush
    \/ \E p \in Paths : Damage(p)

Spec == Init /\ [][Next]_vars

(* Every call returns, and a lock that keeps becoming free is granted: the *)
(* deposit, verification and purge code that has begun carries on.         *)
DepositRuns(r) == InFlight(r) /\ Deposit(r)
VerifyRuns(v) == vpc[v] # "idle" /\ Verify(v)
Fairness ==
    /\ \A r \in Requests : WF_vars(DepositRuns(r)) /\ SF_vars(AcquireDeposit(r))
    /\ \A v \in Verifiers : WF_vars(VerifyRuns(v)) /\ SF_vars(VerifyAcquire(v))
    /\ WF_vars(PurgeStep)
    /\ \A id \in Ids : SF_vars(Settle(id))
    /\ \A r \in Requests : SF_vars(PurgeAcquire(r))

FairSpec == Spec /\ Fairness

----------------------------------------------------------------------------

TypeOK ==
    /\ row \in [Ids -> Row \cup {NoRow}]
    /\ file \in [Paths -> File \cup {NoFile}]
    /\ log \in [Requests -> SUBSET Action]
    /\ lock \in [Hosts -> [Ids -> Procs \cup {NoProc}]]
    /\ pc \in [Requests -> DepositSteps]
    /\ req \in [Requests -> Container \cup {NoReq}]
    /\ seen \in [Requests -> 0..MaxRequests]
    /\ answer \in [Requests -> Codes]
    /\ tmp \subseteq Requests
    /\ vpc \in [Verifiers -> VerifySteps]
    /\ vid \in [Verifiers -> Ids \cup {NoId}]
    /\ vrec \in [Verifiers -> 0..MaxRequests]
    /\ ppc \in PurgeSteps
    /\ ptodo \subseteq Ids /\ pstable \subseteq Requests /\ pcand \subseteq Requests
    /\ pcur \in 0..MaxRequests
    /\ policy \in Policy
    /\ healthy \in BOOLEAN
    /\ unflushed \subseteq Paths
    /\ damaged \subseteq Requests
    /\ crashes \in 0..MaxCrashes

(* The receipt a deposit was told is stored: its own, or the one it repeats. *)
Receipt(r) == IF answer[r] = "201" THEN r ELSE seen[r]
Accepted(r) == pc[r] = "done" /\ answer[r] \in {"200", "201"}

(* A deposit that was told 201 or 200 stays stored: its row and exactly its *)
(* bytes remain, through every later deposit, retry, sweep, crash and       *)
(* failed purge, until a purge was announced in the audit chain or the disk *)
(* itself lost them.                                                        *)
AckedDurable ==
    \A r \in Requests : Accepted(r) =>
        LET q == Receipt(r)
        IN /\ req[q] = req[r]
           /\ \/ Intact(q)
              \/ "capsule_purge_requested" \in log[q]
              \/ q \in damaged

FileHasEntry ==
    \A p \in Paths : file[p] # NoFile => "capsule_deposited" \in log[file[p].by]

NoUndescribedFile ==
    \A p \in Paths : file[p] # NoFile =>
        LET f == file[p] IN row[f.id] # NoRow /\ row[f.id].at = f.by

TempIsInFlight ==
    \A r \in tmp : pc[r] \in {"insert", "record", "link", "rollback", "publish", "dead"}

(* Every file under capsules/ is accounted for, crash or not.  The chain says *)
(* deposited before the file appears ("a 201 therefore implies a chain        *)
(* entry"); no file is without its row, since publish inserts the row first   *)
(* and purge removes the file first; and every way out of publishCapsule      *)
(* removes the temporary file, so that one is left only by a deposit still    *)
(* publishing or killed while it was.                                         *)
FilesAreKnown == FileHasEntry /\ NoUndescribedFile /\ TempIsInFlight

(* The sweep, an on-demand check and a duplicate never call a capsule       *)
(* corrupt because they looked while it was being published, or because the *)
(* disk, the database or the ledger had one bad moment: only bytes the disk *)
(* damaged, a deposit that died or was rolled back half way, or a purge     *)
(* that was, can lead to that verdict.                                      *)
CorruptIsEvidence ==
    \A r \in Requests :
        /\ pc[r] = "done" => answer[r] = "201"
        /\ pc[r] # "dead" /\ r \notin damaged /\ "capsule_purge_requested" \notin log[r]
        => /\ "capsule_corrupt" \notin log[r]
           /\ req[r] # NoReq /\ row[IdOf(r)] # NoRow /\ row[IdOf(r)].at = r
                  => row[IdOf(r)].status = "active"

(* A purge at work on a capsule is not mistaken for corruption: no row is   *)
(* marked corrupt between the removal of its file and that of the row.      *)
PurgeIsNotCorruption ==
    [][\A id \in Ids :
          /\ row[id] # NoRow /\ row[id].status = "active"
          /\ row'[id] # NoRow /\ row'[id].status = "corrupt"
          => ~(ppc = "delete" /\ IdOf(pcur) = id)]_vars

Answers(r, codes) == pc[r] # "done" /\ pc'[r] = "done" /\ answer'[r] \in codes

(* At the moment a deposit answers 201 or 200 the capsule really is there,  *)
(* unless the disk damaged it: a purge cannot be half way through it.  The  *)
(* exception is a retry beside another process, which shares no lock with   *)
(* it: the row it read may be gone, and the file it finds a later deposit's.*)
Elsewhere(r) == \E p \in Procs : HostOf[p] # HostOf[r]
IsTrue(r) ==
    LET q == IF answer'[r] = "201" THEN r ELSE seen[r]
    IN  \/ Intact(q) \/ q \in damaged
        \/ answer'[r] = "200" /\ Elsewhere(r) /\ ~(row[IdOf(q)] # NoRow /\ row[IdOf(q)].at = q)
AnswersAreTrue == [][\A r \in Requests : Answers(r, {"200", "201"}) => IsTrue(r)]_vars

(* A purge that keeps the newest backup of the period leaves a completed,   *)
(* newer backup behind whenever it removes a whole one: a deposit still     *)
(* publishing does not count as that backup, since it may yet fail.         *)
PurgeKeepsABackup ==
    [][\A r \in Requests :
          Intact(r) /\ ppc = "remove" /\ ppc' = "delete" /\ pcur = r /\ policy.newest
             => \E q \in Requests : q > r /\ Intact(q)]_vars

(* Seen through the chain and the directory, every step of the store is a   *)
(* step of BlindStore: nothing is stored unannounced, replaced, or removed  *)
(* without a purge announced first.                                         *)
Stage(r) ==
    CASE r \in damaged -> "damaged"
      [] r \notin damaged /\ \E p \in Paths : file[p] # NoFile /\ file[p].by = r ->
            IF "capsule_purge_requested" \in log[r] THEN "condemned" ELSE "stored"
      [] r \notin damaged /\ "capsule_purge_requested" \in log[r]
            /\ \A p \in Paths : file[p] = NoFile \/ file[p].by # r -> "removed"
      [] OTHER -> IF "capsule_deposited" \in log[r] THEN "announced" ELSE "unknown"

Blind == INSTANCE BlindStore WITH
    Receipts <- Requests,
    Names <- Ids,
    stage <- [r \in Requests |-> Stage(r)],
    name <- [r \in Requests |-> IF "capsule_deposited" \in log[r] THEN {IdOf(r)} ELSE {}]

ImplementsBlindStore == Blind!Spec

(* Every deposit that arrives is answered, unless its process dies; every    *)
(* purge ends, and every verification does: no path keeps a lock that another*)
(* waits for.                                                                *)
EveryCallReturns ==
    /\ \A r \in Requests : InFlight(r) ~> ~InFlight(r)
    /\ ppc # "idle" ~> ppc = "idle"
    /\ \A v \in Verifiers : vpc[v] # "idle" ~> vpc[v] = "idle"

=============================================================================
