-------------------------- MODULE ReplicationProofs --------------------------
(***************************************************************************)
(* Replication is sound for any number of capsules, targets of any kind    *)
(* and syncs, whatever is purged, edited, times out or crashes meanwhile:  *)
(* a logged success is a copy, replicas are kept, a live transfer keeps    *)
(* its staging file, and a round that nothing disturbed tried every target.*)
(***************************************************************************)
EXTENDS Replication, TLAPS

(* What a goroutine holds is right for the step it is at.                   *)
JobFits(s) ==
    /\ pc[s] # "idle" => job[s] \in Job /\ job[s].todo \subseteq job[s].targets
    /\ pc[s] \notin {"idle", "next"} => job[s].t \in Targets
    /\ pc[s] \in Transfer => job[s].bytes \in Bytes
    /\ pc[s] \in {"stage", "rename"} => job[s].start <= clock
    /\ pc[s] = "legacy" \/ pc[s] = "look" => KindOf[job[s].t] = "smb"
    /\ pc[s] \in {"dial", "stage", "rename"} => KindOf[job[s].t] = "staged"
    /\ pc[s] = "log" /\ job[s].outcome = "success" => Holds(job[s].t, job[s].c)

(* A round nothing disturbed has each of its targets before it, in hand or  *)
(* behind it.  A capsule that is purged is not stored again while its sync  *)
(* runs, so a file that is there has been there all the time.               *)
Ahead(s, t) ==
    \/ t \in job[s].todo
    \/ pc[s] # "next" /\ t = job[s].t
    \/ <<t, job[s].c>> \in events
Undisturbed(s) == pc[s] # "idle" /\ file[job[s].c] # "none" /\ edits = 0 /\ faults = 0
OnTrack(s) == Undisturbed(s) => \A t \in job[s].targets : Exists(t) /\ Ahead(s, t)
FilesHaveRows == \A c \in Capsules : file[c] # "none" => row[c]

(* The file of a transfer is no older, by the server's clock, than the      *)
(* transfer is: that is what the reaper's margin is measured against.       *)
Live(s) == {f \in Mine(s) : f.on = job[s].t /\ f.born >= job[s].start + Skew[job[s].t]}
Safe(s) == pc[s] = "rename" /\ InTime(s) /\ Skew[job[s].t] + Grace >= 0 => Live(s) # {}
RInv ==
    /\ TypeOK
    /\ \A s \in Syncs : JobFits(s) /\ Safe(s) /\ OnTrack(s)
    /\ SuccessIsACopy
    /\ FilesHaveRows
    /\ edits \in Nat /\ faults \in Nat

(* What a step does to replicas, as ReplicasAreKept says.                   *)
Kept ==
    \A t \in Targets, c \in Capsules :
       /\ Exclusive(t) /\ replica[t][c] # "none" => replica'[t][c] = replica[t][c]
       /\ replica[t][c] = "whole" => replica'[t][c] \in Bytes
BytesKept == \A t \in Targets, c \in Capsules :
                replica[t][c] \in Bytes => replica'[t][c] \in Bytes

LEMMA Types ==
    /\ \A s : s \in Transfer => s \in Steps
    /\ {"next", "open", "log", "conclude", "idle"} \subseteq Steps
    /\ MaxTime \in Nat /\ Budget \in Nat /\ Grace \in Nat /\ KindOf \in [Targets -> Kind]
    /\ Skew \in [Targets -> Int]
    /\ Bytes \subseteq Held /\ "short" \in Held
BY ReplicationAssumption DEF Transfer, Steps, Bytes, Held

LEMMA HoldsStays ==
    ASSUME BytesKept, UNCHANGED legacy, NEW t \in Targets, NEW c \in Capsules, Holds(t, c)
    PROVE  Holds(t, c)'
BY DEF BytesKept, Holds

LEMMA InitRInv == Init => RInv
<1> SUFFICES ASSUME Init PROVE RInv
  OBVIOUS
<1>1. target \in [Targets -> Target \cup {NoTarget}]
  <2>1. [auto |-> TRUE, disabled |-> FALSE] \in Target
    BY DEF Target
  <2>2. QED
    BY <2>1 DEF Init
<1>2. replica \in [Targets -> [Capsules -> Held]]
  <2>1. {"none", "other"} \subseteq Held
    BY DEF Held
  <2>2. [Capsules -> {"none", "other"}] \subseteq [Capsules -> Held]
    BY <2>1
  <2>3. QED
    BY <2>2 DEF Init
<1>3. /\ row \in [Capsules -> BOOLEAN] /\ file \in [Capsules -> Bytes \cup {"none"}]
      /\ staging = {} /\ log = {} /\ events = {} /\ clock \in 0..MaxTime
      /\ pc \in [Syncs -> Steps] /\ job \in [Syncs -> Job \cup {NoJob}]
  BY Types DEF Init
<1>4. TypeOK
  BY <1>1, <1>2, <1>3 DEF TypeOK, StagingOwned
<1>5. QED
  BY <1>4 DEF Init, RInv, JobFits, Safe, OnTrack, Undisturbed, SuccessIsACopy, FilesHaveRows,
     Transfer

(* A goroutine that has no staging file of its own before its step has none *)
(* after it.                                                                *)
LEMMA OwnedStays ==
    ASSUME RInv, NEW s \in Syncs, pc[s] # "rename", UNCHANGED staging,
           \A r \in Syncs \ {s} : pc'[r] = pc[r] /\ job'[r].t = job[r].t
    PROVE  StagingOwned'
BY DEF RInv, TypeOK, StagingOwned

----------------------------------------------------------------------------
(* A step of one goroutine: what it must show, and the rest of the          *)
(* invariant follows.                                                       *)

LEMMA SyncFrame ==
    ASSUME RInv, NEW s \in Syncs, TypeOK', faults' \in Nat, faults' = 0 => faults = 0,
           UNCHANGED <<row, file, clock, legacy, edits>>,
           \A r \in Syncs \ {s} : pc'[r] = pc[r] /\ job'[r] = job[r],
           JobFits(s)', Safe(s)', OnTrack(s)',
           BytesKept, events \subseteq events',
           \A t \in Targets : faults' = 0 /\ Exists(t) => Exists(t)',
           \A l \in log' : l \in log \/ Holds(l[1], l[2])',
           \A f \in staging : f \in staging' \/ f.of = s \/ f.born + Budget + Grace < clock
    PROVE  RInv'
<1>1. ASSUME NEW r \in Syncs \ {s}
      PROVE  JobFits(r)'
  <2>1. JobFits(r) /\ pc'[r] = pc[r] /\ job'[r] = job[r]
    BY DEF RInv
  <2>2. pc[r] = "log" => job[r].t \in Targets /\ job[r].c \in Capsules
    BY <2>1 DEF JobFits, Job
  <2>3. pc[r] = "log" /\ job[r].outcome = "success" => Holds(job[r].t, job[r].c)'
    BY <2>1, <2>2, HoldsStays DEF JobFits
  <2>4. QED
    BY <2>1, <2>3 DEF JobFits
<1>2. ASSUME NEW r \in Syncs \ {s}
      PROVE  Safe(r)'
  <2>1. Safe(r) /\ JobFits(r) /\ pc'[r] = pc[r] /\ job'[r] = job[r]
    BY DEF RInv
  <2> DEFINE bound == pc[r] = "rename" /\ InTime(r) /\ Skew[job[r].t] + Grace >= 0
  <2>2. CASE bound
    <3>1. PICK f \in Live(r) : TRUE
      BY <2>1, <2>2 DEF Safe
    <3>2. f \in staging /\ f.of = r /\ f.on = job[r].t /\ f.born >= job[r].start + Skew[job[r].t]
      BY <3>1 DEF Live, Mine
    <3>3. /\ f.born \in Int /\ job[r].start \in Nat /\ clock \in Nat
          /\ Budget \in Nat /\ Grace \in Nat /\ Skew[job[r].t] \in Int
      BY <2>1, <2>2, <3>2, Types DEF RInv, TypeOK, JobFits, Job
    <3>4. clock <= job[r].start + Budget /\ Skew[job[r].t] + Grace >= 0
      BY <2>2 DEF InTime
    <3>5. ~(f.born + Budget + Grace < clock)
      BY <3>2, <3>3, <3>4
    <3>6. f \in staging'
      BY <3>2, <3>5
    <3>7. f \in Live(r)'
      BY <2>1, <3>2, <3>6 DEF Live, Mine
    <3>8. QED
      BY <3>7 DEF Safe
  <2>3. CASE ~bound
    BY <2>1, <2>3 DEF Safe, InTime
  <2>4. QED
    BY <2>2, <2>3
<1>3. ASSUME NEW r \in Syncs \ {s}
      PROVE  OnTrack(r)'
  <2>1. OnTrack(r) /\ JobFits(r) /\ pc'[r] = pc[r] /\ job'[r] = job[r]
    BY DEF RInv
  <2>2. pc[r] # "idle" => job[r].targets \subseteq Targets
    BY <2>1 DEF JobFits, Job
  <2>3. QED
    BY <2>1, <2>2 DEF OnTrack, Undisturbed, Ahead
<1>4. SuccessIsACopy'
  <2>1. \A l \in log : l[1] \in Targets /\ l[2] \in Capsules
    BY DEF RInv, TypeOK, Result
  <2>2. QED
    BY <2>1, HoldsStays DEF RInv, SuccessIsACopy
<1>5. QED
  BY <1>1, <1>2, <1>3, <1>4 DEF RInv, FilesHaveRows

----------------------------------------------------------------------------
(* Before the transfer.                                                     *)

LEMMA NextTargetKeeps ==
    ASSUME RInv, NEW s \in Syncs, NextTarget(s)
    PROVE  RInv'
<1> DEFINE t == CHOOSE u \in job[s].todo : TRUE
<1>1. /\ pc[s] = "next" /\ t \in job[s].todo
      /\ job' = [job EXCEPT ![s].t = t, ![s].todo = @ \ {t}]
      /\ UNCHANGED <<storeVars, adminVars, remoteVars, recordVars, clock, jobs>>
  BY DEF NextTarget, Local
<1>2. /\ job[s] \in Job /\ job[s].todo \subseteq job[s].targets
      /\ pc \in [Syncs -> Steps] /\ job \in [Syncs -> Job \cup {NoJob}]
      /\ faults \in Nat
  BY <1>1 DEF RInv, JobFits, TypeOK
<1>3. /\ job'[s] = [job[s] EXCEPT !.t = t, !.todo = @ \ {t}]
      /\ job'[s] \in Job /\ job'[s].todo \subseteq job'[s].targets /\ job'[s].c = job[s].c
      /\ \A r \in Syncs \ {s} : job'[r] = job[r]
  BY <1>1, <1>2 DEF Job
<1>4. /\ pc' = pc \/ pc' = [pc EXCEPT ![s] = "open"]
      /\ faults' = faults + 1 \/ (faults' = faults /\ (Exists(t) => pc'[s] = "open"))
  BY <1>1, <1>2 DEF NextTarget, Goto, Fault
<1>5. TypeOK'
  <2>1. StagingOwned'
    BY <1>1, <1>2, <1>3, <1>4, OwnedStays DEF remoteVars
  <2>2. QED
    BY <1>1, <1>2, <1>3, <1>4, <2>1, Types DEF RInv, TypeOK, storeVars, adminVars, remoteVars, recordVars
<1>6. JobFits(s)'
  BY <1>1, <1>2, <1>3, <1>4, ZenonT(30) DEF JobFits, Transfer, Job
<1>7. OnTrack(s)'
  <2>1. CASE faults' = 0 /\ Undisturbed(s)
    <3>1. Exists(t) /\ pc'[s] = "open"
      BY <1>1, <1>2, <1>4, <2>1 DEF RInv, OnTrack
    <3>2. \A u \in job[s].targets : Exists(u)' /\ Ahead(s, u)'
      BY <1>1, <1>2, <1>3, <2>1, <3>1, ZenonT(30)
         DEF RInv, OnTrack, Ahead, Exists, adminVars, recordVars, Job
    <3>3. QED
      BY <1>2, <1>3, <3>2 DEF OnTrack, Job
  <2>2. CASE ~(faults' = 0 /\ Undisturbed(s))
    <3>1. job'[s].c = job[s].c /\ UNCHANGED <<file, edits>> /\ (faults' = 0 => faults = 0)
      BY <1>1, <1>2, <1>3, <1>4 DEF storeVars, adminVars
    <3>2. QED
      BY <1>1, <2>2, <3>1 DEF OnTrack, Undisturbed
  <2>3. QED
    BY <2>1, <2>2
<1>8. /\ \A r \in Syncs \ {s} : pc'[r] = pc[r]
      /\ pc'[s] # "rename" /\ faults' \in Nat /\ (faults' = 0 => faults = 0)
  BY <1>1, <1>2, <1>4
<1>9. QED
  BY <1>1, <1>3, <1>5, <1>6, <1>7, <1>8, SyncFrame
     DEF storeVars, adminVars, remoteVars, recordVars, Safe, BytesKept, Exists

LEMMA FinishKeeps ==
    ASSUME RInv, NEW s \in Syncs, Finish(s)
    PROVE  RInv'
<1>1. /\ pc' = [pc EXCEPT ![s] = "idle"] /\ job' = [job EXCEPT ![s] = NoJob]
      /\ UNCHANGED <<storeVars, adminVars, remoteVars, recordVars, clock, jobs, faults>>
  BY DEF Finish, Goto, Local
<1>2. pc \in [Syncs -> Steps] /\ job \in [Syncs -> Job \cup {NoJob}] /\ faults \in Nat
  BY DEF RInv, TypeOK
<1>3. pc'[s] = "idle" /\ \A r \in Syncs \ {s} : pc'[r] = pc[r] /\ job'[r] = job[r]
  BY <1>1, <1>2
<1>4. TypeOK'
  <2>1. StagingOwned'
    BY <1>3, OwnedStays, <1>1 DEF Finish, remoteVars
  <2>2. QED
    BY <1>1, <1>2, <2>1, Types DEF RInv, TypeOK, storeVars, adminVars, remoteVars, recordVars
<1>5. JobFits(s)' /\ Safe(s)' /\ OnTrack(s)'
  BY <1>3 DEF JobFits, Safe, OnTrack, Undisturbed, Transfer
<1>6. QED
  BY <1>1, <1>2, <1>3, <1>4, <1>5, SyncFrame
     DEF storeVars, adminVars, remoteVars, recordVars, BytesKept, Exists

LEMMA OpenKeeps ==
    ASSUME RInv, NEW s \in Syncs, Open(s)
    PROVE  RInv'
<1> DEFINE c == job[s].c
           found == row[c] /\ file[c] # "none"
           opened == [job[s] EXCEPT !.bytes = file[c]]
<1>1. /\ pc[s] = "open"
      /\ UNCHANGED <<storeVars, adminVars, remoteVars, recordVars, clock, jobs>>
  BY DEF Open, Local
<1>2. /\ job[s] \in Job /\ job[s].todo \subseteq job[s].targets /\ job[s].t \in Targets
      /\ pc \in [Syncs -> Steps] /\ job \in [Syncs -> Job \cup {NoJob}]
      /\ faults \in Nat /\ clock \in 0..MaxTime /\ file \in [Capsules -> Bytes \cup {"none"}]
  BY <1>1 DEF RInv, JobFits, TypeOK, Transfer
<1>3. c \in Capsules /\ file[c] \in Bytes \cup {"none"} /\ (file[c] # "none" => row[c])
  BY <1>2 DEF Job, RInv, FilesHaveRows
<1>4. \/ /\ found /\ pc' = [pc EXCEPT ![s] = FirstStep(job[s].t)] /\ faults' = faults
         /\ job' = [job EXCEPT ![s].bytes = file[c]]
      \/ ~found /\ pc' = [pc EXCEPT ![s] = "next"] /\ job' = job /\ faults' = faults
      \/ faults' = faults + 1 /\ pc' = [pc EXCEPT ![s] = "next"] /\ job' = job
  BY DEF Open, Goto, Fault
<1>5. CASE /\ found /\ pc' = [pc EXCEPT ![s] = FirstStep(job[s].t)] /\ faults' = faults
           /\ job' = [job EXCEPT ![s].bytes = file[c]]
  <2>1. /\ FirstStep(job[s].t) \in {"look", "dial", "put"}
        /\ FirstStep(job[s].t) = "look" => KindOf[job[s].t] = "smb"
        /\ FirstStep(job[s].t) = "dial" => KindOf[job[s].t] = "staged"
    BY DEF FirstStep
  <2>2. /\ job'[s] = opened /\ opened \in Job /\ pc'[s] = FirstStep(job[s].t)
        /\ \A r \in Syncs \ {s} : pc'[r] = pc[r] /\ job'[r] = job[r]
    BY <1>2, <1>3, <1>5 DEF Job
  <2>3. TypeOK'
    <3>1. FirstStep(job[s].t) \in Steps
      BY <2>1 DEF Steps, Transfer
    <3>2. pc' \in [Syncs -> Steps] /\ job' \in [Syncs -> Job \cup {NoJob}]
      BY <1>2, <1>5, <2>2, <3>1
    <3>3. StagingOwned'
      <4>1. UNCHANGED staging /\ pc[s] # "rename"
        BY <1>1 DEF remoteVars
      <4>2. \A r \in Syncs \ {s} : pc'[r] = pc[r] /\ job'[r].t = job[r].t
        BY <2>2
      <4>3. QED
        BY <4>1, <4>2, OwnedStays
    <3>4. QED
      <4>1. UNCHANGED <<row, file, target, replica, legacy, staging, log, events, clock>>
        BY <1>1 DEF storeVars, adminVars, remoteVars, recordVars
      <4>2. TypeOK
        BY DEF RInv
      <4>3. /\ row' \in [Capsules -> BOOLEAN] /\ file' \in [Capsules -> Bytes \cup {"none"}]
            /\ target' \in [Targets -> Target \cup {NoTarget}]
            /\ replica' \in [Targets -> [Capsules -> Held]]
            /\ staging' \subseteq [of : Syncs \cup {NoJob}, on : Targets, born : Int]
            /\ log' \subseteq Result /\ events' \subseteq Result /\ clock' \in 0..MaxTime
        BY <4>1, <4>2 DEF TypeOK
      <4>4. QED
        BY <3>2, <3>3, <4>3 DEF TypeOK
  <2>4. opened.t = job[s].t /\ opened.bytes = file[c] /\ opened.start = job[s].start
        /\ opened.todo = job[s].todo /\ opened.targets = job[s].targets /\ opened.c = c
    BY <1>2 DEF Job
  <2>5. JobFits(s)'
    BY <1>1, <1>2, <1>3, <1>5, <2>1, <2>2, <2>4 DEF JobFits, Transfer
  <2>6. OnTrack(s)'
    <3>1. Undisturbed(s)' => Undisturbed(s)
      BY <1>1, <1>5, <2>2, <2>4 DEF Undisturbed, storeVars, adminVars
    <3>2. QED
      BY <1>1, <2>1, <2>2, <2>4, <3>1 DEF RInv, OnTrack, Ahead, Exists, adminVars, recordVars
  <2>7. Safe(s)'
    BY <2>1, <2>2 DEF Safe
  <2>8. QED
    BY <1>1, <1>2, <1>5, <2>2, <2>3, <2>5, <2>6, <2>7, SyncFrame
       DEF storeVars, adminVars, remoteVars, recordVars, BytesKept, Exists
<1>6. CASE /\ pc' = [pc EXCEPT ![s] = "next"] /\ job' = job
           /\ (~found /\ faults' = faults) \/ faults' = faults + 1
  <2>1. /\ pc'[s] = "next" /\ job'[s] = job[s]
        /\ \A r \in Syncs \ {s} : pc'[r] = pc[r] /\ job'[r] = job[r]
    BY <1>2, <1>6
  <2>2. TypeOK'
    <3>1. StagingOwned'
      BY <1>1, <2>1, OwnedStays DEF remoteVars
    <3>2. QED
      BY <1>1, <1>2, <1>6, <3>1, Types DEF RInv, TypeOK, storeVars, adminVars, remoteVars, recordVars
  <2>3. JobFits(s)' /\ Safe(s)'
    BY <1>2, <2>1 DEF JobFits, Safe, Transfer
  <2>4. OnTrack(s)'
    BY <1>1, <1>2, <1>3, <1>6, <2>1 DEF OnTrack, Undisturbed, storeVars, adminVars
  <2>5. QED
    BY <1>1, <1>2, <1>6, <2>1, <2>2, <2>3, <2>4, SyncFrame
       DEF storeVars, adminVars, remoteVars, recordVars, BytesKept, Exists
<1>7. QED
  BY <1>4, <1>5, <1>6

----------------------------------------------------------------------------
(* The transfer.  Whatever it does, bytes of this store are only ever       *)
(* replaced by bytes of this store.                                         *)

LEMMA AtTransfer ==
    ASSUME RInv, NEW s \in Syncs, pc[s] \in Transfer
    PROVE  /\ job[s] \in Job /\ job[s].t \in Targets /\ job[s].c \in Capsules
           /\ job[s].bytes \in Bytes /\ job[s].bytes \in Held
           /\ pc[s] \in {"stage", "rename"} => job[s].start <= clock
           /\ job[s].start \in Nat /\ clock \in 0..MaxTime
           /\ pc \in [Syncs -> Steps] /\ job \in [Syncs -> Job \cup {NoJob}]
           /\ replica \in [Targets -> [Capsules -> Held]]
           /\ pc[s] # "idle" /\ pc[s] # "next"
<1>1. pc[s] # "idle" /\ pc[s] # "next"
  BY DEF Transfer
<1>2. job[s] \in Job
  BY <1>1 DEF RInv, JobFits
<1>3. job[s].c \in Capsules /\ job[s].start \in 0..MaxTime
  BY <1>2 DEF Job
<1>4. QED
  BY <1>1, <1>2, <1>3, Types DEF RInv, JobFits, TypeOK

LEMMA Placed ==
    ASSUME RInv, NEW s \in Syncs, pc[s] \in Transfer, Place(s, job[s].bytes)
    PROVE  /\ replica' \in [Targets -> [Capsules -> Held]]
           /\ BytesKept
           /\ \A t \in Targets, c \in Capsules : t = job[s].t /\ c = job[s].c => Holds(t, c)'
           /\ (Exclusive(job[s].t) => Here(s) = "none") => Kept
<1> DEFINE there == job[s].t
           name == job[s].c
<1>1. /\ there \in Targets /\ name \in Capsules /\ job[s].bytes \in Bytes /\ job[s].bytes \in Held
      /\ replica \in [Targets -> [Capsules -> Held]]
  BY AtTransfer
<1>2. replica' = [replica EXCEPT ![there][name] = job[s].bytes]
  BY DEF Place
<1>3. replica' \in [Targets -> [Capsules -> Held]]
  BY <1>1, <1>2
<1>4. \A t \in Targets, c \in Capsules :
         replica'[t][c] = IF t = there /\ c = name THEN job[s].bytes ELSE replica[t][c]
  BY <1>1, <1>2
<1>5. BytesKept
  BY <1>1, <1>4 DEF BytesKept
<1>6. \A t \in Targets, c \in Capsules : t = there /\ c = name => Holds(t, c)'
  BY <1>1, <1>4 DEF Holds
<1>7. (Exclusive(there) => Here(s) = "none") => Kept
  BY <1>1, <1>4 DEF Kept, Here, Bytes
<1>8. QED
  BY <1>3, <1>5, <1>6, <1>7

LEMMA NotPlaced ==
    ASSUME RInv, UNCHANGED replica
    PROVE  replica' \in [Targets -> [Capsules -> Held]] /\ BytesKept /\ Kept
BY DEF RInv, TypeOK, BytesKept, Kept, Bytes

(* A transfer that is over, with what it leaves.                            *)
LEMMA DoneKeeps ==
    ASSUME RInv, NEW s \in Syncs, pc[s] \in Transfer, TransferKeeps,
           NEW o \in Outcome, Done(s, o),
           replica' \in [Targets -> [Capsules -> Held]], BytesKept,
           staging' \subseteq [of : Syncs \cup {NoJob}, on : Targets, born : Int],
           \A f \in staging' : f.of # s /\ (f.of # NoJob => f \in staging),
           \A f \in staging : f.of # s => f \in staging',
           \A t \in Targets, c \in Capsules :
              t = job[s].t /\ c = job[s].c /\ o = "success" => Holds(t, c)'
    PROVE  RInv'
<1> DEFINE done == [job[s] EXCEPT !.outcome = o, !.bytes = "none", !.start = 0]
<1>1. /\ UNCHANGED <<storeVars, adminVars, legacy, recordVars, clock, jobs, faults>>
      /\ pc' = [pc EXCEPT ![s] = "log"]
      /\ job' = [job EXCEPT ![s].outcome = o, ![s].bytes = "none", ![s].start = 0]
  BY DEF TransferKeeps, Done, Goto
<1>2. /\ job[s] \in Job /\ job[s].t \in Targets /\ job[s].c \in Capsules
      /\ job[s].todo \subseteq job[s].targets
      /\ pc \in [Syncs -> Steps] /\ job \in [Syncs -> Job \cup {NoJob}] /\ faults \in Nat
      /\ pc[s] # "idle" /\ pc[s] # "next"
  BY AtTransfer DEF RInv, JobFits
<1>3. /\ done \in Job /\ done.t = job[s].t /\ done.c = job[s].c /\ done.outcome = o
      /\ done.todo = job[s].todo /\ done.targets = job[s].targets
  <2>1. 0 \in 0..MaxTime
    BY Types
  <2>2. done \in Job
    BY <1>2, <2>1 DEF Job
  <2>3. QED
    BY <1>2, <2>2 DEF Job
<1>4. /\ job'[s] = done /\ pc'[s] = "log"
      /\ \A r \in Syncs \ {s} : pc'[r] = pc[r] /\ job'[r] = job[r]
  BY <1>1, <1>2
<1>5. TypeOK'
  <2>1. pc' \in [Syncs -> Steps] /\ job' \in [Syncs -> Job \cup {NoJob}]
    BY <1>1, <1>2, <1>3, Types
  <2>2. StagingOwned'
    BY <1>4 DEF RInv, TypeOK, StagingOwned
  <2>3. QED
    BY <1>1, <2>1, <2>2 DEF RInv, TypeOK, storeVars, adminVars, recordVars
<1>6. JobFits(s)'
  BY <1>2, <1>3, <1>4 DEF JobFits, Transfer
<1>7. OnTrack(s)'
  BY <1>1, <1>2, <1>3, <1>4
     DEF RInv, OnTrack, Undisturbed, Ahead, Exists, storeVars, adminVars, recordVars
<1>8. Safe(s)'
  BY <1>4 DEF Safe
<1>9. QED
  BY <1>1, <1>2, <1>4, <1>5, <1>6, <1>7, <1>8, SyncFrame
     DEF storeVars, adminVars, recordVars, Exists

(* From one step of a transfer to the next.                                 *)
LEMMA GoOnKeeps ==
    ASSUME RInv, NEW s \in Syncs, pc[s] \in Transfer, TransferKeeps,
           NEW p \in Transfer, Goto(s, p), UNCHANGED <<job, replica>>,
           p = "look" \/ p = "legacy" => KindOf[job[s].t] = "smb",
           p \in {"dial", "stage", "rename"} => KindOf[job[s].t] = "staged",
           pc[s] # "rename", p \in {"stage", "rename"} => pc[s] = "stage",
           staging' \subseteq [of : Syncs \cup {NoJob}, on : Targets, born : Int],
           \A f \in staging : f \in staging' \/ f.born + Budget + Grace < clock,
           \A f \in staging' : f \in staging \/ (p = "rename" /\ f = Staged(s)),
           p = "rename" => Live(s)' # {}
    PROVE  RInv'
<1>1. /\ UNCHANGED <<storeVars, adminVars, legacy, recordVars, clock, jobs, faults>>
      /\ pc' = [pc EXCEPT ![s] = p]
  BY DEF TransferKeeps, Goto
<1>2. /\ pc \in [Syncs -> Steps] /\ pc'[s] = p /\ p \in Steps /\ p \notin {"idle", "next", "log"}
      /\ faults \in Nat /\ \A r \in Syncs \ {s} : pc'[r] = pc[r]
      /\ pc[s] # "idle" /\ pc[s] # "next"
  BY <1>1, AtTransfer, Types DEF RInv, Transfer
<1>3. TypeOK'
  <2>1. pc' \in [Syncs -> Steps]
    BY <1>1, <1>2
  <2>2. StagingOwned'
    BY <1>2 DEF RInv, TypeOK, StagingOwned, Staged
  <2>3. QED
    BY <1>1, <2>1, <2>2 DEF RInv, TypeOK, storeVars, adminVars, recordVars
<1>4. JobFits(s)'
  BY <1>1, <1>2 DEF RInv, JobFits
<1>5. OnTrack(s)'
  BY <1>1, <1>2 DEF RInv, OnTrack, Undisturbed, Ahead, Exists, storeVars, adminVars, recordVars
<1>6. Safe(s)'
  BY <1>2 DEF Safe
<1>7. QED
  BY <1>1, <1>2, <1>3, <1>4, <1>5, <1>6, NotPlaced, SyncFrame
     DEF storeVars, adminVars, recordVars, Exists

LEMMA JudgeKeeps ==
    ASSUME RInv, NEW s \in Syncs, pc[s] \in Transfer, TransferKeeps, UNCHANGED <<replica, staging>>,
           pc[s] # "rename", NEW held, Judge(s, held),
           \/ held = Here(s)
           \/ KindOf[job[s].t] = "smb" /\ held = legacy[job[s].t][job[s].c]
    PROVE  RInv'
<1> DEFINE o == IF Matches(held) THEN "success" ELSE "failed"
<1>1. o \in Outcome /\ Done(s, o) /\ UNCHANGED legacy
  BY DEF Judge, Outcome, TransferKeeps
<1>2. \A t \in Targets, c \in Capsules :
         t = job[s].t /\ c = job[s].c /\ o = "success" => Holds(t, c)'
  BY <1>1 DEF Matches, Here, Holds, Bytes
<1>3. \A f \in staging : f.of # s
  BY NoJobAssumption DEF RInv, TypeOK, StagingOwned
<1>4. QED
  BY <1>1, <1>2, <1>3, NotPlaced, DoneKeeps DEF RInv, TypeOK

(* The budget starts.                                                       *)
LEMMA DialKeeps ==
    ASSUME RInv, NEW s \in Syncs, Dial(s)
    PROVE  RInv'
<1> DEFINE dialled == [job[s] EXCEPT !.start = clock]
<1>1. /\ pc[s] = "dial" /\ pc' = [pc EXCEPT ![s] = "stage"]
      /\ job' = [job EXCEPT ![s].start = clock] /\ UNCHANGED staging
      /\ UNCHANGED <<storeVars, adminVars, remoteVars, recordVars, clock, jobs, faults>>
  BY DEF Dial, Goto, TransferKeeps, remoteVars
<1>2. /\ job[s] \in Job /\ job[s].t \in Targets /\ job[s].bytes \in Bytes
      /\ job[s].todo \subseteq job[s].targets /\ KindOf[job[s].t] = "staged"
      /\ pc \in [Syncs -> Steps] /\ job \in [Syncs -> Job \cup {NoJob}]
      /\ faults \in Nat /\ clock \in 0..MaxTime /\ "stage" \in Steps
  BY <1>1, AtTransfer, Types DEF RInv, JobFits, TypeOK, Transfer
<1>3. /\ dialled \in Job /\ dialled.t = job[s].t /\ dialled.c = job[s].c /\ dialled.start = clock
      /\ dialled.bytes = job[s].bytes /\ dialled.todo = job[s].todo
      /\ dialled.targets = job[s].targets
  BY <1>2 DEF Job
<1>4. /\ job'[s] = dialled /\ pc'[s] = "stage"
      /\ \A r \in Syncs \ {s} : pc'[r] = pc[r] /\ job'[r] = job[r]
  BY <1>1, <1>2
<1>5. TypeOK'
  <2>1. pc' \in [Syncs -> Steps] /\ job' \in [Syncs -> Job \cup {NoJob}]
    BY <1>1, <1>2, <1>3
  <2>2. StagingOwned'
    BY <1>1, <1>4, OwnedStays
  <2>3. QED
    BY <1>1, <2>1, <2>2 DEF RInv, TypeOK, storeVars, adminVars, remoteVars, recordVars
<1>6. JobFits(s)'
  BY <1>1, <1>2, <1>3, <1>4 DEF JobFits, Transfer
<1>7. OnTrack(s)'
  BY <1>1, <1>2, <1>3, <1>4
     DEF RInv, OnTrack, Undisturbed, Ahead, Exists, storeVars, adminVars, recordVars
<1>8. Safe(s)'
  BY <1>4 DEF Safe
<1>9. QED
  BY <1>1, <1>2, <1>4, <1>5, <1>6, <1>7, <1>8, NotPlaced, SyncFrame
     DEF storeVars, adminVars, remoteVars, recordVars, Exists

LEMMA DisownedBySome ==
    ASSUME RInv, NEW syncs \in SUBSET Syncs
    PROVE  /\ Disowned(syncs) \subseteq [of : Syncs \cup {NoJob}, on : Targets, born : Int]
           /\ \A f \in Disowned(syncs) : f.of \notin syncs /\ (f.of # NoJob => f \in staging)
           /\ \A f \in staging : f.of \notin syncs => f \in Disowned(syncs)
<1>1. staging \subseteq [of : Syncs \cup {NoJob}, on : Targets, born : Int]
  BY DEF RInv, TypeOK
<1>2. \A f \in staging : /\ [f EXCEPT !.of = NoJob].of = NoJob
                         /\ [f EXCEPT !.of = NoJob] \in [of : Syncs \cup {NoJob}, on : Targets, born : Int]
  BY <1>1
<1>3. NoJob \notin syncs
  BY NoJobAssumption
<1>4. QED
  BY <1>1, <1>2, <1>3 DEF Disowned

LEMMA TransferKeepsRInv ==
    ASSUME RInv, NEW s \in Syncs,
           \/ Look(s) \/ LookLegacy(s) \/ Put(s) \/ Compare(s) \/ Stage(s) \/ Rename(s)
           \/ TransferFails(s)
    PROVE  RInv'
<1>1. pc[s] \in Transfer /\ TransferKeeps
  BY DEF Look, LookLegacy, Put, Compare, Stage, Rename, TransferFails, Transfer
<1>2. /\ JobFits(s) /\ Safe(s) /\ {"success", "failed"} = Outcome
      /\ staging \subseteq [of : Syncs \cup {NoJob}, on : Targets, born : Int]
      /\ {"look", "legacy", "put", "compare", "dial", "stage", "rename"} = Transfer
      /\ pc[s] # "rename" => \A f \in staging : f.of # s
  BY NoJobAssumption DEF RInv, TypeOK, StagingOwned, Outcome, Transfer
<1>3. CASE Look(s)
  <2>1. CASE Here(s) = "none"
    BY <1>1, <1>2, <1>3, <2>1, GoOnKeeps DEF Look, JobFits
  <2>2. CASE Here(s) # "none"
    BY <1>1, <1>3, <2>2, JudgeKeeps DEF Look
  <2>3. QED
    BY <2>1, <2>2
<1>4. CASE LookLegacy(s)
  <2>1. CASE legacy[job[s].t][job[s].c] = "none"
    BY <1>1, <1>2, <1>4, <2>1, GoOnKeeps DEF LookLegacy
  <2>2. CASE legacy[job[s].t][job[s].c] # "none"
    BY <1>1, <1>2, <1>4, <2>2, JudgeKeeps DEF LookLegacy, JobFits
  <2>3. QED
    BY <2>1, <2>2
<1>5. CASE Put(s)
  <2>1. CASE Exclusive(job[s].t) /\ Here(s) # "none"
    BY <1>1, <1>2, <1>5, <2>1, GoOnKeeps DEF Put
  <2>2. CASE ~(Exclusive(job[s].t) /\ Here(s) # "none")
    BY <1>1, <1>2, <1>5, <2>2, Placed, DoneKeeps DEF Put
  <2>3. QED
    BY <2>1, <2>2
<1>6. CASE Compare(s)
  BY <1>1, <1>6, JudgeKeeps DEF Compare
<1>7. CASE Stage(s)
  <2>1. PICK reaped \in SUBSET Expired(job[s].t) :
           staging' = (staging \ reaped) \cup {Staged(s)}
    BY <1>7 DEF Stage
  <2>2. /\ Goto(s, "rename") /\ UNCHANGED <<job, replica, clock>> /\ pc[s] = "stage"
    BY <1>1, <1>7 DEF Stage, TransferKeeps
  <2>3. /\ job[s].t \in Targets /\ job[s].start \in Nat /\ clock \in Nat
        /\ job[s].start <= clock /\ Skew[job[s].t] \in Int
    BY <1>1, <2>2, AtTransfer, Types
  <2>4. Staged(s) \in [of : Syncs \cup {NoJob}, on : Targets, born : Int]
    BY <2>3 DEF Staged
  <2>5. Staged(s) \in Live(s)'
    BY <2>1, <2>2, <2>3 DEF Live, Mine, Staged
  <2>6. \A f \in staging : f \in staging' \/ f.born + Budget + Grace < clock
    BY <2>1 DEF Expired
  <2>7. staging' \subseteq [of : Syncs \cup {NoJob}, on : Targets, born : Int]
    BY <1>2, <2>1, <2>4
  <2>8. \A f \in staging' : f \in staging \/ f = Staged(s)
    BY <2>1
  <2>9. QED
    BY <1>1, <1>2, <2>2, <2>5, <2>6, <2>7, <2>8, GoOnKeeps DEF JobFits
<1>8. CASE Rename(s)
  <2>1. CASE Mine(s) = {}
    <3>1. \A f \in staging : f.of # s
      BY <2>1 DEF Mine
    <3>2. QED
      BY <1>1, <1>2, <1>8, <2>1, <3>1, NotPlaced, DoneKeeps DEF Rename
  <2>2. CASE Mine(s) # {}
    <3>1. staging' = staging \ Mine(s) /\ Place(s, job[s].bytes) /\ Done(s, "success")
      BY <1>8, <2>2 DEF Rename
    <3>2. \A f \in staging : f \in Mine(s) <=> f.of = s
      BY DEF Mine
    <3>3. QED
      BY <1>1, <1>2, <3>1, <3>2, Placed, DoneKeeps
  <2>3. QED
    BY <2>1, <2>2
<1>9. CASE TransferFails(s)
  <2>1. /\ Done(s, "failed")
        /\ UNCHANGED replica \/ Place(s, job[s].bytes)
        /\ \/ staging' = staging \ Mine(s)
           \/ staging' = Disowned({s})
           \/ pc[s] # "rename" /\ staging' = staging
    BY <1>9 DEF TransferFails
  <2>2. replica' \in [Targets -> [Capsules -> Held]] /\ BytesKept
    BY <1>1, <2>1, Placed, NotPlaced
  <2>3. /\ staging' \subseteq [of : Syncs \cup {NoJob}, on : Targets, born : Int]
        /\ \A f \in staging' : f.of # s /\ (f.of # NoJob => f \in staging)
        /\ \A f \in staging : f.of # s => f \in staging'
    <3>1. CASE staging' = staging \ Mine(s)
      BY <1>2, <3>1 DEF Mine
    <3>2. CASE staging' = Disowned({s})
      BY <1>2, <3>2, DisownedBySome
    <3>3. CASE pc[s] # "rename" /\ staging' = staging
      BY <1>2, <3>3
    <3>4. QED
      BY <2>1, <3>1, <3>2, <3>3
  <2>4. QED
    BY <1>1, <1>2, <2>1, <2>2, <2>3, DoneKeeps
<1>10. QED
  BY <1>3, <1>4, <1>5, <1>6, <1>7, <1>8, <1>9

----------------------------------------------------------------------------
(* After the transfer.                                                      *)

LEMMA AfterTransfer ==
    ASSUME RInv, NEW s \in Syncs, pc[s] = "log" \/ pc[s] = "conclude"
    PROVE  /\ job[s] \in Job /\ job[s].t \in Targets /\ job[s].c \in Capsules
           /\ job[s].todo \subseteq job[s].targets /\ job[s].targets \subseteq Targets
           /\ pc \in [Syncs -> Steps] /\ job \in [Syncs -> Job \cup {NoJob}]
           /\ ResultOf(s) \in Result /\ faults \in Nat
<1>1. job[s] \in Job /\ job[s].t \in Targets /\ job[s].todo \subseteq job[s].targets
  BY DEF RInv, JobFits
<1>2. job[s].c \in Capsules /\ job[s].targets \subseteq Targets
  BY <1>1 DEF Job
<1>3. QED
  BY <1>1, <1>2 DEF RInv, TypeOK, ResultOf, Result

LEMMA InsertLogKeeps ==
    ASSUME RInv, NEW s \in Syncs, InsertLog(s)
    PROVE  RInv'
<1>1. /\ pc[s] = "log" /\ pc' = [pc EXCEPT ![s] = "conclude"]
      /\ UNCHANGED <<storeVars, edits, remoteVars, clock, jobs, job, target, events>>
      /\ log' = Logged(s) \/ log' = log
      /\ faults' = faults \/ faults' = faults + 1
  BY DEF InsertLog, Goto, AfterKeeps, Fault
<1>2. /\ job[s] \in Job /\ job[s].t \in Targets /\ job[s].c \in Capsules
      /\ pc \in [Syncs -> Steps] /\ ResultOf(s) \in Result /\ faults \in Nat
  BY <1>1, AfterTransfer
<1>3. pc'[s] = "conclude" /\ \A r \in Syncs \ {s} : pc'[r] = pc[r]
  BY <1>1, <1>2
<1>4. TypeOK'
  <2>1. pc' \in [Syncs -> Steps] /\ log' \subseteq Result
    BY <1>1, <1>2, Types DEF RInv, TypeOK, Logged
  <2>2. StagingOwned'
    BY <1>1, <1>3, OwnedStays DEF remoteVars
  <2>3. QED
    BY <1>1, <2>1, <2>2 DEF RInv, TypeOK, storeVars, remoteVars
<1>5. \A l \in log' : l \in log \/ Holds(l[1], l[2])'
  <2>1. BytesKept /\ UNCHANGED legacy
    BY <1>1, NotPlaced DEF remoteVars
  <2>2. job[s].outcome = "success" => Holds(job[s].t, job[s].c)
    BY <1>1 DEF RInv, JobFits
  <2>3. \A l \in log' : l \in log \/ Holds(l[1], l[2])
    BY <1>1, <2>2 DEF Logged, ResultOf
  <2>4. \A l \in log' : l \in log \/ (l[1] \in Targets /\ l[2] \in Capsules)
    BY <1>1, <1>2 DEF Logged, ResultOf
  <2>5. QED
    BY <2>1, <2>3, <2>4, HoldsStays
<1>6. JobFits(s)' /\ Safe(s)'
  BY <1>1, <1>2, <1>3 DEF RInv, JobFits, Safe, Transfer
<1>7. OnTrack(s)'
  BY <1>1, <1>2, <1>3 DEF RInv, OnTrack, Undisturbed, Ahead, Exists, storeVars
<1>8. QED
  BY <1>1, <1>2, <1>3, <1>4, <1>5, <1>6, <1>7, NotPlaced, SyncFrame
     DEF storeVars, remoteVars, Exists

LEMMA ConcludeKeeps ==
    ASSUME RInv, NEW s \in Syncs, Conclude(s)
    PROVE  RInv'
<1> DEFINE over == [job[s] EXCEPT !.t = NoTarget, !.outcome = "failed"]
<1>1. /\ pc[s] = "conclude" /\ pc' = [pc EXCEPT ![s] = "next"]
      /\ job' = [job EXCEPT ![s].t = NoTarget, ![s].outcome = "failed"]
      /\ UNCHANGED <<storeVars, edits, remoteVars, clock, jobs, log>>
      /\ SetStatus(s) \/ UNCHANGED target
      /\ \/ events' = events \cup {ResultOf(s)} /\ faults' = faults
         \/ events' = events \cup {ResultOf(s)} /\ faults' = faults + 1
         \/ events' = events /\ faults' = faults + 1
  BY DEF Conclude, Goto, AfterKeeps, Fault
<1>2. /\ job[s] \in Job /\ job[s].t \in Targets /\ job[s].c \in Capsules
      /\ job[s].todo \subseteq job[s].targets /\ job[s].targets \subseteq Targets
      /\ pc \in [Syncs -> Steps] /\ job \in [Syncs -> Job \cup {NoJob}]
      /\ ResultOf(s) \in Result /\ faults \in Nat
  BY <1>1, AfterTransfer
<1>3. over \in Job
  BY <1>2 DEF Job, Outcome
<1>4. /\ over.c = job[s].c /\ over.todo = job[s].todo /\ over.targets = job[s].targets
  BY <1>2 DEF Job
<1>5. /\ job'[s] = over /\ pc'[s] = "next"
      /\ \A r \in Syncs \ {s} : pc'[r] = pc[r] /\ job'[r] = job[r]
  BY <1>1, <1>2
<1>6. /\ target' \in [Targets -> Target \cup {NoTarget}]
      /\ \A t \in Targets : Exists(t) => Exists(t)'
  <2>1. target \in [Targets -> Target \cup {NoTarget}] /\ NoTarget \notin Target
    BY ReplicationAssumption DEF RInv, TypeOK
  <2>2. CASE Exists(job[s].t) /\ target' = [target EXCEPT ![job[s].t].disabled = FALSE]
    <3>1. [target[job[s].t] EXCEPT !.disabled = FALSE] \in Target
      BY <1>2, <2>1, <2>2 DEF Exists, Target
    <3>2. QED
      BY <1>2, <2>1, <2>2, <3>1 DEF Exists
  <2>3. CASE target' = target
    BY <2>1, <2>3 DEF Exists
  <2>4. QED
    BY <1>1, <2>2, <2>3 DEF SetStatus
<1>7. TypeOK'
  <2>1. pc' \in [Syncs -> Steps] /\ job' \in [Syncs -> Job \cup {NoJob}] /\ events' \subseteq Result
    BY <1>1, <1>2, <1>3, Types DEF RInv, TypeOK
  <2>2. StagingOwned'
    BY <1>1, <1>5, OwnedStays DEF remoteVars
  <2>3. QED
    BY <1>1, <1>6, <2>1, <2>2 DEF RInv, TypeOK, storeVars, remoteVars
<1>8. JobFits(s)' /\ Safe(s)'
  BY <1>2, <1>3, <1>4, <1>5 DEF JobFits, Safe, Transfer
<1>9. OnTrack(s)'
  <2>1. CASE Undisturbed(s)'
    <3>1. Undisturbed(s) /\ events' = events \cup {<<job[s].t, job[s].c>>}
      BY <1>1, <1>2, <1>4, <1>5, <2>1 DEF Undisturbed, storeVars, ResultOf
    <3>2. \A t \in job[s].targets : t \in Targets /\ Exists(t) /\ Ahead(s, t)
      BY <1>2, <3>1 DEF RInv, OnTrack
    <3>3. QED
      BY <1>1, <1>4, <1>5, <1>6, <3>1, <3>2 DEF OnTrack, Ahead
  <2>2. CASE ~Undisturbed(s)'
    BY <2>2 DEF OnTrack
  <2>3. QED
    BY <2>1, <2>2
<1>10. QED
  BY <1>1, <1>2, <1>5, <1>6, <1>7, <1>8, <1>9, NotPlaced, SyncFrame
     DEF storeVars, remoteVars

LEMMA SyncKeeps ==
    ASSUME RInv, NEW s \in Syncs, Sync(s)
    PROVE  RInv'
BY NextTargetKeeps, FinishKeeps, OpenKeeps, DialKeeps, TransferKeepsRInv, InsertLogKeeps, ConcludeKeeps
   DEF Sync

----------------------------------------------------------------------------
(* Around the syncs.                                                        *)

LEMMA BeginKeeps ==
    ASSUME RInv, NEW s \in Syncs, NEW c \in Capsules, NEW targets \in SUBSET Targets,
           \A t \in targets : Exists(t), Begin(s, c, targets),
           UNCHANGED <<adminVars, remoteVars, recordVars, clock, faults>>,
           row' \in [Capsules -> BOOLEAN], file' \in [Capsules -> Bytes \cup {"none"}],
           FilesHaveRows', \A r \in Syncs : job[r] # NoJob => file'[job[r].c] = file[job[r].c]
    PROVE  RInv'
<1> DEFINE new == [c |-> c, targets |-> targets, todo |-> targets, t |-> NoTarget,
                   bytes |-> "none", start |-> 0, outcome |-> "failed"]
<1>1. /\ pc[s] = "idle" /\ pc' = [pc EXCEPT ![s] = "next"] /\ job' = [job EXCEPT ![s] = new]
      /\ pc \in [Syncs -> Steps] /\ job \in [Syncs -> Job \cup {NoJob}]
  BY DEF Begin, RInv, TypeOK
<1>2. new \in Job
  BY Types DEF Job, Outcome
<1>3. /\ pc'[s] = "next" /\ job'[s] = new
      /\ \A r \in Syncs \ {s} : pc'[r] = pc[r] /\ job'[r] = job[r]
  BY <1>1
<1>4. TypeOK'
  <2>1. pc' \in [Syncs -> Steps] /\ job' \in [Syncs -> Job \cup {NoJob}]
    BY <1>1, <1>2, Types
  <2>2. StagingOwned'
    BY <1>1, <1>3, OwnedStays DEF remoteVars
  <2>3. QED
    BY <2>1, <2>2 DEF RInv, TypeOK, adminVars, remoteVars, recordVars
<1>5. JobFits(s)' /\ Safe(s)' /\ OnTrack(s)'
  BY <1>2, <1>3 DEF JobFits, Safe, OnTrack, Ahead, Exists, Transfer, adminVars
<1>6. ASSUME NEW r \in Syncs \ {s}
      PROVE  JobFits(r)' /\ Safe(r)' /\ OnTrack(r)'
  <2>1. JobFits(r) /\ Safe(r) /\ OnTrack(r) /\ pc'[r] = pc[r] /\ job'[r] = job[r]
    BY <1>3 DEF RInv
  <2>2. JobFits(r)' /\ Safe(r)'
    BY <2>1 DEF JobFits, Safe, InTime, Live, Mine, Holds, remoteVars
  <2>3. pc[r] # "idle" => job[r] # NoJob
    BY <2>1, NoJobAssumption DEF JobFits
  <2>4. OnTrack(r)'
    BY <2>1, <2>3 DEF OnTrack, Undisturbed, Ahead, Exists, adminVars, recordVars
  <2>5. QED
    BY <2>2, <2>4
<1>7. QED
  BY <1>4, <1>5, <1>6 DEF RInv, SuccessIsACopy, Holds, adminVars, remoteVars, recordVars

LEMMA DepositKeeps ==
    ASSUME RInv, NEW s \in Syncs, NEW c \in Capsules, Deposit(s, c)
    PROVE  RInv'
<1> DEFINE targets == {t \in Targets : Eligible(t)}
<1>1. /\ row' = [row EXCEPT ![c] = TRUE] /\ file' = [file EXCEPT ![c] = "whole"]
      /\ \A r \in Syncs : job[r] # NoJob => job[r].c # c
      /\ Begin(s, c, targets)
      /\ UNCHANGED <<adminVars, remoteVars, recordVars, clock, faults>>
  BY DEF Deposit
<1>2. row \in [Capsules -> BOOLEAN] /\ file \in [Capsules -> Bytes \cup {"none"}] /\ FilesHaveRows
  BY DEF RInv, TypeOK
<1>3. row' \in [Capsules -> BOOLEAN] /\ file' \in [Capsules -> Bytes \cup {"none"}]
  BY <1>1, <1>2 DEF Bytes
<1>4. \A x \in Capsules : x # c => file'[x] = file[x] /\ row'[x] = row[x]
  BY <1>1, <1>2
<1>5. FilesHaveRows'
  BY <1>1, <1>2, <1>4 DEF FilesHaveRows
<1>6. \A r \in Syncs : job[r] # NoJob => file'[job[r].c] = file[job[r].c]
  BY <1>1, <1>2
<1>7. targets \in SUBSET Targets /\ \A t \in targets : Exists(t)
  BY DEF Eligible
<1>8. QED
  BY <1>1, <1>3, <1>5, <1>6, <1>7, BeginKeeps

LEMMA RequestKeeps ==
    ASSUME RInv, NEW s \in Syncs, NEW c \in Capsules, Request(s, c)
    PROVE  RInv'
<1>1. PICK targets \in SUBSET Targets : (\A t \in targets : Exists(t)) /\ Begin(s, c, targets)
  <2>1. CASE Begin(s, c, {t \in Targets : Eligible(t)})
    BY <2>1 DEF Eligible
  <2>2. ASSUME NEW t \in Targets, Exists(t), Begin(s, c, {t})
        PROVE  \E targets \in SUBSET Targets :
                  (\A u \in targets : Exists(u)) /\ Begin(s, c, targets)
    BY <2>2
  <2>3. QED
    BY <2>1, <2>2 DEF Request
<1>2. UNCHANGED <<storeVars, adminVars, remoteVars, recordVars, clock, faults>>
  BY DEF Request
<1>3. /\ row' \in [Capsules -> BOOLEAN] /\ file' \in [Capsules -> Bytes \cup {"none"}]
      /\ FilesHaveRows' /\ \A r \in Syncs : job[r] # NoJob => file'[job[r].c] = file[job[r].c]
  BY <1>2 DEF storeVars, RInv, TypeOK, FilesHaveRows
<1>4. QED
  BY <1>1, <1>2, <1>3, BeginKeeps

(* Steps that leave goroutines and replicas alone.                          *)
LEMMA WorldFrame ==
    ASSUME RInv, TypeOK', UNCHANGED <<pc, job, remoteVars, clock, events, faults>>,
           log' \subseteq log, FilesHaveRows', edits' \in Nat,
           \/ UNCHANGED <<target, edits>> /\ \A c \in Capsules : file'[c] # "none" => file[c] # "none"
           \/ edits' # 0
    PROVE  RInv'
<1>1. ASSUME NEW s \in Syncs
      PROVE  JobFits(s)' /\ Safe(s)' /\ OnTrack(s)'
  <2>1. JobFits(s) /\ Safe(s) /\ OnTrack(s)
    BY DEF RInv
  <2>2. pc[s] # "idle" => job[s].c \in Capsules
    BY <2>1 DEF JobFits, Job
  <2>3. QED
    BY <2>1, <2>2 DEF JobFits, Safe, InTime, Live, Mine, Holds, OnTrack, Undisturbed, Ahead, Exists,
       remoteVars
<1>2. QED
  BY <1>1 DEF RInv, SuccessIsACopy, Holds, remoteVars

LEMMA PurgeKeeps ==
    ASSUME RInv, NEW c \in Capsules, Purge(c)
    PROVE  RInv'
<1>1. /\ UNCHANGED <<adminVars, remoteVars, recordVars, clock, syncVars, faults>>
      /\ \/ file' = [file EXCEPT ![c] = "none"] /\ UNCHANGED row
         \/ file[c] = "none" /\ row' = [row EXCEPT ![c] = FALSE] /\ UNCHANGED file
      /\ row \in [Capsules -> BOOLEAN] /\ file \in [Capsules -> Bytes \cup {"none"}]
      /\ FilesHaveRows /\ edits \in Nat
  BY DEF Purge, RInv, TypeOK
<1>2. /\ row' \in [Capsules -> BOOLEAN] /\ file' \in [Capsules -> Bytes \cup {"none"}]
      /\ FilesHaveRows' /\ \A x \in Capsules : file'[x] # "none" => file[x] # "none"
  BY <1>1 DEF FilesHaveRows
<1>3. TypeOK'
  BY <1>1, <1>2 DEF RInv, TypeOK, StagingOwned, adminVars, remoteVars, recordVars, syncVars
<1>4. QED
  BY <1>1, <1>2, <1>3, WorldFrame DEF adminVars, recordVars, syncVars

LEMMA AdministerKeeps ==
    ASSUME RInv, NEW t \in Targets, (\E rec \in Saves : SaveTarget(t, rec)) \/ DeleteTarget(t)
    PROVE  RInv'
<1>1. /\ UNCHANGED <<storeVars, remoteVars, events, clock, syncVars, faults>>
      /\ edits' = edits + 1 /\ edits \in Nat /\ log' \subseteq log
      /\ \E rec \in Target \cup {NoTarget} : target' = [target EXCEPT ![t] = rec]
  BY ReplicationAssumption DEF SaveTarget, DeleteTarget, recordVars, RInv
<1>2. TypeOK'
  BY <1>1 DEF RInv, TypeOK, StagingOwned, storeVars, remoteVars, syncVars
<1>3. FilesHaveRows' /\ edits' \in Nat /\ edits' # 0
  BY <1>1 DEF RInv, FilesHaveRows, storeVars
<1>4. QED
  BY <1>1, <1>2, <1>3, WorldFrame DEF storeVars, syncVars

(* A connection test takes nothing from a transfer in time, either.         *)
LEMMA TestConnectionKeeps ==
    ASSUME RInv, NEW t \in Targets, TestConnection(t)
    PROVE  RInv'
<1>1. /\ UNCHANGED <<storeVars, adminVars, replica, legacy, recordVars, clock, syncVars, faults>>
      /\ staging' \subseteq staging
      /\ \A f \in staging : f \in staging' \/ f.born + Budget + Grace < clock
  BY DEF TestConnection, Expired
<1>2. TypeOK'
  BY <1>1 DEF RInv, TypeOK, StagingOwned, storeVars, adminVars, recordVars, syncVars
<1>3. ASSUME NEW r \in Syncs
      PROVE  JobFits(r)' /\ Safe(r)' /\ OnTrack(r)'
  <2>1. JobFits(r) /\ Safe(r) /\ OnTrack(r)
    BY DEF RInv
  <2>2. JobFits(r)' /\ OnTrack(r)'
    BY <1>1, <2>1 DEF JobFits, Holds, OnTrack, Undisturbed, Ahead, Exists, storeVars, adminVars,
       recordVars, syncVars
  <2> DEFINE bound == pc[r] = "rename" /\ InTime(r) /\ Skew[job[r].t] + Grace >= 0
  <2>3. CASE bound
    <3>1. PICK f \in Live(r) : TRUE
      BY <2>1, <2>3 DEF Safe
    <3>2. f \in staging /\ f.of = r /\ f.on = job[r].t /\ f.born >= job[r].start + Skew[job[r].t]
      BY <3>1 DEF Live, Mine
    <3>3. /\ f.born \in Int /\ job[r].start \in Nat /\ clock \in Nat
          /\ Budget \in Nat /\ Grace \in Nat /\ Skew[job[r].t] \in Int
      BY <2>1, <2>3, <3>2, Types DEF RInv, TypeOK, JobFits, Job
    <3>4. clock <= job[r].start + Budget /\ Skew[job[r].t] + Grace >= 0
      BY <2>3 DEF InTime
    <3>5. ~(f.born + Budget + Grace < clock)
      BY <3>2, <3>3, <3>4
    <3>6. f \in Live(r)'
      BY <1>1, <3>2, <3>5 DEF Live, Mine, syncVars
    <3>7. QED
      BY <2>2, <3>6 DEF Safe
  <2>4. CASE ~bound
    BY <1>1, <2>1, <2>2, <2>4 DEF Safe, InTime, syncVars
  <2>5. QED
    BY <2>3, <2>4
<1>4. QED
  BY <1>1, <1>2, <1>3 DEF RInv, SuccessIsACopy, FilesHaveRows, Holds, storeVars, adminVars, recordVars

(* A file that is altered under a transfer is altered in its hands, too.    *)
LEMMA DamageKeeps ==
    ASSUME RInv, NEW c \in Capsules, Damage(c)
    PROVE  RInv'
<1> DEFINE hurt(s) == [job[s] EXCEPT !.bytes = "damaged"]
<1>1. /\ file[c] = "whole" /\ file' = [file EXCEPT ![c] = "damaged"]
      /\ job' = [s \in Syncs |-> IF pc[s] \in Transfer /\ job[s].c = c THEN hurt(s) ELSE job[s]]
      /\ UNCHANGED <<row, adminVars, remoteVars, recordVars, clock, pc, jobs, faults>>
      /\ file \in [Capsules -> Bytes \cup {"none"}] /\ job \in [Syncs -> Job \cup {NoJob}]
  BY DEF Damage, RInv, TypeOK
<1>2. file' \in [Capsules -> Bytes \cup {"none"}] /\ FilesHaveRows'
      /\ \A x \in Capsules : file'[x] # "none" => file[x] # "none"
  BY <1>1 DEF Bytes, RInv, FilesHaveRows
<1>3. ASSUME NEW s \in Syncs
      PROVE  \/ job'[s] = job[s]
             \/ /\ pc[s] \in Transfer /\ job[s] \in Job /\ job'[s] \in Job
                /\ job'[s].bytes = "damaged" /\ job'[s].c = job[s].c
                /\ job'[s].t = job[s].t /\ job'[s].start = job[s].start
                /\ job'[s].todo = job[s].todo /\ job'[s].targets = job[s].targets
  <2>1. CASE pc[s] \in Transfer /\ job[s].c = c
    <3>1. job[s] \in Job
      BY <2>1, AtTransfer
    <3>2. hurt(s) \in Job /\ job'[s] = hurt(s)
      BY <1>1, <2>1, <3>1 DEF Job, Bytes
    <3>3. QED
      BY <2>1, <3>1, <3>2 DEF Job
  <2>2. CASE ~(pc[s] \in Transfer /\ job[s].c = c)
    BY <1>1, <2>2
  <2>3. QED
    BY <2>1, <2>2
<1>4. TypeOK'
  <2>1. job' \in [Syncs -> Job \cup {NoJob}]
    <3>1. \A s \in Syncs : job'[s] \in Job \cup {NoJob}
      BY <1>1, <1>3
    <3>2. job' = [s \in Syncs |-> job'[s]]
      BY <1>1
    <3>3. QED
      BY <3>1, <3>2
  <2>2. QED
    <3>1. \A s \in Syncs : pc[s] = "rename" => job'[s].t = job[s].t
      BY <1>3
    <3>2. StagingOwned'
      BY <1>1, <3>1 DEF RInv, TypeOK, StagingOwned, remoteVars
    <3>3. QED
      BY <1>1, <1>2, <2>1, <3>2 DEF RInv, TypeOK, adminVars, remoteVars, recordVars
<1>5. ASSUME NEW s \in Syncs
      PROVE  JobFits(s)' /\ Safe(s)' /\ OnTrack(s)'
  <2>1. JobFits(s) /\ Safe(s) /\ OnTrack(s)
    BY DEF RInv
  <2>2. pc[s] # "idle" => job[s].c \in Capsules
    BY <2>1 DEF JobFits, Job
  <2>3. CASE job'[s] = job[s]
    BY <1>1, <1>2, <2>1, <2>2, <2>3
       DEF JobFits, Safe, InTime, Live, Mine, Holds, OnTrack, Undisturbed, Ahead, Exists, adminVars,
           remoteVars, recordVars
  <2>4. CASE job'[s] # job[s]
    <3>1. JobFits(s)'
      BY <1>1, <1>3, <2>1, <2>4 DEF JobFits, Transfer, Bytes
    <3>2. Safe(s)'
      BY <1>1, <1>3, <2>1, <2>4 DEF Safe, InTime, Live, Mine, remoteVars
    <3>3. OnTrack(s)'
      BY <1>1, <1>2, <1>3, <2>1, <2>2, <2>4
         DEF OnTrack, Undisturbed, Ahead, Exists, adminVars, recordVars
    <3>4. QED
      BY <3>1, <3>2, <3>3
  <2>5. QED
    BY <2>3, <2>4
<1>6. QED
  BY <1>1, <1>2, <1>4, <1>5 DEF RInv, SuccessIsACopy, Holds, adminVars, remoteVars, recordVars

LEMMA TickKeeps ==
    ASSUME RInv, Tick
    PROVE  RInv'
<1>1. /\ clock' = clock + 1 /\ clock < MaxTime /\ clock \in 0..MaxTime /\ MaxTime \in Nat
      /\ UNCHANGED <<storeVars, adminVars, remoteVars, recordVars, syncVars, faults>>
  BY Types DEF Tick, RInv, TypeOK
<1>2. TypeOK'
  BY <1>1 DEF RInv, TypeOK, StagingOwned, storeVars, adminVars, remoteVars, recordVars, syncVars
<1>3. ASSUME NEW s \in Syncs
      PROVE  JobFits(s)' /\ Safe(s)' /\ OnTrack(s)'
  <2>1. JobFits(s) /\ Safe(s) /\ OnTrack(s)
    BY DEF RInv
  <2>2. pc[s] \in {"stage", "rename"} => job[s].start \in Nat /\ job[s].start <= clock
    BY AtTransfer DEF Transfer
  <2>3. JobFits(s)'
    BY <1>1, <2>1, <2>2 DEF JobFits, Holds, remoteVars, syncVars
  <2>4. Safe(s)'
    <3>1. pc[s] = "rename" /\ InTime(s)' => InTime(s)
      BY <1>1, <2>2, Types DEF InTime, syncVars, Transfer
    <3>2. QED
      BY <1>1, <2>1, <3>1 DEF Safe, Live, Mine, remoteVars, syncVars
  <2>5. OnTrack(s)'
    BY <1>1, <2>1 DEF OnTrack, Undisturbed, Ahead, Exists, storeVars, adminVars, recordVars, syncVars
  <2>6. QED
    BY <2>3, <2>4, <2>5
<1>4. QED
  BY <1>1, <1>2, <1>3 DEF RInv, SuccessIsACopy, FilesHaveRows, Holds, storeVars, adminVars,
     remoteVars, recordVars

LEMMA CrashKeeps ==
    ASSUME RInv, Crash
    PROVE  RInv'
<1>1. /\ UNCHANGED <<storeVars, adminVars, replica, legacy, recordVars, clock, jobs>>
      /\ pc' = [s \in Syncs |-> "idle"] /\ job' = [s \in Syncs |-> NoJob] /\ faults' = faults + 1
      /\ staging' = Disowned(Syncs)
  BY DEF Crash
<1>2. TypeOK'
  <2>1. /\ staging' \subseteq [of : Syncs \cup {NoJob}, on : Targets, born : Int]
        /\ \A f \in staging' : f.of \notin Syncs
    BY <1>1, DisownedBySome
  <2>2. StagingOwned'
    BY <2>1 DEF StagingOwned
  <2>3. QED
    BY <1>1, <2>1, <2>2, Types DEF RInv, TypeOK, storeVars, adminVars, recordVars
<1>3. \A s \in Syncs : JobFits(s)' /\ Safe(s)' /\ OnTrack(s)'
  BY <1>1 DEF JobFits, Safe, OnTrack, Undisturbed, Transfer
<1>4. QED
  BY <1>1, <1>2, <1>3 DEF RInv, SuccessIsACopy, FilesHaveRows, Holds, storeVars, adminVars, recordVars

LEMMA NextKeeps == RInv /\ [Next]_vars => RInv'
<1>1. ASSUME RInv, UNCHANGED vars
      PROVE  RInv'
  <2>1. TypeOK'
    BY <1>1 DEF RInv, TypeOK, StagingOwned, vars, storeVars, adminVars, remoteVars, recordVars, syncVars
  <2>2. FilesHaveRows' /\ edits' \in Nat
    BY <1>1 DEF RInv, FilesHaveRows, vars, storeVars, adminVars
  <2>3. QED
    BY <1>1, <2>1, <2>2, WorldFrame DEF vars, storeVars, adminVars, recordVars, syncVars
<1>2. ASSUME RInv, Quiet
      PROVE  RInv'
  BY <1>1, <1>2 DEF Quiet
<1>3. QED
  BY <1>1, <1>2, SyncKeeps, DepositKeeps, RequestKeeps, PurgeKeeps, DamageKeeps, AdministerKeeps,
     TestConnectionKeeps, TickKeeps, CrashKeeps DEF Next, Administer

LEMMA AlwaysRInv == Spec => []RInv
BY InitRInv, NextKeeps, PTL DEF Spec

----------------------------------------------------------------------------

(* Every variable of Replication has its type.                              *)
THEOREM ReplicationTypeCorrect == Spec => []TypeOK
<1>1. RInv => TypeOK
  BY DEF RInv
<1>2. QED
  BY <1>1, AlwaysRInv, PTL

(* Whatever the outcome SyncCapsule logs raced with, a logged success is a  *)
(* copy the target holds, sent by this store or compared with its receipt.  *)
THEOREM SuccessStaysACopy == Spec => []SuccessIsACopy
<1>1. RInv => SuccessIsACopy
  BY DEF RInv
<1>2. QED
  BY <1>1, AlwaysRInv, PTL

(* reapStaging never takes the staging file of a transfer within its budget, *)
(* whatever the budget and the grace are, on every target whose server's     *)
(* clock, which stamps the file, is behind the store's by no more than the   *)
(* grace; nothing is claimed of a server further behind.                     *)
THEOREM StagingStaysSafe == Spec => []StagingIsSafe
<1>1. RInv => StagingIsSafe
  BY DEF RInv, Safe, Live, StagingIsSafe
<1>2. QED
  BY <1>1, AlwaysRInv, PTL

(* No sync replaces what a target of the library holds, and none trades a   *)
(* whole replica for a part of one.                                         *)
THEOREM ReplicasStayKept == Spec => ReplicasAreKept
<1>1. RInv /\ [Next]_vars => [Kept]_vars
  <2> SUFFICES ASSUME RInv, Next PROVE Kept
    OBVIOUS
  <2>1. CASE UNCHANGED replica
    BY <2>1, NotPlaced
  <2>2. ASSUME NEW s \in Syncs, pc[s] \in Transfer, Place(s, job[s].bytes),
               Exclusive(job[s].t) => Here(s) = "none"
        PROVE  Kept
    BY <2>2, Placed
  <2>3. ASSUME NEW s \in Syncs, Sync(s)
        PROVE  \/ UNCHANGED replica
               \/ /\ pc[s] \in Transfer /\ Place(s, job[s].bytes)
                  /\ Exclusive(job[s].t) => Here(s) = "none"
    <3>1. pc[s] = "rename" => ~Exclusive(job[s].t) /\ pc[s] \in Transfer
      BY DEF RInv, JobFits, Exclusive, Transfer
    <3>2. CASE Put(s) \/ TransferFails(s)
      BY <3>1, <3>2 DEF Put, TransferFails, Transfer
    <3>3. CASE Rename(s)
      BY <3>1, <3>3 DEF Rename
    <3>4. CASE NextTarget(s) \/ Finish(s) \/ Open(s)
      BY <3>4 DEF NextTarget, Finish, Open, Local, remoteVars
    <3>5. CASE Look(s) \/ LookLegacy(s) \/ Compare(s) \/ Dial(s) \/ Stage(s)
      BY <3>5 DEF Look, LookLegacy, Compare, Dial, Stage
    <3>6. CASE InsertLog(s) \/ Conclude(s)
      BY <3>6 DEF InsertLog, Conclude, AfterKeeps, remoteVars
    <3>7. QED
      BY <2>3, <3>2, <3>3, <3>4, <3>5, <3>6 DEF Sync
  <2>4. CASE ~(\E s \in Syncs : Sync(s))
    BY <2>1, <2>4 DEF Next, Deposit, Request, Purge, Damage, Administer, SaveTarget, DeleteTarget,
       TestConnection, Tick, Crash, Quiet, remoteVars, vars
  <2>5. QED
    BY <2>1, <2>2, <2>3, <2>4
<1>2. QED
  BY <1>1, AlwaysRInv, PTL DEF Spec, ReplicasAreKept, Kept

(* SyncAllAutoTargets goes on past a target that fails: a round that ends   *)
(* undisturbed has told the chain about each of its targets.                *)
THEOREM RoundsStayComplete == Spec => RoundsAreComplete
<1> DEFINE Complete ==
        \A s \in Syncs :
          pc[s] # "idle" /\ pc'[s] = "idle" /\ file[job[s].c] # "none"
             /\ edits = 0 /\ faults' = 0
             => \A t \in job[s].targets : <<t, job[s].c>> \in events'
<1>1. RInv /\ [Next]_vars => [Complete]_vars
  <2> SUFFICES ASSUME RInv, Next, NEW s \in Syncs, pc[s] # "idle", pc'[s] = "idle",
                      file[job[s].c] # "none", edits = 0, faults' = 0,
                      NEW t \in job[s].targets
               PROVE  <<t, job[s].c>> \in events'
    OBVIOUS
  <2>1. pc \in [Syncs -> Steps] /\ faults \in Nat
    BY DEF RInv, TypeOK
  <2>2. Finish(s)
    <3>1. ~Crash
      BY <2>1 DEF Crash
    <3>2. ASSUME NEW r \in Syncs, Sync(r)
          PROVE  Finish(s)
      <4>1. CASE r # s
        BY <2>1, <3>2, <4>1 DEF Sync, NextTarget, Finish, Open, Look, LookLegacy, Put, Compare, Dial, Stage,
           Rename, TransferFails, Judge, Done, InsertLog, Conclude, Goto
      <4>2. CASE r = s
        <5>1. FirstStep(job[s].t) # "idle"
          BY DEF FirstStep
        <5>2. QED
          BY <2>1, <3>2, <4>2, <5>1 DEF Sync, NextTarget, Open, Look, LookLegacy, Put, Compare, Dial, Stage,
             Rename, TransferFails, Judge, Done, InsertLog, Conclude, Goto
      <4>3. QED
        BY <4>1, <4>2
    <3>3. ASSUME NEW r \in Syncs, NEW c \in Capsules, Deposit(r, c) \/ Request(r, c)
          PROVE  FALSE
      BY <2>1, <3>3 DEF Deposit, Request, Begin
    <3>4. QED
      BY <3>1, <3>2, <3>3 DEF Next, Purge, Damage, Administer, SaveTarget, DeleteTarget,
         TestConnection, Tick, Quiet, syncVars, vars
  <2>3. job[s].todo = {} /\ pc[s] = "next" /\ faults = 0 /\ events' = events
    BY <2>1, <2>2 DEF Finish, Local, recordVars
  <2>4. Ahead(s, t)
    BY <2>3 DEF RInv, OnTrack, Undisturbed
  <2>5. QED
    BY <2>3, <2>4 DEF Ahead
<1>2. QED
  BY <1>1, AlwaysRInv, PTL DEF Spec, RoundsAreComplete

=============================================================================
