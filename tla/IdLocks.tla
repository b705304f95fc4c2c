------------------------------ MODULE IdLocks ------------------------------
(***************************************************************************)
(* internal/server/idlock.go: a map from capsule ID to a reference-counted *)
(* lock object, guarded by one mutex mu.  acquire finds or creates the     *)
(* entry and counts itself in under mu, then waits for the entry OUTSIDE   *)
(* mu; the release unlocks the entry first and only then takes mu again to *)
(* count itself out, deleting the entry at zero.  The hazard is the gap    *)
(* between the two: an entry deleted while a goroutine still waits on it   *)
(* would give the same ID two locks.                                       *)
(***************************************************************************)
EXTENDS Naturals, FiniteSets

CONSTANTS
    Procs,      \* goroutines that acquire
    Ids,        \* capsule IDs
    Locks,      \* idLock objects, allocated on demand and collected when unused
    NoProc, NoId, NoLock

ASSUME IdLocksAssumption ==
    /\ IsFiniteSet(Procs)
    /\ NoProc \notin Procs
    /\ NoId \notin Ids
    /\ NoLock \notin Locks

VARIABLES
    mu,         \* the goroutine holding idLocks.mu, or NoProc
    m,          \* idLocks.m: m[id] is the entry of id, or NoLock
    refs,       \* refs[e]: idLock.refs of entry e
    owner,      \* owner[e]: the goroutine holding entry e's own mutex
    pc,         \* pc[p]: where goroutine p is in acquire or in its release
    want,       \* want[p]: the ID p works on
    ent         \* ent[p]: the local variable e of acquire, captured by its release

vars == <<mu, m, refs, owner, pc, want, ent>>

Steps == {"idle", "enter", "find", "count", "wait", "held", "leave", "drop"}
HoldsMu == {"find", "count", "drop"}        \* the steps between mu.Lock and mu.Unlock
Counted == {"wait", "held", "leave", "drop"} \* the steps included in the entry's refs
Working == Steps \ {"idle"}

(* Entries a new allocation cannot be: in the map, or still in a local variable. *)
InUse == {m[id] : id \in Ids} \cup {ent[p] : p \in Procs}

----------------------------------------------------------------------------

Init ==
    /\ mu = NoProc
    /\ m = [id \in Ids |-> NoLock]
    /\ refs = [e \in Locks |-> 0]
    /\ owner = [e \in Locks |-> NoProc]
    /\ pc = [p \in Procs |-> "idle"]
    /\ want = [p \in Procs |-> NoId]
    /\ ent = [p \in Procs |-> NoLock]

(* A goroutine calls acquire(id). *)
Call(p, id) ==
    /\ pc[p] = "idle"
    /\ pc' = [pc EXCEPT ![p] = "enter"]
    /\ want' = [want EXCEPT ![p] = id]
    /\ UNCHANGED <<mu, m, refs, owner, ent>>

LockMu(p) ==
    /\ pc[p] \in {"enter", "leave"}
    /\ mu = NoProc
    /\ mu' = p
    /\ pc' = [pc EXCEPT ![p] = IF pc[p] = "enter" THEN "find" ELSE "drop"]
    /\ UNCHANGED <<m, refs, owner, want, ent>>

FindEntry(p) ==
    /\ pc[p] = "find"
    /\ m[want[p]] # NoLock
    /\ ent' = [ent EXCEPT ![p] = m[want[p]]]
    /\ pc' = [pc EXCEPT ![p] = "count"]
    /\ UNCHANGED <<mu, m, refs, owner, want>>

CreateEntry(p) ==
    /\ pc[p] = "find"
    /\ m[want[p]] = NoLock
    /\ \E e \in Locks \ InUse :
          /\ m' = [m EXCEPT ![want[p]] = e]
          /\ refs' = [refs EXCEPT ![e] = 0]
          /\ owner' = [owner EXCEPT ![e] = NoProc]
          /\ ent' = [ent EXCEPT ![p] = e]
    /\ pc' = [pc EXCEPT ![p] = "count"]
    /\ UNCHANGED <<mu, want>>

(* Mutant: the count goes the wrong way. *)
CountInBackwards(p) ==
    /\ pc[p] = "count"
    /\ refs' = [refs EXCEPT ![ent[p]] = @ - 1]
    /\ mu' = NoProc
    /\ pc' = [pc EXCEPT ![p] = "wait"]
    /\ UNCHANGED <<m, owner, want, ent>>

CountIn(p) ==
    /\ pc[p] = "count"
    /\ refs' = [refs EXCEPT ![ent[p]] = @ + 1]
    /\ mu' = NoProc
    /\ pc' = [pc EXCEPT ![p] = "wait"]
    /\ UNCHANGED <<m, owner, want, ent>>

LockEntry(p) ==
    /\ pc[p] = "wait"
    /\ owner[ent[p]] = NoProc
    /\ owner' = [owner EXCEPT ![ent[p]] = p]
    /\ pc' = [pc EXCEPT ![p] = "held"]
    /\ UNCHANGED <<mu, m, refs, want, ent>>

UnlockEntry(p) ==
    /\ pc[p] = "held"
    /\ owner' = [owner EXCEPT ![ent[p]] = NoProc]
    /\ pc' = [pc EXCEPT ![p] = "leave"]
    /\ UNCHANGED <<mu, m, refs, want, ent>>

(* Mutant: the entry is deleted without asking whether anyone is counted in. *)
CountOutAlwaysDeletes(p) ==
    /\ pc[p] = "drop"
    /\ refs' = [refs EXCEPT ![ent[p]] = @ - 1]
    /\ m' = [m EXCEPT ![want[p]] = NoLock]
    /\ mu' = NoProc
    /\ pc' = [pc EXCEPT ![p] = "idle"]
    /\ want' = [want EXCEPT ![p] = NoId]
    /\ ent' = [ent EXCEPT ![p] = NoLock]
    /\ UNCHANGED owner

(* Mutant: the test is off by one, so the last user leaves its entry behind. *)
CountOutNeverDeletes(p) ==
    /\ pc[p] = "drop"
    /\ refs' = [refs EXCEPT ![ent[p]] = @ - 1]
    /\ mu' = NoProc
    /\ pc' = [pc EXCEPT ![p] = "idle"]
    /\ want' = [want EXCEPT ![p] = NoId]
    /\ ent' = [ent EXCEPT ![p] = NoLock]
    /\ UNCHANGED <<m, owner>>

(* Mutant: returns early, still holding mu, when others are counted in. *)
CountOutKeepsMu(p) ==
    /\ pc[p] = "drop"
    /\ refs' = [refs EXCEPT ![ent[p]] = @ - 1]
    /\ m' = IF refs[ent[p]] = 1 THEN [m EXCEPT ![want[p]] = NoLock] ELSE m
    /\ mu' = IF refs[ent[p]] = 1 THEN NoProc ELSE mu
    /\ pc' = [pc EXCEPT ![p] = "idle"]
    /\ want' = [want EXCEPT ![p] = NoId]
    /\ ent' = [ent EXCEPT ![p] = NoLock]
    /\ UNCHANGED owner

CountOut(p) ==
    /\ pc[p] = "drop"
    /\ refs' = [refs EXCEPT ![ent[p]] = @ - 1]
    /\ m' = IF refs[ent[p]] = 1 THEN [m EXCEPT ![want[p]] = NoLock] ELSE m
    /\ mu' = NoProc
    /\ pc' = [pc EXCEPT ![p] = "idle"]
    /\ want' = [want EXCEPT ![p] = NoId]
    /\ ent' = [ent EXCEPT ![p] = NoLock]
    /\ UNCHANGED owner

Next == \E p \in Procs :
            \/ \E id \in Ids : Call(p, id)
            \/ LockMu(p)
            \/ FindEntry(p)
            \/ CreateEntry(p)
            \/ CountIn(p)
            \/ LockEntry(p)
            \/ UnlockEntry(p)
            \/ CountOut(p)

(* sync.Mutex switches to a starvation mode that hands it to the longest   *)
(* waiter, so both kinds of Lock are strongly fair; the straight-line code *)
(* between them is weakly fair.                                            *)
Fairness == \A p \in Procs :
    /\ SF_vars(LockMu(p))
    /\ SF_vars(LockEntry(p))
    /\ WF_vars(FindEntry(p) \/ CreateEntry(p))
    /\ WF_vars(CountIn(p))
    /\ WF_vars(UnlockEntry(p))
    /\ WF_vars(CountOut(p))

Spec == Init /\ [][Next]_vars
FairSpec == Spec /\ Fairness

----------------------------------------------------------------------------

TypeOK ==
    /\ mu \in Procs \cup {NoProc}
    /\ m \in [Ids -> Locks \cup {NoLock}]
    /\ refs \in [Locks -> Nat]
    /\ owner \in [Locks -> Procs \cup {NoProc}]
    /\ pc \in [Procs -> Steps]
    /\ want \in [Procs -> Ids \cup {NoId}]
    /\ ent \in [Procs -> Locks \cup {NoLock}]

(* Two goroutines between acquire(id) returning and its release never work *)
(* on the same ID: what deposit, verify and purge take for granted.        *)
MutualExclusion ==
    \A p, q \in Procs :
        pc[p] = "held" /\ pc[q] = "held" /\ want[p] = want[q] => p = q

(* "so the map holds only IDs with work in progress": an entry is in the   *)
(* map only while some goroutine is between calling acquire for its ID and *)
(* the end of the release, so the map cannot grow with the catalog.        *)
MapHoldsOnlyWork ==
    \A id \in Ids : m[id] # NoLock =>
        \E p \in Procs : pc[p] \in Working /\ want[p] = id

(* What makes the two above true, part by part: who is at work wants an   *)
(* ID; the mutexes are held by whom the program counters say; everyone     *)
(* counted in on an ID has that ID's entry; an entry belongs to one ID and *)
(* is in the map only for someone; refs counts exactly its users.          *)
Users(e) == {p \in Procs : pc[p] \in Counted /\ ent[p] = e}

WantsId == \A p \in Procs : pc[p] \in Working <=> want[p] # NoId
MuHeld == \A p \in Procs : pc[p] \in HoldsMu <=> mu = p
HasEntry == \A p \in Procs : pc[p] \in Counted \cup {"count"} <=> ent[p] # NoLock
EntryInMap == \A p \in Procs : pc[p] \in Counted \cup {"count"} => m[want[p]] = ent[p]
EntryHeld == \A e \in Locks, p \in Procs : owner[e] = p => pc[p] = "held" /\ ent[p] = e
HeldOwns == \A p \in Procs : pc[p] = "held" => owner[ent[p]] = p
OneIdPerEntry == \A i, j \in Ids : m[i] = m[j] /\ m[i] # NoLock => i = j
RefsCount == \A id \in Ids, e \in Locks : m[id] = e => refs[e] = Cardinality(Users(e))
SomeoneUses == \A id \in Ids : m[id] # NoLock =>
                   \E p \in Procs : pc[p] \in Counted \cup {"count"} /\ ent[p] = m[id]

Registered ==
    /\ WantsId /\ MuHeld /\ HasEntry /\ EntryInMap /\ EntryHeld
    /\ HeldOwns /\ OneIdPerEntry /\ RefsCount /\ SomeoneUses

(* The map keeps the promise of one everlasting lock per ID: every step is *)
(* a step of IdMutex or invisible to it, and its fairness is kept too, so  *)
(* a goroutine that asks for an ID eventually holds it.                    *)
Phase(p) == CASE pc[p] \in {"idle", "leave", "drop"} -> "idle"
              [] pc[p] = "held" -> "holding"
              [] OTHER -> "waiting"

Abstract == INSTANCE IdMutex WITH
    phase <- [p \in Procs |-> Phase(p)],
    want <- [p \in Procs |-> IF Phase(p) = "idle" THEN NoId ELSE want[p]]

ImplementsIdMutex == Abstract!Spec

(* Whoever calls acquire gets the lock, as long as every holder releases   *)
(* it: no wake-up is lost between the entry and the mutex of the map.      *)
EveryCallerGetsIn ==
    \A p \in Procs : pc[p] = "enter" ~> pc[p] = "held"

=============================================================================
