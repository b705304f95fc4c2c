------------------------------ MODULE IdMutex ------------------------------
(***************************************************************************)
(* What internal/server/idlock.go promises its callers: one mutual         *)
(* exclusion lock per capsule ID, as if every ID had a lock of its own     *)
(* that exists forever.  IdLocks shows the reference-counted map keeps     *)
(* this promise; CapsuleStore is built on the promise.                     *)
(***************************************************************************)
CONSTANTS
    Procs,      \* goroutines: request handlers, the sweep, a purge
    Ids,        \* capsule IDs
    NoId

VARIABLES
    phase,      \* phase[p]: where goroutine p is with respect to its lock
    want        \* want[p]: the ID p asks for or holds, NoId when idle

vars == <<phase, want>>

Init ==
    /\ phase = [p \in Procs |-> "idle"]
    /\ want = [p \in Procs |-> NoId]

Request(p, id) ==
    /\ phase[p] = "idle"
    /\ phase' = [phase EXCEPT ![p] = "waiting"]
    /\ want' = [want EXCEPT ![p] = id]

Enter(p) ==
    /\ phase[p] = "waiting"
    /\ \A q \in Procs : ~(phase[q] = "holding" /\ want[q] = want[p])
    /\ phase' = [phase EXCEPT ![p] = "holding"]
    /\ UNCHANGED want

Leave(p) ==
    /\ phase[p] = "holding"
    /\ phase' = [phase EXCEPT ![p] = "idle"]
    /\ want' = [want EXCEPT ![p] = NoId]

Next == \E p \in Procs :
            \/ \E id \in Ids : Request(p, id)
            \/ Enter(p)
            \/ Leave(p)

(* Leave is fair because every holder defers its release; Enter is strongly *)
(* fair because sync.Mutex hands the lock to a starving waiter.            *)
Fairness == \A p \in Procs : SF_vars(Enter(p)) /\ WF_vars(Leave(p))

SafeSpec == Init /\ [][Next]_vars
Spec == SafeSpec /\ Fairness

=============================================================================
