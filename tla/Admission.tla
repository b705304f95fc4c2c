------------------------------ MODULE Admission ------------------------------
(* What stands in front of the handlers: guesses (pairing claims and local   *)
(* sign-ins) are limited by address and by code or account, deposits by      *)
(* registration and by the slots that bound how many run at once             *)
(* (handlePairingClaim, handleAuthLoginLocal, handleDeposit).                *)
(*                                                                           *)
(* A bucket is asked and charged in two critical sections, with the handler's*)
(* work between them for a guess, so requests that race are all let in.      *)
(* Goroutines serve one request after another; times are whole units.        *)
EXTENDS RateLimiter, FiniteSets

CONSTANTS
    Guessers,       \* goroutines serving claims and sign-ins
    Depositors,     \* goroutines serving deposits
    Sources,        \* "ip:" and "login-ip:" keys
    Secrets,        \* "code:" and "login-user:" keys
    Products,       \* "push:" keys
    PerSource, PerSecret, PerProduct,       \* the limits
    Slots,          \* maxConcurrentPushes
    MaxTime         \* bound: the clock stops here

ASSUME AdmissionAssumption ==
    /\ IsFiniteSet(Guessers) /\ IsFiniteSet(Depositors) /\ Guessers \cap Depositors = {}
    /\ {PerSource, PerSecret, PerProduct, Slots} \subseteq Nat \ {0}
    /\ Sources \cap Secrets = {} /\ Products \cap (Sources \cup Secrets) = {}
    /\ MaxTime \in Nat

Requests == Guessers \cup Depositors
Buckets == Sources \cup Secrets \cup Products

VARIABLES
    clock,
    bucket,     \* claimLimit, loginLimit and pushLimit together
    slots,      \* the length of the channel pushSlots
    pc,
    keys,       \* the buckets a request answers to: one each, or none
    at          \* the time the handler took for now

vars == <<clock, bucket, slots, pc, keys, at>>

Steps == {"idle", "secret", "work", "fail", "charge", "slot", "store", "refused"}

Init ==
    /\ clock = 0
    /\ bucket = [k \in Buckets |-> NoBucket]
    /\ slots = 0
    /\ pc = [r \in Requests |-> "idle"]
    /\ keys = [r \in Requests |-> {}]
    /\ at = [r \in Requests |-> 0]

Goto(r, step) == pc' = [pc EXCEPT ![r] = step]
Leave(r) == Goto(r, "idle") /\ keys' = [keys EXCEPT ![r] = {}] /\ at' = [at EXCEPT ![r] = 0]
Enter(r, ks, step) ==
    /\ Goto(r, step)
    /\ keys' = [keys EXCEPT ![r] = ks] /\ at' = [at EXCEPT ![r] = clock]
Charge(ks, now) ==
    bucket' = [k \in Buckets |-> IF k \in ks THEN Charged(bucket[k], now) ELSE bucket[k]]

----------------------------------------------------------------------------
(* Guesses.                                                                 *)

(* 429: nothing is charged. *)
Answer429(r) == pc[r] = "refused" /\ Leave(r) /\ UNCHANGED <<clock, bucket, slots>>

(* A claim whose body is malformed names no code, and is charged to its      *)
(* address; a sign-in like it is dropped before its address is looked at.    *)
Arrive(g, src, sec) ==
    /\ pc[g] = "idle"
    /\ IF Exceeded(bucket[src], PerSource, clock)
       THEN Enter(g, {}, "refused")
       ELSE Enter(g, {src, sec}, "secret") \/ Enter(g, {src}, "fail")
    /\ UNCHANGED <<clock, bucket, slots>>

CheckSecret(g) ==
    /\ pc[g] = "secret"
    /\ IF \E k \in keys[g] \cap Secrets : Exceeded(bucket[k], PerSecret, at[g])
       THEN Goto(g, "refused")
       ELSE Goto(g, "work")
    /\ UNCHANGED <<clock, bucket, slots, keys, at>>

(* The claim or the password check: a success, and a store with no key to    *)
(* hand out, is charged to no one.                                           *)
Work(g) ==
    /\ pc[g] = "work"
    /\ \/ Leave(g)
       \/ Goto(g, "fail") /\ UNCHANGED <<keys, at>>
    /\ UNCHANGED <<clock, bucket, slots>>

(* A call of record for each key, the address first.                         *)
ChargeFailure(g) ==
    /\ pc[g] = "fail"
    /\ LET address == keys[g] \cap Sources
           due == IF address = {} THEN keys[g] ELSE address
       IN /\ Charge(due, at[g])
          /\ IF due = keys[g] THEN Leave(g)
             ELSE keys' = [keys EXCEPT ![g] = @ \ due] /\ UNCHANGED <<pc, at>>
    /\ UNCHANGED <<clock, slots>>

Guess(g) ==
    \/ \E src \in Sources, sec \in Secrets : Arrive(g, src, sec)
    \/ CheckSecret(g) \/ Work(g) \/ ChargeFailure(g) \/ Answer429(g)

----------------------------------------------------------------------------
(* Deposits: every attempt is charged.                                      *)

CheckPush(d, app) ==
    /\ pc[d] = "idle"
    /\ IF Exceeded(bucket[app], PerProduct, clock)
       THEN Enter(d, {}, "refused")
       ELSE Enter(d, {app}, "charge")
    /\ UNCHANGED <<clock, bucket, slots>>

ChargePush(d) ==
    /\ pc[d] = "charge"
    /\ Charge(keys[d], at[d])
    /\ Goto(d, "slot")
    /\ UNCHANGED <<clock, slots, keys, at>>

(* Mutant: a send that would block is given up and the deposit goes on. *)
TakeSlotAnyway(d) ==
    /\ pc[d] = "slot"
    /\ slots' = IF slots < Slots THEN slots + 1 ELSE slots
    /\ Goto(d, "store")
    /\ UNCHANGED <<clock, bucket, keys, at>>

TakeSlot(d) ==
    /\ pc[d] = "slot" /\ slots < Slots
    /\ slots' = slots + 1
    /\ Goto(d, "store")
    /\ UNCHANGED <<clock, bucket, keys, at>>

(* Mutant: the receive is deferred before the slot is taken. *)
GiveUpReleasing(d) ==
    /\ pc[d] = "slot"
    /\ slots' = IF slots > 0 THEN slots - 1 ELSE slots
    /\ Leave(d)
    /\ UNCHANGED <<clock, bucket>>

(* The client goes away while the deposit waits: 503. *)
GiveUp(d) ==
    /\ pc[d] = "slot"
    /\ Leave(d)
    /\ UNCHANGED <<clock, bucket, slots>>

(* Mutant: an early return leaves the slot taken. *)
ReturnHoldingSlot(d) ==
    /\ pc[d] = "store"
    /\ slots' \in {slots, slots - 1}
    /\ Leave(d)
    /\ UNCHANGED <<clock, bucket>>

(* Whatever the outcome, the deferred receive gives the slot back. *)
Return(d) ==
    /\ pc[d] = "store"
    /\ slots' = slots - 1
    /\ Leave(d)
    /\ UNCHANGED <<clock, bucket>>

Deposit(d) ==
    \/ \E app \in Products : CheckPush(d, app)
    \/ ChargePush(d) \/ TakeSlot(d) \/ GiveUp(d) \/ Return(d) \/ Answer429(d)

----------------------------------------------------------------------------

Tick ==
    /\ clock < MaxTime /\ clock' = clock + 1
    /\ UNCHANGED <<bucket, slots, pc, keys, at>>

Next ==
    \/ \E g \in Guessers : Guess(g)
    \/ \E d \in Depositors : Deposit(d)
    \/ Tick

Spec == Init /\ [][Next]_vars

----------------------------------------------------------------------------

TypeOK ==
    /\ clock \in 0..MaxTime
    /\ bucket \in [Buckets -> Bucket]
    /\ slots \in 0..Slots
    /\ pc \in [Requests -> Steps]
    /\ keys \in [Requests -> SUBSET Buckets]
    /\ at \in [Requests -> 0..MaxTime]

SlotsAreDeposits == slots = Cardinality({d \in Depositors : pc[d] = "store"})

Overrun(ks, limit, rs) == \A k \in ks : bucket[k].n <= limit + Cardinality(rs) - 1
AttemptsBounded ==
    /\ Overrun(Sources, PerSource, Guessers)
    /\ Overrun(Secrets, PerSecret, Guessers)
    /\ Overrun(Products, PerProduct, Depositors)

(* However requests interleave, what is let in is bounded.  A slot is taken   *)
(* exactly while a deposit runs, so that no more containers are in memory     *)
(* than there are slots and an early return leaks none; and requests that     *)
(* race past a check overrun a limit by no more than all of them but one:     *)
(* with n under way a window holds at most limit + n - 1.                     *)
AdmissionIsBounded == SlotsAreDeposits /\ AttemptsBounded

(* A window ends when its first charge said it would: what is charged to it  *)
(* meanwhile, the charges of requests it let in before included, does not    *)
(* prolong it, and a flood of attempts shuts nobody out for longer.          *)
WindowsAreFixed ==
    [][\A k \in Buckets : ~Stale(bucket[k], clock)
          => bucket'[k].resetAt = bucket[k].resetAt]_vars

=============================================================================
