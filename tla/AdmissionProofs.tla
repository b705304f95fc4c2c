---------------------------- MODULE AdmissionProofs ----------------------------
(***************************************************************************)
(* What is let in is bounded, for any number of requests, keys, limits and *)
(* slots.  A limit is asked and charged in two critical sections, so its   *)
(* count alone is not inductive: the invariant adds to what a window holds *)
(* the requests that have passed the check and have yet to charge it.  One *)
(* that passed because the window was over begins a new one and does not   *)
(* count against the old.                                                  *)
(***************************************************************************)
EXTENDS Admission, FiniteSetTheorems, TLAPS

LimitOf(k) == IF k \in Sources THEN PerSource ELSE IF k \in Secrets THEN PerSecret ELSE PerProduct
PartyOf(k) == IF k \in Products THEN Depositors ELSE Guessers

\* Past the check of k, which for a secret comes after the arrival, and not charged.
Owes(r, k) ==
    /\ k \in keys[r]
    /\ pc[r] \in {"work", "fail", "charge"} \/ (pc[r] = "secret" /\ k \notin Secrets)
Debtors(k) == {r \in PartyOf(k) : Owes(r, k) /\ at[r] <= bucket[k].resetAt}
Bound(k) ==
    bucket[k].n = 0 \/ bucket[k].n + Cardinality(Debtors(k)) <= LimitOf(k) + Cardinality(PartyOf(k)) - 1

KeysFit ==
    /\ \A g \in Guessers : /\ keys[g] \subseteq Sources \cup Secrets
                          /\ pc[g] \in {"idle", "secret", "work", "fail", "refused"}
    /\ \A d \in Depositors : /\ keys[d] \subseteq Products
                            /\ pc[d] \in {"idle", "charge", "slot", "store", "refused"}
AtPast == \A r \in Requests : at[r] <= clock

Storing == {d \in Depositors : pc[d] = "store"}
MInv == TypeOK /\ KeysFit /\ AtPast /\ SlotsAreDeposits /\ \A k \in Buckets : Bound(k)

LEMMA Parties ==
    ASSUME NEW k \in Buckets
    PROVE  /\ LimitOf(k) \in Nat \ {0}
           /\ IsFiniteSet(PartyOf(k)) /\ Cardinality(PartyOf(k)) \in Nat
           /\ PartyOf(k) \subseteq Requests
           /\ \A S \in SUBSET PartyOf(k) :
                  /\ IsFiniteSet(S) /\ Cardinality(S) \in Nat
                  /\ Cardinality(S) <= Cardinality(PartyOf(k))
<1>1. IsFiniteSet(PartyOf(k)) /\ PartyOf(k) \subseteq Requests
  BY AdmissionAssumption DEF PartyOf, Requests
<1>2. LimitOf(k) \in Nat \ {0}
  BY AdmissionAssumption DEF LimitOf
<1>3. QED
  BY <1>1, <1>2, FS_Subset, FS_CardinalityType

(* A request more, or fewer, among those under way.                        *)
LEMMA OneFewer ==
    ASSUME NEW S, IsFiniteSet(S), NEW r \in S, NEW T \in SUBSET (S \ {r})
    PROVE  /\ Cardinality(S) \in Nat /\ Cardinality(T) \in Nat
           /\ Cardinality(T) + 1 <= Cardinality(S)
<1>1. IsFiniteSet(S \ {r}) /\ Cardinality(S \ {r}) = Cardinality(S) - 1
  BY FS_RemoveElement
<1>2. Cardinality(T) <= Cardinality(S \ {r}) /\ IsFiniteSet(T)
  BY <1>1, FS_Subset
<1>3. QED
  BY <1>1, <1>2, FS_CardinalityType

(* The bucket of k stays as it is: no request joins those that owe it, or   *)
(* the limit is not reached.                                               *)
LEMMA BoundKept ==
    ASSUME TypeOK, NEW k \in Buckets, Bound(k), bucket'[k] = bucket[k],
           Debtors(k)' \subseteq Debtors(k) \/ bucket[k].n < LimitOf(k)
    PROVE  Bound(k)'
<1>1. Debtors(k)' \subseteq PartyOf(k) /\ Debtors(k) \subseteq PartyOf(k)
  BY DEF Debtors
<1>2. bucket[k].n \in Nat /\ LimitOf(k) \in Nat \ {0} /\ Cardinality(PartyOf(k)) \in Nat
      /\ Cardinality(Debtors(k)) \in Nat /\ IsFiniteSet(Debtors(k))
      /\ Cardinality(Debtors(k)') \in Nat /\ Cardinality(Debtors(k)') <= Cardinality(PartyOf(k))
  BY <1>1, Parties DEF TypeOK, Bucket
<1>3. CASE Debtors(k)' \subseteq Debtors(k)
  <2>1. Cardinality(Debtors(k)') <= Cardinality(Debtors(k))
    BY <1>2, <1>3, FS_Subset
  <2>2. QED
    BY <1>2, <2>1 DEF Bound
<1>4. CASE bucket[k].n < LimitOf(k)
  BY <1>2, <1>4 DEF Bound
<1>5. QED
  BY <1>3, <1>4

(* A charge is owed by who makes it, or begins a window.                   *)
LEMMA BoundCharged ==
    ASSUME TypeOK, NEW k \in Buckets, Bound(k), NEW r \in PartyOf(k), Owes(r, k),
           bucket'[k] = Charged(bucket[k], at[r]), r \notin Debtors(k)',
           \A q \in PartyOf(k) : Owes(q, k)' => Owes(q, k) /\ at'[q] = at[q]
    PROVE  Bound(k)'
<1>1. /\ bucket[k].n \in Nat /\ bucket[k].resetAt \in Nat /\ at[r] \in Nat
      /\ LimitOf(k) \in Nat \ {0} /\ Cardinality(PartyOf(k)) \in Nat /\ IsFiniteSet(PartyOf(k))
      /\ r \in Requests /\ Debtors(k) \in SUBSET PartyOf(k)
      /\ Cardinality(Debtors(k)) \in Nat /\ IsFiniteSet(Debtors(k))
  BY Parties DEF TypeOK, Bucket, Debtors
<1>2. CASE Stale(bucket[k], at[r])
  <2>1. bucket'[k].n = 1
    BY <1>2 DEF Charged
  <2>2. Debtors(k)' \in SUBSET (PartyOf(k) \ {r})
    BY DEF Debtors
  <2>3. Cardinality(Debtors(k)') \in Nat /\ Cardinality(Debtors(k)') + 1 <= Cardinality(PartyOf(k))
    BY <1>1, <2>2, OneFewer
  <2>4. QED
    BY <1>1, <2>1, <2>3 DEF Bound
<1>3. CASE ~Stale(bucket[k], at[r])
  <2>1. bucket[k].n # 0 /\ at[r] <= bucket[k].resetAt /\ r \in Debtors(k)
    BY <1>1, <1>3 DEF Stale, Debtors
  <2>2. bucket'[k].n = bucket[k].n + 1 /\ bucket'[k].resetAt = bucket[k].resetAt
    BY <1>1, <1>3 DEF Charged, TypeOK, Bucket
  <2>3. Debtors(k)' \in SUBSET (Debtors(k) \ {r})
    BY <2>2 DEF Debtors
  <2>4. Cardinality(Debtors(k)') \in Nat /\ Cardinality(Debtors(k)') + 1 <= Cardinality(Debtors(k))
    BY <1>1, <2>1, <2>3, OneFewer
  <2>5. QED
    BY <1>1, <2>1, <2>2, <2>4 DEF Bound
<1>4. QED
  BY <1>2, <1>3

----------------------------------------------------------------------------

Others(r) == \A q \in Requests \ {r} : pc'[q] = pc[q] /\ keys'[q] = keys[q] /\ at'[q] = at[q]

LEMMA InitMInv == Init => MInv
<1> SUFFICES ASSUME Init PROVE MInv
  OBVIOUS
<1> USE AdmissionAssumption DEF Init
<1>1. TypeOK /\ KeysFit /\ AtPast
  BY DEF TypeOK, Bucket, NoBucket, Steps, KeysFit, AtPast, Requests
<1>2. Storing = {}
  BY DEF Storing, Requests
<1>3. SlotsAreDeposits
  BY <1>2, FS_EmptySet DEF SlotsAreDeposits, Storing
<1>4. \A k \in Buckets : Bound(k)
  BY DEF Bound, NoBucket
<1>5. QED
  BY <1>1, <1>3, <1>4 DEF MInv

(* A request goes on, with the keys and the time it now has.               *)
LEMMA EnterMoves ==
    ASSUME TypeOK, NEW r \in Requests, NEW ks \in SUBSET Buckets, NEW step \in Steps, Enter(r, ks, step)
    PROVE  /\ Others(r) /\ pc'[r] = step /\ keys'[r] = ks /\ at'[r] = clock
           /\ pc' \in [Requests -> Steps] /\ keys' \in [Requests -> SUBSET Buckets]
           /\ at' \in [Requests -> 0..MaxTime]
BY DEF TypeOK, Enter, Goto, Others

LEMMA LeaveMoves ==
    ASSUME TypeOK, NEW r \in Requests, Leave(r)
    PROVE  /\ Others(r) /\ pc'[r] = "idle" /\ keys'[r] = {} /\ at'[r] = 0
           /\ pc' \in [Requests -> Steps] /\ keys' \in [Requests -> SUBSET Buckets]
           /\ at' \in [Requests -> 0..MaxTime]
BY AdmissionAssumption DEF TypeOK, Leave, Goto, Others, Steps

LEMMA GotoMoves ==
    ASSUME TypeOK, NEW r \in Requests, NEW step \in Steps, Goto(r, step), UNCHANGED <<keys, at>>
    PROVE  /\ Others(r) /\ pc'[r] = step /\ keys' = keys /\ at' = at
           /\ pc' \in [Requests -> Steps] /\ keys' \in [Requests -> SUBSET Buckets]
           /\ at' \in [Requests -> 0..MaxTime]
BY DEF TypeOK, Goto, Others

(* No bucket is charged: a request owes what it owed, or what it has just  *)
(* found under its limit or in a window that is over.                      *)
LEMMA UnchargedBound ==
    ASSUME MInv, NEW r \in Requests, Others(r), UNCHANGED bucket, at' \in [Requests -> 0..MaxTime],
           \A k \in Buckets : Owes(r, k)' =>
               \/ Owes(r, k) /\ at'[r] = at[r]
               \/ Stale(bucket[k], at'[r])
               \/ bucket[k].n < LimitOf(k)
    PROVE  \A k \in Buckets : Bound(k)'
<1> SUFFICES ASSUME NEW k \in Buckets PROVE Bound(k)'
  OBVIOUS
<1>1. Bound(k) /\ TypeOK /\ bucket[k].resetAt \in Nat /\ PartyOf(k) \subseteq Requests
  BY Parties DEF MInv, TypeOK, Bucket
<1>2. ASSUME NEW q \in PartyOf(k), q # r, Owes(q, k)'
      PROVE  Owes(q, k) /\ at'[q] = at[q]
  BY <1>1, <1>2 DEF Others, Owes
<1>3. CASE bucket[k].n = 0
  BY <1>3 DEF Bound
<1>4. CASE bucket[k].n # 0 /\ bucket[k].n < LimitOf(k)
  BY <1>1, <1>4, BoundKept
<1>5. CASE bucket[k].n # 0 /\ ~(bucket[k].n < LimitOf(k))
  <2>1. Owes(r, k)' /\ at'[r] <= bucket[k].resetAt => Owes(r, k) /\ at'[r] = at[r]
    BY <1>1, <1>5, AdmissionAssumption DEF Stale
  <2>2. Debtors(k)' \subseteq Debtors(k)
    BY <1>2, <2>1 DEF Debtors
  <2>3. QED
    BY <1>1, <2>2, BoundKept
<1>6. QED
  BY <1>3, <1>4, <1>5

(* No deposit takes or gives back a slot.                                  *)
LEMMA SlotsKept ==
    ASSUME SlotsAreDeposits, NEW r \in Requests, Others(r), UNCHANGED slots,
           pc[r] # "store", pc'[r] # "store"
    PROVE  SlotsAreDeposits'
<1>1. Storing' = Storing
  BY DEF Storing, Others, Requests
<1>2. QED
  BY <1>1 DEF SlotsAreDeposits, Storing

(* A step of one request that charges nothing and touches no slot.         *)
LEMMA QuietStep ==
    ASSUME MInv, NEW r \in Requests, UNCHANGED <<clock, bucket, slots>>, Others(r),
           pc' \in [Requests -> Steps], keys' \in [Requests -> SUBSET Buckets],
           at' \in [Requests -> 0..MaxTime], at'[r] <= clock,
           pc[r] # "store", pc'[r] # "store",
           r \in Guessers => /\ keys'[r] \subseteq Sources \cup Secrets
                             /\ pc'[r] \in {"idle", "secret", "work", "fail", "refused"},
           r \in Depositors => /\ keys'[r] \subseteq Products
                               /\ pc'[r] \in {"idle", "charge", "slot", "store", "refused"},
           \A k \in Buckets : Owes(r, k)' =>
               \/ Owes(r, k) /\ at'[r] = at[r]
               \/ Stale(bucket[k], at'[r])
               \/ bucket[k].n < LimitOf(k)
    PROVE  MInv'
<1>1. TypeOK'
  BY DEF MInv, TypeOK
<1>2. KeysFit' /\ AtPast'
  BY DEF MInv, KeysFit, AtPast, Others, Requests
<1>3. SlotsAreDeposits'
  BY SlotsKept DEF MInv
<1>4. \A k \in Buckets : Bound(k)'
  BY UnchargedBound
<1>5. QED
  BY <1>1, <1>2, <1>3, <1>4 DEF MInv

LEMMA ArriveKeeps ==
    ASSUME MInv, NEW g \in Guessers, NEW src \in Sources, NEW sec \in Secrets, Arrive(g, src, sec)
    PROVE  MInv'
<1>1. pc[g] = "idle" /\ UNCHANGED <<clock, bucket, slots>> /\ g \in Requests /\ g \notin Depositors
  BY AdmissionAssumption DEF Arrive, Requests
<1>2. TypeOK /\ clock \in 0..MaxTime /\ {src, sec} \in SUBSET Buckets /\ {src} \in SUBSET Buckets
      /\ bucket[src].n \in Nat /\ LimitOf(src) = PerSource /\ PerSource \in Nat
  BY AdmissionAssumption DEF MInv, TypeOK, Buckets, Bucket, LimitOf
<1>3. CASE Enter(g, {}, "refused")
  <2>1. /\ Others(g) /\ pc'[g] = "refused" /\ keys'[g] = {} /\ at'[g] = clock
        /\ pc' \in [Requests -> Steps] /\ keys' \in [Requests -> SUBSET Buckets]
        /\ at' \in [Requests -> 0..MaxTime]
    BY <1>1, <1>2, <1>3, EnterMoves DEF Steps
  <2>2. QED
    BY <1>1, <1>2, <2>1, QuietStep DEF Owes
<1>4. CASE /\ ~Exceeded(bucket[src], PerSource, clock)
           /\ Enter(g, {src, sec}, "secret") \/ Enter(g, {src}, "fail")
  <2>1. /\ Others(g) /\ pc'[g] \in {"secret", "fail"} /\ keys'[g] \subseteq {src, sec} /\ at'[g] = clock
        /\ pc'[g] = "fail" => keys'[g] = {src}
        /\ pc' \in [Requests -> Steps] /\ keys' \in [Requests -> SUBSET Buckets]
        /\ at' \in [Requests -> 0..MaxTime]
    BY <1>1, <1>2, <1>4, EnterMoves DEF Steps
  <2>2. Stale(bucket[src], at'[g]) \/ bucket[src].n < LimitOf(src)
    BY <1>2, <1>4, <2>1 DEF Exceeded
  <2>3. \A k \in Buckets : Owes(g, k)' => k = src
    BY <2>1 DEF Owes
  <2>4. QED
    BY <1>1, <1>2, <2>1, <2>2, <2>3, QuietStep
<1>5. QED
  BY <1>3, <1>4 DEF Arrive

LEMMA CheckSecretKeeps ==
    ASSUME MInv, NEW g \in Guessers, CheckSecret(g)
    PROVE  MInv'
<1>1. /\ pc[g] = "secret" /\ UNCHANGED <<clock, bucket, slots, keys, at>>
      /\ g \in Requests /\ g \notin Depositors
  BY AdmissionAssumption DEF CheckSecret, Requests
<1>2. TypeOK /\ keys[g] \subseteq Sources \cup Secrets /\ at[g] <= clock
  BY <1>1 DEF MInv, KeysFit, AtPast
<1>3. CASE Goto(g, "refused")
  <2>1. /\ Others(g) /\ pc'[g] = "refused" /\ keys' = keys /\ at' = at
        /\ pc' \in [Requests -> Steps] /\ keys' \in [Requests -> SUBSET Buckets]
        /\ at' \in [Requests -> 0..MaxTime]
    BY <1>1, <1>2, <1>3, GotoMoves DEF Steps
  <2>2. QED
    BY <1>1, <1>2, <2>1, QuietStep DEF Owes
<1>4. CASE /\ ~ \E k \in keys[g] \cap Secrets : Exceeded(bucket[k], PerSecret, at[g])
           /\ Goto(g, "work")
  <2>1. /\ Others(g) /\ pc'[g] = "work" /\ keys' = keys /\ at' = at
        /\ pc' \in [Requests -> Steps] /\ keys' \in [Requests -> SUBSET Buckets]
        /\ at' \in [Requests -> 0..MaxTime]
    BY <1>1, <1>2, <1>4, GotoMoves DEF Steps
  <2>2. ASSUME NEW k \in Buckets, Owes(g, k)'
        PROVE  \/ Owes(g, k) /\ at'[g] = at[g]
               \/ Stale(bucket[k], at'[g])
               \/ bucket[k].n < LimitOf(k)
    <3>1. CASE k \notin Secrets
      BY <1>1, <2>1, <2>2, <3>1 DEF Owes
    <3>2. CASE k \in Secrets
      <4>1. LimitOf(k) = PerSecret /\ PerSecret \in Nat /\ bucket[k].n \in Nat
        BY <1>2, <3>2, AdmissionAssumption DEF LimitOf, TypeOK, Bucket
      <4>2. ~Exceeded(bucket[k], PerSecret, at[g])
        BY <1>4, <2>1, <2>2, <3>2 DEF Owes
      <4>3. QED
        BY <2>1, <4>1, <4>2 DEF Exceeded
    <3>3. QED
      BY <3>1, <3>2
  <2>3. QED
    BY <1>1, <1>2, <2>1, <2>2, QuietStep
<1>5. QED
  BY <1>3, <1>4 DEF CheckSecret

(* What leaves charges nothing more.                                       *)
LEMMA LeavingKeeps ==
    ASSUME MInv, NEW r \in Requests, Leave(r), pc[r] # "store", UNCHANGED <<clock, bucket, slots>>
    PROVE  MInv'
<1>1. TypeOK /\ clock \in Nat
  BY DEF MInv, TypeOK
<1>2. /\ Others(r) /\ pc'[r] = "idle" /\ keys'[r] = {} /\ at'[r] = 0
      /\ pc' \in [Requests -> Steps] /\ keys' \in [Requests -> SUBSET Buckets]
      /\ at' \in [Requests -> 0..MaxTime]
  BY <1>1, LeaveMoves
<1>3. QED
  BY <1>1, <1>2, QuietStep DEF Owes

LEMMA WorkKeeps ==
    ASSUME MInv, NEW g \in Guessers, Work(g)
    PROVE  MInv'
<1>1. /\ pc[g] = "work" /\ UNCHANGED <<clock, bucket, slots>> /\ TypeOK
      /\ g \in Requests /\ g \notin Depositors /\ keys[g] \subseteq Sources \cup Secrets /\ at[g] <= clock
  BY AdmissionAssumption DEF Work, Requests, MInv, KeysFit, AtPast
<1>2. CASE Leave(g)
  BY <1>1, <1>2, LeavingKeeps
<1>3. CASE Goto(g, "fail") /\ UNCHANGED <<keys, at>>
  <2>1. /\ Others(g) /\ pc'[g] = "fail" /\ keys' = keys /\ at' = at
        /\ pc' \in [Requests -> Steps] /\ keys' \in [Requests -> SUBSET Buckets]
        /\ at' \in [Requests -> 0..MaxTime]
    BY <1>1, <1>3, GotoMoves DEF Steps
  <2>2. \A k \in Buckets : Owes(g, k)' => Owes(g, k) /\ at'[g] = at[g]
    BY <1>1, <2>1 DEF Owes
  <2>3. QED
    BY <1>1, <2>1, <2>2, QuietStep
<1>4. QED
  BY <1>2, <1>3 DEF Work

----------------------------------------------------------------------------
(* Charges.                                                                *)

LEMMA ChargedIsABucket ==
    ASSUME NEW b \in Bucket, NEW now \in Nat
    PROVE  Charged(b, now) \in Bucket
BY WindowAssumption DEF Bucket, Charged

(* One request charges some of the keys it owes, and owes them no more.    *)
LEMMA ChargingBound ==
    ASSUME MInv, NEW r \in Requests, NEW due \in SUBSET Buckets, Charge(due, at[r]), Others(r),
           \A k \in due : r \in PartyOf(k) /\ Owes(r, k) /\ ~Owes(r, k)',
           \A k \in Buckets : Owes(r, k)' => Owes(r, k) /\ at'[r] = at[r]
    PROVE  (\A k \in Buckets : Bound(k)') /\ bucket' \in [Buckets -> Bucket]
<1>1. TypeOK /\ at[r] \in Nat
  BY AdmissionAssumption DEF MInv, TypeOK
<1>2. bucket' = [k \in Buckets |-> IF k \in due THEN Charged(bucket[k], at[r]) ELSE bucket[k]]
  BY DEF Charge
<1>3. bucket' \in [Buckets -> Bucket]
  BY <1>1, <1>2, ChargedIsABucket DEF TypeOK
<1>4. ASSUME NEW k \in Buckets PROVE Bound(k)'
  <2>1. Bound(k) /\ PartyOf(k) \subseteq Requests
    BY Parties DEF MInv
  <2>2. \A q \in PartyOf(k) : Owes(q, k)' => Owes(q, k) /\ at'[q] = at[q]
    BY <2>1 DEF Others, Owes
  <2>3. CASE k \in due
    <3>1. bucket'[k] = Charged(bucket[k], at[r]) /\ r \notin Debtors(k)'
      BY <1>2, <2>3 DEF Debtors
    <3>2. QED
      BY <1>1, <2>1, <2>2, <2>3, <3>1, BoundCharged
  <2>4. CASE k \notin due
    <3>1. bucket'[k] = bucket[k]
      BY <1>2, <2>4
    <3>2. Debtors(k)' \subseteq Debtors(k)
      BY <2>2, <3>1 DEF Debtors
    <3>3. QED
      BY <1>1, <2>1, <3>1, <3>2, BoundKept
  <2>5. QED
    BY <2>3, <2>4
<1>5. QED
  BY <1>3, <1>4

LEMMA ChargeFailureKeeps ==
    ASSUME MInv, NEW g \in Guessers, ChargeFailure(g)
    PROVE  MInv'
<1> DEFINE address == keys[g] \cap Sources
           due == IF address = {} THEN keys[g] ELSE address
<1>1. /\ pc[g] = "fail" /\ UNCHANGED <<clock, slots>> /\ Charge(due, at[g])
      /\ \/ due = keys[g] /\ Leave(g)
         \/ keys' = [keys EXCEPT ![g] = keys[g] \ due] /\ UNCHANGED <<pc, at>>
  BY DEF ChargeFailure
<1>2. /\ g \in Requests /\ g \notin Depositors /\ TypeOK /\ clock \in Nat /\ at[g] <= clock
      /\ keys[g] \subseteq Sources \cup Secrets /\ due \subseteq keys[g]
      /\ keys[g] \in SUBSET Buckets /\ due \in SUBSET Buckets
  BY AdmissionAssumption DEF MInv, KeysFit, AtPast, TypeOK, Requests
<1>3. /\ Others(g) /\ pc'[g] \in {"idle", "fail"} /\ keys'[g] \subseteq keys[g] \ due
      /\ pc'[g] = "fail" => at'[g] = at[g]
      /\ at'[g] <= clock
      /\ pc' \in [Requests -> Steps] /\ keys' \in [Requests -> SUBSET Buckets]
      /\ at' \in [Requests -> 0..MaxTime]
  <2>1. CASE due = keys[g] /\ Leave(g)
    BY <1>2, <2>1, LeaveMoves
  <2>2. CASE keys' = [keys EXCEPT ![g] = keys[g] \ due] /\ UNCHANGED <<pc, at>>
    BY <1>1, <1>2, <2>2 DEF TypeOK, Others
  <2>3. QED
    BY <1>1, <2>1, <2>2
<1>4. \A k \in due : g \in PartyOf(k) /\ Owes(g, k) /\ ~Owes(g, k)'
  BY <1>1, <1>2, <1>3, AdmissionAssumption DEF PartyOf, Owes
<1>5. \A k \in Buckets : Owes(g, k)' => Owes(g, k) /\ at'[g] = at[g]
  BY <1>1, <1>3 DEF Owes
<1>6. (\A k \in Buckets : Bound(k)') /\ bucket' \in [Buckets -> Bucket]
  BY <1>1, <1>2, <1>3, <1>4, <1>5, ChargingBound
<1>7. TypeOK'
  BY <1>1, <1>2, <1>3, <1>6 DEF TypeOK
<1>8. KeysFit' /\ AtPast'
  BY <1>1, <1>2, <1>3 DEF MInv, KeysFit, AtPast, Others, Requests
<1>9. SlotsAreDeposits'
  BY <1>1, <1>2, <1>3, SlotsKept DEF MInv
<1>10. QED
  BY <1>6, <1>7, <1>8, <1>9 DEF MInv

LEMMA ChargePushKeeps ==
    ASSUME MInv, NEW d \in Depositors, ChargePush(d)
    PROVE  MInv'
<1>1. /\ pc[d] = "charge" /\ Charge(keys[d], at[d]) /\ Goto(d, "slot")
      /\ UNCHANGED <<clock, slots, keys, at>>
  BY DEF ChargePush
<1>2. /\ d \in Requests /\ d \notin Guessers /\ TypeOK /\ keys[d] \subseteq Products /\ at[d] <= clock
      /\ keys[d] \in SUBSET Buckets
  BY AdmissionAssumption DEF MInv, KeysFit, AtPast, TypeOK, Requests
<1>3. /\ Others(d) /\ pc'[d] = "slot" /\ pc' \in [Requests -> Steps]
  BY <1>1, <1>2, GotoMoves DEF Steps
<1>4. \A k \in keys[d] : d \in PartyOf(k) /\ Owes(d, k) /\ ~Owes(d, k)'
  BY <1>1, <1>2, <1>3 DEF PartyOf, Owes
<1>5. \A k \in Buckets : ~Owes(d, k)'
  BY <1>3 DEF Owes
<1>6. (\A k \in Buckets : Bound(k)') /\ bucket' \in [Buckets -> Bucket]
  BY <1>1, <1>2, <1>3, <1>4, <1>5, ChargingBound
<1>7. TypeOK'
  BY <1>1, <1>2, <1>3, <1>6 DEF TypeOK
<1>8. KeysFit' /\ AtPast'
  BY <1>1, <1>2, <1>3 DEF MInv, KeysFit, AtPast, Others, Requests
<1>9. SlotsAreDeposits'
  BY <1>1, <1>2, <1>3, SlotsKept DEF MInv
<1>10. QED
  BY <1>6, <1>7, <1>8, <1>9 DEF MInv

----------------------------------------------------------------------------
(* Deposits and their slots.                                               *)

LEMMA CheckPushKeeps ==
    ASSUME MInv, NEW d \in Depositors, NEW app \in Products, CheckPush(d, app)
    PROVE  MInv'
<1>1. pc[d] = "idle" /\ UNCHANGED <<clock, bucket, slots>> /\ d \in Requests /\ d \notin Guessers
  BY AdmissionAssumption DEF CheckPush, Requests
<1>2. TypeOK /\ clock \in 0..MaxTime /\ {app} \in SUBSET Buckets
      /\ bucket[app].n \in Nat /\ LimitOf(app) = PerProduct /\ PerProduct \in Nat
  BY AdmissionAssumption DEF MInv, TypeOK, Buckets, Bucket, LimitOf
<1>3. CASE Enter(d, {}, "refused")
  <2>1. /\ Others(d) /\ pc'[d] = "refused" /\ keys'[d] = {} /\ at'[d] = clock
        /\ pc' \in [Requests -> Steps] /\ keys' \in [Requests -> SUBSET Buckets]
        /\ at' \in [Requests -> 0..MaxTime]
    BY <1>1, <1>2, <1>3, EnterMoves DEF Steps
  <2>2. QED
    BY <1>1, <1>2, <2>1, QuietStep DEF Owes
<1>4. CASE ~Exceeded(bucket[app], PerProduct, clock) /\ Enter(d, {app}, "charge")
  <2>1. /\ Others(d) /\ pc'[d] = "charge" /\ keys'[d] = {app} /\ at'[d] = clock
        /\ pc' \in [Requests -> Steps] /\ keys' \in [Requests -> SUBSET Buckets]
        /\ at' \in [Requests -> 0..MaxTime]
    BY <1>1, <1>2, <1>4, EnterMoves DEF Steps
  <2>2. Stale(bucket[app], at'[d]) \/ bucket[app].n < LimitOf(app)
    BY <1>2, <1>4, <2>1 DEF Exceeded
  <2>3. \A k \in Buckets : Owes(d, k)' => k = app
    BY <2>1 DEF Owes
  <2>4. QED
    BY <1>1, <1>2, <2>1, <2>2, <2>3, QuietStep
<1>5. QED
  BY <1>3, <1>4 DEF CheckPush

LEMMA StoringCounted ==
    IsFiniteSet(Storing) /\ Cardinality(Storing) \in Nat
<1>1. Storing \subseteq Depositors
  BY DEF Storing
<1>2. QED
  BY <1>1, AdmissionAssumption, FS_Subset, FS_CardinalityType

(* A slot is taken or given back as its deposit begins or ends.            *)
LEMMA SlotStepKeeps ==
    ASSUME MInv, NEW d \in Depositors, Others(d), UNCHANGED <<clock, bucket>>, slots' \in 0..Slots,
           pc' \in [Requests -> Steps], keys' \in [Requests -> SUBSET Buckets],
           at' \in [Requests -> 0..MaxTime], at'[d] <= clock, keys'[d] \subseteq keys[d],
           pc'[d] \in {"idle", "store"}, SlotsAreDeposits'
    PROVE  MInv'
<1>1. d \in Requests /\ d \notin Guessers /\ TypeOK
  BY AdmissionAssumption DEF Requests, MInv
<1>2. TypeOK'
  BY <1>1 DEF TypeOK
<1>3. KeysFit' /\ AtPast'
  BY <1>1 DEF MInv, KeysFit, AtPast, Others, Requests
<1>4. \A k \in Buckets : Bound(k)'
  BY <1>1, UnchargedBound DEF Owes
<1>5. QED
  BY <1>2, <1>3, <1>4 DEF MInv

LEMMA TakeSlotKeeps ==
    ASSUME MInv, NEW d \in Depositors, TakeSlot(d)
    PROVE  MInv'
<1>1. /\ pc[d] = "slot" /\ slots < Slots /\ slots' = slots + 1 /\ Goto(d, "store")
      /\ UNCHANGED <<clock, bucket, keys, at>>
  BY DEF TakeSlot
<1>2. d \in Requests /\ TypeOK /\ at[d] <= clock /\ slots \in 0..Slots /\ Slots \in Nat
  BY AdmissionAssumption DEF MInv, AtPast, TypeOK, Requests
<1>3. /\ Others(d) /\ pc'[d] = "store" /\ keys' = keys /\ at' = at
      /\ pc' \in [Requests -> Steps] /\ keys' \in [Requests -> SUBSET Buckets]
      /\ at' \in [Requests -> 0..MaxTime]
  BY <1>1, <1>2, GotoMoves DEF Steps
<1>4. d \notin Storing /\ Storing' = Storing \cup {d}
  BY <1>1, <1>3 DEF Storing, Others, Requests
<1>5. Cardinality(Storing') = Cardinality(Storing) + 1
  BY <1>4, StoringCounted, FS_AddElement
<1>6. SlotsAreDeposits'
  BY <1>1, <1>5 DEF MInv, SlotsAreDeposits, Storing
<1>7. QED
  BY <1>1, <1>2, <1>3, <1>6, SlotStepKeeps

LEMMA ReturnKeeps ==
    ASSUME MInv, NEW d \in Depositors, Return(d)
    PROVE  MInv'
<1>1. pc[d] = "store" /\ slots' = slots - 1 /\ Leave(d) /\ UNCHANGED <<clock, bucket>>
  BY DEF Return
<1>2. d \in Requests /\ TypeOK /\ clock \in Nat /\ slots \in 0..Slots /\ Slots \in Nat
  BY AdmissionAssumption DEF MInv, TypeOK, Requests
<1>3. /\ Others(d) /\ pc'[d] = "idle" /\ keys'[d] = {} /\ at'[d] = 0
      /\ pc' \in [Requests -> Steps] /\ keys' \in [Requests -> SUBSET Buckets]
      /\ at' \in [Requests -> 0..MaxTime]
  BY <1>1, <1>2, LeaveMoves
<1>4. d \in Storing /\ Storing' = Storing \ {d}
  BY <1>1, <1>3 DEF Storing, Others, Requests
<1>5. Cardinality(Storing') = Cardinality(Storing) - 1 /\ Cardinality(Storing') \in Nat
  <2>1. Cardinality(Storing') = Cardinality(Storing) - 1 /\ IsFiniteSet(Storing')
    BY <1>4, StoringCounted, FS_RemoveElement
  <2>2. QED
    BY <2>1, FS_CardinalityType
<1>6. SlotsAreDeposits' /\ slots' \in 0..Slots
  BY <1>1, <1>2, <1>5, StoringCounted DEF MInv, SlotsAreDeposits, Storing
<1>7. QED
  BY <1>1, <1>2, <1>3, <1>6, SlotStepKeeps

LEMMA TickKeeps == MInv /\ (Tick \/ UNCHANGED vars) => MInv'
<1> SUFFICES ASSUME MInv, Tick \/ UNCHANGED vars PROVE MInv'
  OBVIOUS
<1>1. UNCHANGED <<bucket, slots, pc, keys, at>> /\ clock' \in 0..MaxTime /\ clock <= clock'
  BY AdmissionAssumption DEF Tick, vars, MInv, TypeOK
<1>2. TypeOK' /\ KeysFit' /\ AtPast'
  BY <1>1, AdmissionAssumption DEF MInv, TypeOK, KeysFit, AtPast
<1>3. SlotsAreDeposits' /\ \A k \in Buckets : Bound(k)'
  BY <1>1 DEF MInv, SlotsAreDeposits, Bound, Debtors, Owes
<1>4. QED
  BY <1>2, <1>3 DEF MInv

LEMMA NextKeepsMInv == MInv /\ [Next]_vars => MInv'
<1> SUFFICES ASSUME MInv, [Next]_vars PROVE MInv'
  OBVIOUS
<1>1. ASSUME NEW r \in Requests, Answer429(r) PROVE MInv'
  BY <1>1, LeavingKeeps DEF Answer429
<1>2. ASSUME NEW d \in Depositors, GiveUp(d) PROVE MInv'
  BY <1>2, LeavingKeeps DEF GiveUp, Requests
<1>3. CASE \E g \in Guessers : Guess(g)
  BY <1>1, <1>3, ArriveKeeps, CheckSecretKeeps, WorkKeeps, ChargeFailureKeeps DEF Guess, Requests
<1>4. CASE \E d \in Depositors : Deposit(d)
  BY <1>1, <1>2, <1>4, CheckPushKeeps, ChargePushKeeps, TakeSlotKeeps, ReturnKeeps DEF Deposit, Requests
<1>5. CASE Tick \/ UNCHANGED vars
  BY <1>5, TickKeeps
<1>6. QED
  BY <1>3, <1>4, <1>5 DEF Next

----------------------------------------------------------------------------

LEMMA MInvHolds == Spec => []MInv
BY InitMInv, NextKeepsMInv, PTL DEF Spec

(* Every variable of Admission has its type.                               *)
THEOREM AdmissionTypeCorrect == Spec => []TypeOK
<1>1. MInv => TypeOK
  BY DEF MInv
<1>2. QED
  BY <1>1, MInvHolds, PTL

(* However many requests race handlePairingClaim, handleAuthLoginLocal and *)
(* handleDeposit, a slot is taken exactly while a deposit runs, and a      *)
(* window holds at most its limit and all of them but one.                 *)
THEOREM AdmissionStaysBounded == Spec => []AdmissionIsBounded
<1>1. MInv => AdmissionIsBounded
  <2> SUFFICES ASSUME MInv PROVE AttemptsBounded
    BY DEF MInv, AdmissionIsBounded
  <2>1. ASSUME NEW k \in Buckets
        PROVE  bucket[k].n <= LimitOf(k) + Cardinality(PartyOf(k)) - 1
    <3>1. /\ bucket[k].n \in Nat /\ LimitOf(k) \in Nat \ {0} /\ Cardinality(PartyOf(k)) \in Nat
          /\ Debtors(k) \in SUBSET PartyOf(k) /\ Cardinality(Debtors(k)) \in Nat /\ Bound(k)
      BY Parties DEF MInv, TypeOK, Bucket, Debtors
    <3>2. QED
      BY <3>1 DEF Bound
  <2>2. QED
    BY <2>1, AdmissionAssumption DEF AttemptsBounded, Overrun, Buckets, LimitOf, PartyOf
<1>2. QED
  BY <1>1, MInvHolds, PTL

(* What is charged to a window before it ends, late charges of requests    *)
(* that were let in earlier included, does not move its end.               *)
THEOREM WindowsStayFixed == Spec => WindowsAreFixed
<1> DEFINE Fixed == \A k \in Buckets : ~Stale(bucket[k], clock) => bucket'[k].resetAt = bucket[k].resetAt
<1>1. MInv /\ [Next]_vars => [Fixed]_vars
  <2> SUFFICES ASSUME MInv, Next, NEW k \in Buckets, ~Stale(bucket[k], clock)
               PROVE  bucket'[k].resetAt = bucket[k].resetAt
    OBVIOUS
  <2>1. CASE UNCHANGED bucket
    BY <2>1
  <2>2. CASE \E r \in Requests, due \in SUBSET Buckets : Charge(due, at[r])
    <3>1. PICK r \in Requests, due \in SUBSET Buckets : Charge(due, at[r])
      BY <2>2
    <3>2. at[r] <= clock /\ at[r] \in Nat /\ clock \in Nat /\ bucket[k] \in Bucket
      BY AdmissionAssumption DEF MInv, AtPast, TypeOK
    <3>3. ~Stale(bucket[k], at[r])
      BY <3>2 DEF Stale, Bucket
    <3>4. QED
      BY <3>1, <3>2, <3>3 DEF Charge, Charged, Bucket
  <2>3. QED
    <3>1. ASSUME NEW g \in Guessers, ChargeFailure(g)
          PROVE  \E r \in Requests, due \in SUBSET Buckets : Charge(due, at[r])
      BY <3>1 DEF ChargeFailure, MInv, TypeOK, Requests
    <3>2. ASSUME NEW d \in Depositors, ChargePush(d)
          PROVE  \E r \in Requests, due \in SUBSET Buckets : Charge(due, at[r])
      BY <3>2 DEF ChargePush, MInv, TypeOK, Requests
    <3>3. QED
      BY <2>1, <2>2, <3>1, <3>2 DEF Next, Guess, Deposit, Arrive, CheckSecret, Work, Answer429, CheckPush,
         TakeSlot, GiveUp, Return, Tick
<1>2. QED
  BY <1>1, MInvHolds, PTL DEF Spec, WindowsAreFixed

=============================================================================
