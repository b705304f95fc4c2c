--------------------------- MODULE IdLocksProofs ---------------------------
(***************************************************************************)
(* The lock map of idlock.go gives mutual exclusion per ID and holds only  *)
(* IDs at work, for every finite set of goroutines and any IDs and lock    *)
(* objects.  The inductive invariant is TypeOK /\ Registered: mutual       *)
(* exclusion alone is not inductive, because it is the reference count     *)
(* that keeps an entry in the map while anyone may still wait on it.       *)
(***************************************************************************)
EXTENDS IdLocks, FiniteSetTheorems, TLAPS

IInv == TypeOK /\ Registered

(* The users of an entry are finitely many, so counting them is counting.  *)
LEMMA UsersFinite ==
    ASSUME NEW e
    PROVE  IsFiniteSet(Users(e)) /\ Cardinality(Users(e)) \in Nat
<1>1. Users(e) \subseteq Procs
  BY DEF Users
<1>2. QED
  BY <1>1, IdLocksAssumption, FS_Subset, FS_CardinalityType

(* Every entry starts absent, every goroutine idle. *)
LEMMA InitIInv == Init => IInv
BY IdLocksAssumption DEF Init, IInv, TypeOK, Registered, WantsId, MuHeld, HasEntry,
   EntryInMap, EntryHeld, HeldOwns, OneIdPerEntry, RefsCount, SomeoneUses,
   Steps, HoldsMu, Counted, Working

LEMMA CallKeepsIInv ==
    ASSUME IInv, NEW p \in Procs, NEW id \in Ids, Call(p, id)
    PROVE  IInv'
<1> USE IdLocksAssumption DEF IInv, TypeOK, Registered, Steps, HoldsMu, Counted, Working
<1>1. TypeOK'
  BY DEF Call
<1>2. WantsId' /\ MuHeld' /\ HasEntry' /\ OneIdPerEntry'
  BY DEF Call, WantsId, MuHeld, HasEntry, OneIdPerEntry
<1>3. EntryInMap'
  BY DEF Call, EntryInMap
<1>4. EntryHeld' /\ HeldOwns'
  BY DEF Call, EntryHeld, HeldOwns
<1>5. \A e : Users(e)' = Users(e)
  BY DEF Call, Users
<1>6. RefsCount'
  BY <1>5 DEF Call, RefsCount
<1>7. SomeoneUses'
  BY DEF Call, SomeoneUses
<1>8. QED
  BY <1>1, <1>2, <1>3, <1>4, <1>6, <1>7

LEMMA LockMuKeepsIInv ==
    ASSUME IInv, NEW p \in Procs, LockMu(p)
    PROVE  IInv'
<1> USE IdLocksAssumption DEF IInv, TypeOK, Registered, Steps, HoldsMu, Counted, Working
<1>1. TypeOK'
  BY DEF LockMu
<1>2. WantsId' /\ MuHeld' /\ HasEntry' /\ OneIdPerEntry'
  BY DEF LockMu, WantsId, MuHeld, HasEntry, OneIdPerEntry
<1>3. EntryInMap'
  BY DEF LockMu, EntryInMap
<1>4. EntryHeld' /\ HeldOwns'
  BY DEF LockMu, EntryHeld, HeldOwns
<1>5. \A e \in Locks : Users(e)' = Users(e)
  BY DEF LockMu, Users
<1>6. RefsCount'
  BY <1>5 DEF LockMu, RefsCount
<1>7. SomeoneUses'
  BY DEF LockMu, SomeoneUses
<1>8. QED
  BY <1>1, <1>2, <1>3, <1>4, <1>6, <1>7

LEMMA FindEntryKeepsIInv ==
    ASSUME IInv, NEW p \in Procs, FindEntry(p)
    PROVE  IInv'
<1> USE IdLocksAssumption DEF IInv, TypeOK, Registered, Steps, HoldsMu, Counted, Working
<1>1. TypeOK'
  BY DEF FindEntry, WantsId
<1>2. WantsId' /\ MuHeld' /\ HasEntry' /\ OneIdPerEntry'
  BY DEF FindEntry, WantsId, MuHeld, HasEntry, OneIdPerEntry
<1>3. EntryInMap'
  BY DEF FindEntry, EntryInMap, WantsId
<1>4. EntryHeld' /\ HeldOwns'
  BY DEF FindEntry, EntryHeld, HeldOwns, EntryHeld
<1>5. \A e \in Locks : Users(e)' = Users(e)
  BY DEF FindEntry, Users, HasEntry
<1>6. RefsCount'
  BY <1>5 DEF FindEntry, RefsCount
<1>7. SomeoneUses'
  BY DEF FindEntry, SomeoneUses
<1>8. QED
  BY <1>1, <1>2, <1>3, <1>4, <1>6, <1>7

LEMMA LockEntryKeepsIInv ==
    ASSUME IInv, NEW p \in Procs, LockEntry(p)
    PROVE  IInv'
<1> USE IdLocksAssumption DEF IInv, TypeOK, Registered, Steps, HoldsMu, Counted, Working
<1>1. TypeOK'
  BY DEF LockEntry, HasEntry
<1>2. WantsId' /\ MuHeld' /\ HasEntry' /\ OneIdPerEntry'
  BY DEF LockEntry, WantsId, MuHeld, HasEntry, OneIdPerEntry
<1>3. EntryInMap'
  BY DEF LockEntry, EntryInMap
<1>4. EntryHeld' /\ HeldOwns'
  BY DEF LockEntry, EntryHeld, HeldOwns, HasEntry
<1>5. \A e \in Locks : Users(e)' = Users(e)
  BY DEF LockEntry, Users
<1>6. RefsCount'
  BY <1>5 DEF LockEntry, RefsCount
<1>7. SomeoneUses'
  BY DEF LockEntry, SomeoneUses
<1>8. QED
  BY <1>1, <1>2, <1>3, <1>4, <1>6, <1>7

LEMMA UnlockEntryKeepsIInv ==
    ASSUME IInv, NEW p \in Procs, UnlockEntry(p)
    PROVE  IInv'
<1> USE IdLocksAssumption DEF IInv, TypeOK, Registered, Steps, HoldsMu, Counted, Working
<1>1. TypeOK'
  BY DEF UnlockEntry, HasEntry
<1>2. WantsId' /\ MuHeld' /\ HasEntry' /\ OneIdPerEntry'
  BY DEF UnlockEntry, WantsId, MuHeld, HasEntry, OneIdPerEntry
<1>3. EntryInMap'
  BY DEF UnlockEntry, EntryInMap
<1>4. EntryHeld' /\ HeldOwns'
  BY DEF UnlockEntry, EntryHeld, HeldOwns, HasEntry
<1>5. \A e \in Locks : Users(e)' = Users(e)
  BY DEF UnlockEntry, Users
<1>6. RefsCount'
  BY <1>5 DEF UnlockEntry, RefsCount
<1>7. SomeoneUses'
  BY DEF UnlockEntry, SomeoneUses
<1>8. QED
  BY <1>1, <1>2, <1>3, <1>4, <1>6, <1>7

(* A new entry is nobody's: it is not in the map and in no local variable, *)
(* so its count starts at zero with no users.                              *)
LEMMA CreateEntryKeepsIInv ==
    ASSUME IInv, NEW p \in Procs, CreateEntry(p)
    PROVE  IInv'
<1> USE IdLocksAssumption DEF IInv, TypeOK, Registered, Steps, HoldsMu, Counted, Working
<1> PICK e \in Locks \ InUse :
        /\ m' = [m EXCEPT ![want[p]] = e]
        /\ refs' = [refs EXCEPT ![e] = 0]
        /\ owner' = [owner EXCEPT ![e] = NoProc]
        /\ ent' = [ent EXCEPT ![p] = e]
  BY DEF CreateEntry
<1> DEFINE w == want[p]
<1>1. pc[p] = "find" /\ m[w] = NoLock /\ w \in Ids
  BY DEF CreateEntry, WantsId
<1>2. (\A id \in Ids : m[id] # e) /\ (\A q \in Procs : ent[q] # e)
  BY DEF InUse
<1>3. pc' = [pc EXCEPT ![p] = "count"] /\ UNCHANGED <<mu, want>>
  BY DEF CreateEntry
<1>4. TypeOK'
  BY <1>1, <1>3
<1>5. WantsId' /\ MuHeld' /\ HasEntry' /\ OneIdPerEntry'
  BY <1>1, <1>2, <1>3 DEF WantsId, MuHeld, HasEntry, OneIdPerEntry
<1>6. ASSUME NEW q \in Procs, q # p, pc[q] \in Counted \cup {"count"}
      PROVE  want[q] # w
  BY <1>1, <1>6 DEF EntryInMap, HasEntry
<1>7. EntryInMap'
  BY <1>1, <1>3, <1>6 DEF EntryInMap
<1>8. EntryHeld' /\ HeldOwns'
  BY <1>1, <1>2, <1>3 DEF EntryHeld, HeldOwns, HasEntry
<1>9. ASSUME NEW d \in Locks
      PROVE  Users(d)' = Users(d)
  BY <1>1, <1>2, <1>3, <1>9 DEF Users
<1>10. Users(e) = {}
  BY <1>2 DEF Users
<1>11. RefsCount'
  <2> SUFFICES ASSUME NEW id \in Ids, NEW d \in Locks, m'[id] = d
               PROVE  refs'[d] = Cardinality(Users(d)')
    BY DEF RefsCount
  <2>1. CASE id = w
    BY <1>1, <1>9, <1>10, <2>1, FS_EmptySet
  <2>2. CASE id # w
    <3>1. m[id] = d /\ d # e
      BY <1>1, <1>2, <2>2
    <3>2. QED
      BY <1>9, <3>1 DEF RefsCount
  <2>3. QED
    BY <2>1, <2>2
<1>12. SomeoneUses'
  BY <1>1, <1>2, <1>3 DEF SomeoneUses
<1>13. QED
  BY <1>4, <1>5, <1>7, <1>8, <1>11, <1>12

(* Counting in: the entry gains exactly the user it counts. *)
LEMMA CountInKeepsIInv ==
    ASSUME IInv, NEW p \in Procs, CountIn(p)
    PROVE  IInv'
<1> USE IdLocksAssumption DEF IInv, TypeOK, Registered, Steps, HoldsMu, Counted, Working
<1> DEFINE w == want[p]
<1> PICK e \in Locks : e = ent[p]
  BY DEF CountIn, HasEntry
<1>1. pc[p] = "count" /\ w \in Ids /\ m[w] = e
  BY DEF CountIn, WantsId, HasEntry, EntryInMap
<1>2. /\ refs' = [refs EXCEPT ![e] = @ + 1] /\ mu' = NoProc
      /\ pc' = [pc EXCEPT ![p] = "wait"] /\ UNCHANGED <<m, owner, want, ent>>
  BY DEF CountIn
<1>3. TypeOK'
  BY <1>1, <1>2
<1>4. WantsId' /\ MuHeld' /\ HasEntry' /\ OneIdPerEntry'
  BY <1>1, <1>2 DEF WantsId, MuHeld, HasEntry, OneIdPerEntry
<1>5. EntryInMap' /\ EntryHeld' /\ HeldOwns' /\ SomeoneUses'
  BY <1>1, <1>2 DEF EntryInMap, EntryHeld, HeldOwns, SomeoneUses
<1>6. Users(e)' = Users(e) \cup {p} /\ p \notin Users(e)
  BY <1>1, <1>2 DEF Users
<1>7. Cardinality(Users(e)') = Cardinality(Users(e)) + 1
  <2>1. IsFiniteSet(Users(e))
    BY UsersFinite
  <2>2. Cardinality(Users(e) \cup {p}) = Cardinality(Users(e)) + 1
    BY <1>6, <2>1, FS_AddElement
  <2>3. QED
    BY <1>6, <2>2
<1>8. ASSUME NEW d \in Locks, d # e
      PROVE  Users(d)' = Users(d)
  BY <1>1, <1>2, <1>8 DEF Users
<1>9. RefsCount'
  <2> SUFFICES ASSUME NEW id \in Ids, NEW d \in Locks, m[id] = d
               PROVE  refs'[d] = Cardinality(Users(d)')
    BY <1>2 DEF RefsCount
  <2>1. CASE d = e
    <3>1. refs[e] = Cardinality(Users(e))
      BY <2>1 DEF RefsCount
    <3>2. refs'[e] = refs[e] + 1
      BY <1>1, <1>2
    <3>3. QED
      BY <1>7, <2>1, <3>1, <3>2
  <2>2. CASE d # e
    BY <1>1, <1>2, <1>8, <2>2 DEF RefsCount
  <2>3. QED
    BY <2>1, <2>2
<1>10. QED
  BY <1>3, <1>4, <1>5, <1>9

(* Counting out: when refs reaches zero the goroutine was the only user,   *)
(* and no other can be between finding the entry and counting itself in,   *)
(* because that happens under mu.  So the deletion strands nobody.         *)
LEMMA CountOutKeepsIInv ==
    ASSUME IInv, NEW p \in Procs, CountOut(p)
    PROVE  IInv'
<1> USE IdLocksAssumption DEF IInv, TypeOK, Registered, Steps, HoldsMu, Counted, Working
<1> DEFINE w == want[p]
<1> PICK e \in Locks : e = ent[p]
  BY DEF CountOut, HasEntry
<1>1. pc[p] = "drop" /\ w \in Ids /\ m[w] = e /\ mu = p
  BY DEF CountOut, WantsId, HasEntry, EntryInMap, MuHeld
<1>2. /\ refs' = [refs EXCEPT ![e] = @ - 1] /\ mu' = NoProc
      /\ m' = IF refs[e] = 1 THEN [m EXCEPT ![w] = NoLock] ELSE m
      /\ pc' = [pc EXCEPT ![p] = "idle"] /\ want' = [want EXCEPT ![p] = NoId]
      /\ ent' = [ent EXCEPT ![p] = NoLock] /\ UNCHANGED owner
  BY DEF CountOut
<1>3. /\ p \in Users(e) /\ refs[e] = Cardinality(Users(e)) /\ IsFiniteSet(Users(e))
      /\ refs[e] \in Nat
  BY <1>1, UsersFinite DEF Users, RefsCount
<1>4. Users(e)' = Users(e) \ {p}
  BY <1>1, <1>2 DEF Users
<1>5. Cardinality(Users(e)') = refs[e] - 1 /\ refs[e] # 0
  <2>1. Cardinality(Users(e) \ {p}) = Cardinality(Users(e)) - 1
    BY <1>3, FS_RemoveElement
  <2>2. Cardinality(Users(e)) # 0
    BY <1>3, FS_EmptySet
  <2>3. QED
    BY <1>3, <1>4, <2>1, <2>2
<1>6. ASSUME refs[e] = 1, NEW q \in Procs, q # p, pc[q] \in Counted \cup {"count"}
      PROVE  ent[q] # e
  <2>1. pc[q] # "count"
    BY <1>1, <1>6 DEF MuHeld
  <2>2. Users(e) = {p}
    <3>1. Cardinality(Users(e)) = 1
      BY <1>3, <1>6
    <3>2. PICK x : Users(e) = {x}
      BY <1>3, <3>1, FS_Singleton
    <3>3. QED
      BY <1>3, <3>2
  <2>3. QED
    BY <1>6, <2>1, <2>2 DEF Users
<1>7. TypeOK'
  BY <1>1, <1>2, <1>3, <1>5
<1>8. WantsId' /\ MuHeld' /\ HasEntry' /\ OneIdPerEntry'
  BY <1>1, <1>2 DEF WantsId, MuHeld, HasEntry, OneIdPerEntry
<1>9. EntryInMap'
  BY <1>1, <1>2, <1>6 DEF EntryInMap
<1>10. EntryHeld' /\ HeldOwns'
  BY <1>1, <1>2 DEF EntryHeld, HeldOwns
<1>11. ASSUME NEW d \in Locks, d # e
       PROVE  Users(d)' = Users(d)
  BY <1>1, <1>2, <1>11 DEF Users
<1>12. RefsCount'
  <2> SUFFICES ASSUME NEW id \in Ids, NEW d \in Locks, m'[id] = d
               PROVE  refs'[d] = Cardinality(Users(d)')
    BY DEF RefsCount
  <2>1. m'[id] = m[id]
    BY <1>1, <1>2
  <2>2. CASE d = e
    BY <1>1, <1>2, <1>3, <1>5, <2>1, <2>2
  <2>3. CASE d # e
    BY <1>1, <1>2, <1>11, <2>1, <2>3 DEF RefsCount
  <2>4. QED
    BY <2>2, <2>3
<1>13. SomeoneUses'
  <2> SUFFICES ASSUME NEW id \in Ids, m'[id] # NoLock
               PROVE  \E q \in Procs : pc'[q] \in Counted \cup {"count"} /\ ent'[q] = m'[id]
    BY DEF SomeoneUses
  <2>1. m'[id] = m[id]
    BY <1>1, <1>2
  <2>2. CASE m[id] = e
    <3>1. refs[e] # 1
      BY <1>1, <1>2, <2>1, <2>2 DEF OneIdPerEntry
    <3>2. Cardinality(Users(e)') # 0
      BY <1>3, <1>5, <3>1
    <3>3. PICK q \in Users(e)' : TRUE
      BY <3>2, FS_EmptySet
    <3>4. QED
      BY <1>2, <2>1, <2>2, <3>3 DEF Users
  <2>3. CASE m[id] # e
    BY <1>1, <1>2, <2>1, <2>3 DEF SomeoneUses
  <2>4. QED
    BY <2>2, <2>3
<1>14. QED
  BY <1>7, <1>8, <1>9, <1>10, <1>12, <1>13

LEMMA NextKeepsIInv == IInv /\ [Next]_vars => IInv'
<1>1. ASSUME IInv, Next
      PROVE  IInv'
  <2>1. PICK p \in Procs :
            \/ \E id \in Ids : Call(p, id)
            \/ LockMu(p) \/ FindEntry(p) \/ CreateEntry(p) \/ CountIn(p)
            \/ LockEntry(p) \/ UnlockEntry(p) \/ CountOut(p)
    BY <1>1 DEF Next
  <2>2. QED
    BY <1>1, <2>1, CallKeepsIInv, LockMuKeepsIInv, FindEntryKeepsIInv,
       CreateEntryKeepsIInv, CountInKeepsIInv, LockEntryKeepsIInv,
       UnlockEntryKeepsIInv, CountOutKeepsIInv
<1>2. ASSUME IInv, UNCHANGED vars
      PROVE  IInv'
  BY <1>2 DEF IInv, TypeOK, Registered, WantsId, MuHeld, HasEntry, EntryInMap,
     EntryHeld, HeldOwns, OneIdPerEntry, RefsCount, SomeoneUses, Users, vars
<1>3. QED
  BY <1>1, <1>2

THEOREM InductiveInvariant == Spec => []IInv
BY InitIInv, NextKeepsIInv, PTL DEF Spec

(* Every reachable state of the lock map is well typed. *)
THEOREM TypeCorrect == Spec => []TypeOK
<1>1. IInv => TypeOK
  BY DEF IInv
<1>2. QED
  BY <1>1, InductiveInvariant, PTL

(* Two goroutines that both got through acquire on one ID are the same:    *)
(* each owns the entry the map has for the ID, and it has one owner.       *)
THEOREM AcquireExcludes == Spec => []MutualExclusion
<1>1. IInv => MutualExclusion
  BY DEF IInv, Registered, MutualExclusion, EntryInMap, HeldOwns, Counted
<1>2. QED
  BY <1>1, InductiveInvariant, PTL

(* An entry in the map has a user, and the user works on its ID.           *)
THEOREM MapIsBounded == Spec => []MapHoldsOnlyWork
<1>1. ASSUME IInv
      PROVE  MapHoldsOnlyWork
  <2> SUFFICES ASSUME NEW id \in Ids, m[id] # NoLock
               PROVE  \E p \in Procs : pc[p] \in Working /\ want[p] = id
    BY DEF MapHoldsOnlyWork
  <2>1. PICK p \in Procs : pc[p] \in Counted \cup {"count"} /\ ent[p] = m[id]
    BY <1>1 DEF IInv, Registered, SomeoneUses
  <2>2. m[want[p]] = m[id]
    BY <1>1, <2>1 DEF IInv, Registered, EntryInMap
  <2>3. pc[p] \in Working /\ want[p] \in Ids
    BY <1>1, <2>1 DEF IInv, TypeOK, Registered, WantsId, Working, Counted, Steps
  <2>4. want[p] = id
    BY <1>1, <2>2, <2>3 DEF IInv, Registered, OneIdPerEntry
  <2>5. QED
    BY <2>3, <2>4
<1>2. QED
  BY <1>1, InductiveInvariant, PTL

(* The safety half of the refinement: seen from outside, the map of        *)
(* entries is one lock per ID.  Only LockEntry and UnlockEntry change what *)
(* a caller can see; finding, creating and counting are invisible.         *)
LEMMA StepsRefine ==
    ASSUME IInv, [Next]_vars
    PROVE  [Abstract!Next]_(Abstract!vars)
<1> USE IdLocksAssumption DEF IInv, TypeOK, Registered, Phase, Steps
<1>1. CASE UNCHANGED vars
  BY <1>1 DEF vars, Abstract!vars
<1>2. ASSUME NEW p \in Procs, NEW id \in Ids, Call(p, id)
      PROVE  Abstract!Request(p, id)
  BY <1>2 DEF Call, Abstract!Request
<1>3. ASSUME NEW p \in Procs,
             LockMu(p) \/ FindEntry(p) \/ CreateEntry(p) \/ CountIn(p) \/ CountOut(p)
      PROVE  UNCHANGED Abstract!vars
  <2>1. \A q \in Procs : Phase(q)' = Phase(q) /\ (Phase(q) # "idle" => want'[q] = want[q])
    BY <1>3 DEF LockMu, FindEntry, CreateEntry, CountIn, CountOut
  <2>2. QED
    BY <2>1 DEF Abstract!vars
<1>4. ASSUME NEW p \in Procs, LockEntry(p)
      PROVE  Abstract!Enter(p)
  <2>1. ASSUME NEW q \in Procs, pc[q] = "held", want[q] = want[p]
        PROVE  FALSE
    BY <1>4, <2>1 DEF LockEntry, EntryInMap, HeldOwns, Counted
  <2>2. QED
    BY <1>4, <2>1 DEF LockEntry, Abstract!Enter
<1>5. ASSUME NEW p \in Procs, UnlockEntry(p)
      PROVE  Abstract!Leave(p)
  BY <1>5 DEF UnlockEntry, Abstract!Leave
<1>6. QED
  BY <1>1, <1>2, <1>3, <1>4, <1>5 DEF Next, Abstract!Next

THEOREM MapIsOneLockPerId == Spec => Abstract!SafeSpec
<1>1. Init => Abstract!Init
  BY DEF Init, Abstract!Init, Phase
<1>2. IInv /\ [Next]_vars => [Abstract!Next]_(Abstract!vars)
  BY StepsRefine
<1>3. QED
  BY <1>1, <1>2, InductiveInvariant, PTL DEF Spec, Abstract!SafeSpec

=============================================================================
