--------------------------- MODULE RetentionProofs ---------------------------
(***************************************************************************)
(* Retention over any calendar of months of 28 to 31 days, any policies,   *)
(* apps, IDs and instants of it, and any number of deposits: a purge takes *)
(* what its policy does not promise and leaves what it promises, and       *)
(* purging often loses nothing early.                                      *)
(*                                                                         *)
(* The calendar comes first: the months, which a recursive function lays   *)
(* end to end, order the days as dates do, so that the cutoff handed to    *)
(* the database is the window in months a policy promises.  Then what      *)
(* Expired chooses, both ways.  Then RInv, the invariant of the handlers:  *)
(* what a purge under way still holds true of its candidates, and what is  *)
(* true for ever of a capsule once it is gone.  What a deposit, a purge or *)
(* time does to a promise always goes one way, by PromiseShrinks and       *)
(* PromiseExpires.                                                         *)
(***************************************************************************)
EXTENDS Retention, WellFoundedInduction, FiniteSetTheorems, TLAPS

----------------------------------------------------------------------------
(* Least and greatest elements.                                             *)
LEMMA LeastNat ==
    ASSUME NEW T \in SUBSET Nat, T # {}
    PROVE  \E x \in T : \A y \in T : x <= y
<1> DEFINE R == OpToRel(<, Nat)
<1>1. IsWellFoundedOn(R, Nat)
  BY NatLessThanWellFounded
<1>2. PICK x \in T : \A y \in T : ~ (<<y, x>> \in R)
  <2> HIDE DEF R
  <2> QED BY <1>1, WFMin
<1>3. \A y \in T : ~(y < x)
  BY <1>2 DEF OpToRel
<1> QED BY <1>3

(* A strict order has a maximal element in every finite set that has any. *)
LEMMA FiniteHasMaximal ==
    ASSUME NEW A, IsFiniteSet(A), A # {}, NEW R,
           \A x, y, z \in A : <<x, y>> \in R /\ <<y, z>> \in R => <<x, z>> \in R,
           \A x \in A : <<x, x>> \notin R
    PROVE  \E x \in A : \A y \in A : <<y, x>> \notin R
<1>1. PICK above \in [A -> SUBSET A] : \A x \in A : above[x] = {y \in A : <<y, x>> \in R}
  <2>1. [x \in A |-> {y \in A : <<y, x>> \in R}] \in [A -> SUBSET A]
    OBVIOUS
  <2>2. QED
    BY <2>1
<1>2. PICK size \in [A -> Nat] : \A x \in A : size[x] = Cardinality(above[x])
  <2>1. \A x \in A : Cardinality(above[x]) \in Nat
    BY FS_Subset, FS_CardinalityType
  <2>2. [x \in A |-> Cardinality(above[x])] \in [A -> Nat]
    BY <2>1
  <2>3. QED
    BY <2>2
<1>3. PICK x \in A : \A y \in A : size[x] <= size[y]
  <2>1. {size[x] : x \in A} \in SUBSET Nat /\ {size[x] : x \in A} # {}
    OBVIOUS
  <2>2. PICK n \in {size[x] : x \in A} : \A k \in {size[x] : x \in A} : n <= k
    BY <2>1, LeastNat
  <2>3. QED
    BY <2>2
<1>4. ASSUME NEW y \in A, <<y, x>> \in R PROVE FALSE
  <2>1. above[y] \in SUBSET above[x] /\ above[y] # above[x]
    BY <1>1, <1>4, ZenonT(30)
  <2>2. IsFiniteSet(above[x])
    BY FS_Subset
  <2>3. size[y] <= size[x] /\ size[y] # size[x]
    BY <1>2, <2>1, <2>2, FS_Subset
  <2>4. QED
    BY <1>2, <1>3, <2>3
<1>5. QED
  BY <1>4

----------------------------------------------------------------------------
(* The calendar: MonthStart is the function its recursion describes, since   *)
(* there is one for every length of calendar (there is no least without), it *)
(* increases, and every day of the calendar is of a month.                   *)
Starts(f, n) == f = [m \in 1..n |-> IF m <= 1 THEN 0 ELSE f[m - 1] + MonthDays[m - 1]]

LEMMA StartsExist == ASSUME NEW n \in Nat PROVE \E f : Starts(f, n)
<1> DEFINE Bad == {k \in Nat : ~ \E f : Starts(f, k)}
<1>1. ASSUME Bad # {} PROVE FALSE
  <2>1. PICK k \in Bad : \A j \in Bad : k <= j
    BY <1>1, LeastNat
  <2>2. k # 0
    <3>1. Starts([m \in 1..0 |-> 0], 0)
      BY DEF Starts
    <3>2. QED
      BY <2>1, <3>1
  <2>3. PICK f : Starts(f, k - 1)
    BY <2>1, <2>2
  <2>4. PICK g : g = [m \in 1..k |-> IF m <= 1 THEN 0 ELSE f[m - 1] + MonthDays[m - 1]]
    OBVIOUS
  <2>5. \A m \in 1..k : ~(m <= 1) => g[m - 1] = f[m - 1]
    <3> SUFFICES ASSUME NEW m \in 1..k, ~(m <= 1) PROVE g[m - 1] = f[m - 1]
      OBVIOUS
    <3>1. m - 1 \in 1..k /\ m - 1 \in 1..(k - 1)
      BY <2>1, <2>2
    <3>2. f[m - 1] = IF m - 1 <= 1 THEN 0 ELSE f[(m - 1) - 1] + MonthDays[(m - 1) - 1]
      BY <2>3, <3>1 DEF Starts
    <3>3. g[m - 1] = IF m - 1 <= 1 THEN 0 ELSE f[(m - 1) - 1] + MonthDays[(m - 1) - 1]
      BY <2>4, <3>1
    <3>4. QED
      BY <3>2, <3>3
  <2>6. g = [m \in 1..k |-> IF m <= 1 THEN 0 ELSE g[m - 1] + MonthDays[m - 1]]
    BY <2>4, <2>5
  <2>7. QED
    BY <2>1, <2>6 DEF Starts
<1>2. QED
  BY <1>1

LEMMA StartOfMonth ==
    /\ MonthStart[1] = 0
    /\ \A m \in Months : MonthStart[m + 1] = MonthStart[m] + MonthDays[m]
<1>1. Len(MonthDays) \in Nat /\ Months = 1..Len(MonthDays)
  BY CalendarAssumption DEF Months
<1>2. \E f : Starts(f, Len(MonthDays) + 1)
  BY <1>1, StartsExist
<1>3. Starts(MonthStart, Len(MonthDays) + 1)
  BY <1>2 DEF Starts, MonthStart
<1>4. QED
  BY <1>1, <1>3 DEF Starts

LEMMA StartIsNat ==
    ASSUME NEW k \in 1..(Len(MonthDays) + 1)
    PROVE  MonthStart[k] \in Nat /\ \A m \in 1..k : MonthStart[m] \in Nat /\ MonthStart[m] <= MonthStart[k]
<1> DEFINE Right(j) == \A m \in 1..j : /\ MonthStart[m] \in Nat /\ MonthStart[j] \in Nat
                                       /\ MonthStart[m] <= MonthStart[j]
           Wrong == {j \in 1..(Len(MonthDays) + 1) : ~Right(j)}
<1>1. Len(MonthDays) \in Nat /\ Months = 1..Len(MonthDays) /\ \A m \in Months : MonthDays[m] \in 28..31
  BY CalendarAssumption DEF Months
<1>2. ASSUME Wrong # {} PROVE FALSE
  <2> Wrong \in SUBSET Nat
    BY <1>1
  <2>1. PICK j \in Wrong : \A i \in Wrong : j <= i
    <3> HIDE DEF Wrong
    <3> QED
      BY <1>2, LeastNat
  <2>2. CASE j = 1
    BY <2>1, <2>2, StartOfMonth
  <2>3. CASE j # 1
    <3>1. j - 1 \in Months /\ (j - 1) + 1 = j /\ ~(j <= j - 1)
      BY <1>1, <2>1, <2>3
    <3>2. Right(j - 1)
      <4>1. j - 1 \notin Wrong /\ j - 1 \in 1..(Len(MonthDays) + 1)
        <5> HIDE DEF Wrong
        <5> QED
          BY <1>1, <2>1, <3>1
      <4> HIDE DEF Right
      <4>2. QED
        BY <4>1
    <3>3. MonthStart[j] = MonthStart[j - 1] + MonthDays[j - 1]
      BY <3>1, StartOfMonth
    <3>4. MonthStart[j - 1] \in Nat /\ MonthDays[j - 1] \in Nat
      BY <1>1, <3>1, <3>2, SMTT(30)
    <3>5. MonthStart[j] \in Nat /\ MonthStart[j - 1] <= MonthStart[j]
      BY <3>3, <3>4
    <3>6. ASSUME NEW m \in 1..j PROVE MonthStart[m] \in Nat /\ MonthStart[m] <= MonthStart[j]
      <4>1. m = j \/ m \in 1..(j - 1)
        BY <1>1, <2>1
      <4>2. QED
        BY <3>2, <3>4, <3>5, <4>1
    <3>7. QED
      BY <2>1, <3>5, <3>6
  <2>4. QED
    BY <2>2, <2>3
<1>3. QED
  BY <1>1, <1>2

Dated(t) == t \in Nat /\ Day(t) \in DOMAIN MonthOfDay

LEMMA DayHasMonth ==
    ASSUME NEW d \in DOMAIN MonthOfDay
    PROVE  /\ d \in Nat /\ MonthOfDay[d] \in Months
           /\ MonthStart[MonthOfDay[d]] <= d /\ d < MonthStart[MonthOfDay[d] + 1]
<1>1. /\ Len(MonthDays) \in Nat /\ Months = 1..Len(MonthDays)
      /\ MonthStart[Len(MonthDays) + 1] \in Nat
  BY CalendarAssumption, StartIsNat DEF Months
<1>2. d \in Nat /\ d < MonthStart[Len(MonthDays) + 1]
  BY <1>1 DEF MonthOfDay
<1>3. PICK k \in {j \in 1..(Len(MonthDays) + 1) : d < MonthStart[j]} :
         \A i \in {j \in 1..(Len(MonthDays) + 1) : d < MonthStart[j]} : k <= i
  <2> DEFINE After == {j \in 1..(Len(MonthDays) + 1) : d < MonthStart[j]}
  <2>1. After \in SUBSET Nat /\ Len(MonthDays) + 1 \in After
    BY <1>1, <1>2
  <2>2. \E k \in After : \A i \in After : k <= i
    <3> HIDE DEF After
    <3> QED
      BY <2>1, LeastNat
  <2>3. QED
    BY <2>2
<1>4. k # 1
  BY <1>2, <1>3, StartOfMonth
<1>5. k - 1 \in Months /\ (k - 1) + 1 = k /\ ~(k <= k - 1) /\ MonthStart[k - 1] \in Nat
  BY <1>1, <1>3, <1>4, StartIsNat
<1>6. MonthStart[k - 1] <= d /\ d < MonthStart[(k - 1) + 1]
  BY <1>1, <1>2, <1>3, <1>5
<1>7. MonthOfDay[d] = CHOOSE m \in Months : MonthStart[m] <= d /\ d < MonthStart[m + 1]
  BY DEF MonthOfDay
<1>8. QED
  BY <1>2, <1>5, <1>6, <1>7

(* An instant is a day and a time of that day, compared in that order.       *)
LEMMA DaysAndTime ==
    ASSUME NEW t \in Nat
    PROVE  /\ Day(t) \in Nat /\ TimeOfDay(t) \in 0..(TicksPerDay - 1)
           /\ t = Day(t) * TicksPerDay + TimeOfDay(t)
BY CalendarAssumption DEF Day, TimeOfDay

LEMMA Ticks ==
    ASSUME NEW a \in Int, NEW b \in Int, a + 1 <= b
    PROVE  a * TicksPerDay + TicksPerDay <= b * TicksPerDay
<1>1. TicksPerDay \in Nat /\ TicksPerDay > 0
  BY CalendarAssumption
<1>2. (b - a) - 1 \in Nat
  OBVIOUS
<1>3. ((b - a) - 1) * TicksPerDay >= 0
  BY <1>1, <1>2
<1>4. QED
  BY <1>1, <1>3

LEMMA DateOf ==
    ASSUME NEW t, Dated(t)
    PROVE  /\ MonthOf(t) \in Months
           /\ DayOfMonth(t) \in 0..(MonthDays[MonthOf(t)] - 1)
           /\ Day(t) = MonthStart[MonthOf(t)] + DayOfMonth(t)
<1>1. /\ MonthOf(t) \in Months /\ Day(t) \in Nat
      /\ MonthStart[MonthOf(t)] <= Day(t) /\ Day(t) < MonthStart[MonthOf(t) + 1]
  BY DayHasMonth DEF Dated, MonthOf
<1>2. /\ MonthStart[MonthOf(t)] \in Nat /\ MonthDays[MonthOf(t)] \in 28..31
      /\ MonthStart[MonthOf(t) + 1] = MonthStart[MonthOf(t)] + MonthDays[MonthOf(t)]
  BY <1>1, StartOfMonth, StartIsNat, CalendarAssumption DEF Months
<1>3. QED
  BY <1>1, <1>2 DEF DayOfMonth

LEMMA ByDay ==
    ASSUME NEW a \in Nat, NEW b \in Nat, NEW x \in 0..(TicksPerDay - 1), NEW y \in 0..(TicksPerDay - 1)
    PROVE  a * TicksPerDay + x >= b * TicksPerDay + y <=> a > b \/ (a = b /\ x >= y)
<1>1. PICK A \in Nat : A = a * TicksPerDay
  BY CalendarAssumption
<1>2. PICK B \in Nat : B = b * TicksPerDay
  BY CalendarAssumption
<1>3. PICK T \in Nat : T = TicksPerDay /\ x < T /\ y < T /\ x \in Nat /\ y \in Nat
  BY CalendarAssumption
<1>4. a > b => B + T <= A
  BY <1>1, <1>2, <1>3, Ticks
<1>5. a < b => A + T <= B
  BY <1>1, <1>2, <1>3, Ticks
<1>6. a = b => A = B
  BY <1>1, <1>2
<1>7. A + x >= B + y <=> a > b \/ (a = b /\ x >= y)
  BY <1>3, <1>4, <1>5, <1>6
<1>8. QED
  BY <1>1, <1>2, <1>7

(* A day is a month and a day of it, compared in that order.                 *)
LEMMA MonthsAreApart ==
    ASSUME NEW m \in Months, NEW k \in Months, k < m
    PROVE  MonthStart[k] + MonthDays[k] <= MonthStart[m]
<1>1. Len(MonthDays) \in Nat /\ Months = 1..Len(MonthDays)
  BY CalendarAssumption DEF Months
<1>2. k + 1 \in 1..m /\ m \in 1..(Len(MonthDays) + 1)
  BY <1>1
<1>3. MonthStart[k + 1] = MonthStart[k] + MonthDays[k]
  BY StartOfMonth
<1>4. QED
  BY <1>2, <1>3, StartIsNat

LEMMA ByMonth ==
    ASSUME NEW m \in Months, NEW d \in 0..(MonthDays[m] - 1),
           NEW k \in Months, NEW e \in 0..(MonthDays[k] - 1)
    PROVE  /\ MonthStart[m] + d \in Nat
           /\ MonthStart[m] + d > MonthStart[k] + e <=> m > k \/ (m = k /\ d > e)
           /\ MonthStart[m] + d = MonthStart[k] + e <=> m = k /\ d = e
<1>1. PICK M \in Nat : M = MonthStart[m]
  BY CalendarAssumption, StartIsNat DEF Months
<1>2. PICK K \in Nat : K = MonthStart[k]
  BY CalendarAssumption, StartIsNat DEF Months
<1>3. PICK dm \in Nat : dm = MonthDays[m] /\ d \in Nat /\ d < dm
  BY CalendarAssumption DEF Months
<1>4. PICK dk \in Nat : dk = MonthDays[k] /\ e \in Nat /\ e < dk
  BY CalendarAssumption DEF Months
<1>5. m \in Nat /\ k \in Nat
  BY CalendarAssumption DEF Months
<1>6. m > k => K + dk <= M
  BY <1>1, <1>2, <1>4, <1>5, MonthsAreApart
<1>7. m < k => M + dm <= K
  BY <1>1, <1>2, <1>3, <1>5, MonthsAreApart
<1>8. m = k => M = K
  BY <1>1, <1>2
<1>9. /\ M + d \in Nat
      /\ M + d > K + e <=> m > k \/ (m = k /\ d > e)
      /\ M + d = K + e <=> m = k /\ d = e
  BY <1>3, <1>4, <1>5, <1>6, <1>7, <1>8
<1>10. QED
  BY <1>1, <1>2, <1>9

(* And so an instant is at a date and a time, or past them.                  *)
LEMMA ByDate ==
    ASSUME NEW t, Dated(t), NEW m \in Months, NEW d \in 0..(MonthDays[m] - 1), NEW x \in 0..(TicksPerDay - 1)
    PROVE  t >= (MonthStart[m] + d) * TicksPerDay + x <=>
              \/ MonthOf(t) > m
              \/ MonthOf(t) = m /\ DayOfMonth(t) > d
              \/ MonthOf(t) = m /\ DayOfMonth(t) = d /\ TimeOfDay(t) >= x
<1>1. /\ MonthOf(t) \in Months /\ DayOfMonth(t) \in 0..(MonthDays[MonthOf(t)] - 1)
      /\ Day(t) = MonthStart[MonthOf(t)] + DayOfMonth(t)
  BY DateOf
<1>2. /\ t = Day(t) * TicksPerDay + TimeOfDay(t) /\ TimeOfDay(t) \in 0..(TicksPerDay - 1) /\ Day(t) \in Nat
  BY DaysAndTime DEF Dated
<1>3. PICK b \in Nat : b = MonthStart[m] + d
  BY ByMonth
<1>4. t >= b * TicksPerDay + x <=> Day(t) > b \/ (Day(t) = b /\ TimeOfDay(t) >= x)
  BY <1>2, ByDay
<1>5. /\ Day(t) > b <=> MonthOf(t) > m \/ (MonthOf(t) = m /\ DayOfMonth(t) > d)
      /\ Day(t) = b <=> MonthOf(t) = m /\ DayOfMonth(t) = d
  BY <1>1, <1>3, ByMonth
<1>6. QED
  BY <1>3, <1>4, <1>5

----------------------------------------------------------------------------
(* Promises.  B covers A when it has all that a policy sees of A's capsules. *)
Same(c, d) == c.product = d.product /\ c.at = d.at /\ c.id = d.id
Covers(B, A) == \A d \in A : \E e \in B : Same(e, d)

(* "Not more than n months ago", month ends clamped, is "from the cutoff on". *)
LEMMA WithinIsCutoff ==
    ASSUME NEW p \in Policy, NEW at, NEW now, Dated(at), Dated(now), p.months > 0
    PROVE  WithinMonths(p.months, at, now) <=> at >= MonthlyCutoff(p, now)
<1>1. Len(MonthDays) \in Nat /\ Months = 1..Len(MonthDays) /\ \A k \in Months : MonthDays[k] \in 28..31
  BY CalendarAssumption DEF Months
<1>2. PICK n \in Nat : n = p.months
  BY DEF Policy
<1>3. PICK N \in Months : N = MonthOf(now)
  BY DateOf
<1>4. PICK A \in Months : A = MonthOf(at)
  BY DateOf
<1>5. PICK D \in Nat : D = DayOfMonth(now)
  BY <1>1, DateOf
<1>6. PICK d \in 0..(MonthDays[A] - 1) : d = DayOfMonth(at)
  BY <1>4, DateOf
<1>7. PICK X \in Nat : X = TimeOfDay(now) /\ X \in 0..(TicksPerDay - 1)
  BY DaysAndTime, CalendarAssumption DEF Dated
<1>8. PICK x \in Nat : x = TimeOfDay(at)
  BY DaysAndTime, CalendarAssumption DEF Dated
<1>9. N \in Nat /\ A \in Nat /\ A >= 1 /\ n > 0 /\ at \in Nat
  BY <1>1, <1>2 DEF Dated
<1>10. WithinMonths(n, at, now) <=>
         \/ N - A < n
         \/ /\ N - A = n
            /\ d > D \/ (d \in {D, MonthDays[A] - 1} /\ d <= D /\ x >= X)
  BY <1>3, <1>4, <1>5, <1>6, <1>7, <1>8 DEF WithinMonths
<1>11. CASE N - n < 1
  <2>1. MonthlyCutoff(p, now) = 0
    BY <1>2, <1>3, <1>11 DEF MonthlyCutoff
  <2>2. N - A < n
    BY <1>9, <1>11
  <2>3. QED
    BY <1>2, <1>9, <1>10, <2>1, <2>2
<1>12. CASE N - n >= 1
  <2>1. PICK m \in Months : m = N - n
    BY <1>1, <1>9, <1>12
  <2>2. PICK day : day = IF D < MonthDays[m] THEN D ELSE MonthDays[m] - 1
    OBVIOUS
  <2>3. PICK days \in 28..31 : days = MonthDays[m]
    BY <1>1
  <2>4. day \in 0..(MonthDays[m] - 1)
    BY <2>2, <2>3
  <2>5. MonthlyCutoff(p, now) = (MonthStart[m] + day) * TicksPerDay + X
    BY <1>2, <1>3, <1>5, <1>7, <1>9, <1>12, <2>1, <2>2 DEF MonthlyCutoff
  <2>6. at >= MonthlyCutoff(p, now) <=> A > m \/ (A = m /\ d > day) \/ (A = m /\ d = day /\ x >= X)
    BY <1>4, <1>6, <1>7, <1>8, <2>4, <2>5, ByDate
  <2>7. A > m <=> N - A < n
    BY <1>9, <2>1
  <2>8. A = m <=> N - A = n
    BY <1>9, <2>1
  <2>9. CASE A = m
    <3>1. d \in 0..(days - 1)
      BY <1>6, <2>3, <2>9
    <3>2. d > D \/ (d \in {D, days - 1} /\ d <= D /\ x >= X) <=> d > day \/ (d = day /\ x >= X)
      BY <2>2, <2>3, <3>1
    <3>3. QED
      BY <1>2, <1>10, <2>3, <2>6, <2>7, <2>8, <2>9, <3>2
  <2>10. CASE A # m
    BY <1>2, <1>10, <2>6, <2>7, <2>8, <2>10
  <2>11. QED
    BY <2>9, <2>10
<1>13. QED
  BY <1>9, <1>11, <1>12

LEMMA CutoffIsInt ==
    ASSUME NEW p \in Policy, NEW now, Dated(now)
    PROVE  MonthlyCutoff(p, now) \in Int
<1>1. Len(MonthDays) \in Nat /\ Months = 1..Len(MonthDays) /\ \A k \in Months : MonthDays[k] \in 28..31
  BY CalendarAssumption DEF Months
<1>2. PICK N \in Months : N = MonthOf(now)
  BY DateOf
<1>3. PICK D \in Nat : D = DayOfMonth(now)
  BY <1>1, DateOf
<1>4. PICK X \in Nat : X = TimeOfDay(now)
  BY DaysAndTime, CalendarAssumption DEF Dated
<1>5. PICK m \in Int : m = N - p.months /\ m <= N
  BY <1>1 DEF Policy
<1>6. CASE m < 1
  BY <1>2, <1>5, <1>6 DEF MonthlyCutoff
<1>7. CASE m >= 1
  <2>1. m \in Months
    BY <1>1, <1>5, <1>7
  <2>2. PICK start \in Nat : start = MonthStart[m]
    BY <1>1, <2>1, StartIsNat
  <2>3. PICK days \in 28..31 : days = MonthDays[m]
    BY <1>1, <2>1
  <2>4. PICK day \in Nat : day = IF D < days THEN D ELSE days - 1
    BY <2>3
  <2>5. MonthlyCutoff(p, now) = (start + day) * TicksPerDay + X
    BY <1>2, <1>3, <1>4, <1>5, <1>7, <2>2, <2>3, <2>4 DEF MonthlyCutoff
  <2>6. QED
    BY <2>5, CalendarAssumption
<1>8. QED
  BY <1>5, <1>6, <1>7

Among(S) == /\ IsFiniteSet(S)
            /\ \A c \in S : Dated(c.at) /\ c.id \in Nat
            /\ \A c, d \in S : c.id = d.id => c = d

(* What selectNewest passes over, it passes over for one it keeps.           *)
LEMMA NewestExists ==
    ASSUME NEW S, Among(S), NEW cutoff \in Int, NEW period,
           NEW c \in S, c.at >= cutoff, c \notin NewestFrom(cutoff, S, period)
    PROVE  \E x \in NewestFrom(cutoff, S, period) :
              x.product = c.product /\ period[x] = period[c] /\ Later(x, c)
<1> DEFINE A == {d \in S : d.at >= cutoff /\ d.product = c.product /\ period[d] = period[c]}
           R == {q \in A \X A : Later(q[1], q[2])}
<1>1. A \subseteq S /\ c \in A /\ IsFiniteSet(A)
  <2>1. A \in SUBSET S /\ c \in A
    OBVIOUS
  <2>2. QED
    BY <2>1, FS_Subset DEF Among
<1>2. \A x, y \in A : <<x, y>> \in R <=> Later(x, y)
  OBVIOUS
<1>3. \A x \in A : x.at \in Nat /\ x.id \in Nat
  BY <1>1 DEF Among, Dated
<1>4. PICK x \in A : \A y \in A : <<y, x>> \notin R
  <2>1. \A x, y, z \in A : Later(x, y) /\ Later(y, z) => Later(x, z)
    BY <1>3 DEF Later
  <2>2. \A x \in A : ~Later(x, x)
    BY <1>3 DEF Later
  <2> HIDE DEF A, R
  <2>3. \A x, y, z \in A : <<x, y>> \in R /\ <<y, z>> \in R => <<x, z>> \in R
    BY <1>2, <2>1
  <2>4. IsFiniteSet(A) /\ A # {} /\ \A x \in A : <<x, x>> \notin R
    BY <1>1, <1>2, <2>2
  <2>5. QED
    BY <2>3, <2>4, FiniteHasMaximal
<1>5. \A y \in A \ {x} : Later(x, y)
  <2> SUFFICES ASSUME NEW y \in A, y # x PROVE Later(x, y)
    OBVIOUS
  <2>1. y.id # x.id
    BY <1>1 DEF Among
  <2>2. ~Later(y, x)
    BY <1>2, <1>4
  <2>3. QED
    BY <1>3, <2>1, <2>2 DEF Later
<1>6. x \in NewestFrom(cutoff, S, period)
  BY <1>5 DEF NewestFrom
<1>7. QED
  BY <1>1, <1>5, <1>6

(* A capsule that is not promised never will be: not among more capsules ... *)
LEMMA SupersededGrows ==
    ASSUME NEW A, NEW B, Covers(B, A), NEW c, NEW e, Same(c, e)
    PROVE  /\ Superseded(c, A, WeekOf) => Superseded(e, B, WeekOf)
           /\ Superseded(c, A, MonthOf) => Superseded(e, B, MonthOf)
BY DEF Superseded, Covers, Same

LEMMA PromiseShrinks ==
    ASSUME NEW A, NEW B, Covers(B, A), NEW c, NEW e, Same(c, e), NEW p, NEW now,
           ~Promised(c, A, p, now)
    PROVE  ~Promised(e, B, p, now)
<1>1. e.at = c.at
  BY DEF Same
<1>2. QED
  BY <1>1, SupersededGrows DEF Promised

(* ... and not later, save where the month's cutoff steps back.              *)
LEMMA PromiseExpires ==
    ASSUME NEW A, NEW c, Dated(c.at), NEW p \in Policy, NEW now, NEW later,
           Dated(now), Dated(later), now <= later, ~Promised(c, A, p, now)
    PROVE  ~Promised(c, A, p, later) \/ MonthlyCutoff(p, later) < MonthlyCutoff(p, now)
<1>1. PICK days \in Nat : days = p.days * TicksPerDay
  BY CalendarAssumption DEF Policy
<1>2. PICK weeks \in Nat : weeks = 7 * p.weeks * TicksPerDay
  BY CalendarAssumption, SMTT(30) DEF Policy
<1>3. c.at \in Nat /\ now \in Nat /\ later \in Nat
  BY DEF Dated
<1>4. ~(later < c.at + days) /\ (later <= c.at + weeks => now <= c.at + weeks)
  BY <1>1, <1>2, <1>3 DEF Promised
<1>5. ASSUME p.months > 0, WithinMonths(p.months, c.at, later), ~WithinMonths(p.months, c.at, now)
      PROVE  MonthlyCutoff(p, later) < MonthlyCutoff(p, now)
  <2>1. c.at >= MonthlyCutoff(p, later) /\ ~(c.at >= MonthlyCutoff(p, now))
    BY <1>5, WithinIsCutoff
  <2>2. MonthlyCutoff(p, later) \in Int /\ MonthlyCutoff(p, now) \in Int
    BY CutoffIsInt
  <2>3. QED
    BY <1>3, <2>1, <2>2
<1>6. QED
  BY <1>1, <1>2, <1>3, <1>4, <1>5 DEF Promised

\* Whatever a nonzero policy and whatever capsules of distinct IDs there are, what
\* retentionCandidates does not choose is in a window: recent, or the newest of its
\* app in a week or a month the policy still reaches.
THEOREM ChoiceKeepsThePromised ==
    ASSUME NEW S, Among(S), NEW p \in Policy, p.days > 0, NEW now, Dated(now),
           NEW c \in S, c \notin Expired(S, p, now)
    PROVE  Promised(c, S, p, now)
<1>1. \A d \in S : d.at \in Nat /\ d.id \in Nat
  BY DEF Among, Dated
<1>2. now \in Nat /\ DailyCutoff(p, now) \in Int /\ WeeklyCutoff(p, now) \in Int
  BY CalendarAssumption DEF Dated, DailyCutoff, WeeklyCutoff, Policy
<1>3. \/ c.at > DailyCutoff(p, now)
      \/ p.weeks > 0 /\ c \in NewestFrom(WeeklyCutoff(p, now), S, WeekOfEach(S))
      \/ p.months > 0 /\ c \in NewestFrom(MonthlyCutoff(p, now), S, MonthOfEach(S))
  BY DEF Expired, Policy
<1>4. CASE c.at > DailyCutoff(p, now)
  <2>1. PICK days \in Nat : days = p.days * TicksPerDay
    BY CalendarAssumption DEF Policy
  <2>2. now < c.at + days
    BY <1>1, <1>2, <1>4, <2>1 DEF DailyCutoff
  <2>3. QED
    BY <2>1, <2>2 DEF Promised
<1>5. CASE p.weeks > 0 /\ c \in NewestFrom(WeeklyCutoff(p, now), S, WeekOfEach(S))
  <2>1. PICK weeks \in Nat : weeks = 7 * p.weeks * TicksPerDay
    BY CalendarAssumption, SMTT(30) DEF Policy
  <2>2. now <= c.at + weeks /\ c.at >= WeeklyCutoff(p, now)
    BY <1>1, <1>2, <1>5, <2>1 DEF WeeklyCutoff, NewestFrom
  <2>3. ~Superseded(c, S, WeekOf)
    BY <1>1, <1>2, <1>5, <2>2 DEF Superseded, NewestFrom, WeekOfEach, Later
  <2>4. QED
    BY <1>5, <2>1, <2>2, <2>3 DEF Promised
<1>6. CASE p.months > 0 /\ c \in NewestFrom(MonthlyCutoff(p, now), S, MonthOfEach(S))
  <2>1. MonthlyCutoff(p, now) \in Int
    BY CutoffIsInt
  <2>2. c.at >= MonthlyCutoff(p, now)
    BY <1>6 DEF NewestFrom
  <2>3. WithinMonths(p.months, c.at, now)
    BY <1>6, <2>2, WithinIsCutoff DEF Among
  <2>4. ~Superseded(c, S, MonthOf)
    BY <1>1, <1>6, <2>1, <2>2 DEF Superseded, NewestFrom, MonthOfEach, Later
  <2>5. QED
    BY <1>6, <2>3, <2>4 DEF Promised
<1>7. QED
  BY <1>3, <1>4, <1>5, <1>6

\* What retentionCandidates chooses is in no window, even when only the capsules it
\* leaves are counted: none of them is expired because of another that goes too.
THEOREM ChoiceTakesTheUnpromised ==
    ASSUME NEW S, Among(S), NEW p \in Policy, p.days > 0, NEW now, Dated(now),
           NEW c \in Expired(S, p, now)
    PROVE  c \in S /\ ~Promised(c, S \ Expired(S, p, now), p, now)
<1> DEFINE kept == S \ Expired(S, p, now)
<1>1. \A d \in S : d.at \in Nat /\ d.id \in Nat
  BY DEF Among, Dated
<1>2. now \in Nat /\ DailyCutoff(p, now) \in Int /\ WeeklyCutoff(p, now) \in Int
  BY CalendarAssumption DEF Dated, DailyCutoff, WeeklyCutoff, Policy
<1>3. /\ c \in S /\ ~(c.at > DailyCutoff(p, now))
      /\ p.weeks > 0 => /\ c \notin NewestFrom(WeeklyCutoff(p, now), S, WeekOfEach(S))
                        /\ NewestFrom(WeeklyCutoff(p, now), S, WeekOfEach(S)) \subseteq kept
      /\ p.months > 0 => /\ c \notin NewestFrom(MonthlyCutoff(p, now), S, MonthOfEach(S))
                         /\ NewestFrom(MonthlyCutoff(p, now), S, MonthOfEach(S)) \subseteq kept
  <2>1. /\ NewestFrom(WeeklyCutoff(p, now), S, WeekOfEach(S)) \subseteq S
        /\ NewestFrom(MonthlyCutoff(p, now), S, MonthOfEach(S)) \subseteq S
    BY DEF NewestFrom
  <2>2. QED
    BY <2>1 DEF Expired, Policy
<1>4. ~(now < c.at + p.days * TicksPerDay)
  <2>1. PICK days \in Nat : days = p.days * TicksPerDay
    BY CalendarAssumption DEF Policy
  <2>2. QED
    BY <1>1, <1>2, <1>3, <2>1 DEF DailyCutoff
<1>5. ASSUME p.weeks > 0, now <= c.at + 7 * p.weeks * TicksPerDay PROVE Superseded(c, kept, WeekOf)
  <2>1. PICK weeks \in Nat : weeks = 7 * p.weeks * TicksPerDay
    BY CalendarAssumption, SMTT(30) DEF Policy
  <2>2. c.at >= WeeklyCutoff(p, now)
    BY <1>1, <1>2, <1>3, <1>5, <2>1 DEF WeeklyCutoff
  <2>3. PICK x \in NewestFrom(WeeklyCutoff(p, now), S, WeekOfEach(S)) :
           x.product = c.product /\ WeekOfEach(S)[x] = WeekOfEach(S)[c] /\ Later(x, c)
    BY <1>2, <1>3, <1>5, <2>2, NewestExists
  <2>4. x \in kept /\ x \in S
    BY <1>3, <1>5, <2>3
  <2>5. WeekOf(x.at) = WeekOf(c.at)
    BY <1>3, <2>3, <2>4 DEF WeekOfEach
  <2>6. QED
    BY <2>3, <2>4, <2>5 DEF Superseded, Later
<1>6. ASSUME p.months > 0, WithinMonths(p.months, c.at, now) PROVE Superseded(c, kept, MonthOf)
  <2>1. c.at >= MonthlyCutoff(p, now) /\ MonthlyCutoff(p, now) \in Int
    BY <1>3, <1>6, WithinIsCutoff, CutoffIsInt DEF Among
  <2>2. PICK x \in NewestFrom(MonthlyCutoff(p, now), S, MonthOfEach(S)) :
           x.product = c.product /\ MonthOfEach(S)[x] = MonthOfEach(S)[c] /\ Later(x, c)
    BY <1>3, <1>6, <2>1, NewestExists
  <2>3. x \in kept /\ x \in S
    BY <1>3, <1>6, <2>2
  <2>4. MonthOf(x.at) = MonthOf(c.at)
    BY <1>3, <2>2, <2>3 DEF MonthOfEach
  <2>5. QED
    BY <2>2, <2>3, <2>4 DEF Superseded, Later
<1>7. QED
  BY <1>3, <1>4, <1>5, <1>6 DEF Promised

----------------------------------------------------------------------------
(* The invariant.                                                           *)
Jobs == [step : {"list", "settle", "remove"}, policy : Policies, now : Instants,
         todo : SUBSET Ids, stable : SUBSET Nat, expired : SUBSET Nat]
Whole == {"stored", "unlinked"}
Ever == {"stored", "unlinked", "purged"}

Typed ==
    /\ clock \in Instants
    /\ caps \in Seq(Capsule) /\ Len(caps) <= MaxDeposits
    /\ saved \in Policies \cup {KeepForever}
    /\ job = NoJob \/ job \in Jobs

(* capsules.id is the primary key.                                          *)
OneRowEach ==
    \A r, s \in Receipts :
        /\ caps[r].life \in {"publishing", "stored", "unlinked"}
        /\ caps[s].life \in {"publishing", "stored", "unlinked"}
        /\ caps[r].id = caps[s].id
        => r = s

Past == \A r \in Receipts : caps[r].at <= clock
Unmarked == \A r \in Receipts : caps[r].life \in {"publishing", "stored"} => caps[r].by = NoPurge

(* A purge under way: the policy it runs by is still the one saved; what it  *)
(* has listed is complete; what it still means to remove is promised nothing *)
(* among what it spares, and the rest it listed is gone or promised.         *)
Kept == {r \in job.stable \ job.expired : caps[r].life \in Whole}
JobFits ==
    /\ job.policy = saved /\ job.now <= clock
    /\ job.stable \subseteq Receipts /\ job.expired \subseteq job.stable
Settling == job.expired = {} /\ \A r \in job.stable : caps[r].life \in Whole
Removing ==
    /\ \A r \in job.expired : /\ caps[r].life \in Whole
                              /\ ~Promised(caps[r], Records(Kept), job.policy, job.now)
    /\ \A r \in job.stable \ job.expired :
          caps[r].life = "purged" \/ Promised(caps[r], Records(job.stable), job.policy, job.now)
Working == job # NoJob =>
    /\ JobFits
    /\ job.step # "remove" => Settling
    /\ job.step = "remove" => Removing

(* What is gone was not promised when it went, counting every backup since.  *)
Gone == \A r \in Receipts : caps[r].life \in {"unlinked", "purged"} =>
    /\ caps[r].by \in [policy : Policies, now : Instants] /\ caps[r].by.now <= clock
    /\ ~Promised(caps[r], Records(Having(Ever)), caps[r].by.policy, caps[r].by.now)

RInv == Typed /\ OneRowEach /\ Past /\ Unmarked /\ Working /\ Gone

LEMMA Constants ==
    /\ \A t \in Instants : Dated(t) /\ t \in Nat
    /\ \A p \in Policies : p \in Policy /\ p.days > 0
    /\ Ids \subseteq Nat /\ MaxDeposits \in Nat
BY RetentionAssumption DEF Dated

LEMMA InitRInv == Init => RInv
<1> SUFFICES ASSUME Init PROVE RInv
  OBVIOUS
<1>1. caps = <<>> /\ Receipts = {} /\ job = NoJob
  BY DEF Init, Receipts
<1>2. Typed
  BY <1>1, Constants DEF Init, Typed
<1>3. QED
  BY <1>1, <1>2 DEF RInv, OneRowEach, Past, Unmarked, Working, Gone

(* Steps that leave the rows alone keep what is said of rows.               *)
LEMMA RowsUntouched ==
    ASSUME RInv, UNCHANGED caps, clock' \in Instants, clock <= clock'
    PROVE  OneRowEach' /\ Past' /\ Unmarked' /\ Gone'
<1>1. OneRowEach' /\ Unmarked'
  <2>1. OneRowEach /\ Unmarked
    BY DEF RInv
  <2>2. OneRowEach'
    BY <2>1 DEF OneRowEach, Receipts
  <2>3. QED
    BY <2>1, <2>2 DEF Unmarked, Receipts
<1>2. clock \in Nat /\ clock' \in Nat /\ \A r \in Receipts : caps[r].at \in Nat
  <2>1. clock \in Instants /\ \A r \in Receipts : caps[r] \in Capsule
    BY DEF RInv, Typed, Receipts
  <2>2. \A r \in Receipts : caps[r].at \in Instants
    BY <2>1 DEF Capsule
  <2>3. QED
    BY <2>1, <2>2, Constants
<1>3. Past'
  BY <1>2 DEF RInv, Past, Receipts
<1>4. Gone'
  <2>1. Records(Having(Ever))' = Records(Having(Ever))
    BY DEF Records, Having, Receipts
  <2>2. \A r \in Receipts : caps[r].life \in {"unlinked", "purged"} =>
           caps[r].by.now <= clock /\ caps[r].by.now \in Nat
    BY Constants DEF RInv, Gone
  <2>3. QED
    BY <1>2, <2>1, <2>2 DEF RInv, Gone, Receipts
<1>5. QED
  BY <1>1, <1>3, <1>4

LEMMA TickKeeps == ASSUME RInv, Tick PROVE RInv'
<1>1. clock' \in Instants /\ clock' > clock /\ clock \in Instants /\ UNCHANGED <<caps, saved, job>>
  BY DEF Tick, RInv, Typed
<1>2. clock <= clock' /\ clock \in Nat /\ clock' \in Nat
  BY <1>1, Constants
<1>3. Typed'
  BY <1>1 DEF RInv, Typed, Receipts
<1>4. Working'
  <2>1. job # NoJob => job.now \in Nat
    BY Constants DEF RInv, Typed, Jobs
  <2>2. Records(Kept)' = Records(Kept) /\ Records(job.stable)' = Records(job.stable)
    BY <1>1 DEF Records, Kept
  <2>3. JobFits /\ job # NoJob => JobFits'
    BY <1>1, <1>2, <2>1 DEF JobFits, Receipts
  <2>4. (Settling => Settling') /\ (Removing => Removing')
    BY <1>1, <2>2 DEF Settling, Removing
  <2>5. QED
    BY <1>1, <2>3, <2>4 DEF RInv, Working
<1>5. QED
  BY <1>1, <1>2, <1>3, <1>4, RowsUntouched DEF RInv

(* Steps of the retention handlers that leave the rows.                     *)
LEMMA JobKeeps ==
    ASSUME RInv, UNCHANGED <<clock, caps>>, Typed', Working'
    PROVE  RInv'
<1>1. clock' \in Instants /\ clock <= clock'
  BY Constants DEF RInv, Typed
<1>2. QED
  BY <1>1, RowsUntouched DEF RInv

LEMMA SaveKeeps == ASSUME RInv, NEW p \in Policies, Save(p) PROVE RInv'
<1>1. Typed' /\ Working'
  BY DEF RInv, Save, Typed, Working, Receipts
<1>2. QED
  BY <1>1, JobKeeps DEF Save

LEMMA BeginKeeps == ASSUME RInv, NEW p \in Policies, BeginPurge(p) PROVE RInv'
<1>1. /\ job' = [step |-> "list", policy |-> p, now |-> clock, todo |-> {}, stable |-> {}, expired |-> {}]
      /\ p = saved /\ UNCHANGED <<clock, caps, saved>>
  BY DEF BeginPurge
<1>2. Typed'
  BY <1>1 DEF RInv, Typed, Jobs, Receipts
<1>3. JobFits' /\ Settling'
  BY <1>1, Constants DEF RInv, Typed, JobFits, Settling, Receipts
<1>4. Working'
  BY <1>1, <1>3 DEF Working
<1>5. QED
  BY <1>1, <1>2, <1>4, JobKeeps

LEMMA ListKeeps == ASSUME RInv, List PROVE RInv'
<1>1. /\ job # NoJob /\ job \in Jobs /\ job.step = "list" /\ UNCHANGED <<clock, caps, saved>>
      /\ job' = [job EXCEPT !.step = "settle", !.todo = {id \in Ids : RowsOf(id) # {}}]
  BY DEF List, Purging, RInv, Typed
<1>2. /\ job' \in Jobs /\ job'.step = "settle" /\ job'.stable = job.stable /\ job'.expired = job.expired
      /\ job'.policy = job.policy /\ job'.now = job.now
  BY <1>1 DEF Jobs
<1>3. Typed'
  BY <1>1, <1>2 DEF RInv, Typed, Receipts
<1>4. JobFits' /\ Settling'
  BY <1>1, <1>2 DEF RInv, Working, JobFits, Settling, Receipts
<1>5. Working'
  BY <1>2, <1>4 DEF Working
<1>6. QED
  BY <1>1, <1>3, <1>5, JobKeeps

LEMMA SettleKeeps == ASSUME RInv, NEW id \in Ids, Settle(id) PROVE RInv'
<1>1. /\ job # NoJob /\ job \in Jobs /\ job.step = "settle" /\ UNCHANGED <<clock, caps, saved>>
      /\ job' = [job EXCEPT !.todo = job.todo \ {id}, !.stable = job.stable \cup RowsOf(id)]
      /\ ~Locked(id)
  BY DEF Settle, Purging, RInv, Typed
<1>2. RowsOf(id) \subseteq Receipts /\ \A r \in RowsOf(id) : caps[r].life \in Whole
  BY <1>1 DEF Locked, RowsOf, Having, Whole
<1>3. Receipts \subseteq Nat
  BY DEF RInv, Typed, Receipts
<1>4. /\ job' \in Jobs /\ job'.step = "settle" /\ job'.stable = job.stable \cup RowsOf(id)
      /\ job'.expired = job.expired /\ job'.policy = job.policy /\ job'.now = job.now
  BY <1>1, <1>2, <1>3 DEF Jobs
<1>5. Typed'
  BY <1>1, <1>4 DEF RInv, Typed, Receipts
<1>6. JobFits' /\ Settling'
  BY <1>1, <1>2, <1>4 DEF RInv, Working, JobFits, Settling, Receipts
<1>7. Working'
  BY <1>4, <1>6 DEF Working
<1>8. QED
  BY <1>1, <1>5, <1>7, JobKeeps

(* Completed rows, by their IDs: what the choice can be made among.          *)
LEMMA RecordsAmong ==
    ASSUME RInv, NEW rs \in SUBSET Receipts, \A r \in rs : caps[r].life \in Whole
    PROVE  Among(Records(rs)) /\ \A r, s \in rs : caps[r] = caps[s] => r = s
<1>1. \A r \in rs : caps[r] \in Capsule
  BY DEF RInv, Typed, Receipts
<1>2. \A r, s \in rs : caps[r].id = caps[s].id => r = s
  BY DEF RInv, OneRowEach, Whole
<1>3. IsFiniteSet(Records(rs))
  <2>1. Len(caps) \in Nat /\ Receipts = 1..Len(caps)
    BY DEF RInv, Typed, Receipts
  <2>2. IsFiniteSet(rs)
    <3>1. IsFiniteSet(1..Len(caps))
      BY <2>1, FS_Interval
    <3>2. QED
      BY <2>1, <3>1, FS_Subset
  <2>3. [r \in rs |-> caps[r]] \in Surjection(rs, Records(rs))
    BY DEF Surjection, Records
  <2>4. QED
    BY <2>2, <2>3, FS_Surjection
<1>4. \A c \in Records(rs) : Dated(c.at) /\ c.id \in Nat
  BY <1>1, Constants DEF Records, Capsule
<1>5. QED
  BY <1>2, <1>3, <1>4 DEF Among, Records

LEMMA ChooseKeeps == ASSUME RInv, Choose PROVE RInv'
<1> DEFINE S == Records(job.stable)
           E == Expired(S, job.policy, job.now)
<1>1. /\ job # NoJob /\ job \in Jobs /\ job.step = "settle" /\ UNCHANGED <<clock, caps, saved>>
      /\ job' = [job EXCEPT !.step = "remove", !.expired = {r \in job.stable : caps[r] \in E}]
  BY DEF Choose, Purging, RInv, Typed
<1>2. JobFits /\ Settling
  BY <1>1 DEF RInv, Working
<1>3. /\ job' \in Jobs /\ job'.step = "remove" /\ job'.stable = job.stable
      /\ job'.expired = {r \in job.stable : caps[r] \in E}
      /\ job'.policy = job.policy /\ job'.now = job.now
  BY <1>1 DEF Jobs
<1>4. Among(S) /\ job.policy \in Policy /\ job.policy.days > 0 /\ Dated(job.now)
  BY <1>1, <1>2, RecordsAmong, Constants DEF JobFits, Settling, Jobs
<1>5. Typed' /\ JobFits'
  BY <1>1, <1>2, <1>3 DEF RInv, Typed, JobFits, Receipts
<1>6. Kept' = {r \in job.stable : caps[r] \notin E}
  BY <1>1, <1>2, <1>3 DEF Kept, Settling
<1>7. Records(Kept)' = S \ E /\ Records(job.stable)' = S
  BY <1>1, <1>3, <1>6 DEF Records
<1>8. \A r \in job.stable : caps[r] \in S
  BY DEF Records
<1>9. Removing'
  <2>1. ASSUME NEW r \in job.stable, caps[r] \in E
        PROVE  ~Promised(caps[r], S \ E, job.policy, job.now)
    BY <1>4, <2>1, ChoiceTakesTheUnpromised
  <2>2. ASSUME NEW r \in job.stable, caps[r] \notin E
        PROVE  Promised(caps[r], S, job.policy, job.now)
    BY <1>4, <1>8, <2>2, ChoiceKeepsThePromised
  <2> HIDE DEF S, E
  <2>3. QED
    BY <1>1, <1>2, <1>3, <1>7, <2>1, <2>2 DEF Removing, Settling
<1>10. Working'
  BY <1>3, <1>5, <1>9 DEF Working
<1>11. QED
  BY <1>1, <1>5, <1>10, JobKeeps

LEMMA ReturnKeeps == ASSUME RInv, Return PROVE RInv'
<1>1. Typed' /\ Working'
  BY DEF RInv, Return, Typed, Working, Receipts
<1>2. QED
  BY <1>1, JobKeeps DEF Return

(* A function on 1..n is a sequence. *)
LEMMA SeqOf ==
    ASSUME NEW S, NEW s, NEW n \in Nat, s = [i \in 1..n |-> s[i]], \A i \in 1..n : s[i] \in S
    PROVE  s \in Seq(S) /\ Len(s) = n
OBVIOUS

(* Steps on the rows: none is forgotten, and what a policy is about stays.  *)
Onward ==
    /\ Receipts \subseteq Receipts'
    /\ \A r \in Receipts : /\ Same(caps[r], caps'[r])
                           /\ caps[r].life \in Ever => caps'[r].life \in Ever

(* Every backup there has been stays one, so what is gone stays unpromised.  *)
LEMMA RowsCover ==
    ASSUME Onward
    PROVE  Covers(Records(Having(Ever))', Records(Having(Ever)))
<1>1. \A r \in Receipts : Same(caps'[r], caps[r])
  BY DEF Onward, Same
<1>2. Having(Ever) \subseteq Receipts /\ Having(Ever) \subseteq Having(Ever)'
  BY DEF Onward, Having
<1>3. Records(Having(Ever))' = {caps'[r] : r \in Having(Ever)'}
  BY DEF Records
<1>4. QED
  BY <1>1, <1>2, <1>3 DEF Covers, Records

LEMMA GoneStaysGone ==
    ASSUME RInv, Onward, clock' = clock, NEW r \in Receipts,
           caps[r].life \in {"unlinked", "purged"}, caps'[r].by = caps[r].by
    PROVE  /\ caps'[r].by \in [policy : Policies, now : Instants] /\ caps'[r].by.now <= clock'
           /\ ~Promised(caps'[r], Records(Having(Ever))', caps'[r].by.policy, caps'[r].by.now)
<1>1. /\ caps[r].by \in [policy : Policies, now : Instants] /\ caps[r].by.now <= clock
      /\ ~Promised(caps[r], Records(Having(Ever)), caps[r].by.policy, caps[r].by.now)
  BY DEF RInv, Gone
<1>2. Same(caps[r], caps'[r])
  BY DEF Onward
<1>3. QED
  BY <1>1, <1>2, RowsCover, PromiseShrinks

LEMMA InsertKeeps == ASSUME RInv, NEW id \in Ids, Insert(id) PROVE RInv'
<1> DEFINE new == [id |-> id, product |-> ProductOf[id], at |-> clock, life |-> "publishing", by |-> NoPurge]
           n == Len(caps) + 1
<1>1. /\ Len(caps) < MaxDeposits /\ RowsOf(id) = {} /\ caps' = Append(caps, new)
      /\ UNCHANGED <<clock, saved, job>>
  BY DEF Insert
<1>2. new \in Capsule /\ clock \in Instants
  BY DEF RInv, Typed, Capsule, Lives
<1>3. /\ caps \in Seq(Capsule) /\ Len(caps) \in Nat /\ Receipts = 1..Len(caps)
  BY DEF RInv, Typed, Receipts
<1> HIDE DEF new
<1>4. /\ caps' \in Seq(Capsule) /\ Len(caps') = Len(caps) + 1 /\ Receipts' = Receipts \cup {n} /\ n \notin Receipts
      /\ caps'[n] = new /\ \A r \in Receipts : caps'[r] = caps[r]
  BY <1>1, <1>2, <1>3 DEF Receipts
<1>5. new.id = id /\ new.life = "publishing" /\ new.at = clock /\ new.by = NoPurge
  BY DEF new
<1>6. Typed'
  <2>1. Len(caps') <= MaxDeposits
    BY <1>1, <1>3, <1>4, Constants
  <2>2. QED
    BY <1>1, <1>2, <1>4, <2>1 DEF RInv, Typed
<1>7. OneRowEach'
  <2>1. \A r \in Receipts : caps[r].life \in {"publishing", "stored", "unlinked"} => caps[r].id # id
    BY <1>1 DEF RowsOf, Having
  <2>2. OneRowEach
    BY DEF RInv
  <2>3. QED
    BY <1>4, <1>5, <2>1, <2>2 DEF OneRowEach
<1>8. Past' /\ Unmarked'
  <2>1. clock <= clock /\ Past /\ Unmarked
    BY <1>2, Constants DEF RInv
  <2>2. Past'
    BY <1>1, <1>4, <1>5, <2>1 DEF Past
  <2>3. QED
    BY <1>4, <1>5, <2>1, <2>2 DEF Unmarked
<1>9. Onward
  BY <1>4 DEF Onward, Same
<1>10. Gone'
  BY <1>1, <1>4, <1>5, <1>9, GoneStaysGone DEF Gone
<1>11. Working'
  <2> SUFFICES ASSUME job # NoJob PROVE Working'
    BY <1>1 DEF Working
  <2>1. JobFits
    BY DEF RInv, Working
  <2>2. JobFits'
    BY <1>1, <1>4, <2>1 DEF JobFits
  <2>3. Settling => Settling'
    BY <1>1, <1>4, <2>1 DEF Settling, JobFits
  <2>4. Records(Kept)' = Records(Kept) /\ Records(job.stable)' = Records(job.stable)
    BY <1>1, <1>4, <2>1 DEF Records, Kept, JobFits
  <2>5. Removing => Removing'
    BY <1>1, <1>4, <2>1, <2>4 DEF Removing, JobFits
  <2>6. QED
    BY <1>1, <2>2, <2>3, <2>5 DEF RInv, Working
<1>12. QED
  BY <1>6, <1>7, <1>8, <1>10, <1>11 DEF RInv

LEMMA PublishKeeps == ASSUME RInv, NEW r \in Receipts, Publish(r) PROVE RInv'
<1>1. PICK life \in {"stored", "failed"} : caps' = [caps EXCEPT ![r].life = life]
  BY DEF Publish
<1>2. caps[r].life = "publishing" /\ UNCHANGED <<clock, saved, job>>
  BY DEF Publish
<1>3. caps \in Seq(Capsule) /\ Len(caps) \in Nat /\ Receipts = 1..Len(caps) /\ \A q \in Receipts : caps[q] \in Capsule
  BY DEF RInv, Typed, Receipts
<1>4. caps'[r] = [caps[r] EXCEPT !.life = life] /\ \A q \in Receipts \ {r} : caps'[q] = caps[q]
  BY <1>1, <1>3
<1>5. /\ caps'[r] \in Capsule /\ caps'[r].life = life /\ caps'[r].id = caps[r].id /\ caps'[r].at = caps[r].at
      /\ caps'[r].product = caps[r].product /\ caps'[r].by = caps[r].by
  BY <1>3, <1>4 DEF Capsule, Lives
<1>6. caps' \in Seq(Capsule) /\ Len(caps') = Len(caps) /\ Receipts' = Receipts
  <2>1. DOMAIN caps' = 1..Len(caps) /\ \A q \in 1..Len(caps) : caps'[q] \in Capsule
    BY <1>1, <1>3, <1>4, <1>5
  <2>2. caps' \in Seq(Capsule) /\ Len(caps') = Len(caps)
    BY <1>1, <1>3, <2>1, SeqOf
  <2>3. QED
    BY <1>3, <2>1, <2>2 DEF Receipts
<1>7. Typed'
  BY <1>2, <1>6 DEF RInv, Typed
<1>8. OneRowEach'
  <2>1. OneRowEach
    BY DEF RInv
  <2>2. \A q \in Receipts : /\ caps'[q].id = caps[q].id
                            /\ caps'[q].life \in {"publishing", "stored", "unlinked"}
                                 => caps[q].life \in {"publishing", "stored", "unlinked"}
    BY <1>2, <1>4, <1>5
  <2>3. QED
    BY <1>6, <2>1, <2>2 DEF OneRowEach
<1>9. Past' /\ Unmarked'
  <2>1. Past /\ Unmarked
    BY DEF RInv
  <2>2. Past'
    BY <1>2, <1>4, <1>5, <1>6, <2>1 DEF Past
  <2>3. QED
    BY <1>2, <1>4, <1>5, <1>6, <2>1, <2>2 DEF Unmarked
<1>10. Onward
  BY <1>2, <1>4, <1>5, <1>6 DEF Onward, Same, Ever
<1>11. Gone'
  BY <1>2, <1>4, <1>5, <1>6, <1>10, GoneStaysGone DEF Gone
<1>12. Working'
  <2> SUFFICES ASSUME job # NoJob PROVE Working'
    BY <1>2 DEF Working
  <2>1. JobFits /\ (job.step # "remove" => Settling) /\ (job.step = "remove" => Removing)
    BY DEF RInv, Working
  <2>2. JobFits'
    BY <1>2, <1>6, <2>1 DEF JobFits
  <2>3. Settling => Settling'
    BY <1>2, <1>4, <2>1 DEF Settling, JobFits, Whole
  <2>4. Removing => Removing'
    <3> SUFFICES ASSUME Removing PROVE Removing'
      OBVIOUS
    <3>1. Covers(Records(Kept)', Records(Kept))
      <4>1. Kept \subseteq Kept' /\ \A q \in Kept : caps'[q] = caps[q]
        BY <1>2, <1>4, <2>1 DEF Kept, JobFits, Whole
      <4>2. QED
        BY <4>1 DEF Covers, Records, Same
    <3>2. Covers(Records(job.stable)', Records(job.stable)) /\ Covers(Records(job.stable), Records(job.stable)')
      <4>1. \A q \in job.stable : Same(caps'[q], caps[q]) /\ Same(caps[q], caps'[q])
        BY <1>4, <1>5, <2>1 DEF JobFits, Same
      <4>2. QED
        BY <1>2, <4>1 DEF Covers, Records
    <3>3. ASSUME NEW q \in job.expired
          PROVE  caps'[q].life \in Whole /\ ~Promised(caps'[q], Records(Kept)', job.policy, job.now)
      <4>1. caps'[q] = caps[q]
        BY <1>2, <1>4, <2>1 DEF Removing, JobFits, Whole
      <4>2. QED
        BY <3>1, <4>1, PromiseShrinks DEF Removing, Same
    <3>4. ASSUME NEW q \in job.stable \ job.expired
          PROVE  caps'[q].life = "purged" \/ Promised(caps'[q], Records(job.stable)', job.policy, job.now)
      <4>1. /\ q \in Receipts /\ Same(caps'[q], caps[q])
            /\ caps[q].life = "purged" => caps'[q].life = "purged"
        BY <1>2, <1>4, <1>5, <2>1 DEF JobFits, Same
      <4>2. Promised(caps[q], Records(job.stable), job.policy, job.now)
              => Promised(caps'[q], Records(job.stable)', job.policy, job.now)
        BY <3>2, <4>1, PromiseShrinks
      <4>3. QED
        BY <4>1, <4>2 DEF Removing
    <3>5. QED
      BY <1>2, <3>3, <3>4 DEF Removing
  <2>5. QED
    BY <1>2, <2>1, <2>2, <2>3, <2>4 DEF Working
<1>13. QED
  BY <1>7, <1>8, <1>9, <1>11, <1>12 DEF RInv

LEMMA RemoveKeeps == ASSUME RInv, NEW r \in Receipts, Remove(r) PROVE RInv'
<1>1. PICK life \in {"purged", "unlinked"} :
         /\ LET by == IF caps[r].by = NoPurge THEN [policy |-> job.policy, now |-> job.now]
                      ELSE caps[r].by
            IN  caps' = [caps EXCEPT ![r] = [caps[r] EXCEPT !.life = life, !.by = by]]
         /\ job' = IF life = "purged" THEN [job EXCEPT !.expired = @ \ {r}] ELSE NoJob
  BY DEF Remove
<1>2. /\ job # NoJob /\ job \in Jobs /\ job.step = "remove" /\ r \in job.expired
      /\ UNCHANGED <<clock, saved>>
  BY DEF Remove, Purging, RInv, Typed
<1>3. JobFits /\ Removing /\ caps[r].life \in Whole
  BY <1>2 DEF RInv, Working, Removing
<1>4. caps \in Seq(Capsule) /\ Len(caps) \in Nat /\ Receipts = 1..Len(caps) /\ \A q \in Receipts : caps[q] \in Capsule
  BY DEF RInv, Typed, Receipts
<1>5. PICK by : by = IF caps[r].by = NoPurge THEN [policy |-> job.policy, now |-> job.now] ELSE caps[r].by
  OBVIOUS
<1>6. PICK new : new = [caps[r] EXCEPT !.life = life, !.by = by] /\ caps' = [caps EXCEPT ![r] = new]
  BY <1>1, <1>5
<1>7. by \in Purges \cup {NoPurge}
  <2>1. [policy |-> job.policy, now |-> job.now] \in Purges
    BY <1>2, Constants DEF Jobs, Purges
  <2>2. caps[r].by \in Purges \cup {NoPurge}
    BY <1>4 DEF Capsule
  <2>3. QED
    BY <1>5, <2>1, <2>2
<1>8. /\ caps'[r] \in Capsule /\ caps'[r].life = life /\ caps'[r].id = caps[r].id /\ caps'[r].at = caps[r].at
      /\ caps'[r].product = caps[r].product /\ caps'[r].by = by
      /\ \A q \in Receipts \ {r} : caps'[q] = caps[q]
      /\ DOMAIN caps' = Receipts
  <2>1. /\ new \in Capsule /\ new.life = life /\ new.id = caps[r].id /\ new.at = caps[r].at
        /\ new.product = caps[r].product /\ new.by = by
    BY <1>4, <1>6, <1>7 DEF Capsule, Lives
  <2>2. caps'[r] = new /\ DOMAIN caps' = Receipts /\ \A q \in Receipts \ {r} : caps'[q] = caps[q]
    BY <1>4, <1>6 DEF Receipts
  <2>3. QED
    BY <2>1, <2>2
<1>9. caps' \in Seq(Capsule) /\ Len(caps') = Len(caps) /\ Receipts' = Receipts
  <2>1. DOMAIN caps' = 1..Len(caps) /\ \A q \in 1..Len(caps) : caps'[q] \in Capsule
    BY <1>4, <1>8
  <2>2. caps' \in Seq(Capsule) /\ Len(caps') = Len(caps)
    BY <1>4, <1>6, <2>1, SeqOf
  <2>3. QED
    BY <1>4, <2>1, <2>2 DEF Receipts
<1>10. life = "purged" =>
          /\ job' \in Jobs /\ job'.step = "remove" /\ job'.stable = job.stable
          /\ job'.expired = job.expired \ {r} /\ job'.policy = job.policy /\ job'.now = job.now
  BY <1>1, <1>2 DEF Jobs
<1>11. Typed'
  <2>1. Typed
    BY DEF RInv
  <2>2. job' = NoJob \/ job' \in Jobs
    <3>1. CASE life = "purged"
      BY <1>10, <3>1
    <3>2. CASE life = "unlinked"
      BY <1>1, <3>2
    <3>3. QED
      BY <3>1, <3>2
  <2>3. Len(caps') <= MaxDeposits
    BY <1>9, <2>1 DEF Typed
  <2>4. QED
    BY <1>2, <1>9, <2>1, <2>2, <2>3 DEF Typed
<1>12. OneRowEach'
  <2>1. OneRowEach
    BY DEF RInv
  <2>2. \A q \in Receipts : /\ caps'[q].id = caps[q].id
                            /\ caps'[q].life \in {"publishing", "stored", "unlinked"}
                                 => caps[q].life \in {"publishing", "stored", "unlinked"}
    BY <1>3, <1>8 DEF Whole
  <2>3. QED
    BY <1>9, <2>1, <2>2 DEF OneRowEach
<1>13. Past' /\ Unmarked'
  <2>1. Past /\ Unmarked
    BY DEF RInv
  <2>2. Past'
    BY <1>2, <1>8, <1>9, <2>1 DEF Past
  <2>3. QED
    BY <1>8, <1>9, <2>1, <2>2 DEF Unmarked
<1>14. Onward
  BY <1>8, <1>9 DEF Onward, Same, Ever
<1>15. Gone'
  <2>1. ASSUME NEW q \in Receipts, q # r, caps'[q].life \in {"unlinked", "purged"}
        PROVE  /\ caps'[q].by \in [policy : Policies, now : Instants] /\ caps'[q].by.now <= clock'
               /\ ~Promised(caps'[q], Records(Having(Ever))', caps'[q].by.policy, caps'[q].by.now)
    <3>1. caps'[q] = caps[q]
      BY <1>8, <2>1
    <3>2. QED
      BY <1>2, <1>14, <2>1, <3>1, GoneStaysGone
  <2>2. /\ by \in [policy : Policies, now : Instants] /\ by.now <= clock'
        /\ ~Promised(caps'[r], Records(Having(Ever))', by.policy, by.now)
    <3>1. CASE caps[r].by = NoPurge
      <4>1. by.policy = job.policy /\ by.now = job.now /\ by \in [policy : Policies, now : Instants]
        BY <1>2, <1>5, <3>1 DEF Jobs
      <4>2. by.now <= clock'
        BY <1>2, <1>3, <4>1 DEF JobFits
      <4>3. ~Promised(caps[r], Records(Kept), job.policy, job.now)
        BY <1>2, <1>3 DEF Removing
      <4>4. Covers(Records(Having(Ever))', Records(Kept))
        <5>1. \A q \in Kept : q \in Having(Ever)' /\ Same(caps'[q], caps[q])
          BY <1>3, <1>8, <1>9 DEF Kept, JobFits, Having, Whole, Ever, Same
        <5>2. QED
          BY <5>1 DEF Covers, Records
      <4>5. Same(caps[r], caps'[r])
        BY <1>8 DEF Same
      <4>6. QED
        BY <4>1, <4>2, <4>3, <4>4, <4>5, PromiseShrinks
    <3>2. CASE caps[r].by # NoPurge
      <4>1. caps[r].life \in {"unlinked", "purged"}
        BY <1>3, <3>2 DEF RInv, Unmarked, Whole
      <4>2. caps'[r].by = caps[r].by /\ by = caps[r].by
        BY <1>5, <1>8, <3>2
      <4>3. QED
        BY <1>2, <1>14, <4>1, <4>2, GoneStaysGone
    <3>3. QED
      BY <3>1, <3>2
  <2>3. QED
    BY <1>8, <1>9, <2>1, <2>2 DEF Gone
<1>16. Working'
  <2>1. CASE life = "unlinked"
    BY <1>1, <2>1 DEF Working
  <2>2. CASE life = "purged"
    <3>1. JobFits'
      BY <1>2, <1>3, <1>9, <1>10, <2>2 DEF JobFits
    <3>2. Kept' = Kept /\ \A q \in Kept : caps'[q] = caps[q]
      <4>1. r \notin Kept /\ Kept \subseteq Receipts
        BY <1>2, <1>3 DEF Kept, JobFits
      <4>2. \A q \in job.stable \ job'.expired : q = r \/ (q \notin job.expired /\ caps'[q] = caps[q])
        BY <1>3, <1>8, <1>10, <2>2 DEF JobFits
      <4>3. caps'[r].life \notin Whole
        BY <1>8, <2>2 DEF Whole
      <4>4. Kept' = {q \in job.stable \ job'.expired : caps'[q].life \in Whole}
        BY <1>10, <2>2 DEF Kept
      <4>5. Kept' \subseteq Kept
        BY <4>2, <4>3, <4>4 DEF Kept
      <4>6. Kept \subseteq Kept'
        BY <1>8, <1>10, <2>2, <4>1, <4>4 DEF Kept
      <4>7. QED
        BY <1>8, <4>1, <4>5, <4>6
    <3>3. Records(Kept)' = Records(Kept)
      BY <3>2 DEF Records
    <3>4. Covers(Records(job.stable), Records(job.stable)')
      <4>1. \A q \in job.stable : Same(caps[q], caps'[q])
        BY <1>3, <1>8 DEF JobFits, Same
      <4>2. QED
        BY <1>10, <2>2, <4>1 DEF Covers, Records
    <3>5. ASSUME NEW q \in job'.expired
          PROVE  caps'[q].life \in Whole /\ ~Promised(caps'[q], Records(Kept)', job'.policy, job'.now)
      <4>1. q \in job.expired /\ caps'[q] = caps[q]
        BY <1>3, <1>8, <1>10, <2>2, <3>5 DEF JobFits
      <4>2. QED
        BY <1>3, <1>10, <2>2, <3>3, <4>1 DEF Removing
    <3>6. ASSUME NEW q \in job.stable \ job.expired
          PROVE  caps'[q].life = "purged" \/ Promised(caps'[q], Records(job.stable)', job.policy, job.now)
      <4>1. q \in Receipts /\ caps'[q] = caps[q]
        BY <1>2, <1>3, <1>8 DEF JobFits
      <4>2. caps[q].life = "purged" \/ Promised(caps[q], Records(job.stable), job.policy, job.now)
        BY <1>3 DEF Removing
      <4>3. QED
        BY <3>4, <4>1, <4>2, PromiseShrinks DEF Same
    <3>7. Removing'
      BY <1>8, <1>10, <2>2, <3>5, <3>6 DEF Removing
    <3>8. QED
      BY <1>10, <2>2, <3>1, <3>7 DEF Working
  <2>3. QED
    BY <2>1, <2>2
<1>17. QED
  BY <1>11, <1>12, <1>13, <1>15, <1>16 DEF RInv

LEMMA NextKeepsRInv == RInv /\ [Next]_vars => RInv'
<1> SUFFICES ASSUME RInv, [Next]_vars PROVE RInv'
  OBVIOUS
<1>1. CASE Tick
  BY <1>1, TickKeeps
<1>2. CASE \E id \in Ids : Insert(id) \/ Settle(id)
  BY <1>2, InsertKeeps, SettleKeeps
<1>3. CASE \E p \in Policies : Save(p) \/ BeginPurge(p)
  BY <1>3, SaveKeeps, BeginKeeps
<1>4. CASE List \/ Choose \/ Return
  BY <1>4, ListKeeps, ChooseKeeps, ReturnKeeps
<1>5. CASE \E r \in Receipts : Publish(r) \/ Remove(r)
  BY <1>5, PublishKeeps, RemoveKeeps
<1>6. CASE UNCHANGED vars
  <2>1. Typed' /\ Working'
    <3>1. Records(Kept)' = Records(Kept) /\ Records(job.stable)' = Records(job.stable)
      BY <1>6 DEF vars, Records, Kept
    <3>2. QED
      BY <1>6, <3>1 DEF vars, RInv, Typed, Working, JobFits, Settling, Removing, Receipts
  <2>2. QED
    BY <1>6, <2>1, JobKeeps DEF vars
<1>7. QED
  BY <1>1, <1>2, <1>3, <1>4, <1>5, <1>6 DEF Next

LEMMA RInvHolds == Spec => []RInv
BY InitRInv, NextKeepsRInv, PTL DEF Spec

----------------------------------------------------------------------------
LEMMA RowsAreFew == ASSUME RInv PROVE \A id \in Ids : Cardinality(RowsOf(id)) <= 1
<1> SUFFICES ASSUME NEW id \in Ids PROVE Cardinality(RowsOf(id)) <= 1
  OBVIOUS
<1>1. CASE RowsOf(id) = {}
  BY <1>1, FS_EmptySet
<1>2. CASE RowsOf(id) # {}
  <2>1. PICK r : r \in RowsOf(id)
    BY <1>2
  <2>2. \A s \in RowsOf(id) : s = r
    BY <2>1 DEF RInv, OneRowEach, RowsOf, Having
  <2>3. RowsOf(id) = {r}
    BY <2>1, <2>2
  <2>4. QED
    BY <2>3, FS_Singleton
<1>3. QED
  BY <1>1, <1>2

\* Every row, receipt, job and setting is of its kind, and an ID has one row at most:
\* what insertion finds and what the purge reads again is one capsule.
THEOREM RetentionTypeCorrect == Spec => []TypeOK
<1>1. RInv => TypeOK
  <2> SUFFICES ASSUME RInv PROVE TypeOK
    OBVIOUS
  <2>1. \A r \in Receipts : caps[r] \in Capsule
    BY DEF RInv, Typed, Receipts
  <2>2. job # NoJob => /\ job.step \in {"list", "settle", "remove"}
                       /\ job.policy \in Policies /\ job.now \in Instants
                       /\ job.todo \subseteq Ids
                       /\ job.stable \subseteq Receipts /\ job.expired \subseteq job.stable
    BY DEF RInv, Typed, Jobs, Working, JobFits
  <2>3. QED
    BY <2>1, <2>2, RowsAreFew DEF TypeOK, RInv, Typed
<1>2. QED
  BY <1>1, RInvHolds, PTL

\* However often administrators purge and whatever policies they save between, what
\* is gone is not promised now by the policy it went under, counting every backup
\* there has been; where a month's cutoff steps back the property says so.
THEOREM NothingIsLostEarly == Spec => []NothingLostEarly
<1>1. RInv => NothingLostEarly
  <2> SUFFICES ASSUME RInv, NEW r \in Receipts, caps[r].life \in {"unlinked", "purged"}
               PROVE  \/ ~Promised(caps[r], Records(Having(Ever)), caps[r].by.policy, clock)
                      \/ MonthlyCutoff(caps[r].by.policy, clock)
                            < MonthlyCutoff(caps[r].by.policy, caps[r].by.now)
    BY DEF NothingLostEarly, Having, Ever
  <2>1. /\ caps[r].by \in [policy : Policies, now : Instants] /\ caps[r].by.now <= clock
        /\ ~Promised(caps[r], Records(Having(Ever)), caps[r].by.policy, caps[r].by.now)
    BY DEF RInv, Gone
  <2>2. caps[r].by.policy \in Policy /\ Dated(caps[r].by.now)
    BY <2>1, Constants
  <2>3. Dated(clock) /\ Dated(caps[r].at)
    <3>1. clock \in Instants /\ caps[r] \in Capsule
      BY DEF RInv, Typed, Receipts
    <3>2. QED
      BY <3>1, Constants DEF Capsule
  <2>4. QED
    BY <2>1, <2>2, <2>3, PromiseExpires
<1>2. QED
  BY <1>1, RInvHolds, PTL

LEMMA StepsFollowThePolicy ==
    RInv /\ [Next]_vars => RemovesOnlyTheExpired /\ LeavesOnlyThePromised
<1> SUFFICES ASSUME RInv, [Next]_vars PROVE RemovesOnlyTheExpired /\ LeavesOnlyThePromised
  OBVIOUS
<1>1. ASSUME NEW r \in Receipts, caps[r].life = "stored", caps'[r].life \in {"unlinked", "purged"}
      PROVE  /\ job.policy = saved
             /\ ~Promised(caps[r], Records(Completed), saved, job.now)
  <2>1. caps' # caps
    BY <1>1
  <2>2. PICK q \in Receipts : Remove(q)
    <3>1. CASE \E id \in Ids : Insert(id)
      <4>1. PICK c : caps' = Append(caps, c)
        BY <3>1 DEF Insert
      <4>2. caps'[r] = caps[r]
        BY <4>1 DEF RInv, Typed, Receipts
      <4>3. QED
        BY <1>1, <4>2
    <3>2. CASE \E q \in Receipts : Publish(q)
      <4>1. PICK q \in Receipts : Publish(q)
        BY <3>2
      <4>2. r # q
        BY <1>1, <4>1 DEF Publish
      <4>3. PICK c : caps' = [caps EXCEPT ![q] = c]
        BY <4>1 DEF Publish
      <4>4. caps'[r] = caps[r]
        BY <4>2, <4>3 DEF Receipts
      <4>5. QED
        BY <1>1, <4>4
    <3>3. QED
      BY <2>1, <3>1, <3>2 DEF Next, vars, Tick, Settle, Save, BeginPurge, List, Choose, Return
  <2>3. q = r
    <3>1. PICK c : caps' = [caps EXCEPT ![q] = c]
      BY <2>2 DEF Remove
    <3>2. r # q => caps'[r] = caps[r]
      BY <3>1 DEF Receipts
    <3>3. QED
      BY <1>1, <3>2
  <2>4. job # NoJob /\ job.step = "remove" /\ r \in job.expired
    BY <2>2, <2>3 DEF Remove, Purging
  <2>5. job.policy = saved /\ Removing /\ JobFits
    BY <2>4 DEF RInv, Working, JobFits
  <2>6. Covers(Records(Completed), Records(Kept))
    <3>1. Kept \subseteq Completed
      BY <2>5 DEF Kept, Completed, Having, Whole, JobFits
    <3>2. QED
      BY <3>1 DEF Covers, Records, Same
  <2>7. ~Promised(caps[r], Records(Kept), saved, job.now) /\ Same(caps[r], caps[r])
    BY <2>4, <2>5 DEF Removing, Same
  <2>8. QED
    BY <2>5, <2>6, <2>7, PromiseShrinks
<1>2. LeavesOnlyThePromised
  BY DEF LeavesOnlyThePromised, Purging, RInv, Working, Removing
<1>3. QED
  BY <1>1, <1>2 DEF RemovesOnlyTheExpired

\* Every removal of purgeExpired is of a capsule the policy in force does not promise
\* among the completed ones, and a purge that has no more to do has left no capsule
\* that policy does not promise, deposits and saves running beside it.
THEOREM PurgeFollows == Spec => PurgeFollowsThePolicy
<1>1. RInv /\ [Next]_vars => [RemovesOnlyTheExpired /\ LeavesOnlyThePromised]_vars
  BY StepsFollowThePolicy
<1>2. QED
  BY <1>1, RInvHolds, PTL DEF Spec, PurgeFollowsThePolicy

==============================================================================
