--------------------------- MODULE RetentionWindows ---------------------------
(* Which capsules a retention policy expires: retentionCandidates of         *)
(* internal/server/retention.go over a calendar of days, ISO weeks and       *)
(* months.  All times are UTC, counted in ticks from the first day of the    *)
(* calendar; a cutoff before that day reaches every capsule there is.  A     *)
(* capsule is a record with its id, product (paired app and service name)    *)
(* and the time of its deposit; the zero time, which no deposit writes, is   *)
(* left out.                                                                 *)
EXTENDS Integers, Sequences

CONSTANTS
    TicksPerDay,
    MonthDays,          \* the lengths of the months, in order
    FirstWeekday        \* the weekday of the first day, counted from Monday 0

Months == DOMAIN MonthDays

ASSUME CalendarAssumption ==
    /\ TicksPerDay \in Nat \ {0}
    /\ MonthDays \in Seq(28..31)
    /\ FirstWeekday \in 0..6

MonthStart[m \in 1..(Len(MonthDays) + 1)] ==       \* the first day of month m
    IF m <= 1 THEN 0 ELSE MonthStart[m - 1] + MonthDays[m - 1]

Day(t) == t \div TicksPerDay
TimeOfDay(t) == t % TicksPerDay
MonthOfDay == [d \in 0..(MonthStart[Len(MonthDays) + 1] - 1) |->
    CHOOSE m \in Months : MonthStart[m] <= d /\ d < MonthStart[m + 1]]
MonthOf(t) == MonthOfDay[Day(t)]
DayOfMonth(t) == Day(t) - MonthStart[MonthOf(t)]
WeekOf(t) == (Day(t) + FirstWeekday) \div 7

DailyCutoff(p, now) == now - p.days * TicksPerDay
WeeklyCutoff(p, now) == now - 7 * p.weeks * TicksPerDay

\* "Clamp month ends: one month before March 31 is February's last day."
MonthlyCutoff(p, now) ==
    LET m == MonthOf(now) - p.months
        day == IF DayOfMonth(now) < MonthDays[m] THEN DayOfMonth(now) ELSE MonthDays[m] - 1
    IN  IF m < 1 THEN 0 ELSE (MonthStart[m] + day) * TicksPerDay + TimeOfDay(now)

\* Mutant: the oldest capsule of a period is taken for the newest.
Earlier(c, d) == c.at < d.at \/ (c.at = d.at /\ c.id < d.id)

\* Ties use the ID, so that preview and purge agree.
Later(c, d) == c.at > d.at \/ (c.at = d.at /\ c.id > d.id)

\* selectNewest: the newest of each product and period from the cutoff on.
NewestFrom(cutoff, caps, period) ==
    LET reached == {c \in caps : c.at >= cutoff}
    IN  {c \in reached : \A d \in reached \ {c} :
            d.product = c.product /\ period[d] = period[c] => Later(c, d)}

WeekOfEach(caps) == [c \in caps |-> WeekOf(c.at)]
MonthOfEach(caps) == [c \in caps |-> MonthOf(c.at)]

\* retentionCandidates: the windows overlap, and zero days keep everything.
Expired(caps, p, now) ==
    IF p.days = 0 THEN {}
    ELSE caps \ (  {c \in caps : c.at > DailyCutoff(p, now)}
                 \cup (IF p.weeks = 0 THEN {} ELSE NewestFrom(WeeklyCutoff(p, now), caps, WeekOfEach(caps)))
                 \cup (IF p.months = 0 THEN {} ELSE NewestFrom(MonthlyCutoff(p, now), caps, MonthOfEach(caps))))

=============================================================================
