------------------------------ MODULE MCRetention ------------------------------
EXTENDS Retention

(* January to March 2026; January 1 is a Thursday. *)
MCMonthDays == <<31, 28, 31>>
Noon(m, d) == (MonthStart[m] + d - 1) * TicksPerDay + 1
Midnight(m, d) == (MonthStart[m] + d - 1) * TicksPerDay

(* The last day of a month, a day later, a month on, and the midnight after it.  The *)
(* first two are one ISO week and two months; seen from the last, the cutoffs of four *)
(* weeks and of a month fall exactly on them, and the month's has come back to them.  *)
MCInstants == {Midnight(2, 28), Midnight(3, 1), Noon(3, 28), Midnight(3, 29)}

MCProductOf == <<"mail", "mail", "wiki">>
Keep(d, w, m) == [days |-> d, weeks |-> w, months |-> m]
MCPolicies == {Keep(1, 4, 1), Keep(1, 0, 0)}

=============================================================================
