----------------------------- MODULE RateLimiter -----------------------------
(* The fixed-window attempt counter in front of pairing claims, sign-in and  *)
(* deposits (internal/server/ratelimit.go).  A bucket is the entry of one    *)
(* key; exceeded and record each hold the limiter's mutex, so each is one    *)
(* step, and callers take them separately.                                   *)
EXTENDS Naturals

CONSTANT Window     \* what resetAt is ahead of the first charge

ASSUME WindowAssumption == Window \in Nat \ {0}

Bucket == [n : Nat, resetAt : Nat]

(* No entry, or one whose window has passed.  The sweep of a map of more than *)
(* 1024 keys, which only removes entries of this kind, is left out.          *)
NoBucket == [n |-> 0, resetAt |-> 0]
Stale(b, now) == b.n = 0 \/ now > b.resetAt

(* Mutant: the attempt after the last is let in. *)
ExceededLate(b, limit, now) == ~Stale(b, now) /\ b.n > limit

Exceeded(b, limit, now) == ~Stale(b, now) /\ b.n >= limit

(* Mutant: every charge begins the window anew. *)
ChargedSliding(b, now) ==
    [n |-> IF Stale(b, now) THEN 1 ELSE b.n + 1, resetAt |-> now + Window]

Charged(b, now) ==
    IF Stale(b, now) THEN [n |-> 1, resetAt |-> now + Window]
                     ELSE [b EXCEPT !.n = @ + 1]

=============================================================================
