----------------------------- MODULE BlindStore -----------------------------
(***************************************************************************)
(* What a blind capsule store promises, without rows, files, locks or      *)
(* events: a capsule is announced, then stored, then announced for purge,  *)
(* then removed; the only other way out is damage to the medium.  A name   *)
(* holds at most one stored capsule, and what is stored under it is never  *)
(* replaced.  CapsuleStore implements it, crashes and failures included.   *)
(***************************************************************************)
CONSTANTS
    Receipts,   \* one per deposit attempt
    Names       \* capsule IDs

VARIABLES
    stage,      \* stage[r]: how far the capsule of receipt r has come
    name        \* name[r]: the capsule ID receipt r was announced for

vars == <<stage, name>>

Stages == {"unknown", "announced", "stored", "condemned", "removed", "damaged"}
Present == {"stored", "condemned"}

Init ==
    /\ stage = [r \in Receipts |-> "unknown"]
    /\ name = [r \in Receipts |-> {}]

Move(r, from, to) == stage[r] \in from /\ stage' = [stage EXCEPT ![r] = to]

(* The audit chain says the deposit is coming. *)
Announce(r, n) ==
    /\ Move(r, {"unknown"}, "announced")
    /\ name' = [name EXCEPT ![r] = {n}]

(* The bytes become visible, once, and never on top of others. *)
Store(r) ==
    /\ Move(r, {"announced"}, "stored")
    /\ \A q \in Receipts : stage[q] \in Present => name[q] # name[r]
    /\ UNCHANGED name

(* The audit chain says the capsule will be purged. *)
Condemn(r) == Move(r, {"stored"}, "condemned") /\ UNCHANGED name

(* Only a condemned capsule is removed. *)
Remove(r) == Move(r, {"condemned"}, "removed") /\ UNCHANGED name

(* What a deposit left behind without storing its bytes is purged too. *)
Discard(r) == Move(r, {"unknown", "announced"}, "removed") /\ UNCHANGED name

Decay(r) == Move(r, Present, "damaged") /\ UNCHANGED name

Next == \E r \in Receipts :
            \/ \E n \in Names : Announce(r, n)
            \/ Store(r) \/ Condemn(r) \/ Remove(r) \/ Discard(r) \/ Decay(r)

Spec == Init /\ [][Next]_vars

=============================================================================
