--------------------------- MODULE MCCapsuleStore ---------------------------
EXTENDS CapsuleStore, TLC

CONSTANTS a, b, h1, h2, v1

OwnPath == [id \in Ids |-> id]              \* a case-sensitive volume
OneHost == [p \in Procs |-> h1]
(* Purge policies: the daily window only, and one that also keeps the newest. *)
NewestPolicy == [recent : 1..MaxRequests, newest : {TRUE}]
DailyPolicy == [recent : 1..MaxRequests, newest : {FALSE}]
LatestPolicy == {[recent |-> 1, newest |-> FALSE]}

(* Every second deposit reaches the other process. *)
TwoHosts == [p \in Procs |-> IF p \in Requests /\ p % 2 = 0 THEN h2 ELSE h1]

(* IDs and container bytes are interchangeable on a case-sensitive volume. *)
Symmetry == Permutations(Ids) \cup Permutations(Bodies)

=============================================================================
