----------------------------- MODULE MCIdLocks -----------------------------
(***************************************************************************)
(* Three goroutines over two IDs: enough for a holder, a waiter and a late *)
(* comer on one ID while the other ID is in use.  Three lock objects are   *)
(* all that three goroutines can refer to at once.                         *)
(***************************************************************************)
EXTENDS IdLocks
=============================================================================
