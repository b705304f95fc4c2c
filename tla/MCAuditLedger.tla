---------------------------- MODULE MCAuditLedger ----------------------------
(* The server's ledger with its goroutines, and a command-line one.  In the *)
(* runs of one process the command line is not among the Ledgers.           *)
EXTENDS AuditLedger

CONSTANTS serve, cli, w1, w2, v1, v2

OneLedgerOf == [p \in Procs |-> serve]
TwoLedgerOf == [p \in Procs |-> IF p = v2 THEN cli ELSE serve]

=============================================================================
