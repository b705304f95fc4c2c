---------------------------- MODULE MCReplication ----------------------------
EXTENDS Replication, TLC

CONSTANTS share, host

Kinds == (share :> "smb") @@ (host :> "staged")
MCKindOf == [t \in Targets |-> Kinds[t]]
MCSkew == [t \in Targets |-> IF t = host THEN -1 ELSE 0]
MCSaves == {[auto |-> TRUE, disabled |-> TRUE]}

=============================================================================
