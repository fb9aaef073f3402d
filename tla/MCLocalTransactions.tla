------------------------ MODULE MCLocalTransactions ------------------------
(***************************************************************************)
(* LocalTransactions on small instances.                                   *)
(***************************************************************************)
EXTENDS LocalTransactions

CONSTANTS p1, p2

=============================================================================
