----------------------- MODULE MCTransactionManager -----------------------
(* Instances with up to two global transactions.  Branches b1 and b2       *)
(* belong to x1; b3 belongs to x2 and competes with b1 for row r1.  The    *)
(* branches in Tcc are TCC branches.  b2 is in a database of its own       *)
(* unless OneDB.                                                           *)
EXTENDS TransactionManager, TLC

CONSTANTS x1, x2, b1, b2, b3, r1, r2, d1, d2, Tcc, OneDB

MCThread == Branch \cup XID \cup {GQ, BQ}
MCXidOf  == [b \in Branch |-> IF b = b3 THEN x2 ELSE x1]
MCRowsOf == [b \in Branch |-> IF b \in Tcc THEN {}
                              ELSE IF b = b2 THEN {r2} ELSE {r1}]
MCResOf  == [b \in Branch |-> IF b = b2 /\ ~OneDB THEN d2 ELSE d1]
=============================================================================
