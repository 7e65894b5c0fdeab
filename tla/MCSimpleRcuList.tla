-------------------------- MODULE MCSimpleRcuList --------------------------
(* A small instance of simple_rculist.                                     *)
EXTENDS SimpleRcuList

CONSTANTS r1, r2, u1, n1, n2, n3, n4
=============================================================================
