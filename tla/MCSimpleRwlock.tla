--------------------------- MODULE MCSimpleRwlock ---------------------------
(* Small instances of simple_rwlock: a few applications of N iterations.   *)
EXTENDS SimpleRwlock

CONSTANTS r1, r2, w1, w2, c1, c2, c3
=============================================================================
