---------------------------- MODULE MCSimpleRcu ----------------------------
(* Small instances of simple_rcu: a few applications of N iterations.      *)
EXTENDS SimpleRcu

CONSTANTS r1, r2, w1, w2, c1, c2, c3
=============================================================================
