------------------------------ MODULE MCKuSnA ------------------------------
(* A small instance of ku_SnA: one application per processor.              *)
EXTENDS KuSnA

CONSTANTS a0, a1
=============================================================================
