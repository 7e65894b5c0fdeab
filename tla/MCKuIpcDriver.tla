--------------------------- MODULE MCKuIpcDriver ---------------------------
(* Small instances of the driver: who may issue which system calls.        *)
EXTENDS KuIpcDriver

CONSTANTS p1, p2, n1, n2, n3

(* Two processes send and receive; one of them also creates the queue.     *)
TransferCalls == (p1 :> {"create", "read", "write"}) @@ (p2 :> {"read", "write"})

(* One process creates and closes, the other looks queues up.              *)
ListCalls == (p1 :> {"create", "close"}) @@ (p2 :> {"check"})
=============================================================================
