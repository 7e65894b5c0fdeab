---------------------------- MODULE MCLabDrivers ----------------------------
(* Every one of the drivers is loaded and unloaded; two users.             *)
EXTENDS LabDrivers

CONSTANTS u1, u2
=============================================================================
