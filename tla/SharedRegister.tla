--------------------------- MODULE SharedRegister ---------------------------
(***************************************************************************)
(* What the drivers of Lab11 that guard one number promise until they are  *)
(* removed: a write takes effect at one instant, and a read sees, from its *)
(* beginning to its end, the one value the number had when it began.       *)
(***************************************************************************)
CONSTANTS Proc, Value,
          Initial,      \* the number at the start
          Nothing       \* what a process that is not reading sees

VARIABLES value,        \* the number; Nothing once the driver is removed
          seen          \* what each read under way shows

vars == <<value, seen>>

Init == value = Initial /\ seen = [p \in Proc |-> Nothing]

Write(v) ==
    /\ value # Nothing
    /\ value' = v
    /\ UNCHANGED seen

BeginRead(p) ==
    /\ seen[p] = Nothing
    /\ seen' = [seen EXCEPT ![p] = value]
    /\ UNCHANGED value

EndRead(p) ==
    /\ seen[p] # Nothing
    /\ seen' = [seen EXCEPT ![p] = Nothing]
    /\ UNCHANGED value

Remove ==
    /\ value' = Nothing
    /\ seen' = [p \in Proc |-> Nothing]

Next ==
    \/ \E v \in Value : Write(v)
    \/ \E p \in Proc : BeginRead(p) \/ EndRead(p)
    \/ Remove

Spec == Init /\ [][Next]_vars
=============================================================================
