---------------------------- MODULE FirstModules ----------------------------
(***************************************************************************)
(* The modules of Lab02.  hello and debug print a line when they are       *)
(* loaded and when they are unloaded.  ch1 and symbol are pairs: mod2 uses *)
(* a number of mod1, so the kernel loads mod2 only when mod1 is there and  *)
(* keeps mod1 as long as mod2 is loaded; each may come and go many times.  *)
(***************************************************************************)
EXTENDS LabModule

VARIABLES
    my_id,      \* mod1's number
    mod2,       \* where mod2 is: "out", in its init function, or "live"
    lines,      \* the numbers its init function has printed
    visits      \* auxiliary: how often it was loaded since mod1 was: 2, often

first == <<my_id, mod2, lines, visits>>

MyId == 201411303

-----------------------------------------------------------------------------
ch1_mod1_init == <<"printk">>
mod1_init == <<"printk">>
hello_init == <<"printk">>
hello2_init == <<"printk">>
debug_init == <<"printk", "DEBUG_MSG">>

FirstInitCalls ==
    [ch1 |-> ch1_mod1_init, symbol |-> mod1_init, hello |-> hello_init,
     hello2 |-> hello2_init, debug |-> debug_init]

FirstDrivers == DOMAIN FirstInitCalls

(* The number mod1 is loaded with.                                         *)
Loaded == IF driver = "symbol" THEN MyId ELSE 0

FirstInit ==
    my_id = Loaded /\ mod2 = "out" /\ lines = <<>> /\ visits = 0

FirstCalls ==
    /\ Calls("printk") \/ Calls("DEBUG_MSG")
    /\ UNCHANGED <<pins, interrupt, bug, first>>

(* rmmod of mod1, or of one that stands alone. *)
RmmodMod1 ==
    /\ mod2 = "out"
    /\ Unload(<<"printk">>)
    /\ UNCHANGED first

(* insmod of mod1 once more. *)
InsmodMod1 ==
    /\ driver \in {"ch1", "symbol"}
    /\ stage = "gone"
    /\ stage' = "init" /\ calls' = FirstInitCalls[driver]
    /\ my_id' = Loaded /\ visits' = 0
    /\ UNCHANGED <<driver, pins, interrupt, bug, mod2, lines>>

-----------------------------------------------------------------------------
Mod2(from, to) ==
    /\ mod2 = from /\ mod2' = to
    /\ UNCHANGED lab

InsmodMod2 ==
    /\ stage = "live"
    /\ \/ driver = "ch1" /\ Mod2("out", "first")
       \/ driver = "symbol" /\ Mod2("out", "last")
    /\ lines' = <<>>
    /\ visits' = IF visits = 0 THEN 1 ELSE 2
    /\ UNCHANGED my_id

(* One of the lines "My Id". *)
PrintId(from, to) ==
    /\ Mod2(from, to)
    /\ lines' = Append(lines, my_id)
    /\ UNCHANGED <<my_id, visits>>

set_my_id(id) ==
    /\ Mod2("set", "last")
    /\ my_id' = id
    /\ UNCHANGED <<lines, visits>>

ch1_mod2_init ==
    \/ PrintId("first", "set")
    \/ set_my_id(MyId)
    \/ PrintId("last", "live")

mod2_init == PrintId("last", "live")

RmmodMod2 == Mod2("live", "out") /\ UNCHANGED <<my_id, lines, visits>>

FirstNext ==
    /\ driver \in FirstDrivers
    /\ \/ FirstCalls
       \/ RmmodMod1 \/ InsmodMod1
       \/ InsmodMod2 \/ RmmodMod2
       \/ driver = "ch1" /\ ch1_mod2_init
       \/ driver = "symbol" /\ mod2_init

FirstTypeOK ==
    /\ my_id \in Nat /\ visits \in 0..2
    /\ mod2 \in {"out", "first", "set", "last", "live"}
    /\ lines \in Seq(Nat)
=============================================================================
