----------------------------- MODULE LabModule ------------------------------
(***************************************************************************)
(* What the drivers of the labs have in common: a module that is loaded,   *)
(* used and perhaps unloaded, some pins and one interrupt.  The init and   *)
(* exit functions are sequences of calls that the driver's own module      *)
(* gives; here is what the calls they share do.  The board's drivers use   *)
(* the same pins, so one of them is loaded.                                *)
(***************************************************************************)
EXTENDS Naturals, Sequences

CONSTANT User   \* processes that use the driver

VARIABLES
    driver,     \* the one that is loaded
    stage,      \* "init", "live", "exit", "gone"
    calls,      \* the calls its init or exit function has still to make
    gpio,       \* its pins are requested
    level,      \* the level of the pin it drives: a LED, the speaker
    badpin,     \* a pin was used that was not requested
    line,       \* its handler is installed
    edge, isr,  \* an edge waits for the handler; the handler runs
    bug         \* the kernel has faulted

interrupt == <<line, edge, isr>>
pins == <<gpio, level, badpin>>
code == <<driver, stage, calls, pins>>
lab == <<code, interrupt, bug>>

LabInit ==
    /\ stage = "init"
    /\ gpio = FALSE /\ level = FALSE /\ badpin = FALSE
    /\ line = FALSE /\ edge = FALSE /\ isr = FALSE
    /\ bug = FALSE

(* The module's code is there and the machine runs. *)
Here == stage # "gone" /\ ~bug

At(c) == ~bug /\ calls # <<>> /\ Head(calls) = c

(* The init or exit function makes call c and goes on to the next.         *)
Calls(c) ==
    /\ At(c)
    /\ calls' = Tail(calls)
    /\ stage' = IF Tail(calls) # <<>> THEN stage
                ELSE IF stage = "init" THEN "live" ELSE "gone"
    /\ UNCHANGED driver

(* One step of call c, which goes on. *)
During(c) == At(c) /\ UNCHANGED <<driver, stage, calls>>

(* rmmod: the exit function makes the calls given. *)
Unload(exit) ==
    /\ stage = "live" /\ ~bug
    /\ stage' = "exit" /\ calls' = exit
    /\ UNCHANGED <<driver, pins, interrupt, bug>>

(* gpio_set_value *)
SetPin(v) ==
    /\ level' = v
    /\ badpin' = (badpin \/ ~gpio)
    /\ UNCHANGED gpio

-----------------------------------------------------------------------------
GpioRequest ==
    /\ Calls("gpio_request")
    /\ gpio' = TRUE /\ level' = FALSE
    /\ UNCHANGED <<badpin, interrupt, bug>>

GpioFree ==
    /\ Calls("gpio_free")
    /\ gpio' = FALSE
    /\ UNCHANGED <<level, badpin, interrupt, bug>>

GpioSetValue ==
    /\ \/ Calls("set_high") /\ SetPin(TRUE)
       \/ Calls("set_low") /\ SetPin(FALSE)
    /\ UNCHANGED <<interrupt, bug>>

RequestIrq ==
    /\ Calls("request_irq")
    /\ line' = TRUE
    /\ UNCHANGED <<pins, edge, isr, bug>>

(* When request_irq fails init leaves out the rest and returns 0 all the   *)
(* same; the free_irq it calls then has nothing to free.                   *)
RequestFails ==
    /\ At("request_irq")
    /\ stage' = "live" /\ calls' = <<>>
    /\ UNCHANGED <<driver, pins, interrupt, bug>>

FreeIrq ==
    /\ Calls("free_irq")
    /\ line' = FALSE /\ edge' = FALSE
    /\ UNCHANGED <<pins, isr, bug>>

(* free_irq returns when the handler is not running. *)
Synchronize ==
    /\ Calls("synchronize")
    /\ ~isr
    /\ UNCHANGED <<pins, interrupt, bug>>

CommonCalls ==
    \/ GpioRequest \/ GpioFree \/ GpioSetValue
    \/ RequestIrq \/ RequestFails \/ FreeIrq \/ Synchronize

-----------------------------------------------------------------------------
(* An edge of the pin; edges that wait for the handler are merged.         *)
Edge ==
    /\ line
    /\ edge' = TRUE
    /\ UNCHANGED <<code, line, isr, bug>>

IsrEnter ==
    /\ line /\ edge /\ ~isr /\ ~bug
    /\ edge' = FALSE /\ isr' = TRUE
    /\ UNCHANGED <<code, line, bug>>

IsrLeave ==
    /\ isr /\ ~bug
    /\ isr' = FALSE
    /\ UNCHANGED <<code, line, edge>>

LabTypeOK ==
    /\ stage \in {"init", "live", "exit", "gone"}
    /\ calls \in Seq(STRING) /\ Len(calls) <= 6
    /\ {gpio, level, badpin, line, edge, isr, bug} \subseteq BOOLEAN
=============================================================================
