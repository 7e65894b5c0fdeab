----------------------------- MODULE SensorLabs -----------------------------
(***************************************************************************)
(* Four drivers that report what a pin detects: switch_irq (Lab10), which  *)
(* only prints; simple_sensor (Lab10), whose interrupt is enabled while    *)
(* its device is open; sensor_proc (Lab10), which keeps the detections in  *)
(* a list that is read from /proc; simple_ultra (Lab12), which times the   *)
(* echo of one ultrasonic pulse.                                           *)
(***************************************************************************)
EXTENDS LabModule, FiniteSets

CONSTANTS Nobody,       \* no process
          Home,         \* the one whose processor takes the interrupt
          MaxDepth,     \* bound: no open when interrupts are this disabled
          MaxDetect     \* bound: detections that sensor_proc lists

ASSUME SensorAssumption ==
    /\ Home \in User /\ Nobody \notin User /\ IsFiniteSet(User)
    /\ MaxDepth \in Nat /\ MaxDetect \in Nat \ {0}

VARIABLES
    depth,      \* simple_sensor: how often the interrupt is disabled
    opened,     \* where each user is with the device
    orderly,    \* auxiliary: opens came one at a time, to the loaded module
    ent,        \* sensor_proc: the entry is in /proc
    list,       \* the detections in time_list_head, numbered as they came
    spinlock,   \* who holds it
    proc_buf,   \* 0: empty; -1: "Empty List"; or the number of a detection
    show,       \* where each user is in sensor_proc_show
    pos,        \* its place in the list
    out,        \* the lines it has printed
    since,      \* auxiliary: detections listed when its show began
    alone,      \* auxiliary: no other show has run at the time of its own
    echo,       \* simple_ultra: "idle", then "sent", "high", "over"
    flag,       \* echo_valid_flag
    missed      \* auxiliary: an edge came early or was merged

device == <<depth, opened, orderly>>
shows == <<proc_buf, show, pos, out, since, alone>>
proc == <<ent, list, spinlock, shows>>
ultra == <<echo, flag, missed>>
sensors == <<device, proc, ultra>>

EmptyList == 0 - 1

-----------------------------------------------------------------------------
(* Mutants: init of simple_sensor leaves its interrupt enabled; exit of    *)
(* sensor_proc takes the list apart before it frees the interrupt.         *)
LeftEnabled == <<"cdev_add", "gpio_request", "request_irq">>
ListFirst == <<"proc_remove", "rundown", "list_del", "free_irq",
               "synchronize", "gpio_free">>

switch_irq_init == <<"gpio_request", "request_irq">>
simple_sensor_init ==
    <<"cdev_add", "gpio_request", "request_irq", "disable_irq", "wait_irq">>
sensor_proc_init == <<"proc_create", "gpio_request", "request_irq">>
simple_ultra_init == <<"gpio_request", "request_irq", "trigger", "valid">>

SensorInitCalls ==
    [switch_irq |-> switch_irq_init, simple_sensor |-> simple_sensor_init,
     sensor_proc |-> sensor_proc_init, simple_ultra |-> simple_ultra_init]

SensorDrivers == DOMAIN SensorInitCalls

switch_irq_exit ==
    <<"disable_irq", "wait_irq", "free_irq", "synchronize", "gpio_free">>
simple_sensor_exit == <<"cdev_del", "free_irq", "synchronize", "gpio_free">>
sensor_proc_exit ==
    <<"proc_remove", "rundown", "free_irq", "synchronize", "gpio_free",
      "list_del">>
simple_ultra_exit == <<"free_irq", "synchronize">>

SensorExitCalls ==
    [switch_irq |-> switch_irq_exit, simple_sensor |-> simple_sensor_exit,
     sensor_proc |-> sensor_proc_exit, simple_ultra |-> simple_ultra_exit]

SensorInit ==
    /\ depth = 1
    /\ opened = [u \in User |-> "no"] /\ orderly = TRUE
    /\ ent = FALSE /\ list = <<>> /\ spinlock = Nobody
    /\ proc_buf = 0
    /\ show = [u \in User |-> "no"] /\ pos = [u \in User |-> 1]
    /\ out = [u \in User |-> <<>>] /\ since = [u \in User |-> 0]
    /\ alone = [u \in User |-> FALSE]
    /\ echo = "idle" /\ flag = 3 /\ missed = FALSE

(* A user on the processor of the handler does not run beside it.          *)
Runs(u) == Here /\ (isr => u # Home)

-----------------------------------------------------------------------------
(* simple_sensor.  request_irq and free_irq reset the depth; enable_irq at *)
(* depth 0 only warns.                                                     *)
EnableIrq == IF depth = 0 THEN 0 ELSE depth - 1

ResetDepth ==
    depth' = CASE ~line /\ line' -> 0
               [] line /\ ~line' -> 1
               [] OTHER -> depth

(* disable_irq waits until the handler is not running. *)
DisableIrq ==
    /\ \/ Calls("disable_irq") /\ depth' = depth + 1
       \/ Calls("wait_irq") /\ ~isr /\ UNCHANGED depth
    /\ UNCHANGED <<pins, interrupt, bug, opened, orderly, proc, ultra>>

(* cdev_add and cdev_del: there is a device to open between them. *)
CdevCalls ==
    /\ Calls("cdev_add") \/ Calls("cdev_del")
    /\ UNCHANGED <<pins, interrupt, bug, sensors>>

HasCdev == \/ stage = "init" /\ Head(calls) # "cdev_add"
           \/ stage = "live"
           \/ stage = "exit" /\ Head(calls) = "cdev_del"

(* The first half of open; the opens of an init that has not yet set       *)
(* irq_num are left out.                                                   *)
simple_sensor_open(u) ==
    /\ driver = "simple_sensor" /\ Runs(u)
    /\ HasCdev /\ gpio /\ depth <= MaxDepth
    /\ opened[u] = "no"
    /\ opened' = [opened EXCEPT ![u] = "opening"]
    /\ depth' = EnableIrq
    /\ orderly' = (orderly /\ stage # "init" /\ \A v \in User : opened[v] = "no")
    /\ UNCHANGED <<lab, proc, ultra>>

(* The second half: getnstimeofday(&start). *)
GetStart(u) ==
    /\ driver = "simple_sensor" /\ Runs(u)
    /\ opened[u] = "opening"
    /\ opened' = [opened EXCEPT ![u] = "open"]
    /\ UNCHANGED <<lab, depth, orderly, proc, ultra>>

simple_sensor_release(u) ==
    /\ driver = "simple_sensor" /\ Runs(u)
    /\ opened[u] = "open"
    /\ opened' = [opened EXCEPT ![u] = "closing"]
    /\ depth' = depth + 1
    /\ UNCHANGED <<lab, orderly, proc, ultra>>

(* Mutant: disable_irq_nosync instead of disable_irq.                      *)
NoSync == TRUE

HandlerDone == ~isr

(* disable_irq waits until the handler is not running. *)
Released(u) ==
    /\ driver = "simple_sensor" /\ Runs(u)
    /\ opened[u] = "closing" /\ HandlerDone
    /\ opened' = [opened EXCEPT ![u] = "no"]
    /\ UNCHANGED <<lab, depth, orderly, proc, ultra>>

(* The file operations name no owner, so rmmod does not mind who has the   *)
(* device open: its release is then called in code that is gone.           *)
ReleaseGone(u) ==
    /\ stage = "gone" /\ ~bug
    /\ opened[u] # "no"
    /\ bug' = TRUE
    /\ UNCHANGED <<code, interrupt, sensors>>

switch_irq_isr ==
    /\ driver = "switch_irq" /\ IsrLeave
    /\ UNCHANGED <<bug, sensors>>

simple_sensor_isr ==
    /\ driver = "simple_sensor" /\ IsrLeave
    /\ UNCHANGED <<bug, sensors>>

-----------------------------------------------------------------------------
(* sensor_proc.  Mutants: spin_lock leaves interrupts on; list_add instead *)
(* of list_add_tail.                                                       *)
NotMasked == FALSE
AddHead(n) == <<n>> \o list

(* spin_lock_irqsave of Home keeps the handler out. *)
Masked == spinlock = Home

(* proc_remove takes the entry away and then waits for its readers.        *)
ProcCalls ==
    /\ \/ Calls("proc_create") /\ ent' = TRUE
       \/ Calls("proc_remove") /\ ent' = FALSE
       \/ /\ Calls("rundown") /\ UNCHANGED ent
          /\ \A u \in User : show[u] = "no"
    /\ UNCHANGED <<pins, interrupt, bug, list, spinlock, shows, device, ultra>>

(* The loop at the end of exit: one node a step, then the function ends.   *)
DeleteList ==
    /\ IF list = <<>>
       THEN Calls("list_del") /\ UNCHANGED list
       ELSE During("list_del") /\ list' = Tail(list)
    /\ UNCHANGED <<pins, interrupt, bug, ent, spinlock, shows, device, ultra>>

ListAddTail(n) == Append(list, n)

(* kmalloc, the lock, list_add_tail. *)
sensor_proc_isr ==
    /\ driver = "sensor_proc" /\ spinlock = Nobody
    /\ IsrLeave
    /\ list' = ListAddTail(Len(list) + 1)
    /\ UNCHANGED <<bug, ent, spinlock, shows, device, ultra>>

Shows(u, at, next) ==
    /\ driver = "sensor_proc" /\ Runs(u)
    /\ show[u] = at /\ show' = [show EXCEPT ![u] = next]
    /\ UNCHANGED <<lab, ent, list, device, ultra>>

(* single_open and the read that calls sensor_proc_show: memset. *)
sensor_proc_open(u) ==
    LET others == {v \in User \ {u} : show[v] # "no"}
    IN  /\ driver = "sensor_proc" /\ Runs(u)
        /\ ent /\ show[u] = "no"
        /\ show' = [show EXCEPT ![u] = "test"]
        /\ proc_buf' = 0
        /\ since' = [since EXCEPT ![u] = Len(list)]
        /\ alone' = [v \in User |-> IF v = u THEN others = {}
                                   ELSE alone[v] /\ v \notin others]
        /\ UNCHANGED <<lab, ent, list, spinlock, pos, out, device, ultra>>

(* list_empty, without the lock. *)
ListEmpty(u) ==
    /\ Shows(u, "test", IF list = <<>> THEN "empty" ELSE "lock")
    /\ UNCHANGED <<spinlock, proc_buf, pos, out, since, alone>>

LockList(u) ==
    /\ Shows(u, "lock", "next")
    /\ spinlock = Nobody /\ spinlock' = u
    /\ UNCHANGED <<proc_buf, pos, out, since, alone>>

(* sprintf of the next detection, *)
Sprintf(u) ==
    /\ Shows(u, "next", "print")
    /\ pos[u] <= Len(list)
    /\ proc_buf' = list[pos[u]]
    /\ UNCHANGED <<spinlock, pos, out, since, alone>>

(* and seq_printf. *)
SeqPrintf(u) ==
    /\ Shows(u, "print", "next")
    /\ out' = [out EXCEPT ![u] = Append(@, proc_buf)]
    /\ pos' = [pos EXCEPT ![u] = @ + 1]
    /\ UNCHANGED <<spinlock, proc_buf, since, alone>>

UnlockList(u) ==
    /\ Shows(u, "next", "done")
    /\ pos[u] > Len(list)
    /\ spinlock' = Nobody
    /\ pos' = [pos EXCEPT ![u] = 1]
    /\ UNCHANGED <<proc_buf, out, since, alone>>

(* strcpy and seq_printf of the other branch, without the lock. *)
ShowEmpty(u) ==
    \/ /\ Shows(u, "empty", "last")
       /\ proc_buf' = EmptyList
       /\ UNCHANGED <<spinlock, pos, out, since, alone>>
    \/ /\ Shows(u, "last", "done")
       /\ out' = [out EXCEPT ![u] = Append(@, proc_buf)]
       /\ UNCHANGED <<spinlock, proc_buf, pos, since, alone>>

ShowReturns(u) ==
    /\ Shows(u, "done", "no")
    /\ out' = [out EXCEPT ![u] = <<>>]
    /\ since' = [since EXCEPT ![u] = 0]
    /\ alone' = [alone EXCEPT ![u] = FALSE]
    /\ UNCHANGED <<spinlock, proc_buf, pos>>

sensor_proc_show(u) ==
    \/ ListEmpty(u) \/ LockList(u) \/ Sprintf(u) \/ SeqPrintf(u)
    \/ UnlockList(u) \/ ShowEmpty(u) \/ ShowReturns(u)

-----------------------------------------------------------------------------
(* simple_ultra.  The end of init sends the pulse and sets the flag.       *)
Trigger ==
    /\ \/ Calls("trigger") /\ echo' = "sent" /\ flag' = 0
       \/ Calls("valid") /\ flag' = 1 /\ UNCHANGED echo
    /\ UNCHANGED <<pins, interrupt, bug, missed, device, proc>>

(* The sensor answers: both edges of the echo are interrupts. *)
Echo ==
    /\ ~bug
    /\ \/ echo = "sent" /\ echo' = "high"
       \/ echo = "high" /\ echo' = "over"
    /\ edge' = (edge \/ line)
    /\ UNCHANGED <<code, line, isr, bug, flag, missed, device, proc>>

(* Mutant: the handler looks for the wrong level when it waits for the fall.*)
WrongLevel(f, up) ==
    CASE f = 1 /\ up -> 2
      [] f = 2 /\ up -> 3
      [] OTHER -> f

(* echo_valid_flag after the handler has read the pin. *)
NextFlag(f, up) ==
    CASE f = 1 /\ up -> 2
      [] f = 2 /\ ~up -> 3
      [] OTHER -> f

simple_ultra_isr ==
    /\ driver = "simple_ultra" /\ IsrLeave
    /\ flag' = NextFlag(flag, echo = "high")
    /\ missed' = (missed \/ flag = 0 \/ (flag = 1 /\ echo # "high"))
    /\ UNCHANGED <<bug, echo, device, proc>>

-----------------------------------------------------------------------------
SensorCalls ==
    \/ /\ CommonCalls /\ ResetDepth
       /\ UNCHANGED <<opened, orderly, proc, ultra>>
    \/ DisableIrq \/ CdevCalls
    \/ ProcCalls \/ DeleteList
    \/ Trigger

SensorEdge ==
    /\ driver # "simple_ultra" /\ Edge
    /\ Len(list) + (IF isr THEN 1 ELSE 0) < MaxDetect
    /\ UNCHANGED sensors

SensorIsr ==
    \/ IsrEnter /\ depth = 0 /\ ~Masked /\ UNCHANGED sensors
    \/ switch_irq_isr \/ simple_sensor_isr
    \/ sensor_proc_isr \/ simple_ultra_isr

UserStep(u) ==
    \/ simple_sensor_open(u) \/ GetStart(u)
    \/ simple_sensor_release(u) \/ Released(u) \/ ReleaseGone(u)
    \/ sensor_proc_open(u) \/ sensor_proc_show(u)

SensorNext ==
    /\ driver \in SensorDrivers
    /\ \/ SensorCalls
       \/ Unload(SensorExitCalls[driver]) /\ UNCHANGED sensors
       \/ SensorEdge \/ Echo
       \/ SensorIsr
       \/ \E u \in User : UserStep(u)

SensorTypeOK ==
    /\ depth \in 0..(MaxDepth + Cardinality(User) + 1)
    /\ opened \in [User -> {"no", "opening", "open", "closing"}]
    /\ {orderly, ent, missed} \subseteq BOOLEAN
    /\ Len(list) <= MaxDetect
    /\ spinlock \in User \cup {Nobody}
    /\ proc_buf \in {EmptyList} \cup 0..MaxDetect
    /\ show \in [User -> {"no", "test", "lock", "next", "print", "empty",
                          "last", "done"}]
    /\ echo \in {"idle", "sent", "high", "over"}
    /\ flag \in 0..3

-----------------------------------------------------------------------------
(* As long as users open the device one at a time, and only when init is   *)
(* done, the interrupt is enabled when somebody has it open and disabled   *)
(* when nobody has: enable_irq of open and disable_irq of release balance  *)
(* each other and that of init.                                            *)
EnabledWhileOpen ==
    driver = "simple_sensor" /\ stage = "live" /\ line /\ orderly
        => depth = 1 - Cardinality({u \in User :
                                        opened[u] \in {"opening", "open"}})

(* The handler of simple_sensor runs only while init has not yet disabled  *)
(* it or somebody has the device open, in whatever order they open and     *)
(* close it: disable_irq waits for a handler that runs.                    *)
HandlerOnlyWhileOpen ==
    driver = "simple_sensor" /\ isr
        => stage = "init" \/ \E u \in User : opened[u] # "no"

(* A show beside which no other has run prints every detection so far in   *)
(* its order, though the handler adds to the list meanwhile, and the empty *)
(* list only when nothing had been detected as it began.                   *)
ShowExact ==
    \A u \in User : show[u] = "done" /\ alone[u] =>
        \/ since[u] = 0 /\ out[u] = <<EmptyList>>
        \/ \E n \in 1..Len(list) :
              since[u] <= n /\ out[u] = [i \in 1..n |-> i]

(* When exit of sensor_proc takes the list apart, without the lock, no     *)
(* handler and no reader is at it, and it leaves no node behind.           *)
ExitAlone ==
    driver = "sensor_proc" =>
        /\ stage = "exit" /\ Head(calls) = "list_del"
              => ~line /\ ~isr /\ \A u \in User : show[u] = "no"
        /\ stage = "gone" => list = <<>>

(* The distance of an echo is shown, unless an edge came before the flag   *)
(* was set, was merged with the other one, or the module is unloaded.      *)
EchoShown ==
    echo = "over" ~> (flag = 3 \/ missed \/ stage \in {"exit", "gone"})
=============================================================================
