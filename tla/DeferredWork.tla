---------------------------- MODULE DeferredWork ----------------------------
(***************************************************************************)
(* The drivers of the labs that leave work to the kernel: the timers of    *)
(* Lab09 (simple_timer, ch7) and Lab10 (ch8), and simple_tasklet,          *)
(* simple_workqueue and simple_kthread of Lab13.  They are loaded and      *)
(* perhaps unloaded while edges interrupt them, their timer expires and    *)
(* their deferred work runs on other processors.  What can go wrong is the *)
(* order of the calls in their init and exit functions.                    *)
(***************************************************************************)
EXTENDS LabModule

CONSTANT MaxWork        \* bound: works queued at a time

ASSUME MaxWorkAssumption == MaxWork \in Nat \ {0}

VARIABLES
    timer,      \* the timer is pending
    timer_func, \* where the timer function is: "idle", "start", "arm"
    sched,      \* the tasklet's SCHED bit
    tasklet,    \* "listed" and/or "running"
    queued,     \* works on the workqueue
    working,    \* my_work_func runs
    thread,     \* where simple_kthread_func is
    stop,       \* what kthread_should_stop answers
    detected,   \* auxiliary: ch8_isr has run
    slipped     \* auxiliary: exit has not stopped what was under way

timers == <<timer, timer_func>>
tasklets == <<sched, tasklet>>
works == <<queued, working>>
kthread == <<thread, stop>>
marks == <<detected, slipped>>
deferred == <<timers, tasklets, works, kthread, marks>>

-----------------------------------------------------------------------------
(* Mutants: the timer of ch7 starts before its pins are requested;         *)
(* simple_workqueue flushes before it frees the interrupt.                 *)
TimerFirst == <<"add_timer", "gpio_request">>
FlushFirst == <<"flush_workqueue", "free_irq", "synchronize", "gpio_free">>

(* The calls of the module_init functions.                                 *)
simple_timer_init == <<"add_timer">>
ch7_init == <<"gpio_request", "add_timer">>
ch8_init == <<"gpio_request", "request_irq">>
simple_tasklet_init == <<"gpio_request", "request_irq">>
simple_workqueue_init == <<"gpio_request", "request_irq">>
simple_kthread_init == <<"wake_up_process">>

DeferredInitCalls ==
    [simple_timer |-> simple_timer_init, ch7 |-> ch7_init, ch8 |-> ch8_init,
     simple_tasklet |-> simple_tasklet_init,
     simple_workqueue |-> simple_workqueue_init,
     simple_kthread |-> simple_kthread_init]

DeferredDrivers == DOMAIN DeferredInitCalls

(* The calls of the module_exit functions; "synchronize" is the second     *)
(* half of free_irq, "unlock_wait" of tasklet_kill, "wait_exit" of         *)
(* kthread_stop.                                                           *)
simple_timer_exit == <<"del_timer">>
ch7_exit == <<"set_low", "gpio_free", "del_timer">>
ch8_exit == <<"free_irq", "synchronize", "gpio_free", "del_timer">>
simple_tasklet_exit ==
    <<"tasklet_kill", "unlock_wait", "free_irq", "synchronize", "gpio_free">>
simple_workqueue_exit ==
    <<"free_irq", "synchronize", "gpio_free", "flush_workqueue">>
simple_kthread_exit == <<"kthread_stop", "wait_exit">>

DeferredExitCalls ==
    [simple_timer |-> simple_timer_exit, ch7 |-> ch7_exit, ch8 |-> ch8_exit,
     simple_tasklet |-> simple_tasklet_exit,
     simple_workqueue |-> simple_workqueue_exit,
     simple_kthread |-> simple_kthread_exit]

DeferredInit ==
    /\ timer = FALSE /\ timer_func = "idle"
    /\ sched = FALSE /\ tasklet = {}
    /\ queued = 0 /\ working = FALSE
    /\ thread = "new" /\ stop = FALSE
    /\ detected = FALSE /\ slipped = FALSE

-----------------------------------------------------------------------------
(* BUG_ON(timer_pending(timer)) *)
AddPending ==
    /\ bug' = timer
    /\ timer' = TRUE

AddTimer ==
    /\ Calls("add_timer")
    /\ AddPending
    /\ UNCHANGED <<pins, interrupt, timer_func, tasklets, works, kthread,
                   marks>>

(* del_timer does not wait for a timer function that runs. *)
DelTimer ==
    /\ Calls("del_timer")
    /\ timer' = FALSE
    /\ slipped' = (timer_func # "idle")
    /\ UNCHANGED <<pins, interrupt, bug, timer_func, tasklets, works, kthread,
                   detected>>

(* tasklet_kill waits until the tasklet is not scheduled, and keeps it     *)
(* from being scheduled while it waits for it to end.                      *)
TaskletKill ==
    /\ \/ Calls("tasklet_kill") /\ ~sched /\ sched' = TRUE
       \/ Calls("unlock_wait") /\ "running" \notin tasklet /\ sched' = FALSE
    /\ UNCHANGED <<pins, interrupt, bug, timers, tasklet, works, kthread,
                   marks>>

(* flush_workqueue; destroy_workqueue has nothing left to wait for. *)
FlushWorkqueue ==
    /\ Calls("flush_workqueue")
    /\ queued = 0 /\ ~working
    /\ UNCHANGED <<pins, interrupt, bug, deferred>>

(* kthread_stop sets the flag that the thread tests, and waits.            *)
Kthread ==
    /\ \/ Calls("wake_up_process") /\ thread' = "test" /\ UNCHANGED stop
       \/ Calls("kthread_stop") /\ stop' = TRUE /\ UNCHANGED thread
       \/ Calls("wait_exit") /\ thread = "done" /\ UNCHANGED kthread
    /\ UNCHANGED <<pins, interrupt, bug, timers, tasklets, works, marks>>

DeferredLoad ==
    \/ CommonCalls /\ UNCHANGED deferred
    \/ AddTimer \/ DelTimer \/ TaskletKill
    \/ FlushWorkqueue \/ Kthread

-----------------------------------------------------------------------------
ch8_isr ==
    /\ driver = "ch8" /\ IsrLeave
    /\ AddPending
    /\ detected' = TRUE
    /\ UNCHANGED <<timer_func, tasklets, works, kthread, slipped>>

(* tasklet_schedule.  When exit has killed the tasklet already, this one   *)
(* is not waited for.                                                      *)
simple_tasklet_isr ==
    /\ driver = "simple_tasklet" /\ IsrLeave
    /\ IF sched
       THEN UNCHANGED <<tasklets, slipped>>
       ELSE /\ sched' = TRUE
            /\ tasklet' = tasklet \cup {"listed"}
            /\ slipped' = (stage = "exit" /\ Head(calls) # "tasklet_kill")
    /\ UNCHANGED <<bug, timers, works, kthread, detected>>

(* kmalloc, which may fail, and queue_work. *)
simple_workqueue_isr ==
    /\ driver = "simple_workqueue" /\ IsrLeave
    /\ queued' \in {queued, queued + 1} /\ queued' <= MaxWork
    /\ UNCHANGED <<bug, timers, tasklets, working, kthread, marks>>

DeferredIsr ==
    \/ IsrEnter /\ UNCHANGED deferred
    \/ ch8_isr \/ simple_tasklet_isr \/ simple_workqueue_isr

-----------------------------------------------------------------------------
Expire ==
    /\ Here
    /\ timer /\ timer_func = "idle"
    /\ timer' = FALSE /\ timer_func' = "start"
    /\ UNCHANGED <<lab, tasklets, works, kthread, marks>>

(* The timer functions up to mod_timer: that of simple_timer prints, those *)
(* of ch7 and ch8 read the input and set the LED, which in ch8 stays dark, *)
(* because its pin is requested as an input.                               *)
simple_timer_func ==
    /\ driver = "simple_timer"
    /\ UNCHANGED pins

ch7_timer_func ==
    /\ driver = "ch7"
    /\ \E v \in BOOLEAN : SetPin(v)

ch8_timer_func ==
    /\ driver = "ch8"
    /\ badpin' = (badpin \/ ~gpio)
    /\ UNCHANGED <<gpio, level>>

TimerFunc ==
    /\ Here
    /\ timer_func = "start" /\ timer_func' = "arm"
    /\ simple_timer_func \/ ch7_timer_func \/ ch8_timer_func
    /\ UNCHANGED <<driver, stage, calls, interrupt, bug>>
    /\ UNCHANGED <<timer, tasklets, works, kthread, marks>>

(* mod_timer, also of a timer that is pending. *)
ModTimer ==
    /\ Here
    /\ timer_func = "arm" /\ timer_func' = "idle"
    /\ timer' = TRUE
    /\ UNCHANGED <<lab, tasklets, works, kthread, marks>>

(* The softirq takes the tasklet off its list, clears SCHED and runs it.   *)
simple_tasklet_func ==
    /\ Here
    /\ \/ tasklet = {"listed"} /\ tasklet' = {"running"} /\ sched' = FALSE
       \/ /\ "running" \in tasklet
          /\ tasklet' = tasklet \ {"running"}
          /\ UNCHANGED sched
    /\ UNCHANGED <<lab, timers, works, kthread, marks>>

(* my_work_func, one at a time, sleeps between its start and its end.      *)
my_work_func ==
    /\ Here
    /\ \/ queued > 0 /\ ~working /\ working' = TRUE /\ queued' = queued - 1
       \/ working /\ working' = FALSE /\ UNCHANGED queued
    /\ UNCHANGED <<lab, timers, tasklets, kthread, marks>>

(* One pass of the loop of simple_kthread_func; it sleeps between two.     *)
simple_kthread_func ==
    /\ Here
    /\ \/ thread = "test" /\ thread' = IF stop THEN "done" ELSE "sleep"
       \/ thread = "sleep" /\ thread' = "test"
    /\ UNCHANGED <<lab, timers, tasklets, works, stop, marks>>

-----------------------------------------------------------------------------
TimerStep == Expire \/ TimerFunc \/ ModTimer

DeferredNext ==
    /\ driver \in DeferredDrivers
    /\ \/ DeferredLoad
       \/ Unload(DeferredExitCalls[driver]) /\ UNCHANGED deferred
       \/ Edge /\ UNCHANGED deferred
       \/ DeferredIsr
       \/ TimerStep \/ simple_tasklet_func \/ my_work_func
       \/ simple_kthread_func

DeferredTypeOK ==
    /\ {timer, sched, working, stop, detected, slipped}
            \subseteq BOOLEAN
    /\ timer_func \in {"idle", "start", "arm"}
    /\ tasklet \subseteq {"listed", "running"}
    /\ queued \in 0..MaxWork
    /\ thread \in {"new", "test", "sleep", "done"}

(* Nothing of the driver runs, or is waiting to run. *)
Quiet ==
    /\ ~line /\ ~isr
    /\ ~timer /\ timer_func = "idle"
    /\ tasklet = {}
    /\ queued = 0 /\ ~working
    /\ thread \in {"new", "done"}
=============================================================================
