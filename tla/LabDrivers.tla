----------------------------- MODULE LabDrivers -----------------------------
(***************************************************************************)
(* The board with any one of the drivers of the labs.                      *)
(***************************************************************************)
EXTENDS DeferredWork, SensorLabs, PinLabs, CharLabs, SimpleSpi,
        FirstModules

vars == <<lab, deferred, sensors, pinlabs, chars, spidev, first>>

Init ==
    /\ LabInit /\ DeferredInit /\ SensorInit
    /\ \/ driver \in DeferredDrivers /\ calls = DeferredInitCalls[driver]
       \/ driver \in SensorDrivers /\ calls = SensorInitCalls[driver]
       \/ driver \in PinDrivers /\ calls = PinInitCalls[driver]
       \/ driver \in CharDrivers /\ calls = CharInitCalls[driver]
       \/ driver = "spidev" /\ calls = <<"probe">>
       \/ driver \in FirstDrivers /\ calls = FirstInitCalls[driver]
    /\ PinInit /\ CharInit /\ SpiInit /\ FirstInit

(* What the families of drivers keep to themselves.                        *)
Deferred(step) ==
    /\ driver \in DeferredDrivers /\ step
    /\ UNCHANGED <<sensors, pinlabs, chars, spidev, first>>

Sensor(step) ==
    /\ driver \in SensorDrivers /\ step
    /\ UNCHANGED <<deferred, pinlabs, chars, spidev, first>>

Next ==
    \/ Deferred(DeferredNext)
    \/ Sensor(SensorNext)
    \/ PinNext /\ UNCHANGED <<deferred, sensors, chars, spidev, first>>
    \/ CharNext /\ UNCHANGED <<deferred, sensors, pinlabs, spidev, first>>
    \/ SpiNext /\ UNCHANGED <<deferred, sensors, pinlabs, chars, first>>
    \/ FirstNext /\ UNCHANGED <<deferred, sensors, pinlabs, chars, spidev>>

Spec == Init /\ [][Next]_vars

-----------------------------------------------------------------------------
(* The init and exit functions run on, and so do the kernel's processors.  *)
(* SF: tasklet_kill looks for SCHED again and again and catches it between *)
(* two edges, and disable_irq and free_irq catch the handler between two;  *)
(* a spinlock is handed on in turn.                                        *)
Load ==
    \/ Deferred(DeferredLoad)
    \/ Sensor(SensorCalls)
    \/ PinNext /\ stage # "live" /\ UNCHANGED <<deferred, sensors, chars, spidev, first>>
    \/ CharCalls /\ UNCHANGED <<deferred, sensors, pinlabs, spidev, first>>
    \/ Probe /\ UNCHANGED <<deferred, sensors, pinlabs, chars, first>>
    \/ FirstCalls /\ UNCHANGED <<deferred, sensors, pinlabs, chars, spidev>>

Kernel ==
    \/ Deferred(DeferredIsr) \/ Sensor(SensorIsr)
    \/ CharIsr /\ UNCHANGED <<deferred, sensors, pinlabs, spidev, first>>

Fairness ==
    /\ SF_vars(Load)
    /\ SF_vars(Kernel)
    /\ WF_vars(Deferred(TimerStep))
    /\ WF_vars(Deferred(simple_tasklet_func))
    /\ WF_vars(Deferred(my_work_func))
    /\ WF_vars(Deferred(simple_kthread_func))
    /\ \A u \in User : SF_vars(Sensor(sensor_proc_show(u)))

FairSpec == Spec /\ Fairness

-----------------------------------------------------------------------------
TypeOK ==
    /\ LabTypeOK /\ DeferredTypeOK /\ SensorTypeOK
    /\ PinTypeOK /\ CharTypeOK /\ SpiTypeOK /\ FirstTypeOK

(* When the module is gone nothing of it is left to run: no handler, timer *)
(* function, tasklet, work or thread.  The exits of the timer drivers and  *)
(* of simple_tasklet ensure it but for one window each, that slipped marks:*)
(* del_timer while the timer function runs, and an edge between            *)
(* tasklet_kill and free_irq.  Every driver but simple_ultra has given its *)
(* pins back by then, and what it drives is low, unless the timer function *)
(* of ch7 has set it after exit.                                           *)
NothingLeft ==
    stage = "gone" =>
        /\ Quiet \/ slipped
        /\ gpio <=> driver = "simple_ultra"
        /\ level => driver = "ch7"

(* Until exit begins pins are used only after they have been requested:    *)
(* init of ch7 starts the timer last, that of ch8 the interrupt, and the   *)
(* drivers of Lab12 and KU_SnA request their pins before they use them.    *)
PinsRequested == badpin => stage \in {"exit", "gone"}

(* The kernel faults only when ch8 detects something while its timer still *)
(* runs since an earlier detection (a BUG_ON of add_timer, which drivers   *)
(* that start their timer in init never meet), or when a call through a    *)
(* device meets init half done or exit begun.                              *)
FaultsOnlySo ==
    [][bug' # bug =>
         \/ driver = "ch8" /\ detected
         \/ driver \in CharDrivers \cup {"simple_sensor"} /\ stage # "live"]_vars

(* An application whose open has succeeded prints what it has set: that of *)
(* simple_param its id, however many run at a time; that of ch2 the sum    *)
(* and the product, unless another one has changed the number between its  *)
(* calls or between the read and the store of one, which loses updates.    *)
(* simple_spi prints the sample, or after an error, on which it goes on, a *)
(* number that a sample might be.  mod2 of Lab02 prints its id, and before *)
(* that, unless it has been there since mod1 was loaded, what mod1 brings. *)
PrintsExact ==
    /\ \A u \in User : at[u] = "done" /\ fd[u] = "open" =>
          /\ driver = "simple_param" => printed[u] = <<201411303>>
          /\ driver = "ch2" /\ ~disturbed[u] => printed[u] = <<200, 500, 50000>>
    /\ spi = "done" =>
          /\ light_value < 4096
          /\ obeyed => light_value = sample
    /\ mod2 = "live" =>
          lines = IF driver = "symbol" THEN <<MyId>>
                  ELSE <<IF visits = 1 THEN 0 ELSE MyId, MyId>>

(* The handler ends: a process that it has interrupted does not hold the   *)
(* lock it waits for.  And insmod and rmmod end: no init or exit function  *)
(* waits for something that does not come to its end, but that of          *)
(* simple_switch, which waits for five pushes.                             *)
NothingHangs ==
    /\ isr ~> (~isr \/ bug)
    /\ stage = "init" /\ driver # "simple_switch" ~> (stage # "init" \/ bug)
    /\ stage = "exit" ~> (stage = "gone" \/ bug)
=============================================================================
