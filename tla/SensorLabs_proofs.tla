-------------------------- MODULE SensorLabs_proofs --------------------------
(***************************************************************************)
(* What holds of sensor_proc and simple_sensor for any number of users and *)
(* detections, in the specification of all the drivers of the labs.        *)
(***************************************************************************)
EXTENDS LabDrivers, FiniteSetTheorems, SequenceTheorems, TLAPS

(* Where a user can be in sensor_proc_show.                                *)
Steps == {"no", "test", "lock", "next", "print", "empty", "last", "done"}

(* The variables of the two drivers.                                       *)
SensorTypes ==
    /\ depth \in Nat
    /\ opened \in [User -> {"no", "opening", "open", "closing"}]
    /\ list \in Seq(Nat)
    /\ show \in [User -> Steps]
    /\ pos \in [User -> Nat \ {0}]
    /\ out \in [User -> Seq(Int)]
    /\ since \in [User -> Nat]
    /\ alone \in [User -> BOOLEAN]
    /\ proc_buf \in Int

-----------------------------------------------------------------------------
(* sensor_proc.  The calls that its init and exit functions have still to  *)
(* make.                                                                   *)
Init2 == <<"gpio_request", "request_irq">>
Init3 == <<"request_irq">>
Exit2 == <<"rundown", "free_irq", "synchronize", "gpio_free", "list_del">>
Exit3 == <<"free_irq", "synchronize", "gpio_free", "list_del">>
Exit4 == <<"synchronize", "gpio_free", "list_del">>
Exit5 == <<"gpio_free", "list_del">>
Exit6 == <<"list_del">>

ProcCode ==
    \/ stage = "init" /\ calls \in {sensor_proc_init, Init2, Init3}
    \/ stage \in {"live", "gone"} /\ calls = <<>>
    \/ stage = "exit" /\ calls \in {sensor_proc_exit, Exit2, Exit3, Exit4,
                                    Exit5, Exit6}

(* How far exit has come: the entry is away, its readers, the interrupt,   *)
(* the handler; then the list is taken apart.                              *)
Removed == stage = "gone" \/ calls \in {Exit2, Exit3, Exit4, Exit5, Exit6}
RunDown == stage = "gone" \/ calls \in {Exit3, Exit4, Exit5, Exit6}
Freed == stage = "gone" \/ calls \in {Exit4, Exit5, Exit6}
Synchronized == stage = "gone" \/ calls \in {Exit5, Exit6}
Dismantled == stage = "gone" \/ calls = Exit6

(* The first n detections.                                                 *)
Numbers(n) == [i \in 1..n |-> i]

ProcInv ==
    /\ ProcCode
    /\ Removed => ~ent
    /\ RunDown => \A u \in User : show[u] = "no"
    /\ Freed => ~line
    /\ Synchronized => ~isr
    /\ stage = "gone" => list = <<>>
    /\ list \in Seq(Nat)
    /\ Dismantled \/ list = Numbers(Len(list))

(* What a show has printed so far; others, which write into proc_buf with  *)
(* no lock, disturb it only when they have run at the time of it.          *)
Printed(u) ==
    /\ show[u] \in {"no", "test", "lock", "empty", "last"} => out[u] = <<>>
    /\ show[u] \in {"next", "print"} => out[u] = Numbers(pos[u] - 1)
    /\ show[u] = "print" => proc_buf = pos[u]
    /\ show[u] \in {"empty", "last"} => since[u] = 0
    /\ show[u] = "last" => proc_buf = EmptyList
    /\ show[u] = "done" =>
          \/ since[u] = 0 /\ out[u] = <<EmptyList>>
          \/ \E n \in 1..Len(list) : since[u] <= n /\ out[u] = Numbers(n)

ShowInv(u) ==
    /\ show[u] # "no" => since[u] \in 0..Len(list)
    /\ show[u] \in {"lock", "next", "print"} => Len(list) > 0
    /\ pos[u] \in 1..(Len(list) + 1)
    /\ show[u] \notin {"next", "print"} => pos[u] = 1
    /\ show[u] = "print" => pos[u] <= Len(list)
    /\ show[u] \in {"next", "print"} <=> spinlock = u
    /\ show[u] = "no" => out[u] = <<>>
    /\ alone[u] => /\ show[u] # "no" /\ Printed(u)
                   /\ \A v \in User : v # u => show[v] = "no"

SensorProcInv ==
    driver = "sensor_proc" => ProcInv /\ \A u \in User : ShowInv(u)

-----------------------------------------------------------------------------
(* simple_sensor.                                                          *)
Opens2 == <<"gpio_request", "request_irq", "disable_irq", "wait_irq">>
Opens3 == <<"request_irq", "disable_irq", "wait_irq">>
Opens4 == <<"disable_irq", "wait_irq">>
Opens5 == <<"wait_irq">>
Closes2 == <<"free_irq", "synchronize", "gpio_free">>
Closes3 == <<"synchronize", "gpio_free">>
Closes4 == <<"gpio_free">>

SensorCode ==
    \/ stage = "init" /\ calls \in {simple_sensor_init, Opens2, Opens3, Opens4,
                                    Opens5}
    \/ stage \in {"live", "gone"} /\ calls = <<>>
    \/ stage = "exit" /\ calls \in {simple_sensor_exit, Closes2, Closes3,
                                    Closes4}

InUse == \E u \in User : opened[u] \in {"opening", "open"}

(* One user at a time: who it is and how deep it has left the interrupt    *)
(* disabled.                                                               *)
OneByOne ==
    \/ depth = 1 /\ \A u \in User : opened[u] = "no"
    \/ \E u \in User :
          /\ \/ depth = 0 /\ opened[u] \in {"opening", "open"}
             \/ depth = 1 /\ opened[u] = "closing"
          /\ \A v \in User : v # u => opened[v] = "no"

SimpleSensorInv ==
    driver = "simple_sensor" =>
        /\ SensorCode
        /\ stage = "init" /\ orderly => \A u \in User : opened[u] = "no"
        /\ calls = Opens4 /\ orderly => depth = 0
        /\ line /\ orderly /\ (stage = "live" \/ calls = Opens5) => OneByOne
        /\ line /\ (stage # "init" \/ calls = Opens5) => depth > 0 \/ InUse
        /\ stage = "gone" \/ calls \in {simple_sensor_init, Opens2, Opens3,
                                       Closes3, Closes4} => ~line
        /\ stage = "gone" \/ calls \in {simple_sensor_init, Opens2, Opens3,
                                       Closes4} => ~isr
        /\ isr /\ stage # "init" => \E u \in User : opened[u] # "no"

-----------------------------------------------------------------------------
(* Another driver is not loaded instead.                                   *)
LEMMA DriverStays == [Next]_vars => driver' = driver
<1> SUFFICES ASSUME [Next]_vars
             PROVE  driver' = driver
  OBVIOUS
<1> USE DEF lab, code, Calls, During
<1>1. CommonCalls => driver' = driver
  BY DEF CommonCalls, GpioRequest, GpioFree, GpioSetValue, RequestIrq,
         RequestFails, FreeIrq, Synchronize
<1>2. ASSUME NEW exit
      PROVE  Unload(exit) => driver' = driver
  BY DEF Unload
<1>3. Edge \/ IsrEnter \/ IsrLeave => driver' = driver
  BY DEF Edge, IsrEnter, IsrLeave
<1>4. DeferredNext => driver' = driver
  BY <1>1, <1>2, <1>3
     DEF DeferredNext, DeferredLoad, DeferredIsr, AddTimer, DelTimer,
         TaskletKill, FlushWorkqueue, Kthread, ch8_isr, simple_tasklet_isr,
         simple_workqueue_isr, TimerStep, Expire, TimerFunc, ModTimer,
         simple_tasklet_func, my_work_func, simple_kthread_func
<1>5. SensorNext => driver' = driver
  <2>1. SensorCalls => driver' = driver
    BY <1>1 DEF SensorCalls, DisableIrq, CdevCalls, ProcCalls, DeleteList,
                Trigger
  <2>2. SensorEdge \/ Echo \/ SensorIsr => driver' = driver
    BY <1>3 DEF SensorEdge, Echo, SensorIsr, switch_irq_isr,
                simple_sensor_isr, sensor_proc_isr, simple_ultra_isr
  <2>3. ASSUME NEW u \in User
        PROVE  UserStep(u) => driver' = driver
    BY DEF UserStep, simple_sensor_open, GetStart, simple_sensor_release,
           Released, ReleaseGone, sensor_proc_open, sensor_proc_show,
           ListEmpty, LockList, Sprintf, SeqPrintf, UnlockList, ShowEmpty,
           ShowReturns, Shows
  <2> QED
    BY <1>2, <2>1, <2>2, <2>3 DEF SensorNext
<1>6. PinNext => driver' = driver
  BY <1>1, <1>2 DEF PinNext, PinCalls, Poll, play, simple_forward,
                    simple_backward, moveDegree, Loop
<1>7. CharNext => driver' = driver
  BY <1>1, <1>2, <1>3
     DEF CharNext, CharCalls, CharIsr, ku_SnA_isr, AppStep, Open, Fault, Enter,
         Leave, CallFails, Close, Goes
<1>8. SpiNext => driver' = driver
  BY DEF SpiNext, Probe, OpenSpi, setup_spi, transfer_spi, PrintLight, Main
<1>9. FirstNext => driver' = driver
  BY <1>2 DEF FirstNext, FirstCalls, RmmodMod1, InsmodMod1, InsmodMod2,
              RmmodMod2, ch1_mod2_init, mod2_init, PrintId, set_my_id, Mod2
<1> QED
  BY <1>4, <1>5, <1>6, <1>7, <1>8, <1>9 DEF Next, vars, Deferred, Sensor

(* The steps of these two are those of the family of sensors.              *)
LEMMA OnlySensors ==
    ASSUME [Next]_vars, driver \in {"sensor_proc", "simple_sensor"}
    PROVE  SensorNext \/ UNCHANGED <<lab, sensors>>
<1>1. driver \notin DeferredDrivers
  BY DEF DeferredDrivers, DeferredInitCalls
<1>2. driver \notin PinDrivers
  BY DEF PinDrivers, PinInitCalls
<1>3. driver \notin CharDrivers /\ driver # "spidev"
  BY DEF CharDrivers, CharInitCalls
<1>4. driver \notin FirstDrivers
  BY DEF FirstDrivers, FirstInitCalls
<1> QED
  BY <1>1, <1>2, <1>3, <1>4
     DEF Next, vars, Deferred, Sensor, PinNext, CharNext, SpiNext, FirstNext

LEMMA ProcExit ==
    /\ "sensor_proc" \in SensorDrivers /\ "simple_sensor" \in SensorDrivers
    /\ SensorInitCalls["sensor_proc"] = sensor_proc_init
    /\ SensorInitCalls["simple_sensor"] = simple_sensor_init
    /\ SensorExitCalls["sensor_proc"] = sensor_proc_exit
    /\ SensorExitCalls["simple_sensor"] = simple_sensor_exit
  BY DEF SensorDrivers, SensorInitCalls, SensorExitCalls

(* The calls are made in their order.                                      *)
LEMMA ProcSteps ==
    ASSUME ProcCode, NEW c, At(c)
    PROVE  \/ /\ c = "proc_create" /\ calls = sensor_proc_init
              /\ stage = "init" /\ Tail(calls) = Init2
           \/ /\ c = "gpio_request" /\ calls = Init2
              /\ stage = "init" /\ Tail(calls) = Init3
           \/ /\ c = "request_irq" /\ calls = Init3
              /\ stage = "init" /\ Tail(calls) = <<>>
           \/ /\ c = "proc_remove" /\ calls = sensor_proc_exit
              /\ stage = "exit" /\ Tail(calls) = Exit2
           \/ /\ c = "rundown" /\ calls = Exit2
              /\ stage = "exit" /\ Tail(calls) = Exit3
           \/ /\ c = "free_irq" /\ calls = Exit3
              /\ stage = "exit" /\ Tail(calls) = Exit4
           \/ /\ c = "synchronize" /\ calls = Exit4
              /\ stage = "exit" /\ Tail(calls) = Exit5
           \/ /\ c = "gpio_free" /\ calls = Exit5
              /\ stage = "exit" /\ Tail(calls) = Exit6
           \/ /\ c = "list_del" /\ calls = Exit6
              /\ stage = "exit" /\ Tail(calls) = <<>>
<1>1. calls # <<>> /\ c = Head(calls)
  BY DEF At
<1>2. CASE calls = sensor_proc_init /\ stage = "init"
  BY <1>1, <1>2 DEF sensor_proc_init, Init2
<1>3. CASE calls = Init2 /\ stage = "init"
  BY <1>1, <1>3 DEF Init2, Init3
<1>4. CASE calls = Init3 /\ stage = "init"
  BY <1>1, <1>4 DEF Init3
<1>5. CASE calls = sensor_proc_exit /\ stage = "exit"
  BY <1>1, <1>5 DEF sensor_proc_exit, Exit2
<1>6. CASE calls = Exit2 /\ stage = "exit"
  BY <1>1, <1>6 DEF Exit2, Exit3
<1>7. CASE calls = Exit3 /\ stage = "exit"
  BY <1>1, <1>7 DEF Exit3, Exit4
<1>8. CASE calls = Exit4 /\ stage = "exit"
  BY <1>1, <1>8 DEF Exit4, Exit5
<1>9. CASE calls = Exit5 /\ stage = "exit"
  BY <1>1, <1>9 DEF Exit5, Exit6
<1>10. CASE calls = Exit6 /\ stage = "exit"
  BY <1>1, <1>10 DEF Exit6
<1> QED
  BY <1>1, <1>2, <1>3, <1>4, <1>5, <1>6, <1>7, <1>8, <1>9, <1>10 DEF ProcCode

(* No two of the positions are the same.                                   *)
LEMMA ProcPositions ==
    /\ {sensor_proc_init, Init2, Init3, sensor_proc_exit, <<>>} \cap
          {Exit2, Exit3, Exit4, Exit5, Exit6} = {}
    /\ Exit2 \notin {Exit3, Exit4, Exit5, Exit6}
    /\ Exit3 \notin {Exit4, Exit5, Exit6}
    /\ Exit4 \notin {Exit5, Exit6} /\ Exit5 # Exit6
    /\ Init2 # <<>> /\ Init3 # <<>> /\ sensor_proc_init # <<>>
    /\ sensor_proc_exit # <<>>
<1>1. /\ sensor_proc_init[1] = "proc_create" /\ Init2[1] = "gpio_request"
      /\ Init3[1] = "request_irq" /\ sensor_proc_exit[1] = "proc_remove"
      /\ Exit2[1] = "rundown" /\ Exit3[1] = "free_irq"
      /\ Exit4[1] = "synchronize" /\ Exit5[1] = "gpio_free"
      /\ Exit6[1] = "list_del"
  BY DEF sensor_proc_init, Init2, Init3, sensor_proc_exit, Exit2, Exit3, Exit4,
         Exit5, Exit6
<1>2. \A s \in {sensor_proc_init, Init2, Init3, sensor_proc_exit, Exit2, Exit3,
               Exit4, Exit5, Exit6} : s # <<>>
  BY DEF sensor_proc_init, Init2, Init3, sensor_proc_exit, Exit2, Exit3, Exit4,
         Exit5, Exit6
<1>3. Len(Exit5) = 2 /\ Len(Init2) = 2
  BY DEF Exit5, Init2
<1>4. Exit5[2] # Init2[2]
  BY DEF Exit5, Init2
<1> QED
  BY <1>1, <1>2, <1>4

LEMMA NumbersAre ==
    ASSUME NEW n \in Nat
    PROVE  /\ Numbers(n) \in Seq(Nat) /\ Len(Numbers(n)) = n
           /\ \A i \in 1..n : Numbers(n)[i] = i
           /\ Numbers(n) \in Seq(Int)
           /\ Append(Numbers(n), n + 1) = Numbers(n + 1)
<1>1. Numbers(n) \in Seq(Nat)
  BY DEF Numbers
<1>2. Len(Numbers(n)) = n /\ \A i \in 1..n : Numbers(n)[i] = i
  BY <1>1 DEF Numbers
<1>3. Numbers(n) \in Seq(Int)
  BY DEF Numbers
<1>4. Append(Numbers(n), n + 1) = Numbers(n + 1)
  <2>1. Numbers(n + 1) \in Seq(Nat) /\ Len(Numbers(n + 1)) = n + 1
    BY DEF Numbers
  <2>2. /\ Append(Numbers(n), n + 1) \in Seq(Nat)
        /\ Len(Append(Numbers(n), n + 1)) = n + 1
        /\ \A i \in 1..(n + 1) : Append(Numbers(n), n + 1)[i] = i
    BY <1>1, <1>2, AppendProperties
  <2>3. \A i \in 1..(n + 1) : Numbers(n + 1)[i] = i
    BY DEF Numbers
  <2> QED
    BY <2>1, <2>2, <2>3, SeqEqual
<1> QED
  BY <1>1, <1>2, <1>3, <1>4

LEMMA SensorTypesInit == Init => SensorTypes
<1> SUFFICES ASSUME Init
             PROVE  SensorTypes
  OBVIOUS
<1>1. SensorInit
  BY DEF Init
<1>2. list \in Seq(Nat) /\ out \in [User -> Seq(Int)]
  BY <1>1, EmptySeq DEF SensorInit
<1>3. opened \in [User -> {"no", "opening", "open", "closing"}]
  BY <1>1 DEF SensorInit
<1>4. show \in [User -> Steps]
  BY <1>1 DEF SensorInit, Steps
<1>5. pos \in [User -> Nat \ {0}] /\ since \in [User -> Nat]
  BY <1>1 DEF SensorInit
<1>6. alone \in [User -> BOOLEAN]
  BY <1>1 DEF SensorInit
<1>7. depth \in Nat /\ proc_buf \in Int
  BY <1>1 DEF SensorInit
<1> QED
  BY <1>2, <1>3, <1>4, <1>5, <1>6, <1>7 DEF SensorTypes

LEMMA SensorTypesNext == SensorTypes /\ [Next]_vars => SensorTypes'
<1> SUFFICES ASSUME SensorTypes, [Next]_vars
             PROVE  SensorTypes'
  OBVIOUS
<1>1. CASE UNCHANGED sensors
  BY <1>1 DEF SensorTypes, sensors, device, proc, shows
<1>2. CASE CommonCalls /\ ResetDepth /\ UNCHANGED <<opened, orderly, proc, ultra>>
  <2>1. depth' \in Nat
    BY <1>2 DEF ResetDepth, SensorTypes
  <2> QED
    BY <1>2, <2>1 DEF SensorTypes, proc, shows
<1>3. CASE DisableIrq
  <2>1. depth' \in Nat
    BY <1>3 DEF DisableIrq, SensorTypes
  <2> QED
    BY <1>3, <2>1 DEF DisableIrq, SensorTypes, proc, shows
<1>4. CASE ProcCalls
  BY <1>4 DEF ProcCalls, SensorTypes, device, shows
<1>5. CASE DeleteList
  <2>1. list = <<>> \/ Tail(list) \in Seq(Nat)
    BY HeadTailProperties DEF SensorTypes
  <2>2. list' = list \/ (list # <<>> /\ list' = Tail(list))
    BY <1>5 DEF DeleteList
  <2>3. list' \in Seq(Nat)
    BY <2>1, <2>2 DEF SensorTypes
  <2> QED
    BY <1>5, <2>3 DEF DeleteList, SensorTypes, device, shows
<1>6. CASE CdevCalls \/ Trigger \/ Echo
  BY <1>6 DEF CdevCalls, Trigger, Echo, SensorTypes, sensors, device, proc, shows
<1>7. CASE sensor_proc_isr
  <2>1. list' \in Seq(Nat)
    BY <1>7, AppendProperties, LenProperties
       DEF sensor_proc_isr, ListAddTail, SensorTypes
  <2> QED
    BY <1>7, <2>1 DEF sensor_proc_isr, SensorTypes, device, shows
<1>8. CASE simple_ultra_isr
  BY <1>8 DEF simple_ultra_isr, SensorTypes, device, proc, shows
<1>9. ASSUME NEW u \in User, \/ simple_sensor_open(u) \/ GetStart(u)
                             \/ simple_sensor_release(u) \/ Released(u)
      PROVE  SensorTypes'
  <2>1. depth' \in Nat
    BY <1>9 DEF simple_sensor_open, GetStart, simple_sensor_release, Released,
                EnableIrq, SensorTypes
  <2>2. opened' \in [User -> {"no", "opening", "open", "closing"}]
    BY <1>9 DEF simple_sensor_open, GetStart, simple_sensor_release, Released,
                SensorTypes
  <2>3. UNCHANGED proc
    BY <1>9 DEF simple_sensor_open, GetStart, simple_sensor_release, Released
  <2> QED
    BY <2>1, <2>2, <2>3 DEF SensorTypes, proc, shows
<1>10. ASSUME NEW u \in User, sensor_proc_open(u)
       PROVE  SensorTypes'
  <2>1. Len(list) \in Nat
    BY LenProperties DEF SensorTypes
  <2>2. show' \in [User -> Steps]
    BY <1>10 DEF sensor_proc_open, SensorTypes, Steps
  <2>3. since' \in [User -> Nat]
    BY <1>10, <2>1 DEF sensor_proc_open, SensorTypes
  <2>4. alone' \in [User -> BOOLEAN]
    <3>1. alone' = [v \in User |->
                       IF v = u THEN {w \in User \ {u} : show[w] # "no"} = {}
                       ELSE alone[v] /\ v \notin {w \in User \ {u} : show[w] # "no"}]
      BY <1>10 DEF sensor_proc_open
    <3> QED
      BY <3>1, Zenon DEF SensorTypes
  <2>5. proc_buf' \in Int /\ UNCHANGED <<depth, opened, list, pos, out>>
    BY <1>10 DEF sensor_proc_open, device
  <2> QED
    BY <2>2, <2>3, <2>4, <2>5 DEF SensorTypes
<1>11. ASSUME NEW u \in User, sensor_proc_show(u)
       PROVE  SensorTypes'
  <2>1. UNCHANGED <<list, device>>
    BY <1>11 DEF sensor_proc_show, ListEmpty, LockList, Sprintf, SeqPrintf,
                 UnlockList, ShowEmpty, ShowReturns, Shows
  <2>2. show' \in [User -> Steps]
    BY <1>11 DEF sensor_proc_show, ListEmpty, LockList, Sprintf, SeqPrintf,
                 UnlockList, ShowEmpty, ShowReturns, Shows, SensorTypes, Steps
  <2>3. pos' \in [User -> Nat \ {0}]
    BY <1>11 DEF sensor_proc_show, ListEmpty, LockList, Sprintf, SeqPrintf,
                 UnlockList, ShowEmpty, ShowReturns, SensorTypes
  <2>4. since' \in [User -> Nat]
    <3>1. since' = since \/ since' = [since EXCEPT ![u] = 0]
      BY <1>11 DEF sensor_proc_show, ListEmpty, LockList, Sprintf, SeqPrintf,
                   UnlockList, ShowEmpty, ShowReturns
    <3> QED
      BY <3>1 DEF SensorTypes
  <2>5. alone' \in [User -> BOOLEAN]
    BY <1>11 DEF sensor_proc_show, ListEmpty, LockList, Sprintf, SeqPrintf,
                 UnlockList, ShowEmpty, ShowReturns, SensorTypes
  <2>6. out' \in [User -> Seq(Int)]
    <3>1. Append(out[u], proc_buf) \in Seq(Int) /\ <<>> \in Seq(Int)
      BY AppendProperties, EmptySeq DEF SensorTypes
    <3> QED
      BY <1>11, <3>1 DEF sensor_proc_show, ListEmpty, LockList, Sprintf,
                   SeqPrintf, UnlockList, ShowEmpty, ShowReturns, SensorTypes
  <2>7. proc_buf' \in Int
    <3>1. CASE Sprintf(u)
      <4>1. pos[u] \in 1..Len(list)
        BY <3>1, LenProperties DEF Sprintf, SensorTypes
      <4> QED
        BY <3>1, <4>1, ElementOfSeq DEF Sprintf, SensorTypes
    <3>2. CASE ~Sprintf(u)
      BY <1>11, <3>2 DEF sensor_proc_show, ListEmpty, LockList, SeqPrintf,
                 UnlockList, ShowEmpty, ShowReturns, EmptyList, SensorTypes
    <3> QED
      BY <3>1, <3>2
  <2> QED
    BY <2>1, <2>2, <2>3, <2>4, <2>5, <2>6, <2>7 DEF SensorTypes, device
<1>12. CASE SensorNext
  BY <1>1, <1>2, <1>3, <1>4, <1>5, <1>6, <1>7, <1>8, <1>9, <1>10, <1>11, <1>12
     DEF SensorNext, SensorCalls, SensorEdge, SensorIsr, UserStep,
         switch_irq_isr, simple_sensor_isr, ReleaseGone
<1> QED
  BY <1>1, <1>12 DEF Next, vars, Deferred, Sensor, PinNext, CharNext, SpiNext,
                     FirstNext

-----------------------------------------------------------------------------
(* sensor_proc.                                                            *)
LEMMA SensorProcInit == Init => SensorProcInv
<1> SUFFICES ASSUME Init, driver = "sensor_proc"
             PROVE  ProcInv /\ \A u \in User : ShowInv(u)
  BY DEF SensorProcInv
<1>1. SensorInit /\ LabInit
  BY DEF Init
<1>2. calls = sensor_proc_init
  BY ProcExit
     DEF Init, DeferredDrivers, DeferredInitCalls, PinDrivers, PinInitCalls,
         CharDrivers, CharInitCalls, FirstDrivers, FirstInitCalls
<1>3. stage = "init" /\ list = <<>> /\ line = FALSE /\ isr = FALSE /\ ent = FALSE
  BY <1>1 DEF SensorInit, LabInit
<1>4. ProcInv
  <2>1. list \in Seq(Nat) /\ Len(list) = 0
    BY <1>3, EmptySeq
  <2>2. list = Numbers(Len(list))
    BY <1>3, <2>1, NumbersAre, EmptySeq
  <2>3. ~Removed /\ ~RunDown /\ ~Freed /\ ~Synchronized
    BY <1>2, <1>3, ProcPositions DEF Removed, RunDown, Freed, Synchronized
  <2> QED
    BY <1>2, <1>3, <2>1, <2>2, <2>3 DEF ProcInv, ProcCode
<1>5. ASSUME NEW u \in User
      PROVE  ShowInv(u)
  <2>1. /\ show[u] = "no" /\ pos[u] = 1 /\ out[u] = <<>> /\ ~alone[u]
        /\ spinlock # u /\ list = <<>>
    BY <1>1, SensorAssumption DEF SensorInit
  <2>2. Len(list) = 0
    BY <2>1, EmptySeq
  <2> QED
    BY <2>1, <2>2 DEF ShowInv
<1> QED
  BY <1>4, <1>5

(* The calls of init and exit, one after the other.                        *)
LEMMA ProcCallsNext ==
    ASSUME SensorTypes, driver = "sensor_proc", ProcInv, SensorCalls
    PROVE  ProcInv'
<1> USE ProcPositions DEF ProcCode, Removed, RunDown, Freed, Synchronized,
                          Dismantled, Calls, During
<1>1. ProcCode
  BY DEF ProcInv
<1>2. ASSUME stage = "init", list' = list, ProcCode',
             stage' # "gone", stage' # "exit"
      PROVE  ProcInv'
  <2>1. ~Dismantled
    BY <1>1, <1>2
  <2>2. ~Removed' /\ ~RunDown' /\ ~Freed' /\ ~Synchronized' /\ stage' # "gone"
    BY <1>2
  <2> QED
    BY <1>2, <2>1, <2>2 DEF ProcInv
<1>3. CASE Calls("proc_create") /\ UNCHANGED list
  <2>1. stage = "init" /\ Tail(calls) = Init2 /\ Tail(calls) # <<>>
    BY <1>1, <1>3, ProcSteps
  <2>2. calls' = Init2
    BY <1>3, <2>1
  <2>3. stage' = "init"
    BY <1>3, <2>1
  <2> QED
    BY <1>2, <1>3, <2>1, <2>2, <2>3
<1>4. CASE GpioRequest /\ UNCHANGED list
  <2>1. stage = "init" /\ Tail(calls) = Init3 /\ Tail(calls) # <<>>
    BY <1>1, <1>4, ProcSteps DEF GpioRequest
  <2>2. calls' = Init3
    BY <1>4, <2>1 DEF GpioRequest
  <2>3. stage' = "init"
    BY <1>4, <2>1 DEF GpioRequest
  <2> QED
    BY <1>2, <1>4, <2>1, <2>2, <2>3
<1>5. CASE (RequestIrq \/ RequestFails) /\ UNCHANGED list
  <2>1. stage = "init" /\ Tail(calls) = <<>>
    BY <1>1, <1>5, ProcSteps DEF RequestIrq, RequestFails
  <2>2. stage' = "live" /\ calls' = <<>>
    BY <1>5, <2>1 DEF RequestIrq, RequestFails
  <2> QED
    BY <1>2, <1>5, <2>1, <2>2
<1>6. CASE Calls("proc_remove") /\ ent' = FALSE
           /\ UNCHANGED <<line, isr, list, show>>
  BY <1>1, <1>6, ProcSteps DEF ProcInv
<1>7. CASE Calls("rundown") /\ (\A u \in User : show[u] = "no")
           /\ UNCHANGED <<ent, line, isr, list, show>>
  BY <1>1, <1>7, ProcSteps DEF ProcInv
<1>8. CASE FreeIrq /\ UNCHANGED <<ent, list, show>>
  BY <1>1, <1>8, ProcSteps DEF FreeIrq, ProcInv
<1>9. CASE Synchronize /\ UNCHANGED <<ent, list, show>>
  BY <1>1, <1>9, ProcSteps DEF Synchronize, ProcInv, interrupt
<1>10. CASE GpioFree /\ UNCHANGED <<ent, list, show>>
  BY <1>1, <1>10, ProcSteps DEF GpioFree, ProcInv, interrupt
<1>11. CASE DeleteList
  <2>1. list' \in Seq(Nat) /\ UNCHANGED <<ent, line, isr, show>>
    <3>1. list = <<>> \/ Tail(list) \in Seq(Nat)
      BY HeadTailProperties DEF SensorTypes
    <3> QED
      BY <1>11, <3>1 DEF DeleteList, SensorTypes, shows, interrupt
  <2>2. calls = Exit6 /\ stage = "exit" /\ Tail(calls) = <<>>
    BY <1>1, <1>11, ProcSteps DEF DeleteList
  <2>3. \/ stage' = "gone" /\ calls' = <<>> /\ list' = <<>>
        \/ stage' = "exit" /\ calls' = Exit6
    BY <1>11, <2>2 DEF DeleteList
  <2> QED
    BY <2>1, <2>2, <2>3 DEF ProcInv
<1>12. ~GpioSetValue /\ ~DisableIrq /\ ~CdevCalls /\ ~Trigger
  <2>1. ASSUME NEW c, At(c)
        PROVE  c \notin {"set_high", "set_low", "disable_irq", "wait_irq",
                         "cdev_add", "cdev_del", "trigger", "valid"}
    BY <1>1, <2>1, ProcSteps
  <2> QED
    BY <2>1 DEF GpioSetValue, DisableIrq, CdevCalls, Trigger
<1> QED
  BY <1>3, <1>4, <1>5, <1>6, <1>7, <1>8, <1>9, <1>10, <1>11, <1>12
     DEF SensorCalls, CommonCalls, ProcCalls, proc, shows, interrupt

(* The steps of the users, of the interrupt and of rmmod.                  *)
LEMMA ProcInvNext ==
    ASSUME SensorTypes, driver = "sensor_proc", ProcInv,
           SensorNext \/ UNCHANGED <<lab, sensors>>
    PROVE  ProcInv'
<1> USE DEF lab, code, interrupt, sensors, proc, shows
<1>1. CASE UNCHANGED <<stage, calls, ent, line, isr, list>>
           /\ (show' = show \/ ~RunDown)
  BY <1>1 DEF ProcInv, ProcCode, Removed, RunDown, Freed, Synchronized,
              Dismantled
<1>2. CASE SensorCalls
  BY <1>2, ProcCallsNext
<1>3. CASE Unload(SensorExitCalls[driver]) /\ UNCHANGED sensors
  <2>1. /\ stage = "live" /\ stage' = "exit" /\ calls' = sensor_proc_exit
        /\ UNCHANGED <<line, isr, list>>
    BY <1>3, ProcExit DEF Unload
  <2>2. ~Dismantled
    BY <2>1, ProcPositions DEF ProcInv, ProcCode, Dismantled
  <2>3. ~Removed' /\ ~RunDown' /\ ~Freed' /\ ~Synchronized'
    BY <2>1, ProcPositions DEF Removed, RunDown, Freed, Synchronized
  <2>4. ProcCode'
    BY <2>1 DEF ProcCode
  <2> QED
    BY <2>1, <2>2, <2>3, <2>4 DEF ProcInv
<1>4. CASE SensorEdge
  BY <1>1, <1>4 DEF SensorEdge, Edge
<1>5. CASE Echo
  BY <1>1, <1>5 DEF Echo
<1>6. CASE IsrEnter /\ UNCHANGED sensors
  <2>1. line /\ UNCHANGED <<stage, calls, ent, line, list, show>>
    BY <1>6 DEF IsrEnter
  <2>2. ~Freed /\ ~Synchronized
    BY <2>1, ProcPositions DEF ProcInv, Freed, Synchronized
  <2> QED
    BY <2>1, <2>2 DEF ProcInv, ProcCode, Removed, RunDown, Freed, Synchronized,
                      Dismantled
<1>7. CASE sensor_proc_isr
  <2>1. isr /\ ~isr' /\ UNCHANGED <<stage, calls, ent, line, show>>
    BY <1>7 DEF sensor_proc_isr, IsrLeave
  <2>2. ~Synchronized
    BY <2>1 DEF ProcInv
  <2>3. stage # "gone" /\ list = Numbers(Len(list)) /\ Len(list) \in Nat
    BY <2>2, LenProperties
       DEF ProcInv, Synchronized, Dismantled, SensorTypes
  <2>4. list' = Numbers(Len(list) + 1)
    BY <1>7, <2>3, NumbersAre DEF sensor_proc_isr, ListAddTail
  <2>5. list' \in Seq(Nat) /\ list' = Numbers(Len(list'))
    BY <2>3, <2>4, NumbersAre
  <2> QED
    BY <2>1, <2>3, <2>5 DEF ProcInv, ProcCode, Removed, RunDown, Freed,
                            Synchronized, Dismantled
<1>8. ASSUME NEW u \in User, sensor_proc_open(u)
      PROVE  ProcInv'
  <2>1. ~RunDown
    BY <1>8, ProcPositions DEF sensor_proc_open, ProcInv, Removed, RunDown
  <2> QED
    BY <1>1, <1>8, <2>1 DEF sensor_proc_open
<1>9. ASSUME NEW u \in User, sensor_proc_show(u)
      PROVE  ProcInv'
  <2>1. show[u] # "no" /\ UNCHANGED <<lab, ent, list>>
    BY <1>9 DEF sensor_proc_show, ListEmpty, LockList, Sprintf, SeqPrintf,
                UnlockList, ShowEmpty, ShowReturns, Shows
  <2>2. ~RunDown
    BY <2>1 DEF ProcInv
  <2> QED
    BY <1>1, <2>1, <2>2
<1>10. ASSUME NEW u \in User, ReleaseGone(u)
       PROVE  ProcInv'
  BY <1>1, <1>10 DEF ReleaseGone
<1>11. CASE SensorNext
  BY <1>2, <1>3, <1>4, <1>5, <1>6, <1>7, <1>8, <1>9, <1>10, <1>11
     DEF SensorNext, SensorIsr, UserStep, switch_irq_isr, simple_sensor_isr,
         simple_ultra_isr, simple_sensor_open, GetStart,
         simple_sensor_release, Released
<1> QED
  BY <1>1, <1>11

-----------------------------------------------------------------------------
(* A show that nobody disturbs stands where it stood.                      *)
LEMMA OthersStay ==
    ASSUME SensorTypes, NEW u \in User, NEW v \in User, u # v, show[u] # "no",
           ShowInv(v), list' = list, show'[v] = show[v], pos'[v] = pos[v],
           out'[v] = out[v], since'[v] = since[v], alone'[v] = alone[v],
           spinlock' = v <=> spinlock = v
    PROVE  ShowInv(v)'
<1>1. ~alone[v]
  BY DEF ShowInv
<1>2. ~alone'[v]
  BY <1>1
<1> QED
  BY <1>2 DEF ShowInv

(* One step of the show of u.                                              *)
LEMMA ShowSteps ==
    ASSUME SensorTypes, driver = "sensor_proc", ProcInv, NEW u \in User,
           \A v \in User : ShowInv(v), sensor_proc_show(u)
    PROVE  \A v \in User : ShowInv(v)'
<1>1. /\ show[u] # "no" /\ UNCHANGED <<list, isr>>
      /\ \A v \in User : v # u => show'[v] = show[v]
  BY DEF sensor_proc_show, ListEmpty, LockList, Sprintf, SeqPrintf, UnlockList,
         ShowEmpty, ShowReturns, Shows, SensorTypes, lab, interrupt
<1>2. \A v \in User : v # u => /\ pos'[v] = pos[v] /\ out'[v] = out[v]
                               /\ since'[v] = since[v] /\ alone'[v] = alone[v]
  BY DEF sensor_proc_show, ListEmpty, LockList, Sprintf, SeqPrintf, UnlockList,
         ShowEmpty, ShowReturns, SensorTypes
<1>3. \A v \in User : v # u => (spinlock' = v <=> spinlock = v)
  <2>1. CASE LockList(u)
    BY <2>1, SensorAssumption DEF LockList
  <2>2. CASE UnlockList(u)
    <3>1. spinlock = u /\ spinlock' = Nobody
      BY <2>2 DEF UnlockList, Shows, ShowInv
    <3> QED
      BY <3>1, SensorAssumption
  <2> QED
    BY <2>1, <2>2 DEF sensor_proc_show, ListEmpty, Sprintf, SeqPrintf,
                      ShowEmpty, ShowReturns
<1>4. ASSUME NEW v \in User, v # u
      PROVE  ShowInv(v)'
  BY <1>1, <1>2, <1>3, <1>4, OthersStay
<1>5. alone'[u] => /\ alone[u]
                   /\ \A v \in User : v # u => show'[v] = "no"
  <2>1. alone'[u] => alone[u]
    BY DEF sensor_proc_show, ListEmpty, LockList, Sprintf, SeqPrintf,
           UnlockList, ShowEmpty, ShowReturns, SensorTypes
  <2> QED
    BY <1>1, <2>1 DEF ShowInv
<1>6. /\ Len(list) \in Nat /\ pos[u] \in Nat /\ list = Numbers(Len(list))
      /\ ShowInv(u)
  BY <1>1, LenProperties, ProcPositions
     DEF SensorTypes, ProcInv, Dismantled, RunDown
<1>7. ShowInv(u)'
  <2>1. CASE ListEmpty(u)
    <3>1. /\ show[u] = "test" /\ spinlock' = spinlock /\ pos'[u] = pos[u]
          /\ out'[u] = out[u] /\ since'[u] = since[u]
          /\ \/ list = <<>> /\ show'[u] = "empty"
             \/ list # <<>> /\ show'[u] = "lock"
      BY <2>1 DEF ListEmpty, Shows, SensorTypes
    <3>2. IF list = <<>> THEN Len(list) = 0 ELSE Len(list) > 0
      BY <1>6, EmptySeq DEF SensorTypes
    <3> QED
      BY <1>1, <1>5, <1>6, <3>1, <3>2 DEF ShowInv, Printed
  <2>2. CASE LockList(u)
    <3>1. /\ show[u] = "lock" /\ show'[u] = "next" /\ spinlock' = u
          /\ pos'[u] = pos[u] /\ out'[u] = out[u] /\ since'[u] = since[u]
      BY <2>2 DEF LockList, Shows, SensorTypes
    <3>2. Numbers(0) = <<>>
      BY NumbersAre, EmptySeq
    <3> QED
      BY <1>1, <1>5, <1>6, <3>1, <3>2 DEF ShowInv, Printed
  <2>3. CASE Sprintf(u)
    <3>1. /\ show[u] = "next" /\ show'[u] = "print" /\ spinlock' = spinlock
          /\ pos'[u] = pos[u] /\ out'[u] = out[u] /\ since'[u] = since[u]
          /\ pos[u] <= Len(list) /\ proc_buf' = list[pos[u]]
      BY <2>3 DEF Sprintf, Shows, SensorTypes
    <3>2. proc_buf' = pos[u]
      <4>1. \A i \in 1..Len(list) : list[i] = i
        BY <1>6, NumbersAre
      <4>2. pos[u] \in 1..Len(list)
        BY <1>6, <3>1 DEF ShowInv
      <4> QED
        BY <3>1, <4>1, <4>2
    <3> QED
      BY <1>1, <1>5, <1>6, <3>1, <3>2 DEF ShowInv, Printed
  <2>4. CASE SeqPrintf(u)
    <3>1. /\ show[u] = "print" /\ show'[u] = "next" /\ spinlock' = spinlock
          /\ pos'[u] = pos[u] + 1 /\ out'[u] = Append(out[u], proc_buf)
          /\ since'[u] = since[u]
      BY <2>4 DEF SeqPrintf, Shows, SensorTypes
    <3>2. alone[u] => out'[u] = Numbers(pos[u])
      <4>1. pos[u] - 1 \in Nat /\ (pos[u] - 1) + 1 = pos[u]
        BY <1>6 DEF ShowInv
      <4>2. Append(Numbers(pos[u] - 1), pos[u]) = Numbers(pos[u])
        BY <4>1, NumbersAre
      <4> QED
        BY <1>6, <3>1, <4>2 DEF ShowInv, Printed
    <3>3. pos'[u] - 1 = pos[u] /\ pos[u] \in 1..Len(list)
      BY <1>6, <3>1 DEF ShowInv
    <3>4. alone'[u] => Printed(u)'
      BY <1>5, <3>1, <3>2, <3>3 DEF Printed
    <3> QED
      BY <1>1, <1>5, <1>6, <3>1, <3>3, <3>4 DEF ShowInv
  <2>5. CASE UnlockList(u)
    <3>1. /\ show[u] = "next" /\ show'[u] = "done" /\ spinlock' = Nobody
          /\ pos'[u] = 1 /\ out'[u] = out[u] /\ since'[u] = since[u]
          /\ pos[u] > Len(list)
      BY <2>5 DEF UnlockList, Shows, SensorTypes
    <3>2. pos[u] - 1 = Len(list) /\ Len(list) \in 1..Len(list)
      BY <1>6, <3>1 DEF ShowInv
    <3>3. alone[u] => out[u] = Numbers(Len(list)) /\ since[u] <= Len(list)
      BY <1>6, <3>1, <3>2 DEF ShowInv, Printed
    <3> QED
      BY <1>1, <1>5, <1>6, <3>1, <3>2, <3>3, SensorAssumption
         DEF ShowInv, Printed
  <2>6. CASE ShowEmpty(u)
    <3>1. /\ spinlock' = spinlock /\ pos'[u] = pos[u] /\ since'[u] = since[u]
          /\ \/ /\ show[u] = "empty" /\ show'[u] = "last"
                /\ out'[u] = out[u] /\ proc_buf' = EmptyList
             \/ /\ show[u] = "last" /\ show'[u] = "done"
                /\ out'[u] = Append(out[u], proc_buf)
      BY <2>6 DEF ShowEmpty, Shows, SensorTypes
    <3>2. Append(<<>>, EmptyList) = <<EmptyList>>
      OBVIOUS
    <3> QED
      BY <1>1, <1>5, <1>6, <3>1, <3>2 DEF ShowInv, Printed
  <2>7. CASE ShowReturns(u)
    <3>1. /\ show[u] = "done" /\ show'[u] = "no" /\ spinlock' = spinlock
          /\ pos'[u] = pos[u] /\ out'[u] = <<>> /\ ~alone'[u]
      BY <2>7 DEF ShowReturns, Shows, SensorTypes
    <3> QED
      BY <1>1, <1>6, <3>1 DEF ShowInv
  <2> QED
    BY <2>1, <2>2, <2>3, <2>4, <2>5, <2>6, <2>7 DEF sensor_proc_show
<1> QED
  BY <1>4, <1>7

(* The steps of the handler, of init and exit, and of those that begin to  *)
(* read the entry.                                                         *)
LEMMA ShowInvNext ==
    ASSUME SensorTypes, driver = "sensor_proc", ProcInv,
           \A u \in User : ShowInv(u), SensorNext \/ UNCHANGED <<lab, sensors>>
    PROVE  \A u \in User : ShowInv(u)'
<1> USE DEF lab, code, interrupt, sensors, proc, shows
<1>1. CASE UNCHANGED <<list, spinlock, shows>>
  BY <1>1 DEF ShowInv, Printed
<1>2. CASE DeleteList
  <2>1. At("list_del") /\ UNCHANGED <<spinlock, shows>>
    BY <1>2 DEF DeleteList, Calls, During
  <2>2. calls = Exit6
    BY <2>1, ProcSteps DEF ProcInv
  <2>3. \A u \in User : show[u] = "no"
    BY <2>2 DEF ProcInv, RunDown
  <2>4. list' \in Seq(Nat)
    <3>1. list = <<>> \/ Tail(list) \in Seq(Nat)
      BY HeadTailProperties DEF SensorTypes
    <3> QED
      BY <1>2, <3>1 DEF DeleteList, SensorTypes
  <2>5. Len(list') \in Nat
    BY <2>4, LenProperties
  <2> QED
    BY <2>1, <2>3, <2>5 DEF ShowInv
<1>3. CASE SensorCalls
  BY <1>1, <1>2, <1>3 DEF SensorCalls, DisableIrq, CdevCalls, ProcCalls, Trigger
<1>4. CASE SensorEdge \/ Echo
  BY <1>1, <1>4 DEF SensorEdge, Echo
<1>5. CASE sensor_proc_isr
  <2>1. spinlock = Nobody /\ UNCHANGED <<spinlock, shows>>
    BY <1>5 DEF sensor_proc_isr
  <2>2. Len(list) \in Nat /\ Len(list') = Len(list) + 1
    BY <1>5, LenProperties, AppendProperties
       DEF sensor_proc_isr, ListAddTail, SensorTypes
  <2>3. ASSUME NEW u \in User
        PROVE  ShowInv(u)'
    <3>1. ShowInv(u) /\ show[u] \notin {"next", "print"}
      BY <2>1, SensorAssumption DEF ShowInv
    <3>2. Printed(u) => Printed(u)'
      BY <2>1, <2>2, <3>1 DEF Printed
    <3> QED
      BY <2>1, <2>2, <3>1, <3>2 DEF ShowInv, SensorTypes
  <2> QED
    BY <2>3
<1>6. ASSUME NEW u \in User, sensor_proc_open(u)
      PROVE  \A v \in User : ShowInv(v)'
  <2>1. Len(list) \in Nat
    BY LenProperties DEF SensorTypes
  <2>2. /\ show[u] = "no" /\ show'[u] = "test" /\ since'[u] = Len(list)
        /\ \A v \in User : v # u => show'[v] = show[v] /\ since'[v] = since[v]
        /\ UNCHANGED <<list, spinlock, pos, out>>
    BY <1>6 DEF sensor_proc_open, SensorTypes
  <2>3. \A v \in User :
           alone'[v] = IF v = u THEN {w \in User \ {u} : show[w] # "no"} = {}
                       ELSE alone[v] /\ v \notin {w \in User \ {u} : show[w] # "no"}
    BY <1>6 DEF sensor_proc_open
  <2>4. ShowInv(u)'
    <3>1. alone'[u] => \A w \in User : w # u => show'[w] = "no"
      BY <2>2, <2>3
    <3>2. out'[u] = <<>> /\ pos'[u] = 1
      BY <2>2 DEF ShowInv
    <3> QED
      BY <2>1, <2>2, <3>1, <3>2 DEF ShowInv, Printed
  <2>5. ASSUME NEW v \in User, v # u
        PROVE  ShowInv(v)'
    <3>1. ~alone'[v]
      <4>1. CASE show[v] = "no"
        BY <2>3, <2>5, <4>1 DEF ShowInv
      <4>2. CASE show[v] # "no"
        BY <2>3, <2>5, <4>2
      <4> QED
        BY <4>1, <4>2
    <3> QED
      BY <2>2, <2>5, <3>1 DEF ShowInv
  <2> QED
    BY <2>4, <2>5
<1>7. ASSUME NEW u \in User, sensor_proc_show(u)
      PROVE  \A v \in User : ShowInv(v)'
  BY <1>7, ShowSteps
<1>8. CASE SensorNext
  BY <1>1, <1>3, <1>4, <1>5, <1>6, <1>7, <1>8
     DEF SensorNext, SensorIsr, UserStep, switch_irq_isr, simple_sensor_isr,
         simple_ultra_isr, simple_sensor_open, GetStart,
         simple_sensor_release, Released, ReleaseGone
<1> QED
  BY <1>1, <1>8

LEMMA SensorProcNext ==
    SensorTypes /\ SensorProcInv /\ [Next]_vars => SensorProcInv'
<1> SUFFICES ASSUME SensorTypes, SensorProcInv, [Next]_vars,
                    driver' = "sensor_proc"
             PROVE  ProcInv' /\ \A u \in User : ShowInv(u)'
  BY DEF SensorProcInv
<1>1. driver = "sensor_proc"
  BY DriverStays
<1>2. ProcInv /\ \A u \in User : ShowInv(u)
  BY <1>1 DEF SensorProcInv
<1>3. SensorNext \/ UNCHANGED <<lab, sensors>>
  BY <1>1, OnlySensors
<1> QED
  BY <1>1, <1>2, <1>3, ProcInvNext, ShowInvNext

LEMMA SensorProcHolds == Spec => [](SensorTypes /\ SensorProcInv)
<1>1. Init => SensorTypes /\ SensorProcInv
  BY SensorTypesInit, SensorProcInit
<1>2. SensorTypes /\ SensorProcInv /\ [Next]_vars
         => SensorTypes' /\ SensorProcInv'
  BY SensorTypesNext, SensorProcNext
<1> QED
  BY <1>1, <1>2, PTL DEF Spec

(* Nobody reads an entry that is not there.                                *)
OnlyItsShows == driver # "sensor_proc" => \A u \in User : show[u] = "no"

LEMMA ShowsOnlyHere == Spec => []OnlyItsShows
<1>1. Init => OnlyItsShows
  BY DEF Init, SensorInit, OnlyItsShows
<1>2. OnlyItsShows /\ [Next]_vars => OnlyItsShows'
  <2> SUFFICES ASSUME OnlyItsShows, [Next]_vars, driver # "sensor_proc"
               PROVE  show' = show
    BY DriverStays DEF OnlyItsShows
  <2> USE DEF sensors, proc, shows
  <2>1. SensorCalls => show' = show
    BY DEF SensorCalls, DisableIrq, CdevCalls, ProcCalls, DeleteList, Trigger
  <2>2. SensorEdge \/ Echo \/ SensorIsr => show' = show
    BY DEF SensorEdge, Echo, SensorIsr, switch_irq_isr, simple_sensor_isr,
           sensor_proc_isr, simple_ultra_isr
  <2>3. ASSUME NEW u \in User
        PROVE  UserStep(u) => show' = show
    BY DEF UserStep, simple_sensor_open, GetStart, simple_sensor_release,
           Released, ReleaseGone, sensor_proc_open, sensor_proc_show,
           ListEmpty, LockList, Sprintf, SeqPrintf, UnlockList, ShowEmpty,
           ShowReturns, Shows
  <2>4. SensorNext => show' = show
    BY <2>1, <2>2, <2>3 DEF SensorNext
  <2> QED
    BY <2>4 DEF Next, vars, Deferred, Sensor, PinNext, CharNext, SpiNext,
                FirstNext
<1> QED
  BY <1>1, <1>2, PTL DEF Spec

(* When exit of sensor_proc takes its list apart without the lock, for any *)
(* number of readers, no handler and no reader is at it: proc_remove lets  *)
(* nobody begin, its rundown waits for those that have, and free_irq for   *)
(* the handler.  No node is left when the module is gone.                  *)
THEOREM ExitIsAlone == Spec => []ExitAlone
<1>1. SensorProcInv => ExitAlone
  <2> SUFFICES ASSUME SensorProcInv, driver = "sensor_proc"
               PROVE  /\ stage = "exit" /\ Head(calls) = "list_del"
                            => ~line /\ ~isr /\ \A u \in User : show[u] = "no"
                      /\ stage = "gone" => list = <<>>
    BY DEF ExitAlone
  <2>1. ProcInv
    BY DEF SensorProcInv
  <2>2. stage = "exit" /\ Head(calls) = "list_del" => calls = Exit6
    BY <2>1 DEF ProcInv, ProcCode, sensor_proc_exit, Exit2, Exit3, Exit4,
                Exit5, Exit6
  <2> QED
    BY <2>1, <2>2 DEF ProcInv, RunDown, Freed, Synchronized
<1> QED
  BY <1>1, SensorProcHolds, PTL

(* Of any number of readers, with any number of detections meanwhile, one  *)
(* whose show nobody disturbs prints the detections in their order, all    *)
(* that had come when it began, and "Empty List" only if none had.         *)
THEOREM ShowsAreExact == Spec => []ShowExact
<1>1. SensorProcInv /\ OnlyItsShows => ShowExact
  <2> SUFFICES ASSUME SensorProcInv, OnlyItsShows, NEW u \in User,
                      show[u] = "done", alone[u]
               PROVE  \/ since[u] = 0 /\ out[u] = <<EmptyList>>
                      \/ \E n \in 1..Len(list) :
                            since[u] <= n /\ out[u] = [i \in 1..n |-> i]
    BY DEF ShowExact
  <2>1. ShowInv(u)
    BY DEF SensorProcInv, OnlyItsShows
  <2> QED
    BY <2>1 DEF ShowInv, Printed, Numbers
<1> QED
  BY <1>1, SensorProcHolds, ShowsOnlyHere, PTL

-----------------------------------------------------------------------------
(* simple_sensor.                                                          *)
LEMMA SensorPositions ==
    /\ {simple_sensor_init, Opens2, Opens3, Opens4, Opens5} \cap
          {<<>>, simple_sensor_exit, Closes2, Closes3, Closes4} = {}
    /\ Opens4 \notin {simple_sensor_init, Opens2, Opens3, Opens5}
    /\ Opens5 \notin {simple_sensor_init, Opens2, Opens3}
    /\ Closes3 \notin {<<>>, simple_sensor_exit, Closes2, Closes4}
    /\ Closes4 \notin {<<>>, simple_sensor_exit, Closes2}
    /\ simple_sensor_exit \notin {<<>>, Closes2}
    /\ <<>> \notin {Opens2, Opens3, Opens4, Opens5, Closes2, Closes3, Closes4}
<1>1. /\ simple_sensor_init[1] = "cdev_add" /\ Opens2[1] = "gpio_request"
      /\ Opens3[1] = "request_irq" /\ Opens4[1] = "disable_irq"
      /\ Opens5[1] = "wait_irq" /\ simple_sensor_exit[1] = "cdev_del"
      /\ Closes2[1] = "free_irq" /\ Closes3[1] = "synchronize"
      /\ Closes4[1] = "gpio_free"
  BY DEF simple_sensor_init, Opens2, Opens3, Opens4, Opens5,
         simple_sensor_exit, Closes2, Closes3, Closes4
<1>2. \A s \in {simple_sensor_init, Opens2, Opens3, Opens4, Opens5,
               simple_sensor_exit, Closes2, Closes3, Closes4} : s # <<>>
  BY DEF simple_sensor_init, Opens2, Opens3, Opens4, Opens5,
         simple_sensor_exit, Closes2, Closes3, Closes4
<1> QED
  BY <1>1, <1>2

LEMMA SensorSteps ==
    ASSUME SensorCode, NEW c, At(c)
    PROVE  \/ /\ c = "cdev_add" /\ calls = simple_sensor_init
              /\ stage = "init" /\ Tail(calls) = Opens2
           \/ /\ c = "gpio_request" /\ calls = Opens2
              /\ stage = "init" /\ Tail(calls) = Opens3
           \/ /\ c = "request_irq" /\ calls = Opens3
              /\ stage = "init" /\ Tail(calls) = Opens4
           \/ /\ c = "disable_irq" /\ calls = Opens4
              /\ stage = "init" /\ Tail(calls) = Opens5
           \/ /\ c = "wait_irq" /\ calls = Opens5
              /\ stage = "init" /\ Tail(calls) = <<>>
           \/ /\ c = "cdev_del" /\ calls = simple_sensor_exit
              /\ stage = "exit" /\ Tail(calls) = Closes2
           \/ /\ c = "free_irq" /\ calls = Closes2
              /\ stage = "exit" /\ Tail(calls) = Closes3
           \/ /\ c = "synchronize" /\ calls = Closes3
              /\ stage = "exit" /\ Tail(calls) = Closes4
           \/ /\ c = "gpio_free" /\ calls = Closes4
              /\ stage = "exit" /\ Tail(calls) = <<>>
<1>1. calls # <<>> /\ c = Head(calls)
  BY DEF At
<1>2. CASE calls = simple_sensor_init /\ stage = "init"
  BY <1>1, <1>2 DEF simple_sensor_init, Opens2
<1>3. CASE calls = Opens2 /\ stage = "init"
  BY <1>1, <1>3 DEF Opens2, Opens3
<1>4. CASE calls = Opens3 /\ stage = "init"
  BY <1>1, <1>4 DEF Opens3, Opens4
<1>5. CASE calls = Opens4 /\ stage = "init"
  BY <1>1, <1>5 DEF Opens4, Opens5
<1>6. CASE calls = Opens5 /\ stage = "init"
  BY <1>1, <1>6 DEF Opens5
<1>7. CASE calls = simple_sensor_exit /\ stage = "exit"
  BY <1>1, <1>7 DEF simple_sensor_exit, Closes2
<1>8. CASE calls = Closes2 /\ stage = "exit"
  BY <1>1, <1>8 DEF Closes2, Closes3
<1>9. CASE calls = Closes3 /\ stage = "exit"
  BY <1>1, <1>9 DEF Closes3, Closes4
<1>10. CASE calls = Closes4 /\ stage = "exit"
  BY <1>1, <1>10 DEF Closes4
<1> QED
  BY <1>1, <1>2, <1>3, <1>4, <1>5, <1>6, <1>7, <1>8, <1>9, <1>10 DEF SensorCode

LEMMA SimpleSensorInit == Init => SimpleSensorInv
<1> SUFFICES ASSUME Init, driver = "simple_sensor"
             PROVE  SimpleSensorInv
  BY DEF SimpleSensorInv
<1>1. SensorInit /\ LabInit
  BY DEF Init
<1>2. calls = simple_sensor_init
  BY ProcExit
     DEF Init, DeferredDrivers, DeferredInitCalls, PinDrivers, PinInitCalls,
         CharDrivers, CharInitCalls, FirstDrivers, FirstInitCalls
<1>3. /\ stage = "init" /\ ~line /\ ~isr
      /\ \A u \in User : opened[u] = "no"
  BY <1>1 DEF SensorInit, LabInit
<1> QED
  BY <1>2, <1>3, SensorPositions DEF SimpleSensorInv, SensorCode

(* The calls of init and exit.                                             *)
LEMMA SensorCallsNext ==
    ASSUME SensorTypes, driver = "simple_sensor", driver' = driver,
           SimpleSensorInv, SensorCalls
    PROVE  SimpleSensorInv'
<1> USE SensorPositions DEF interrupt, device
<1>1. SensorCode
  BY DEF SimpleSensorInv
<1>2. ASSUME NEW c, Calls(c)
      PROVE  /\ At(c) /\ calls' = Tail(calls)
             /\ Tail(calls) # <<>> => stage' = stage
             /\ Tail(calls) = <<>> /\ stage = "init" => stage' = "live"
             /\ Tail(calls) = <<>> /\ stage # "init" => stage' = "gone"
  BY <1>2 DEF Calls
<1>3. CASE Calls("cdev_add") /\ UNCHANGED <<line, isr, opened, orderly>>
  <2>1. /\ calls = simple_sensor_init /\ calls' = Opens2
        /\ stage = "init" /\ stage' = "init"
    <3>1. calls = simple_sensor_init /\ stage = "init" /\ Tail(calls) = Opens2
      BY <1>1, <1>2, <1>3, SensorSteps
    <3> QED
      BY <1>2, <1>3, <3>1
  <2> QED
    BY <1>3, <2>1 DEF SimpleSensorInv, SensorCode
<1>4. CASE GpioRequest /\ UNCHANGED <<opened, orderly>>
  <2>1. /\ calls = Opens2 /\ calls' = Opens3
        /\ stage = "init" /\ stage' = "init"
    <3>1. calls = Opens2 /\ stage = "init" /\ Tail(calls) = Opens3
      BY <1>1, <1>2, <1>4, SensorSteps DEF GpioRequest
    <3> QED
      BY <1>2, <1>4, <3>1 DEF GpioRequest
  <2> QED
    BY <1>4, <2>1 DEF GpioRequest, SimpleSensorInv, SensorCode
<1>5. CASE RequestIrq /\ ResetDepth /\ UNCHANGED <<opened, orderly>>
  <2>1. /\ calls = Opens3 /\ calls' = Opens4
        /\ stage = "init" /\ stage' = "init"
    <3>1. calls = Opens3 /\ stage = "init" /\ Tail(calls) = Opens4
      BY <1>1, <1>2, <1>5, SensorSteps DEF RequestIrq
    <3> QED
      BY <1>2, <1>5, <3>1 DEF RequestIrq
  <2>2. ~line /\ line'
    BY <1>5, <2>1 DEF RequestIrq, SimpleSensorInv
  <2>3. depth' = 0
    BY <1>5, <2>2 DEF ResetDepth
  <2> QED
    BY <1>5, <2>1, <2>3 DEF RequestIrq, SimpleSensorInv, SensorCode
<1>6. CASE RequestFails /\ UNCHANGED <<opened, orderly>>
  <2>1. calls = Opens3 /\ calls' = <<>> /\ stage' = "live"
    BY <1>1, <1>6, SensorSteps DEF RequestFails
  <2>2. ~line' /\ ~isr'
    BY <1>6, <2>1 DEF RequestFails, SimpleSensorInv
  <2> QED
    BY <2>1, <2>2 DEF SimpleSensorInv, SensorCode
<1>7. CASE Calls("disable_irq") /\ depth' = depth + 1
           /\ UNCHANGED <<line, isr, opened, orderly>>
  <2>1. /\ calls = Opens4 /\ calls' = Opens5
        /\ stage = "init" /\ stage' = "init"
    <3>1. calls = Opens4 /\ stage = "init" /\ Tail(calls) = Opens5
      BY <1>1, <1>2, <1>7, SensorSteps
    <3> QED
      BY <1>2, <1>7, <3>1
  <2>2. depth' > 0
    BY <1>7 DEF SensorTypes
  <2>3. orderly => OneByOne'
    BY <1>7, <2>1 DEF SimpleSensorInv, OneByOne
  <2> QED
    BY <1>7, <2>1, <2>2, <2>3 DEF SimpleSensorInv, SensorCode
<1>8. CASE Calls("wait_irq") /\ ~isr
           /\ UNCHANGED <<depth, line, isr, opened, orderly>>
  <2>1. /\ calls = Opens5 /\ calls' = <<>>
        /\ stage = "init" /\ stage' = "live"
    <3>1. calls = Opens5 /\ stage = "init" /\ Tail(calls) = <<>>
      BY <1>1, <1>2, <1>8, SensorSteps
    <3> QED
      BY <1>2, <1>8, <3>1
  <2> QED
    BY <1>8, <2>1 DEF SimpleSensorInv, SensorCode, OneByOne, InUse
<1>9. CASE Calls("cdev_del") /\ UNCHANGED <<depth, line, isr, opened, orderly>>
  <2>1. /\ calls = simple_sensor_exit /\ calls' = Closes2
        /\ stage = "exit" /\ stage' = "exit"
    <3>1. calls = simple_sensor_exit /\ stage = "exit" /\ Tail(calls) = Closes2
      BY <1>1, <1>2, <1>9, SensorSteps
    <3> QED
      BY <1>2, <1>9, <3>1
  <2> QED
    BY <1>9, <2>1 DEF SimpleSensorInv, SensorCode, InUse
<1>10. CASE FreeIrq /\ UNCHANGED <<opened, orderly>>
  <2>1. /\ calls = Closes2 /\ calls' = Closes3
        /\ stage = "exit" /\ stage' = "exit"
    <3>1. calls = Closes2 /\ stage = "exit" /\ Tail(calls) = Closes3
      BY <1>1, <1>2, <1>10, SensorSteps DEF FreeIrq
    <3> QED
      BY <1>2, <1>10, <3>1 DEF FreeIrq
  <2> QED
    BY <1>10, <2>1 DEF FreeIrq, SimpleSensorInv, SensorCode
<1>11. CASE Synchronize /\ UNCHANGED <<opened, orderly>>
  <2>1. /\ calls = Closes3 /\ calls' = Closes4
        /\ stage = "exit" /\ stage' = "exit"
    <3>1. calls = Closes3 /\ stage = "exit" /\ Tail(calls) = Closes4
      BY <1>1, <1>2, <1>11, SensorSteps DEF Synchronize
    <3> QED
      BY <1>2, <1>11, <3>1 DEF Synchronize
  <2> QED
    BY <1>11, <2>1 DEF Synchronize, SimpleSensorInv, SensorCode
<1>12. CASE GpioFree /\ UNCHANGED <<opened, orderly>>
  <2>1. calls = Closes4 /\ calls' = <<>> /\ stage' = "gone"
    BY <1>1, <1>2, <1>12, SensorSteps DEF GpioFree
  <2>2. ~line' /\ ~isr'
    BY <1>12, <2>1 DEF GpioFree, SimpleSensorInv
  <2> QED
    BY <2>1, <2>2 DEF SimpleSensorInv, SensorCode
<1>13. ~GpioSetValue /\ ~ProcCalls /\ ~DeleteList /\ ~Trigger
  <2>1. ASSUME NEW c, At(c)
        PROVE  c \notin {"set_high", "set_low", "proc_create", "proc_remove",
                         "rundown", "list_del", "trigger", "valid"}
    BY <1>1, <2>1, SensorSteps
  <2> QED
    BY <2>1 DEF GpioSetValue, ProcCalls, DeleteList, Trigger, Calls, During
<1> QED
  BY <1>3, <1>4, <1>5, <1>6, <1>7, <1>8, <1>9, <1>10, <1>11, <1>12, <1>13
     DEF SensorCalls, CommonCalls, DisableIrq, CdevCalls, sensors

(* The steps of the users, of the interrupt and of rmmod.                  *)
LEMMA SimpleSensorNext ==
    SensorTypes /\ SimpleSensorInv /\ [Next]_vars => SimpleSensorInv'
<1> SUFFICES ASSUME SensorTypes, SimpleSensorInv, [Next]_vars,
                    driver' = "simple_sensor"
             PROVE  SimpleSensorInv'
  BY DEF SimpleSensorInv
<1> USE DEF lab, code, interrupt, sensors, device
<1>1. driver = "simple_sensor" /\ driver' = driver
  BY DriverStays
<1>2. CASE UNCHANGED <<stage, calls, line, isr, device>>
  BY <1>1, <1>2 DEF SimpleSensorInv, SensorCode, OneByOne, InUse
<1>3. CASE SensorCalls
  BY <1>1, <1>3, SensorCallsNext
<1>4. CASE Unload(SensorExitCalls[driver]) /\ UNCHANGED sensors
  <2>1. /\ stage = "live" /\ stage' = "exit" /\ calls' = simple_sensor_exit
        /\ UNCHANGED <<line, isr, depth, opened, orderly>>
    BY <1>1, <1>4, ProcExit DEF Unload
  <2> QED
    BY <1>1, <2>1, SensorPositions
       DEF SimpleSensorInv, SensorCode, InUse
<1>5. CASE IsrEnter /\ depth = 0 /\ UNCHANGED sensors
  <2>1. line /\ UNCHANGED <<stage, calls, line, depth, opened, orderly>>
    BY <1>5 DEF IsrEnter
  <2>2. stage # "init" => \E u \in User : opened[u] # "no"
    BY <1>1, <1>5, <2>1 DEF SimpleSensorInv, InUse
  <2> QED
    BY <1>1, <2>1, <2>2 DEF SimpleSensorInv, SensorCode, OneByOne, InUse
<1>6. CASE simple_sensor_isr
  <2>1. ~isr' /\ UNCHANGED <<stage, calls, line, depth, opened, orderly>>
    BY <1>6 DEF simple_sensor_isr, IsrLeave
  <2> QED
    BY <1>1, <2>1 DEF SimpleSensorInv, SensorCode, OneByOne, InUse
<1>7. ASSUME NEW u \in User, simple_sensor_open(u)
      PROVE  SimpleSensorInv'
  <2>1. /\ opened[u] = "no" /\ opened'[u] = "opening"
        /\ \A v \in User : v # u => opened'[v] = opened[v]
        /\ UNCHANGED <<stage, calls, line, isr>>
    BY <1>7 DEF simple_sensor_open, SensorTypes
  <2>2. orderly' => /\ orderly /\ stage # "init"
                    /\ \A v \in User : opened[v] = "no"
    BY <1>7 DEF simple_sensor_open
  <2>3. calls \in {Opens4, Opens5} => stage = "init"
    BY <1>1, SensorPositions DEF SimpleSensorInv, SensorCode
  <2>4. depth = 1 => depth' = 0
    BY <1>7 DEF simple_sensor_open, EnableIrq
  <2>5. line /\ orderly' /\ stage = "live" => OneByOne'
    <3> HAVE line /\ orderly' /\ stage = "live"
    <3>1. depth = 1
      BY <1>1, <2>2 DEF SimpleSensorInv, OneByOne
    <3> QED
      BY <2>1, <2>2, <2>4, <3>1 DEF OneByOne
  <2> QED
    BY <1>1, <2>1, <2>2, <2>3, <2>5
       DEF SimpleSensorInv, SensorCode, InUse
<1>8. ASSUME NEW u \in User, GetStart(u) \/ simple_sensor_release(u)
                             \/ Released(u)
      PROVE  SimpleSensorInv'
  <2>1. /\ opened[u] # "no" /\ UNCHANGED <<stage, calls, line, isr, orderly>>
        /\ \A v \in User : v # u => opened'[v] = opened[v]
    BY <1>8 DEF GetStart, simple_sensor_release, Released, SensorTypes
  <2>2. \/ /\ opened[u] = "opening" /\ opened'[u] = "open" /\ depth' = depth
        \/ /\ opened[u] = "open" /\ opened'[u] = "closing"
           /\ depth' = depth + 1
        \/ /\ opened[u] = "closing" /\ opened'[u] = "no" /\ depth' = depth
           /\ ~isr
    BY <1>8 DEF GetStart, simple_sensor_release, Released, HandlerDone,
                SensorTypes
  <2>3. ~(stage = "init" /\ orderly)
    BY <1>1, <2>1 DEF SimpleSensorInv
  <2>4. calls \in {Opens4, Opens5} => stage = "init"
    BY <1>1, SensorPositions DEF SimpleSensorInv, SensorCode
  <2>5. OneByOne => OneByOne'
    BY <2>1, <2>2 DEF OneByOne
  <2>6. depth > 0 \/ InUse => depth' > 0 \/ InUse'
    <3>1. depth \in Nat
      BY DEF SensorTypes
    <3>2. CASE opened[u] = "opening"
      BY <2>2, <3>2 DEF InUse
    <3>3. CASE opened[u] = "open"
      BY <2>2, <3>1, <3>3
    <3>4. CASE opened[u] = "closing"
      BY <2>1, <2>2, <3>4 DEF InUse
    <3> QED
      BY <2>2, <3>2, <3>3, <3>4
  <2>7. isr => \E v \in User : opened'[v] # "no"
    BY <2>2
  <2> QED
    BY <1>1, <2>1, <2>3, <2>4, <2>5, <2>6, <2>7
       DEF SimpleSensorInv, SensorCode
<1>9. SensorNext \/ UNCHANGED <<lab, sensors>>
  BY <1>1, OnlySensors
<1>10. CASE SensorNext
  BY <1>1, <1>2, <1>3, <1>4, <1>5, <1>6, <1>7, <1>8, <1>10
     DEF SensorNext, SensorEdge, Edge, Echo, SensorIsr, UserStep,
         switch_irq_isr, sensor_proc_isr, simple_ultra_isr, ReleaseGone,
         sensor_proc_open, sensor_proc_show, ListEmpty, LockList, Sprintf,
         SeqPrintf, UnlockList, ShowEmpty, ShowReturns, Shows
<1> QED
  BY <1>2, <1>9, <1>10

LEMMA SimpleSensorHolds == Spec => []SimpleSensorInv
<1>1. Init => SensorTypes /\ SimpleSensorInv
  BY SensorTypesInit, SimpleSensorInit
<1>2. SensorTypes /\ SimpleSensorInv /\ [Next]_vars
         => SensorTypes' /\ SimpleSensorInv'
  BY SensorTypesNext, SimpleSensorNext
<1> QED
  BY <1>1, <1>2, PTL DEF Spec

(* For any number of users that open the device one at a time, and when    *)
(* init is done, the interrupt of simple_sensor is enabled, to a depth of  *)
(* zero, when the device is open, and disabled once when it is not: the    *)
(* enable_irq of each open and the disable_irq of each release balance.    *)
THEOREM InterruptFollowsOpens == Spec => []EnabledWhileOpen
<1>1. SimpleSensorInv => EnabledWhileOpen
  <2> DEFINE S == {u \in User : opened[u] \in {"opening", "open"}}
  <2> SUFFICES ASSUME SimpleSensorInv, driver = "simple_sensor",
                      stage = "live", line, orderly
               PROVE  depth = 1 - Cardinality(S)
    BY DEF EnabledWhileOpen
  <2>1. OneByOne
    BY DEF SimpleSensorInv
  <2>2. ASSUME S = {}, depth = 1
        PROVE  depth = 1 - Cardinality(S)
    BY <2>2, FS_EmptySet
  <2>3. ASSUME NEW u \in User, depth = 0, S = {u}
        PROVE  depth = 1 - Cardinality(S)
    <3>1. Cardinality(S) = 1
      BY <2>3, FS_Singleton
    <3> QED
      BY <2>3, <3>1
  <2>4. CASE depth = 1 /\ \A u \in User : opened[u] = "no"
    BY <2>2, <2>4
  <2>5. ASSUME NEW u \in User, depth = 0, opened[u] \in {"opening", "open"},
               \A v \in User : v # u => opened[v] = "no"
        PROVE  depth = 1 - Cardinality(S)
    <3>1. S = {u}
      BY <2>5
    <3> QED
      BY <2>3, <2>5, <3>1
  <2>6. ASSUME NEW u \in User, depth = 1, opened[u] = "closing",
               \A v \in User : v # u => opened[v] = "no"
        PROVE  depth = 1 - Cardinality(S)
    <3>1. S = {}
      BY <2>6
    <3> QED
      BY <2>2, <2>6, <3>1
  <2> QED
    BY <2>1, <2>4, <2>5, <2>6 DEF OneByOne
<1> QED
  BY <1>1, SimpleSensorHolds, PTL

(* In whatever order any number of users open and close the device, and    *)
(* however often, the handler of simple_sensor runs only during init or    *)
(* while somebody has not yet returned from the release.                   *)
THEOREM HandlerNeedsOpen == Spec => []HandlerOnlyWhileOpen
<1>1. SimpleSensorInv => HandlerOnlyWhileOpen
  BY DEF SimpleSensorInv, HandlerOnlyWhileOpen
<1> QED
  BY <1>1, SimpleSensorHolds, PTL
=============================================================================
