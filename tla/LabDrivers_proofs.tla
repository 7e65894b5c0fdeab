-------------------------- MODULE LabDrivers_proofs --------------------------
(***************************************************************************)
(* What holds of the drivers of all labs while they are loaded and         *)
(* unloaded, for any number of users, works and detections.                *)
(***************************************************************************)
EXTENDS SensorLabs_proofs

(* The drivers that have an interrupt, pins, an output among them, a timer.*)
IrqDrivers ==
    {"ch8", "simple_tasklet", "simple_workqueue", "switch_irq",
     "simple_sensor", "sensor_proc", "simple_ultra", "ku_SnA"}
GpioDrivers ==
    IrqDrivers \cup {"ch7", "simple_led", "simple_switch", "simple_speaker",
                     "simple_motor", "ch10", "test"}
LevelDrivers == {"ch7", "simple_led", "simple_speaker", "ku_SnA"}
TimerDrivers == {"simple_timer", "ch7", "ch8"}

-----------------------------------------------------------------------------
(* Of a sequence of calls: one of them is c; none is in C; after each c    *)
(* comes a d; there is one c at most; before each that is in C there is    *)
(* gpio_request.                                                           *)
IsSeq(s) == \E S : s \in Seq(S)
Has(s, c) == \E i \in 1..Len(s) : s[i] = c
NoneOf(s, C) == \A i \in 1..Len(s) : s[i] \notin C
Then(s, c, d) ==
    \A i \in 1..Len(s) : s[i] = c => \E j \in (i + 1)..Len(s) : s[j] = d
Once(s, c) ==
    \A i \in 1..Len(s), j \in 1..Len(s) : s[i] = c /\ s[j] = c => i = j
Requested(s, C) ==
    \A i \in 1..Len(s) : s[i] \in C => \E j \in 1..(i - 1) : s[j] = "gpio_request"

(* What only init calls, and what only exit calls.                         *)
Starts == {"gpio_request", "request_irq", "set_high", "play", "add_timer",
           "wake_up_process", "data"}
Ends == {"gpio_free", "kfree", "tasklet_kill", "unlock_wait"}

(* The calls that need the pins of driver d.                               *)
Needs(d) == {"set_high", "set_low", "play", "request_irq"}
                \cup (IF d = "simple_timer" THEN {} ELSE {"add_timer"})

(* Each call is one of a driver that has to do with it.                    *)
Fits(d, s) ==
    /\ Has(s, "set_high") \/ Has(s, "set_low") \/ Has(s, "play")
          => d \in LevelDrivers
    /\ Has(s, "gpio_request") => d \in GpioDrivers
    /\ Has(s, "request_irq") => d \in IrqDrivers
    /\ Has(s, "add_timer") => d \in {"simple_timer", "ch7"}
    /\ Has(s, "del_timer") => d \in TimerDrivers
    /\ Has(s, "wake_up_process") => d = "simple_kthread"
    /\ Has(s, "tasklet_kill") => d = "simple_tasklet"

(* An init function of d that still has to call s, where pin says that its *)
(* pins are requested and data that what its calls follow is there.        *)
InitFits(d, s, pin, data) ==
    /\ NoneOf(s, Ends)
    /\ Once(s, "add_timer")
    /\ pin \/ Requested(s, Needs(d))
    /\ d = "simple_ultra" => pin \/ Has(s, "gpio_request")
    /\ d \in Pointed => data \/ Has(s, "data")

(* An exit function of d that still has to call s.                         *)
ExitFits(d, s) ==
    /\ NoneOf(s, Starts)
    /\ Then(s, "free_irq", "synchronize")
    /\ d = "ku_SnA" => Then(s, "synchronize", "set_low")
    /\ d = "ch8" => Then(s, "synchronize", "del_timer")
    /\ d = "simple_workqueue" => Then(s, "synchronize", "flush_workqueue")
    /\ d = "simple_tasklet" =>
          Then(s, "tasklet_kill", "unlock_wait") /\ Once(s, "unlock_wait")
    /\ d = "simple_ultra" => ~Has(s, "gpio_free")

(* An exit function that has its first call still to make.                 *)
WholeExit(d, s) ==
    /\ d \in IrqDrivers => Has(s, "free_irq")
    /\ d \in GpioDrivers \ {"simple_ultra"} => Has(s, "gpio_free")
    /\ d \in LevelDrivers => Has(s, "set_low")
    /\ d \in TimerDrivers => Has(s, "del_timer")
    /\ d = "simple_tasklet" => Has(s, "tasklet_kill")
    /\ Has(s, "unlock_wait") => Has(s, "tasklet_kill")
    /\ d = "simple_workqueue" => Has(s, "flush_workqueue")
    /\ d = "simple_kthread" => Has(s, "wait_exit")

-----------------------------------------------------------------------------
Types ==
    /\ IsSeq(calls)
    /\ stage \in {"init", "live", "exit", "gone"}
    /\ stage \in {"live", "gone"} => calls = <<>>
    /\ gpio \in BOOLEAN /\ badpin \in BOOLEAN /\ timer \in BOOLEAN
    /\ bug \in BOOLEAN
    /\ tasklet \subseteq {"listed", "running"}

(* What a driver does not have to do with it does not use.                 *)
Owned ==
    /\ Fits(driver, calls)
    /\ line \/ isr => driver \in IrqDrivers
    /\ gpio \/ badpin => driver \in GpioDrivers
    /\ level => driver \in LevelDrivers
    /\ timer \/ timer_func # "idle" => driver \in TimerDrivers
    /\ sched \/ tasklet # {} => driver = "simple_tasklet"
    /\ queued # 0 \/ working => driver = "simple_workqueue"
    /\ thread \notin {"new", "done"} => driver = "simple_kthread"
    /\ slipped => driver \in TimerDrivers \cup {"simple_tasklet"}
    /\ \A u \in User : opened[u] # "no" => driver = "simple_sensor"

(* A tasklet on the list is scheduled; ch8's timer runs after a detection. *)
Tracks ==
    /\ "listed" \in tasklet => sched
    /\ driver = "ch8" /\ (timer \/ timer_func # "idle") => detected

(* Until exit begins: what uses the pins runs when they are requested, and *)
(* the timer that init starts does not run yet.                            *)
Up ==
    /\ InitFits(driver, calls, gpio, "data" \in ready)
    /\ ~badpin
    /\ line \/ isr => gpio
    /\ (timer \/ timer_func # "idle") /\ driver # "simple_timer" => gpio
    /\ Has(calls, "add_timer") => ~timer /\ timer_func = "idle"

(* From then on: exit has still to call what ends what is under way.       *)
Down ==
    /\ ExitFits(driver, calls)
    /\ line => Has(calls, "free_irq")
    /\ isr => Has(calls, "synchronize")
    /\ gpio => driver = "simple_ultra" \/ Has(calls, "gpio_free")
    /\ driver = "simple_ultra" => gpio
    /\ level => driver = "ch7" \/ Has(calls, "set_low")
    /\ timer \/ timer_func # "idle" => slipped \/ Has(calls, "del_timer")
    /\ tasklet # {} => slipped \/ Has(calls, "unlock_wait")
    /\ Has(calls, "unlock_wait") =>
          Has(calls, "tasklet_kill") \/ (sched /\ "listed" \notin tasklet)
    /\ queued # 0 \/ working => Has(calls, "flush_workqueue")
    /\ thread \notin {"new", "done"} => Has(calls, "wait_exit")

LoadInv ==
    /\ Types /\ Owned /\ Tracks
    /\ stage \in {"init", "live"} => Up
    /\ stage \in {"exit", "gone"} => Down

-----------------------------------------------------------------------------
(* A call is made: what follows of the calls that are left.                *)
LEMMA CallMade ==
    ASSUME IsSeq(calls), NEW c, Calls(c)
    PROVE  /\ IsSeq(calls') /\ Has(calls, c)
           /\ \A x : Has(calls', x) => Has(calls, x)
           /\ \A x : Has(calls, x) => x = c \/ Has(calls', x)
           /\ \A x, y : Then(calls, x, y) => Then(calls', x, y)
           /\ \A y : Then(calls, c, y) => Has(calls', y)
           /\ \A x : Once(calls, x) => Once(calls', x)
           /\ Once(calls, c) => ~Has(calls', c)
           /\ \A C : NoneOf(calls, C) => c \notin C /\ NoneOf(calls', C)
           /\ \A C : Requested(calls, C) =>
                        /\ c \notin C
                        /\ c = "gpio_request" \/ Requested(calls', C)
<1>1. PICK S : calls \in Seq(S)
  BY DEF IsSeq
<1>2. /\ calls # <<>> /\ Len(calls) \in Nat /\ Len(calls) > 0 /\ calls[1] = c
      /\ calls' \in Seq(S) /\ Len(calls') = Len(calls) - 1
      /\ \A i \in 1..Len(calls') : calls'[i] = calls[i + 1]
  BY <1>1, HeadTailProperties, EmptySeq DEF Calls, At
<1> DEFINE n == Len(calls)
           t == calls'
<1>3. \A i \in 2..n : (i - 1) \in 1..(n - 1) /\ (i - 1) + 1 = i
  BY <1>2
<1>4. /\ n \in Nat /\ n > 0 /\ Len(t) = n - 1 /\ calls[1] = c
      /\ \A i \in 1..(n - 1) : t[i] = calls[i + 1]
      /\ \A i \in 2..n : (i - 1) \in 1..(n - 1) /\ calls[i] = t[i - 1]
  BY <1>2, <1>3
<1>5. IsSeq(t)
  BY <1>2 DEF IsSeq
<1> HIDE DEF t
<1>6. 1 \in 1..n /\ \A i \in 1..(n - 1) : i + 1 \in 1..n
  BY <1>4
<1>7. /\ Has(calls, c)
      /\ \A x : Has(t, x) => Has(calls, x)
      /\ \A x : Has(calls, x) => x = c \/ Has(t, x)
  BY <1>4, <1>6 DEF Has
<1>8. ASSUME NEW x, NEW y, Then(calls, x, y)
      PROVE  Then(t, x, y) /\ (x = c => Has(t, y))
  <2>1. ASSUME NEW i \in 1..(n - 1), t[i] = x
        PROVE  \E j \in (i + 1)..(n - 1) : t[j] = y
    <3>1. i + 1 \in 1..n /\ calls[i + 1] = x
      BY <2>1, <1>4, <1>6
    <3>2. PICK k \in (i + 2)..n : calls[k] = y
      BY <3>1, <1>8, <1>4 DEF Then
    <3>3. k \in 2..n /\ k - 1 \in (i + 1)..(n - 1)
      BY <1>4
    <3> QED
      BY <3>2, <3>3, <1>4
  <2>2. ASSUME x = c
        PROVE  Has(t, y)
    <3>1. PICK k \in 2..n : calls[k] = y
      BY <1>8, <2>2, <1>4, <1>6 DEF Then
    <3> QED
      BY <3>1, <1>4 DEF Has
  <2> QED
    BY <2>1, <2>2, <1>4 DEF Then
<1>9. /\ \A x : Once(calls, x) => Once(t, x)
      /\ Once(calls, c) => ~Has(t, c)
  BY <1>4, <1>6 DEF Has, Once
<1>10. ASSUME NEW C, NoneOf(calls, C)
       PROVE  c \notin C /\ NoneOf(t, C)
  <2>1. \A i \in 1..n : calls[i] \notin C
    BY <1>10 DEF NoneOf
  <2>2. c \notin C
    BY <2>1, <1>4, <1>6
  <2>3. \A i \in 1..(n - 1) : t[i] \notin C
    BY <2>1, <1>4, <1>6
  <2> QED
    BY <2>2, <2>3, <1>4 DEF NoneOf
<1>11. ASSUME NEW C, Requested(calls, C)
       PROVE  c \notin C /\ (c = "gpio_request" \/ Requested(t, C))
  <2>1. c \notin C
    BY <1>11, <1>4, <1>6 DEF Requested
  <2>2. ASSUME c # "gpio_request", NEW i \in 1..(n - 1), t[i] \in C
        PROVE  \E j \in 1..(i - 1) : t[j] = "gpio_request"
    <3>1. i + 1 \in 1..n /\ calls[i + 1] \in C
      BY <2>2, <1>4, <1>6
    <3>2. PICK k \in 1..i : calls[k] = "gpio_request"
      BY <3>1, <1>11, <1>4 DEF Requested
    <3>3. k # 1
      BY <3>2, <2>2, <1>4
    <3>4. k \in 2..n /\ k - 1 \in 1..(i - 1)
      BY <3>3, <1>4
    <3> QED
      BY <3>2, <3>4, <1>4
  <2> QED
    BY <2>1, <2>2, <1>4 DEF Requested
<1> QED
  BY <1>5, <1>7, <1>8, <1>9, <1>10, <1>11 DEF t

(* How far init or exit is after a call.                                   *)
LEMMA AfterCall ==
    ASSUME LoadInv, NEW c, Calls(c)
    PROVE  /\ driver' = driver /\ ~bug /\ Has(calls, c)
           /\ IsSeq(calls') /\ stage' \in {"init", "live", "exit", "gone"}
           /\ stage' \in {"live", "gone"} => calls' = <<>>
           /\ Fits(driver, calls')
           /\ stage \in {"init", "exit"}
           /\ stage' \in {"init", "live"} <=> stage = "init"
           /\ stage' \in {"exit", "gone"} <=> stage = "exit"
<1>1. IsSeq(calls) /\ calls # <<>>
  BY DEF LoadInv, Types, Calls, At
<1>2. stage \in {"init", "exit"}
  BY <1>1 DEF LoadInv, Types
<1>3. /\ driver' = driver /\ ~bug
      /\ stage' \in {"live", "gone"} => calls' = <<>>
      /\ stage = "init" => stage' \in {"init", "live"}
      /\ stage = "exit" => stage' \in {"exit", "gone"}
  BY <1>2 DEF Calls, At
<1>4. Fits(driver, calls')
  BY <1>1, CallMade DEF LoadInv, Owned, Fits
<1> QED
  BY <1>1, <1>2, <1>3, <1>4, CallMade

(* What is left of init.                                                   *)
LEMMA InitAfter ==
    ASSUME LoadInv, NEW c, Calls(c), stage = "init"
    PROVE  /\ Up /\ c \notin Ends /\ NoneOf(calls', Ends)
           /\ Once(calls', "add_timer")
           /\ c \in Needs(driver) => gpio
           /\ gpio \/ c = "gpio_request" \/ Requested(calls', Needs(driver))
<1>1. Up /\ IsSeq(calls)
  BY DEF LoadInv, Types
<1> QED
  BY <1>1, CallMade DEF Up, InitFits

(* What is left of exit.                                                   *)
LEMMA ExitAfter ==
    ASSUME LoadInv, NEW c, Calls(c), stage = "exit"
    PROVE  Down /\ c \notin Starts /\ ExitFits(driver, calls')
<1>1. Down /\ IsSeq(calls)
  BY DEF LoadInv, Types
<1>2. ExitFits(driver, calls)
  BY <1>1 DEF Down
<1>3. c \notin Starts /\ NoneOf(calls', Starts)
  BY <1>1, <1>2, CallMade DEF ExitFits
<1>4. ExitFits(driver, calls')
  BY <1>1, <1>2, <1>3, CallMade DEF ExitFits
<1> QED
  BY <1>1, <1>3, <1>4

-----------------------------------------------------------------------------
(* What only LoadInv is about.                                             *)
deferring == <<timers, tasklets, works, thread, detected, slipped>>

(* A step of something that the invariant is not about.                    *)
LEMMA QuietStep ==
    ASSUME LoadInv, UNCHANGED <<code, line, isr, deferring>>,
           "data" \in ready' <=> "data" \in ready, bug' \in BOOLEAN,
           \A u \in User : opened'[u] # "no" => driver = "simple_sensor"
    PROVE  LoadInv'
<1>1. UNCHANGED <<driver, stage, calls, gpio, level, badpin, line, isr, timer,
                  timer_func, sched, tasklet, queued, working, thread,
                  detected, slipped>>
  BY DEF code, pins, deferring, timers, tasklets, works
<1>2. Types'
  BY <1>1 DEF LoadInv, Types
<1>3. Owned' /\ Tracks'
  BY <1>1 DEF LoadInv, Owned, Tracks
<1>4. stage' \in {"init", "live"} => Up'
  BY <1>1 DEF LoadInv, Up, InitFits
<1>5. stage' \in {"exit", "gone"} => Down'
  BY <1>1 DEF LoadInv, Down
<1> QED
  BY <1>2, <1>3, <1>4, <1>5 DEF LoadInv

(* The calls that the invariant waits for.                                 *)
Awaited == {"gpio_request", "data", "free_irq", "synchronize", "gpio_free",
            "set_low", "del_timer", "tasklet_kill", "unlock_wait",
            "flush_workqueue", "wait_exit"}

(* A call of something that the invariant is not about.                    *)
LEMMA QuietCall ==
    ASSUME LoadInv, NEW c, c \notin Awaited, Calls(c),
           UNCHANGED <<pins, line, isr, bug, deferring, opened>>,
           "data" \in ready' <=> "data" \in ready
    PROVE  LoadInv'
<1>1. UNCHANGED <<gpio, level, badpin, line, isr, bug, timer, timer_func,
                  sched, tasklet, queued, working, thread, detected, slipped,
                  opened>>
  BY DEF pins, deferring, timers, tasklets, works
<1>2. Types'
  BY <1>1, AfterCall DEF LoadInv, Types
<1>3. Owned' /\ Tracks'
  BY <1>1, AfterCall DEF LoadInv, Owned, Tracks
<1>4. \A x : Has(calls, x) => x = c \/ Has(calls', x)
  BY CallMade DEF LoadInv, Types
<1>5. \A x : Has(calls', x) => Has(calls, x)
  BY CallMade DEF LoadInv, Types
<1>6. ASSUME stage' \in {"init", "live"}
      PROVE  Up'
  BY <1>1, <1>4, <1>5, <1>6, AfterCall, InitAfter
     DEF Up, InitFits, Awaited
<1>7. ASSUME stage' \in {"exit", "gone"}
      PROVE  Down'
  BY <1>1, <1>4, <1>5, <1>7, AfterCall, ExitAfter DEF Down, Awaited
<1> QED
  BY <1>2, <1>3, <1>6, <1>7 DEF LoadInv

(* The handler is entered and left.                                        *)
LEMMA HandlerRuns ==
    ASSUME LoadInv, line' = line, UNCHANGED <<code, bug, deferring, opened>>,
           isr' => line \/ isr, "data" \in ready' <=> "data" \in ready
    PROVE  LoadInv'
<1>1. UNCHANGED <<driver, stage, calls, gpio, level, badpin, line, bug, timer,
                  timer_func, sched, tasklet, queued, working, thread,
                  detected, slipped, opened>>
  BY DEF code, pins, deferring, timers, tasklets, works
<1>2. Types'
  BY <1>1 DEF LoadInv, Types
<1>3. Owned' /\ Tracks'
  BY <1>1 DEF LoadInv, Owned, Tracks
<1>4. stage' \in {"init", "live"} => Up'
  BY <1>1 DEF LoadInv, Up, InitFits
<1>5. IsSeq(calls)
  BY DEF LoadInv, Types
<1>6. Has(calls, "free_irq") /\ Then(calls, "free_irq", "synchronize")
        => Has(calls, "synchronize")
  BY DEF Has, Then
<1>7. stage' \in {"exit", "gone"} => Down'
  BY <1>1, <1>6 DEF LoadInv, Down, ExitFits
<1> QED
  BY <1>2, <1>3, <1>4, <1>7 DEF LoadInv

-----------------------------------------------------------------------------
(* The calls that the drivers share.                                       *)
LEMMA PinCallsNext ==
    ASSUME LoadInv, GpioRequest \/ GpioFree \/ GpioSetValue,
           UNCHANGED <<deferring, opened, ready>>
    PROVE  LoadInv'
<1>1. UNCHANGED <<line, isr, bug, timer, timer_func, sched, tasklet, queued,
                  working, thread, detected, slipped, opened, ready>>
  BY DEF GpioRequest, GpioFree, GpioSetValue, interrupt, deferring, timers,
         tasklets, works
<1>2. PICK c \in {"gpio_request", "gpio_free", "set_high", "set_low"} : Calls(c)
  BY DEF GpioRequest, GpioFree, GpioSetValue
<1>3. /\ \A x : Has(calls, x) => x = c \/ Has(calls', x)
      /\ \A x : Has(calls', x) => Has(calls, x)
      /\ Has(calls, c)
  BY <1>2, CallMade DEF LoadInv, Types
<1>4. gpio \in BOOLEAN /\ badpin \in BOOLEAN /\ timer \in BOOLEAN
  BY DEF LoadInv, Types
<1>5. /\ gpio' \in BOOLEAN
      /\ c = "gpio_request" => gpio' /\ ~level' /\ badpin' = badpin
      /\ c = "gpio_free" => ~gpio' /\ level' = level /\ badpin' = badpin
      /\ c \in {"set_high", "set_low"} => gpio' = gpio
      /\ c = "set_low" => ~level'
  BY <1>2, <1>4 DEF GpioRequest, GpioFree, GpioSetValue, SetPin, Calls, At
<1>6. c \in {"set_high", "set_low"} =>
        badpin' \in BOOLEAN /\ (badpin' <=> badpin \/ ~gpio)
  BY <1>2, <1>4 DEF GpioRequest, GpioFree, GpioSetValue, SetPin, Calls, At
<1>7. /\ c = "gpio_request" => driver \in GpioDrivers
      /\ c \in {"set_high", "set_low"} => driver \in LevelDrivers
      /\ LevelDrivers \subseteq GpioDrivers
  BY <1>3 DEF LoadInv, Owned, Fits, LevelDrivers, GpioDrivers, IrqDrivers
<1>8. Types'
  BY <1>1, <1>2, <1>4, <1>5, <1>6, AfterCall DEF LoadInv, Types
<1>9. Owned' /\ Tracks'
  BY <1>1, <1>2, <1>5, <1>6, <1>7, AfterCall DEF LoadInv, Owned, Tracks
<1>10. ASSUME stage' \in {"init", "live"}
       PROVE  Up'
  <2>1. /\ stage = "init" /\ Up /\ c # "gpio_free" /\ driver' = driver
        /\ c \in {"set_high", "set_low"} => gpio
        /\ NoneOf(calls', Ends) /\ Once(calls', "add_timer")
        /\ gpio \/ c = "gpio_request" \/ Requested(calls', Needs(driver))
    BY <1>2, <1>10, AfterCall, InitAfter DEF Ends, Needs
  <2>2. ~badpin' /\ (gpio => gpio')
    BY <1>5, <1>6, <2>1 DEF Up
  <2>3. InitFits(driver, calls, gpio, "data" \in ready)'
    BY <1>1, <1>3, <1>5, <2>1, <2>2 DEF Up, InitFits
  <2> QED
    BY <1>1, <1>3, <2>1, <2>2, <2>3 DEF Up
<1>11. ASSUME stage' \in {"exit", "gone"}
       PROVE  Down'
  <2>1. /\ stage = "exit" /\ Down /\ driver' = driver
        /\ c \notin {"gpio_request", "set_high"} /\ ExitFits(driver, calls')
    BY <1>2, <1>11, AfterCall, ExitAfter DEF Starts
  <2>2. driver = "simple_ultra" => c # "gpio_free"
    BY <1>3, <2>1 DEF Down, ExitFits
  <2> QED
    BY <1>1, <1>3, <1>5, <2>1, <2>2 DEF Down
<1> QED
  BY <1>8, <1>9, <1>10, <1>11 DEF LoadInv

LEMMA IrqCallsNext ==
    ASSUME LoadInv, RequestIrq \/ FreeIrq \/ Synchronize,
           UNCHANGED <<deferring, opened, ready>>
    PROVE  LoadInv'
<1>1. UNCHANGED <<gpio, level, badpin, bug, timer, timer_func, sched, tasklet,
                  queued, working, thread, detected, slipped, opened, ready>>
  BY DEF RequestIrq, FreeIrq, Synchronize, pins, deferring, timers, tasklets,
         works, interrupt
<1>2. PICK c \in {"request_irq", "free_irq", "synchronize"} : Calls(c)
  BY DEF RequestIrq, FreeIrq, Synchronize
<1>3. /\ \A x : Has(calls, x) => x = c \/ Has(calls', x)
      /\ \A x : Has(calls', x) => Has(calls, x)
      /\ Has(calls, c)
  BY <1>2, CallMade DEF LoadInv, Types
<1>4. /\ c = "request_irq" => line' /\ isr' = isr
      /\ c = "free_irq" => ~line' /\ isr' = isr
      /\ c = "synchronize" => line' = line /\ ~isr /\ isr' = isr
  BY <1>2 DEF RequestIrq, FreeIrq, Synchronize, Calls, At, interrupt
<1>5. Types'
  BY <1>1, <1>2, AfterCall DEF LoadInv, Types
<1>6. c = "request_irq" => driver \in IrqDrivers
  BY <1>3 DEF LoadInv, Owned, Fits
<1>7. Owned' /\ Tracks'
  BY <1>1, <1>2, <1>4, <1>6, AfterCall DEF LoadInv, Owned, Tracks
<1>8. ASSUME stage' \in {"init", "live"}
      PROVE  Up'
  <2>1. /\ stage = "init" /\ Up /\ driver' = driver
        /\ c = "request_irq" => gpio
        /\ NoneOf(calls', Ends) /\ Once(calls', "add_timer")
        /\ gpio \/ Requested(calls', Needs(driver))
    BY <1>2, <1>8, AfterCall, InitAfter DEF Needs
  <2>2. InitFits(driver, calls, gpio, "data" \in ready)'
    BY <1>1, <1>2, <1>3, <2>1 DEF Up, InitFits
  <2> QED
    BY <1>1, <1>3, <1>4, <2>1, <2>2 DEF Up
<1>9. ASSUME stage' \in {"exit", "gone"}
      PROVE  Down'
  <2>1. /\ stage = "exit" /\ Down /\ driver' = driver
        /\ c # "request_irq" /\ ExitFits(driver, calls')
    BY <1>2, <1>9, AfterCall, ExitAfter DEF Starts
  <2> QED
    BY <1>1, <1>2, <1>3, <1>4, <2>1 DEF Down
<1> QED
  BY <1>5, <1>7, <1>8, <1>9 DEF LoadInv

(* When request_irq fails, init is done without the rest.                  *)
LEMMA RequestFailsNext ==
    ASSUME LoadInv, RequestFails, UNCHANGED <<deferring, opened, ready>>
    PROVE  LoadInv'
<1>1. UNCHANGED <<driver, gpio, level, badpin, line, isr, bug, timer,
                  timer_func, sched, tasklet, queued, working, thread,
                  detected, slipped, opened, ready>>
  BY DEF RequestFails, pins, deferring, timers, tasklets, works, interrupt
<1>2. /\ stage' = "live" /\ calls' = <<>>
      /\ calls # <<>> /\ calls[1] = "request_irq"
  BY DEF RequestFails, At
<1>3. Len(<<>>) = 0 /\ IsSeq(<<>>)
  BY EmptySeq DEF IsSeq
<1>4. /\ \A x : ~Has(<<>>, x)
      /\ \A x : Once(<<>>, x)
      /\ \A C : NoneOf(<<>>, C)
      /\ \A C : Requested(<<>>, C)
  BY <1>3 DEF Has, Once, NoneOf, Requested
<1>5. 1 \in 1..Len(calls)
  <2>1. PICK S : calls \in Seq(S)
    BY DEF LoadInv, Types, IsSeq
  <2> QED
    BY <1>2, <2>1, HeadTailProperties, EmptySeq
<1>6. Has(calls, "request_irq")
  BY <1>2, <1>5 DEF Has
<1>7. stage = "init"
  <2>1. NoneOf(calls, Starts) => FALSE
    BY <1>2, <1>5 DEF NoneOf, Starts
  <2> QED
    BY <1>2, <2>1 DEF LoadInv, Types, Down, ExitFits
<1>8. Up /\ gpio
  BY <1>2, <1>5, <1>7 DEF LoadInv, Up, InitFits, Requested, Needs
<1>9. driver \notin Pointed
  BY <1>6 DEF LoadInv, Owned, Fits, IrqDrivers, Pointed
<1>10. Types'
  BY <1>1, <1>2, <1>3 DEF LoadInv, Types
<1>11. Owned' /\ Tracks'
  BY <1>1, <1>2, <1>4 DEF LoadInv, Owned, Tracks, Fits
<1>12. Up'
  BY <1>1, <1>2, <1>4, <1>8, <1>9 DEF Up, InitFits
<1> QED
  BY <1>2, <1>10, <1>11, <1>12 DEF LoadInv

LEMMA CommonNext ==
    ASSUME LoadInv, CommonCalls, UNCHANGED <<deferring, opened, ready>>
    PROVE  LoadInv' /\ bug' = bug
<1>1. bug' = bug
  BY DEF CommonCalls, GpioRequest, GpioFree, GpioSetValue, RequestIrq,
         RequestFails, FreeIrq, Synchronize
<1> QED
  BY <1>1, PinCallsNext, IrqCallsNext, RequestFailsNext DEF CommonCalls

-----------------------------------------------------------------------------
(* What comes after a call that is still to be made is still to be made.   *)
LEMMA ThenHas ==
    ASSUME NEW s, NEW c, NEW d, Has(s, c), Then(s, c, d)
    PROVE  Has(s, d)
  BY DEF Has, Then

(* The timer.                                                              *)
LEMMA AddTimerNext ==
    ASSUME LoadInv, AddTimer, UNCHANGED <<opened, ready>>
    PROVE  LoadInv' /\ bug' = bug
<1>1. /\ Calls("add_timer") /\ bug' = timer /\ timer'
      /\ UNCHANGED <<gpio, level, badpin, line, isr, timer_func, sched,
                     tasklet, queued, working, thread, detected, slipped,
                     opened, ready>>
  BY DEF AddTimer, AddPending, pins, interrupt, tasklets, works, kthread,
         marks
<1>2. /\ \A x : Has(calls, x) => x = "add_timer" \/ Has(calls', x)
      /\ \A x : Has(calls', x) => Has(calls, x)
      /\ Has(calls, "add_timer")
      /\ Once(calls, "add_timer") => ~Has(calls', "add_timer")
  BY <1>1, CallMade DEF LoadInv, Types
<1>3. stage = "init" /\ stage' \in {"init", "live"} /\ driver' = driver /\ ~bug
  BY <1>1, AfterCall, ExitAfter DEF Starts
<1>4. Up /\ driver \in {"simple_timer", "ch7"}
  BY <1>2, <1>3 DEF LoadInv, Owned, Fits
<1>5. driver = "simple_timer" \/ gpio
  BY <1>1, <1>3, <1>4, InitAfter DEF Needs
<1>6. ~timer /\ timer_func = "idle" /\ ~Has(calls', "add_timer")
  BY <1>2, <1>4 DEF Up, InitFits
<1>7. timer \in BOOLEAN /\ bug \in BOOLEAN
  BY DEF LoadInv, Types
<1>8. bug' = bug /\ bug' = FALSE
  BY <1>1, <1>3, <1>6, <1>7
<1>9. timer' = TRUE
  BY DEF AddTimer, AddPending
<1>10. Types'
  BY <1>1, <1>8, <1>9, AfterCall DEF LoadInv, Types
<1>11. Owned' /\ Tracks'
  BY <1>1, <1>4, AfterCall DEF LoadInv, Owned, Tracks, TimerDrivers
<1>12. InitFits(driver, calls, gpio, "data" \in ready)'
  BY <1>1, <1>2, <1>3, <1>4, InitAfter DEF Up, InitFits
<1>13. Up'
  BY <1>1, <1>3, <1>4, <1>5, <1>6, <1>12 DEF Up
<1> QED
  BY <1>3, <1>8, <1>10, <1>11, <1>13 DEF LoadInv

LEMMA DelTimerNext ==
    ASSUME LoadInv, DelTimer, UNCHANGED <<opened, ready>>
    PROVE  LoadInv'
<1>1. /\ Calls("del_timer") /\ timer' = FALSE
      /\ slipped' = (timer_func # "idle")
      /\ UNCHANGED <<gpio, level, badpin, line, isr, bug, timer_func, sched,
                     tasklet, queued, working, thread, detected, opened, ready>>
  BY DEF DelTimer, pins, interrupt, tasklets, works, kthread
<1>2. /\ \A x : Has(calls, x) => x = "del_timer" \/ Has(calls', x)
      /\ \A x : Has(calls', x) => Has(calls, x)
      /\ Has(calls, "del_timer")
  BY <1>1, CallMade DEF LoadInv, Types
<1>3. driver \in TimerDrivers /\ tasklet = {}
  BY <1>2 DEF LoadInv, Owned, Fits, TimerDrivers
<1>4. Types'
  BY <1>1, AfterCall DEF LoadInv, Types
<1>5. Owned' /\ Tracks'
  BY <1>1, AfterCall DEF LoadInv, Owned, Tracks
<1>6. ASSUME stage' \in {"init", "live"}
      PROVE  Up'
  <2>1. stage = "init" /\ driver' = driver /\ Up
    BY <1>1, <1>6, AfterCall, InitAfter
  <2>2. InitFits(driver, calls, gpio, "data" \in ready)'
    BY <1>1, <1>2, <2>1, InitAfter DEF Up, InitFits
  <2> QED
    BY <1>1, <1>2, <2>1, <2>2 DEF Up
<1>7. ASSUME stage' \in {"exit", "gone"}
      PROVE  Down'
  <2>1. stage = "exit" /\ driver' = driver /\ Down /\ ExitFits(driver, calls')
    BY <1>1, <1>7, AfterCall, ExitAfter
  <2> QED
    BY <1>1, <1>2, <1>3, <2>1 DEF Down
<1> QED
  BY <1>4, <1>5, <1>6, <1>7 DEF LoadInv

LEMMA TimerStepNext ==
    ASSUME LoadInv, TimerStep, UNCHANGED <<opened, ready>>
    PROVE  LoadInv'
<1>1. /\ UNCHANGED <<driver, stage, calls, gpio, line, isr, bug, sched,
                     tasklet, queued, working, thread, detected, slipped,
                     opened, ready>>
      /\ timer \/ timer_func # "idle"
      /\ stage # "gone"
  BY DEF TimerStep, Expire, TimerFunc, ModTimer, Here, simple_timer_func,
         ch7_timer_func, ch8_timer_func, SetPin, lab, code, pins, interrupt,
         tasklets, works, kthread, marks, timers
<1>2. gpio \in BOOLEAN /\ badpin \in BOOLEAN /\ timer \in BOOLEAN
  BY DEF LoadInv, Types
<1>3. timer' \in BOOLEAN
  BY <1>2 DEF TimerStep, Expire, TimerFunc, ModTimer
<1>4. \/ UNCHANGED <<badpin, level>>
      \/ /\ driver \in {"ch7", "ch8"}
         /\ driver = "ch7" \/ level' = level
         /\ badpin' \in BOOLEAN /\ (badpin' <=> badpin \/ ~gpio)
  <2>1. CASE Expire \/ ModTimer
    BY <2>1 DEF Expire, ModTimer, lab, code, pins
  <2>2. CASE TimerFunc /\ simple_timer_func
    BY <2>2 DEF simple_timer_func, pins
  <2>3. CASE TimerFunc /\ (ch7_timer_func \/ ch8_timer_func)
    BY <2>3, <1>2 DEF ch7_timer_func, ch8_timer_func, SetPin
  <2> QED
    BY <2>1, <2>2, <2>3 DEF TimerStep, TimerFunc
<1>5. driver \in TimerDrivers
  BY <1>1 DEF LoadInv, Owned
<1>6. Types'
  BY <1>1, <1>2, <1>3, <1>4 DEF LoadInv, Types
<1>7. Owned'
  BY <1>1, <1>4, <1>5 DEF LoadInv, Owned, GpioDrivers, IrqDrivers, LevelDrivers
<1>8. Tracks'
  BY <1>1 DEF LoadInv, Tracks
<1>9. ASSUME stage' \in {"init", "live"}
      PROVE  Up'
  <2>1. Up /\ (driver = "simple_timer" \/ gpio) /\ ~Has(calls, "add_timer")
    BY <1>1, <1>9 DEF LoadInv, Up
  <2>2. ~badpin'
    BY <1>4, <2>1 DEF Up
  <2>3. InitFits(driver, calls, gpio, "data" \in ready)'
    BY <1>1, <2>1 DEF Up, InitFits
  <2> QED
    BY <1>1, <2>1, <2>2, <2>3 DEF Up
<1>10. ASSUME stage' \in {"exit", "gone"}
       PROVE  Down'
  BY <1>1, <1>4, <1>10 DEF LoadInv, Down, Owned
<1> QED
  BY <1>6, <1>7, <1>8, <1>9, <1>10 DEF LoadInv

LEMMA Ch8Next ==
    ASSUME LoadInv, ch8_isr, UNCHANGED <<opened, ready>>
    PROVE  LoadInv' /\ (bug' # bug => detected)
<1>1. /\ driver = "ch8" /\ isr /\ ~bug /\ bug' = timer
      /\ detected' = TRUE /\ timer' = TRUE /\ isr' = FALSE
      /\ UNCHANGED <<driver, stage, calls, gpio, level, badpin, line,
                     timer_func, sched, tasklet, queued, working, thread,
                     slipped, opened, ready>>
  BY DEF ch8_isr, AddPending, IsrLeave, code, pins, tasklets, works, kthread
<1>2. timer \in BOOLEAN /\ bug \in BOOLEAN
  BY DEF LoadInv, Types
<1>3. bug' # bug => detected
  BY <1>1, <1>2 DEF LoadInv, Tracks
<1>4. Types'
  BY <1>1, <1>2 DEF LoadInv, Types
<1>5. Owned' /\ Tracks'
  BY <1>1 DEF LoadInv, Owned, Tracks, TimerDrivers
<1>6. ASSUME stage' \in {"init", "live"}
      PROVE  Up'
  <2>1. Up /\ gpio /\ ~Has(calls, "add_timer")
    BY <1>1, <1>6 DEF LoadInv, Up, Owned, Fits
  <2>2. InitFits(driver, calls, gpio, "data" \in ready)'
    BY <1>1, <2>1 DEF Up, InitFits
  <2> QED
    BY <1>1, <2>1, <2>2 DEF Up
<1>7. ASSUME stage' \in {"exit", "gone"}
      PROVE  Down'
  <2>1. Down /\ Has(calls, "synchronize") /\ Then(calls, "synchronize", "del_timer")
    BY <1>1, <1>7 DEF LoadInv, Down, ExitFits
  <2>2. Has(calls, "del_timer")
    BY <2>1, ThenHas
  <2> QED
    BY <1>1, <2>1, <2>2 DEF Down
<1> QED
  BY <1>3, <1>4, <1>5, <1>6, <1>7 DEF LoadInv

(* The tasklet.                                                            *)
LEMMA TaskletKillNext ==
    ASSUME LoadInv, TaskletKill, UNCHANGED <<opened, ready>>
    PROVE  LoadInv'
<1>1. UNCHANGED <<gpio, level, badpin, line, isr, bug, timer, timer_func,
                  tasklet, queued, working, thread, detected, slipped, opened,
                  ready>>
  BY DEF TaskletKill, pins, interrupt, timers, works, kthread, marks
<1>2. PICK c \in {"tasklet_kill", "unlock_wait"} :
        /\ Calls(c)
        /\ c = "tasklet_kill" => ~sched /\ sched'
        /\ c = "unlock_wait" => "running" \notin tasklet /\ ~sched'
  BY DEF TaskletKill
<1>3. /\ \A x : Has(calls, x) => x = c \/ Has(calls', x)
      /\ \A x : Has(calls', x) => Has(calls, x)
      /\ \A y : Then(calls, c, y) => Has(calls', y)
      /\ Once(calls, c) => ~Has(calls', c)
      /\ Has(calls, c)
  BY <1>2, CallMade DEF LoadInv, Types
<1>4. /\ stage = "exit" /\ stage' \in {"exit", "gone"} /\ driver' = driver
      /\ Down /\ ExitFits(driver, calls')
  BY <1>2, AfterCall, InitAfter, ExitAfter DEF Ends
<1>5. driver = "simple_tasklet"
  BY <1>2, <1>3, <1>4 DEF LoadInv, Owned, Fits, Down
<1>6. /\ Then(calls, "tasklet_kill", "unlock_wait") /\ Once(calls, "unlock_wait")
      /\ Then(calls', "tasklet_kill", "unlock_wait")
  BY <1>4, <1>5 DEF Down, ExitFits
<1>7. "listed" \in tasklet => sched
  BY DEF LoadInv, Tracks
<1>8. c = "unlock_wait" => tasklet = {} /\ ~Has(calls', "unlock_wait")
  <2>1. ASSUME c = "unlock_wait"
        PROVE  ~Has(calls', "unlock_wait") /\ ~Has(calls', "tasklet_kill")
    BY <2>1, <1>3, <1>6, ThenHas
  <2>2. ASSUME c = "unlock_wait"
        PROVE  "listed" \notin tasklet
    BY <2>1, <2>2, <1>3, <1>4 DEF Down
  <2> QED
    BY <2>1, <2>2, <1>2 DEF LoadInv, Types
<1>9. Types'
  BY <1>1, <1>2, AfterCall DEF LoadInv, Types
<1>10. Owned'
  BY <1>1, <1>2, <1>5, AfterCall DEF LoadInv, Owned
<1>11. Tracks'
  BY <1>1, <1>2, <1>4, <1>7, <1>8 DEF LoadInv, Tracks
<1>12. Down'
  BY <1>1, <1>2, <1>3, <1>4, <1>5, <1>7, <1>8 DEF Down
<1> QED
  BY <1>4, <1>9, <1>10, <1>11, <1>12 DEF LoadInv

LEMMA TaskletFuncNext ==
    ASSUME LoadInv, simple_tasklet_func, UNCHANGED <<opened, ready>>
    PROVE  LoadInv'
<1>1. UNCHANGED <<driver, stage, calls, gpio, level, badpin, line, isr, bug,
                  timer, timer_func, queued, working, thread, detected,
                  slipped, opened, ready>>
  BY DEF simple_tasklet_func, lab, code, pins, interrupt, timers, works,
         kthread, marks
<1>2. tasklet \subseteq {"listed", "running"} /\ ("listed" \in tasklet => sched)
  BY DEF LoadInv, Types, Tracks
<1>3. \/ tasklet = {"listed"} /\ tasklet' = {"running"} /\ sched' = FALSE
      \/ /\ "running" \in tasklet /\ tasklet' = tasklet \ {"running"}
         /\ sched' = sched
  BY DEF simple_tasklet_func
<1>4. /\ tasklet # {} /\ tasklet' \subseteq {"listed", "running"}
      /\ "listed" \in tasklet' => sched' /\ "listed" \in tasklet
      /\ sched' # sched => "listed" \in tasklet
  BY <1>2, <1>3
<1>5. driver = "simple_tasklet"
  BY <1>4 DEF LoadInv, Owned
<1>6. Types'
  BY <1>1, <1>4 DEF LoadInv, Types
<1>7. Owned' /\ Tracks'
  BY <1>1, <1>4, <1>5 DEF LoadInv, Owned, Tracks
<1>8. stage' \in {"init", "live"} => Up'
  BY <1>1 DEF LoadInv, Up, InitFits
<1>9. ASSUME stage' \in {"exit", "gone"}
      PROVE  Down'
  <2>1. Has(calls, "unlock_wait") =>
            Has(calls, "tasklet_kill") \/ (sched' /\ "listed" \notin tasklet')
    BY <1>1, <1>4, <1>9 DEF LoadInv, Down
  <2> QED
    BY <1>1, <1>4, <1>9, <2>1 DEF LoadInv, Down
<1> QED
  BY <1>6, <1>7, <1>8, <1>9 DEF LoadInv

LEMMA TaskletIsrNext ==
    ASSUME LoadInv, simple_tasklet_isr, UNCHANGED <<opened, ready>>
    PROVE  LoadInv'
<1>1. /\ driver = "simple_tasklet" /\ isr /\ isr' = FALSE
      /\ UNCHANGED <<driver, stage, calls, gpio, level, badpin, line, bug,
                     timer, timer_func, queued, working, thread, detected,
                     opened, ready>>
  BY DEF simple_tasklet_isr, IsrLeave, code, pins, timers, works, kthread
<1>2. CASE sched
  <2>1. UNCHANGED <<code, bug, deferring, opened>> /\ line' = line
    BY <1>1, <1>2 DEF simple_tasklet_isr, IsrLeave, deferring, timers, works,
                      marks
  <2> QED
    BY <1>1, <2>1, HandlerRuns
<1>3. CASE ~sched
  <2>1. /\ sched' = TRUE /\ tasklet' = tasklet \cup {"listed"}
        /\ slipped' = (stage = "exit" /\ Head(calls) # "tasklet_kill")
    BY <1>3 DEF simple_tasklet_isr
  <2>2. tasklet' \subseteq {"listed", "running"}
    BY <2>1 DEF LoadInv, Types
  <2>3. Types'
    BY <1>1, <2>2 DEF LoadInv, Types
  <2>4. Owned' /\ Tracks'
    BY <1>1, <2>1 DEF LoadInv, Owned, Tracks
  <2>5. stage' \in {"init", "live"} => Up'
    BY <1>1 DEF LoadInv, Up, InitFits
  <2>6. ASSUME stage' \in {"exit", "gone"}
        PROVE  Down'
    <3>1. Down /\ Has(calls, "synchronize")
      BY <1>1, <2>6 DEF LoadInv, Down
    <3>2. timer = FALSE /\ timer_func = "idle"
      BY <1>1 DEF LoadInv, Owned, Types, TimerDrivers
    <3>3. calls # <<>> /\ 1 \in 1..Len(calls) /\ Head(calls) = calls[1]
      <4>1. PICK S : calls \in Seq(S)
        BY DEF LoadInv, Types, IsSeq
      <4>2. calls # <<>>
        BY <3>1, EmptySeq DEF Has
      <4> QED
        BY <4>1, <4>2, HeadTailProperties, EmptySeq
    <3>4. stage = "exit"
      BY <1>1, <2>6, <3>3 DEF LoadInv, Types
    <3>5. Head(calls) = "tasklet_kill" => Has(calls, "unlock_wait")
      <4>1. Head(calls) = "tasklet_kill" => Has(calls, "tasklet_kill")
        BY <3>3 DEF Has
      <4> QED
        BY <1>1, <3>1, <4>1, ThenHas DEF Down, ExitFits
    <3>6. Has(calls, "unlock_wait") => Has(calls, "tasklet_kill")
      BY <1>3, <3>1 DEF Down
    <3>7. slipped' \/ Has(calls, "unlock_wait")
      BY <2>1, <3>4, <3>5
    <3> QED
      BY <1>1, <2>1, <3>1, <3>2, <3>6, <3>7 DEF Down
  <2> QED
    BY <2>3, <2>4, <2>5, <2>6 DEF LoadInv
<1> QED
  BY <1>2, <1>3

(* The workqueue and the thread.                                           *)
LEMMA WorkNext ==
    ASSUME LoadInv, my_work_func \/ simple_workqueue_isr,
           UNCHANGED <<opened, ready>>
    PROVE  LoadInv'
<1>1. /\ UNCHANGED <<driver, stage, calls, gpio, level, badpin, line, bug,
                     timer, timer_func, sched, tasklet, thread, detected,
                     slipped, opened, ready>>
      /\ isr' = isr \/ (isr /\ isr' = FALSE)
  BY DEF my_work_func, simple_workqueue_isr, IsrLeave, lab, code, pins,
         interrupt, timers, tasklets, kthread, marks
<1>2. \/ queued # 0 \/ working
      \/ isr /\ driver = "simple_workqueue"
  BY DEF my_work_func, simple_workqueue_isr, IsrLeave
<1>3. driver = "simple_workqueue"
  BY <1>2 DEF LoadInv, Owned
<1>4. Types'
  BY <1>1 DEF LoadInv, Types
<1>5. Owned' /\ Tracks'
  BY <1>1, <1>3 DEF LoadInv, Owned, Tracks
<1>6. stage' \in {"init", "live"} => Up'
  BY <1>1 DEF LoadInv, Up, InitFits
<1>7. ASSUME stage' \in {"exit", "gone"}
      PROVE  Down'
  <2>1. Down /\ ExitFits(driver, calls)
    BY <1>1, <1>7 DEF LoadInv, Down
  <2>2. Has(calls, "flush_workqueue")
    BY <1>2, <1>3, <2>1, ThenHas DEF Down, ExitFits
  <2> QED
    BY <1>1, <2>1, <2>2 DEF Down
<1> QED
  BY <1>4, <1>5, <1>6, <1>7 DEF LoadInv

LEMMA FlushNext ==
    ASSUME LoadInv, FlushWorkqueue, UNCHANGED <<opened, ready>>
    PROVE  LoadInv'
<1>1. /\ Calls("flush_workqueue") /\ queued = 0 /\ ~working
      /\ UNCHANGED <<gpio, level, badpin, line, isr, bug, timer, timer_func,
                     sched, tasklet, queued, working, thread, detected,
                     slipped, opened, ready>>
  BY DEF FlushWorkqueue, pins, interrupt, deferred, timers, tasklets, works,
         kthread, marks
<1>2. /\ \A x : Has(calls, x) => x = "flush_workqueue" \/ Has(calls', x)
      /\ \A x : Has(calls', x) => Has(calls, x)
  BY <1>1, CallMade DEF LoadInv, Types
<1>3. Types' /\ Owned' /\ Tracks'
  BY <1>1, AfterCall DEF LoadInv, Types, Owned, Tracks
<1>4. ASSUME stage' \in {"init", "live"}
      PROVE  Up'
  <2>1. stage = "init" /\ driver' = driver /\ Up
    BY <1>1, <1>4, AfterCall, InitAfter
  <2>2. InitFits(driver, calls, gpio, "data" \in ready)'
    BY <1>1, <1>2, <2>1, InitAfter DEF Up, InitFits
  <2> QED
    BY <1>1, <1>2, <2>1, <2>2 DEF Up
<1>5. ASSUME stage' \in {"exit", "gone"}
      PROVE  Down'
  <2>1. stage = "exit" /\ driver' = driver /\ Down /\ ExitFits(driver, calls')
    BY <1>1, <1>5, AfterCall, ExitAfter
  <2> QED
    BY <1>1, <1>2, <2>1 DEF Down
<1> QED
  BY <1>3, <1>4, <1>5 DEF LoadInv

LEMMA ThreadNext ==
    ASSUME LoadInv, simple_kthread_func \/ Kthread, UNCHANGED <<opened, ready>>
    PROVE  LoadInv'
<1>1. UNCHANGED <<gpio, level, badpin, line, isr, bug, timer, timer_func,
                  sched, tasklet, queued, working, detected, slipped, opened,
                  ready>>
  BY DEF simple_kthread_func, Kthread, lab, code, pins, interrupt, timers,
         tasklets, works, marks
<1>2. CASE simple_kthread_func
  <2>1. UNCHANGED <<driver, stage, calls>> /\ thread \notin {"new", "done"}
    BY <1>2 DEF simple_kthread_func, lab, code
  <2>2. Types' /\ Tracks'
    BY <1>1, <2>1 DEF LoadInv, Types, Tracks
  <2>3. Owned'
    BY <1>1, <2>1 DEF LoadInv, Owned
  <2>4. stage' \in {"init", "live"} => Up'
    BY <1>1, <2>1 DEF LoadInv, Up, InitFits
  <2>5. stage' \in {"exit", "gone"} => Down'
    BY <1>1, <2>1 DEF LoadInv, Down
  <2> QED
    BY <2>2, <2>3, <2>4, <2>5 DEF LoadInv
<1>3. CASE Calls("kthread_stop") /\ UNCHANGED thread
  <2>1. UNCHANGED <<pins, line, isr, bug, deferring, opened>>
    BY <1>1, <1>3 DEF pins, deferring, timers, tasklets, works
  <2> QED
    BY <1>1, <1>3, <2>1, QuietCall DEF Awaited
<1>4. CASE Calls("wake_up_process")
  <2>1. /\ \A x : Has(calls, x) => x = "wake_up_process" \/ Has(calls', x)
        /\ \A x : Has(calls', x) => Has(calls, x)
        /\ Has(calls, "wake_up_process")
    BY <1>4, CallMade DEF LoadInv, Types
  <2>2. stage = "init" /\ stage' \in {"init", "live"} /\ driver' = driver
    BY <1>4, AfterCall, ExitAfter DEF Starts
  <2>3. driver = "simple_kthread"
    BY <2>1 DEF LoadInv, Owned, Fits
  <2>4. Types' /\ Tracks' /\ Owned'
    BY <1>1, <1>4, <2>3, AfterCall DEF LoadInv, Types, Owned, Tracks
  <2>5. InitFits(driver, calls, gpio, "data" \in ready)'
    BY <1>1, <1>4, <2>1, <2>2, InitAfter DEF Up, InitFits
  <2>6. Up'
    BY <1>1, <1>4, <2>1, <2>2, <2>5, InitAfter DEF Up
  <2> QED
    BY <2>2, <2>4, <2>6 DEF LoadInv
<1>5. CASE Calls("wait_exit") /\ thread = "done" /\ thread' = thread
  <2>1. /\ \A x : Has(calls, x) => x = "wait_exit" \/ Has(calls', x)
        /\ \A x : Has(calls', x) => Has(calls, x)
    BY <1>5, CallMade DEF LoadInv, Types
  <2>2. Types' /\ Tracks' /\ Owned'
    BY <1>1, <1>5, AfterCall DEF LoadInv, Types, Owned, Tracks
  <2>3. ASSUME stage' \in {"init", "live"}
        PROVE  Up'
    <3>1. stage = "init" /\ driver' = driver /\ Up
      BY <1>5, <2>3, AfterCall, InitAfter
    <3>2. InitFits(driver, calls, gpio, "data" \in ready)'
      BY <1>1, <1>5, <2>1, <3>1, InitAfter DEF Up, InitFits
    <3> QED
      BY <1>1, <2>1, <3>1, <3>2 DEF Up
  <2>4. ASSUME stage' \in {"exit", "gone"}
        PROVE  Down'
    <3>1. stage = "exit" /\ driver' = driver /\ Down /\ ExitFits(driver, calls')
      BY <1>5, <2>4, AfterCall, ExitAfter
    <3> QED
      BY <1>1, <1>5, <2>1, <3>1 DEF Down
  <2> QED
    BY <2>2, <2>3, <2>4 DEF LoadInv
<1> QED
  BY <1>2, <1>3, <1>4, <1>5 DEF Kthread, kthread

-----------------------------------------------------------------------------
(* rmmod begins.                                                           *)
LEMMA UnloadNext ==
    ASSUME LoadInv, NEW s, Unload(s), UNCHANGED <<deferring, opened, ready>>,
           IsSeq(s), Fits(driver, s), ExitFits(driver, s), WholeExit(driver, s)
    PROVE  LoadInv' /\ bug' = bug
<1>1. /\ stage = "live" /\ stage' = "exit" /\ calls' = s
      /\ UNCHANGED <<driver, gpio, level, badpin, line, isr, bug, timer,
                     timer_func, sched, tasklet, queued, working, thread,
                     detected, slipped, opened, ready>>
  BY DEF Unload, pins, interrupt, deferring, timers, tasklets, works
<1>2. Up /\ calls = <<>> /\ ~Has(<<>>, "gpio_request")
  BY <1>1, EmptySeq DEF LoadInv, Types, Has
<1>3. driver = "simple_ultra" => gpio
  BY <1>2 DEF Up, InitFits
<1>4. Has(s, "free_irq") => Has(s, "synchronize")
  BY ThenHas DEF ExitFits
<1>5. Has(s, "tasklet_kill") /\ driver = "simple_tasklet" => Has(s, "unlock_wait")
  BY ThenHas DEF ExitFits
<1>6. Types'
  BY <1>1 DEF LoadInv, Types
<1>7. Owned' /\ Tracks'
  BY <1>1 DEF LoadInv, Owned, Tracks
<1>8. Down'
  BY <1>1, <1>3, <1>4, <1>5 DEF LoadInv, Owned, Down, WholeExit
<1> QED
  BY <1>1, <1>6, <1>7, <1>8 DEF LoadInv

-----------------------------------------------------------------------------
(* The init and exit functions of the drivers are such sequences.          *)
GoodInit(d, s) == IsSeq(s) /\ Fits(d, s) /\ InitFits(d, s, FALSE, FALSE)
GoodExit(d, s) == IsSeq(s) /\ Fits(d, s) /\ ExitFits(d, s) /\ WholeExit(d, s)

LEMMA TupleIsSeq ==
    ASSUME NEW a, NEW b, NEW c, NEW d, NEW e, NEW f
    PROVE  /\ IsSeq(<<a>>) /\ IsSeq(<<a, b>>) /\ IsSeq(<<a, b, c>>)
           /\ IsSeq(<<a, b, c, d>>) /\ IsSeq(<<a, b, c, d, e>>)
           /\ IsSeq(<<a, b, c, d, e, f>>)
<1> DEFINE S == {a, b, c, d, e, f}
<1>1. a \in S /\ b \in S /\ c \in S /\ d \in S /\ e \in S /\ f \in S
  OBVIOUS
<1> HIDE DEF S
<1>2. /\ <<a>> \in Seq(S) /\ <<a, b>> \in Seq(S) /\ <<a, b, c>> \in Seq(S)
      /\ <<a, b, c, d>> \in Seq(S) /\ <<a, b, c, d, e>> \in Seq(S)
      /\ <<a, b, c, d, e, f>> \in Seq(S)
  BY <1>1
<1> QED
  BY <1>2 DEF IsSeq

(* Of a sequence of one call, of two, and so on.                           *)
LEMMA Facts1 ==
    ASSUME NEW a
    PROVE  LET s == <<a>>
           IN  /\ \A x : Has(s, x) <=> x \in {a}
               /\ \A C : NoneOf(s, C) <=> a \notin C
               /\ \A x, y :
                     Then(s, x, y) <=>
                        /\ a # x
               /\ \A C :
                     Requested(s, C) <=>
                        /\ a \notin C
               /\ \A x : x \notin {a} => Once(s, x)
  BY DEF Has, NoneOf, Then, Requested, Once

LEMMA Facts2 ==
    ASSUME NEW a, NEW b
    PROVE  LET s == <<a, b>>
           IN  /\ \A x : Has(s, x) <=> x \in {a, b}
               /\ \A C : NoneOf(s, C) <=> a \notin C /\ b \notin C
               /\ \A x, y :
                     Then(s, x, y) <=>
                        /\ (a = x => y \in {b})
                        /\ b # x
               /\ \A C :
                     Requested(s, C) <=>
                        /\ a \notin C
                        /\ (b \in C => "gpio_request" \in {a})
               /\ \A x : x \notin {a, b} => Once(s, x)
  BY DEF Has, NoneOf, Then, Requested, Once

LEMMA Facts3 ==
    ASSUME NEW a, NEW b, NEW c
    PROVE  LET s == <<a, b, c>>
           IN  /\ \A x : Has(s, x) <=> x \in {a, b, c}
               /\ \A C : NoneOf(s, C) <=> a \notin C /\ b \notin C /\ c \notin C
               /\ \A x, y :
                     Then(s, x, y) <=>
                        /\ (a = x => y \in {b, c})
                        /\ (b = x => y \in {c})
                        /\ c # x
               /\ \A C :
                     Requested(s, C) <=>
                        /\ a \notin C
                        /\ (b \in C => "gpio_request" \in {a})
                        /\ (c \in C => "gpio_request" \in {a, b})
               /\ \A x : x \notin {a, b, c} => Once(s, x)
  BY DEF Has, NoneOf, Then, Requested, Once

LEMMA Facts4 ==
    ASSUME NEW a, NEW b, NEW c, NEW d
    PROVE  LET s == <<a, b, c, d>>
           IN  /\ \A x : Has(s, x) <=> x \in {a, b, c, d}
               /\ \A C : NoneOf(s, C) <=> 
                        /\ a \notin C /\ b \notin C /\ c \notin C
                        /\ d \notin C
               /\ \A x, y :
                     Then(s, x, y) <=>
                        /\ (a = x => y \in {b, c, d})
                        /\ (b = x => y \in {c, d})
                        /\ (c = x => y \in {d})
                        /\ d # x
               /\ \A C :
                     Requested(s, C) <=>
                        /\ a \notin C
                        /\ (b \in C => "gpio_request" \in {a})
                        /\ (c \in C => "gpio_request" \in {a, b})
                        /\ (d \in C => "gpio_request" \in {a, b, c})
               /\ \A x : x \notin {a, b, c, d} => Once(s, x)
  BY DEF Has, NoneOf, Then, Requested, Once

LEMMA Facts5 ==
    ASSUME NEW a, NEW b, NEW c, NEW d, NEW e
    PROVE  LET s == <<a, b, c, d, e>>
           IN  /\ \A x : Has(s, x) <=> x \in {a, b, c, d, e}
               /\ \A C : NoneOf(s, C) <=> 
                        /\ a \notin C /\ b \notin C /\ c \notin C
                        /\ d \notin C /\ e \notin C
               /\ \A x, y :
                     Then(s, x, y) <=>
                        /\ (a = x => y \in {b, c, d, e})
                        /\ (b = x => y \in {c, d, e})
                        /\ (c = x => y \in {d, e})
                        /\ (d = x => y \in {e})
                        /\ e # x
               /\ \A C :
                     Requested(s, C) <=>
                        /\ a \notin C
                        /\ (b \in C => "gpio_request" \in {a})
                        /\ (c \in C => "gpio_request" \in {a, b})
                        /\ (d \in C => "gpio_request" \in {a, b, c})
                        /\ (e \in C => "gpio_request" \in {a, b, c, d})
               /\ \A x : x \notin {a, b, c, d, e} => Once(s, x)
  BY DEF Has, NoneOf, Then, Requested, Once

LEMMA Facts6 ==
    ASSUME NEW a, NEW b, NEW c, NEW d, NEW e, NEW f
    PROVE  LET s == <<a, b, c, d, e, f>>
           IN  /\ \A x : Has(s, x) <=> x \in {a, b, c, d, e, f}
               /\ \A C : NoneOf(s, C) <=> 
                        /\ a \notin C /\ b \notin C /\ c \notin C
                        /\ d \notin C /\ e \notin C /\ f \notin C
               /\ \A x, y :
                     Then(s, x, y) <=>
                        /\ (a = x => y \in {b, c, d, e, f})
                        /\ (b = x => y \in {c, d, e, f})
                        /\ (c = x => y \in {d, e, f})
                        /\ (d = x => y \in {e, f})
                        /\ (e = x => y \in {f})
                        /\ f # x
               /\ \A C :
                     Requested(s, C) <=>
                        /\ a \notin C
                        /\ (b \in C => "gpio_request" \in {a})
                        /\ (c \in C => "gpio_request" \in {a, b})
                        /\ (d \in C => "gpio_request" \in {a, b, c})
                        /\ (e \in C => "gpio_request" \in {a, b, c, d})
                        /\ (f \in C => "gpio_request" \in {a, b, c, d, e})
               /\ \A x : x \notin {a, b, c, d, e, f} => Once(s, x)
  BY DEF Has, NoneOf, Then, Requested, Once

LEMMA DeferredGood ==
    ASSUME NEW d \in DeferredDrivers
    PROVE  GoodInit(d, DeferredInitCalls[d]) /\ GoodExit(d, DeferredExitCalls[d])
<1> USE DEF GoodInit, GoodExit, Fits, InitFits, ExitFits, WholeExit, Needs,
            Starts, Ends, IrqDrivers, GpioDrivers, LevelDrivers, TimerDrivers,
            Pointed
<1>1. ASSUME NEW e \in {"simple_timer"}
      PROVE  GoodInit(e, <<"add_timer">>)
  <2> DEFINE s == <<"add_timer">>
  <2>1. IsSeq(s)
    BY TupleIsSeq
  <2>2. /\ \A x : Has(s, x) <=> x \in {"add_timer"}
        /\ NoneOf(s, Ends)
        /\ Requested(s, Needs(e))
    BY <1>1, Facts1
  <2>3. Once(s, "add_timer")
    BY DEF Once
  <2> HIDE DEF s
  <2>4. GoodInit(e, s)
    BY <1>1, <2>1, <2>2, <2>3
  <2> QED
    BY <2>4 DEF s
<1>2. ASSUME NEW e \in {"simple_timer"}
      PROVE  GoodExit(e, <<"del_timer">>)
  <2> DEFINE s == <<"del_timer">>
  <2>1. IsSeq(s)
    BY TupleIsSeq
  <2>2. /\ \A x : Has(s, x) <=> x \in {"del_timer"}
        /\ NoneOf(s, Starts)
        /\ Then(s, "free_irq", "synchronize")
    BY <1>2, Facts1
  <2> HIDE DEF s
  <2>3. GoodExit(e, s)
    BY <1>2, <2>1, <2>2
  <2> QED
    BY <2>3 DEF s
<1>3. ASSUME NEW e \in {"ch7"}
      PROVE  GoodInit(e, <<"gpio_request", "add_timer">>)
  <2> DEFINE s == <<"gpio_request", "add_timer">>
  <2>1. IsSeq(s)
    BY TupleIsSeq
  <2>2. /\ \A x : Has(s, x) <=> x \in {"gpio_request", "add_timer"}
        /\ NoneOf(s, Ends)
        /\ Requested(s, Needs(e))
    BY <1>3, Facts2
  <2>3. Once(s, "add_timer")
    BY DEF Once
  <2> HIDE DEF s
  <2>4. GoodInit(e, s)
    BY <1>3, <2>1, <2>2, <2>3
  <2> QED
    BY <2>4 DEF s
<1>4. ASSUME NEW e \in {"ch7"}
      PROVE  GoodExit(e, <<"set_low", "gpio_free", "del_timer">>)
  <2> DEFINE s == <<"set_low", "gpio_free", "del_timer">>
  <2>1. IsSeq(s)
    BY TupleIsSeq
  <2>2. /\ \A x : Has(s, x) <=> x \in {"set_low", "gpio_free", "del_timer"}
        /\ NoneOf(s, Starts)
        /\ Then(s, "free_irq", "synchronize")
    BY <1>4, Facts3
  <2> HIDE DEF s
  <2>3. GoodExit(e, s)
    BY <1>4, <2>1, <2>2
  <2> QED
    BY <2>3 DEF s
<1>5. ASSUME NEW e \in {"ch8", "simple_tasklet", "simple_workqueue"}
      PROVE  GoodInit(e, <<"gpio_request", "request_irq">>)
  <2> DEFINE s == <<"gpio_request", "request_irq">>
  <2>1. IsSeq(s)
    BY TupleIsSeq
  <2>2. /\ \A x : Has(s, x) <=> x \in {"gpio_request", "request_irq"}
        /\ NoneOf(s, Ends)
        /\ Requested(s, Needs(e))
        /\ Once(s, "add_timer")
    BY <1>5, Facts2
  <2> HIDE DEF s
  <2>3. GoodInit(e, s)
    BY <1>5, <2>1, <2>2
  <2> QED
    BY <2>3 DEF s
<1>6. ASSUME NEW e \in {"ch8"}
      PROVE  GoodExit(e, <<"free_irq", "synchronize", "gpio_free", "del_timer">>)
  <2> DEFINE s == <<"free_irq", "synchronize", "gpio_free", "del_timer">>
  <2>1. IsSeq(s)
    BY TupleIsSeq
  <2>2. /\ \A x : Has(s, x) <=> x \in {"free_irq", "synchronize",
                                        "gpio_free", "del_timer"}
        /\ NoneOf(s, Starts)
        /\ Then(s, "free_irq", "synchronize")
        /\ Then(s, "synchronize", "del_timer")
    BY <1>6, Facts4
  <2> HIDE DEF s
  <2>3. GoodExit(e, s)
    BY <1>6, <2>1, <2>2
  <2> QED
    BY <2>3 DEF s
<1>7. ASSUME NEW e \in {"simple_tasklet"}
      PROVE  GoodExit(e, <<"tasklet_kill", "unlock_wait", "free_irq",
                        "synchronize", "gpio_free">>)
  <2> DEFINE s == <<"tasklet_kill", "unlock_wait", "free_irq",
                    "synchronize", "gpio_free">>
  <2>1. IsSeq(s)
    BY TupleIsSeq
  <2>2. /\ \A x : Has(s, x) <=> x \in {"tasklet_kill", "unlock_wait",
                                        "free_irq", "synchronize",
                                        "gpio_free"}
        /\ NoneOf(s, Starts)
        /\ Then(s, "free_irq", "synchronize")
        /\ Then(s, "tasklet_kill", "unlock_wait")
    BY <1>7, Facts5
  <2>3. Once(s, "unlock_wait")
    BY DEF Once
  <2> HIDE DEF s
  <2>4. GoodExit(e, s)
    BY <1>7, <2>1, <2>2, <2>3
  <2> QED
    BY <2>4 DEF s
<1>8. ASSUME NEW e \in {"simple_workqueue"}
      PROVE  GoodExit(e, <<"free_irq", "synchronize", "gpio_free",
                        "flush_workqueue">>)
  <2> DEFINE s == <<"free_irq", "synchronize", "gpio_free",
                    "flush_workqueue">>
  <2>1. IsSeq(s)
    BY TupleIsSeq
  <2>2. /\ \A x : Has(s, x) <=> x \in {"free_irq", "synchronize",
                                        "gpio_free", "flush_workqueue"}
        /\ NoneOf(s, Starts)
        /\ Then(s, "free_irq", "synchronize")
        /\ Then(s, "synchronize", "flush_workqueue")
    BY <1>8, Facts4
  <2> HIDE DEF s
  <2>3. GoodExit(e, s)
    BY <1>8, <2>1, <2>2
  <2> QED
    BY <2>3 DEF s
<1>9. ASSUME NEW e \in {"simple_kthread"}
      PROVE  GoodInit(e, <<"wake_up_process">>)
  <2> DEFINE s == <<"wake_up_process">>
  <2>1. IsSeq(s)
    BY TupleIsSeq
  <2>2. /\ \A x : Has(s, x) <=> x \in {"wake_up_process"}
        /\ NoneOf(s, Ends)
        /\ Requested(s, Needs(e))
        /\ Once(s, "add_timer")
    BY <1>9, Facts1
  <2> HIDE DEF s
  <2>3. GoodInit(e, s)
    BY <1>9, <2>1, <2>2
  <2> QED
    BY <2>3 DEF s
<1>10. ASSUME NEW e \in {"simple_kthread"}
      PROVE  GoodExit(e, <<"kthread_stop", "wait_exit">>)
  <2> DEFINE s == <<"kthread_stop", "wait_exit">>
  <2>1. IsSeq(s)
    BY TupleIsSeq
  <2>2. /\ \A x : Has(s, x) <=> x \in {"kthread_stop", "wait_exit"}
        /\ NoneOf(s, Starts)
        /\ Then(s, "free_irq", "synchronize")
    BY <1>10, Facts2
  <2> HIDE DEF s
  <2>3. GoodExit(e, s)
    BY <1>10, <2>1, <2>2
  <2> QED
    BY <2>3 DEF s
<1> HIDE DEF GoodInit, GoodExit
<1> QED
  BY <1>1, <1>2, <1>3, <1>4, <1>5, <1>6, <1>7, <1>8, <1>9, <1>10
     DEF DeferredDrivers, DeferredInitCalls, DeferredExitCalls,
         simple_timer_init, simple_timer_exit, ch7_init, ch7_exit, ch8_init,
         ch8_exit, simple_tasklet_init, simple_tasklet_exit,
         simple_workqueue_init, simple_workqueue_exit, simple_kthread_init,
         simple_kthread_exit

LEMMA SensorGood ==
    ASSUME NEW d \in SensorDrivers
    PROVE  GoodInit(d, SensorInitCalls[d]) /\ GoodExit(d, SensorExitCalls[d])
<1> USE DEF GoodInit, GoodExit, Fits, InitFits, ExitFits, WholeExit, Needs,
            Starts, Ends, IrqDrivers, GpioDrivers, LevelDrivers, TimerDrivers,
            Pointed
<1>1. ASSUME NEW e \in {"switch_irq"}
      PROVE  GoodInit(e, <<"gpio_request", "request_irq">>)
  <2> DEFINE s == <<"gpio_request", "request_irq">>
  <2>1. IsSeq(s)
    BY TupleIsSeq
  <2>2. /\ \A x : Has(s, x) <=> x \in {"gpio_request", "request_irq"}
        /\ NoneOf(s, Ends)
        /\ Requested(s, Needs(e))
        /\ Once(s, "add_timer")
    BY <1>1, Facts2
  <2> HIDE DEF s
  <2>3. GoodInit(e, s)
    BY <1>1, <2>1, <2>2
  <2> QED
    BY <2>3 DEF s
<1>2. ASSUME NEW e \in {"switch_irq"}
      PROVE  GoodExit(e, <<"disable_irq", "wait_irq", "free_irq",
                        "synchronize", "gpio_free">>)
  <2> DEFINE s == <<"disable_irq", "wait_irq", "free_irq", "synchronize",
                    "gpio_free">>
  <2>1. IsSeq(s)
    BY TupleIsSeq
  <2>2. /\ \A x : Has(s, x) <=> x \in {"disable_irq", "wait_irq",
                                        "free_irq", "synchronize",
                                        "gpio_free"}
        /\ NoneOf(s, Starts)
        /\ Then(s, "free_irq", "synchronize")
    BY <1>2, Facts5
  <2> HIDE DEF s
  <2>3. GoodExit(e, s)
    BY <1>2, <2>1, <2>2
  <2> QED
    BY <2>3 DEF s
<1>3. ASSUME NEW e \in {"simple_sensor"}
      PROVE  GoodInit(e, <<"cdev_add", "gpio_request", "request_irq",
                        "disable_irq", "wait_irq">>)
  <2> DEFINE s == <<"cdev_add", "gpio_request", "request_irq",
                    "disable_irq", "wait_irq">>
  <2>1. IsSeq(s)
    BY TupleIsSeq
  <2>2. /\ \A x : Has(s, x) <=> x \in {"cdev_add", "gpio_request",
                                        "request_irq", "disable_irq",
                                        "wait_irq"}
        /\ NoneOf(s, Ends)
        /\ Requested(s, Needs(e))
        /\ Once(s, "add_timer")
    BY <1>3, Facts5
  <2> HIDE DEF s
  <2>3. GoodInit(e, s)
    BY <1>3, <2>1, <2>2
  <2> QED
    BY <2>3 DEF s
<1>4. ASSUME NEW e \in {"simple_sensor"}
      PROVE  GoodExit(e, <<"cdev_del", "free_irq", "synchronize", "gpio_free">>)
  <2> DEFINE s == <<"cdev_del", "free_irq", "synchronize", "gpio_free">>
  <2>1. IsSeq(s)
    BY TupleIsSeq
  <2>2. /\ \A x : Has(s, x) <=> x \in {"cdev_del", "free_irq",
                                        "synchronize", "gpio_free"}
        /\ NoneOf(s, Starts)
        /\ Then(s, "free_irq", "synchronize")
    BY <1>4, Facts4
  <2> HIDE DEF s
  <2>3. GoodExit(e, s)
    BY <1>4, <2>1, <2>2
  <2> QED
    BY <2>3 DEF s
<1>5. ASSUME NEW e \in {"sensor_proc"}
      PROVE  GoodInit(e, <<"proc_create", "gpio_request", "request_irq">>)
  <2> DEFINE s == <<"proc_create", "gpio_request", "request_irq">>
  <2>1. IsSeq(s)
    BY TupleIsSeq
  <2>2. /\ \A x : Has(s, x) <=> x \in {"proc_create", "gpio_request",
                                        "request_irq"}
        /\ NoneOf(s, Ends)
        /\ Requested(s, Needs(e))
        /\ Once(s, "add_timer")
    BY <1>5, Facts3
  <2> HIDE DEF s
  <2>3. GoodInit(e, s)
    BY <1>5, <2>1, <2>2
  <2> QED
    BY <2>3 DEF s
<1>6. ASSUME NEW e \in {"sensor_proc"}
      PROVE  GoodExit(e, <<"proc_remove", "rundown", "free_irq", "synchronize",
                        "gpio_free", "list_del">>)
  <2> DEFINE s == <<"proc_remove", "rundown", "free_irq", "synchronize",
                    "gpio_free", "list_del">>
  <2>1. IsSeq(s)
    BY TupleIsSeq
  <2>2. /\ \A x : Has(s, x) <=> x \in {"proc_remove", "rundown",
                                        "free_irq", "synchronize",
                                        "gpio_free", "list_del"}
        /\ NoneOf(s, Starts)
        /\ Then(s, "free_irq", "synchronize")
    BY <1>6, Facts6
  <2> HIDE DEF s
  <2>3. GoodExit(e, s)
    BY <1>6, <2>1, <2>2
  <2> QED
    BY <2>3 DEF s
<1>7. ASSUME NEW e \in {"simple_ultra"}
      PROVE  GoodInit(e, <<"gpio_request", "request_irq", "trigger", "valid">>)
  <2> DEFINE s == <<"gpio_request", "request_irq", "trigger", "valid">>
  <2>1. IsSeq(s)
    BY TupleIsSeq
  <2>2. /\ \A x : Has(s, x) <=> x \in {"gpio_request", "request_irq",
                                        "trigger", "valid"}
        /\ NoneOf(s, Ends)
        /\ Requested(s, Needs(e))
        /\ Once(s, "add_timer")
    BY <1>7, Facts4
  <2> HIDE DEF s
  <2>3. GoodInit(e, s)
    BY <1>7, <2>1, <2>2
  <2> QED
    BY <2>3 DEF s
<1>8. ASSUME NEW e \in {"simple_ultra"}
      PROVE  GoodExit(e, <<"free_irq", "synchronize">>)
  <2> DEFINE s == <<"free_irq", "synchronize">>
  <2>1. IsSeq(s)
    BY TupleIsSeq
  <2>2. /\ \A x : Has(s, x) <=> x \in {"free_irq", "synchronize"}
        /\ NoneOf(s, Starts)
        /\ Then(s, "free_irq", "synchronize")
    BY <1>8, Facts2
  <2> HIDE DEF s
  <2>3. GoodExit(e, s)
    BY <1>8, <2>1, <2>2
  <2> QED
    BY <2>3 DEF s
<1> HIDE DEF GoodInit, GoodExit
<1> QED
  BY <1>1, <1>2, <1>3, <1>4, <1>5, <1>6, <1>7, <1>8
     DEF SensorDrivers, SensorInitCalls, SensorExitCalls, switch_irq_init,
         switch_irq_exit, simple_sensor_init, simple_sensor_exit,
         sensor_proc_init, sensor_proc_exit, simple_ultra_init,
         simple_ultra_exit

LEMMA PinGood ==
    ASSUME NEW d \in PinDrivers
    PROVE  GoodInit(d, PinInitCalls[d]) /\ GoodExit(d, PinExitCalls[d])
<1> USE DEF GoodInit, GoodExit, Fits, InitFits, ExitFits, WholeExit, Needs,
            Starts, Ends, IrqDrivers, GpioDrivers, LevelDrivers, TimerDrivers,
            Pointed
<1>1. ASSUME NEW e \in {"simple_led"}
      PROVE  GoodInit(e, <<"gpio_request", "set_high">>)
  <2> DEFINE s == <<"gpio_request", "set_high">>
  <2>1. IsSeq(s)
    BY TupleIsSeq
  <2>2. /\ \A x : Has(s, x) <=> x \in {"gpio_request", "set_high"}
        /\ NoneOf(s, Ends)
        /\ Requested(s, Needs(e))
        /\ Once(s, "add_timer")
    BY <1>1, Facts2
  <2> HIDE DEF s
  <2>3. GoodInit(e, s)
    BY <1>1, <2>1, <2>2
  <2> QED
    BY <2>3 DEF s
<1>2. ASSUME NEW e \in {"simple_led", "simple_speaker"}
      PROVE  GoodExit(e, <<"set_low", "gpio_free">>)
  <2> DEFINE s == <<"set_low", "gpio_free">>
  <2>1. IsSeq(s)
    BY TupleIsSeq
  <2>2. /\ \A x : Has(s, x) <=> x \in {"set_low", "gpio_free"}
        /\ NoneOf(s, Starts)
        /\ Then(s, "free_irq", "synchronize")
    BY <1>2, Facts2
  <2> HIDE DEF s
  <2>3. GoodExit(e, s)
    BY <1>2, <2>1, <2>2
  <2> QED
    BY <2>3 DEF s
<1>3. ASSUME NEW e \in {"simple_switch"}
      PROVE  GoodInit(e, <<"gpio_request", "poll">>)
  <2> DEFINE s == <<"gpio_request", "poll">>
  <2>1. IsSeq(s)
    BY TupleIsSeq
  <2>2. /\ \A x : Has(s, x) <=> x \in {"gpio_request", "poll"}
        /\ NoneOf(s, Ends)
        /\ Requested(s, Needs(e))
        /\ Once(s, "add_timer")
    BY <1>3, Facts2
  <2> HIDE DEF s
  <2>3. GoodInit(e, s)
    BY <1>3, <2>1, <2>2
  <2> QED
    BY <2>3 DEF s
<1>4. ASSUME NEW e \in {"simple_switch", "simple_motor", "ch10", "test"}
      PROVE  GoodExit(e, <<"gpio_free">>)
  <2> DEFINE s == <<"gpio_free">>
  <2>1. IsSeq(s)
    BY TupleIsSeq
  <2>2. /\ \A x : Has(s, x) <=> x \in {"gpio_free"}
        /\ NoneOf(s, Starts)
        /\ Then(s, "free_irq", "synchronize")
    BY <1>4, Facts1
  <2> HIDE DEF s
  <2>3. GoodExit(e, s)
    BY <1>4, <2>1, <2>2
  <2> QED
    BY <2>3 DEF s
<1>5. ASSUME NEW e \in {"simple_speaker"}
      PROVE  GoodInit(e, <<"gpio_request", "play", "set_low">>)
  <2> DEFINE s == <<"gpio_request", "play", "set_low">>
  <2>1. IsSeq(s)
    BY TupleIsSeq
  <2>2. /\ \A x : Has(s, x) <=> x \in {"gpio_request", "play", "set_low"}
        /\ NoneOf(s, Ends)
        /\ Requested(s, Needs(e))
        /\ Once(s, "add_timer")
    BY <1>5, Facts3
  <2> HIDE DEF s
  <2>3. GoodInit(e, s)
    BY <1>5, <2>1, <2>2
  <2> QED
    BY <2>3 DEF s
<1>6. ASSUME NEW e \in {"simple_motor"}
      PROVE  GoodInit(e, <<"gpio_request", "forward", "backward">>)
  <2> DEFINE s == <<"gpio_request", "forward", "backward">>
  <2>1. IsSeq(s)
    BY TupleIsSeq
  <2>2. /\ \A x : Has(s, x) <=> x \in {"gpio_request", "forward",
                                        "backward"}
        /\ NoneOf(s, Ends)
        /\ Requested(s, Needs(e))
        /\ Once(s, "add_timer")
    BY <1>6, Facts3
  <2> HIDE DEF s
  <2>3. GoodInit(e, s)
    BY <1>6, <2>1, <2>2
  <2> QED
    BY <2>3 DEF s
<1>7. ASSUME NEW e \in {"ch10", "test"}
      PROVE  GoodInit(e, <<"gpio_request", "moveDegree", "moveDegree",
                        "moveDegree", "moveDegree">>)
  <2> DEFINE s == <<"gpio_request", "moveDegree", "moveDegree",
                    "moveDegree", "moveDegree">>
  <2>1. IsSeq(s)
    BY TupleIsSeq
  <2>2. /\ \A x : Has(s, x) <=> x \in {"gpio_request", "moveDegree"}
        /\ NoneOf(s, Ends)
        /\ Requested(s, Needs(e))
        /\ Once(s, "add_timer")
    BY <1>7, Facts5
  <2> HIDE DEF s
  <2>3. GoodInit(e, s)
    BY <1>7, <2>1, <2>2
  <2> QED
    BY <2>3 DEF s
<1> HIDE DEF GoodInit, GoodExit
<1> QED
  BY <1>1, <1>2, <1>3, <1>4, <1>5, <1>6, <1>7
     DEF PinDrivers, PinInitCalls, PinExitCalls, simple_led_init,
         simple_led_exit, simple_switch_init, simple_switch_exit,
         simple_speaker_init, simple_speaker_exit, simple_motor_init,
         simple_motor_exit, ch10_motor_init, ch10_motor_exit, test_motor_exit

LEMMA CharGood ==
    ASSUME NEW d \in CharDrivers
    PROVE  GoodInit(d, CharInitCalls[d]) /\ GoodExit(d, CharExitCalls[d])
<1> USE DEF GoodInit, GoodExit, Fits, InitFits, ExitFits, WholeExit, Needs,
            Starts, Ends, IrqDrivers, GpioDrivers, LevelDrivers, TimerDrivers,
            Pointed
<1>1. ASSUME NEW e \in {"simple_char", "simple_ioctl", "simple_param", "ch2"}
      PROVE  GoodInit(e, <<"cdev_add">>)
  <2> DEFINE s == <<"cdev_add">>
  <2>1. IsSeq(s)
    BY TupleIsSeq
  <2>2. /\ \A x : Has(s, x) <=> x \in {"cdev_add"}
        /\ NoneOf(s, Ends)
        /\ Requested(s, Needs(e))
        /\ Once(s, "add_timer")
    BY <1>1, Facts1
  <2> HIDE DEF s
  <2>3. GoodInit(e, s)
    BY <1>1, <2>1, <2>2
  <2> QED
    BY <2>3 DEF s
<1>2. ASSUME NEW e \in {"simple_char", "simple_ioctl", "simple_param", "ch2",
                       "simple_rculist", "ku_ipc"}
      PROVE  GoodExit(e, <<"cdev_del">>)
  <2> DEFINE s == <<"cdev_del">>
  <2>1. IsSeq(s)
    BY TupleIsSeq
  <2>2. /\ \A x : Has(s, x) <=> x \in {"cdev_del"}
        /\ NoneOf(s, Starts)
        /\ Then(s, "free_irq", "synchronize")
    BY <1>2, Facts1
  <2> HIDE DEF s
  <2>3. GoodExit(e, s)
    BY <1>2, <2>1, <2>2
  <2> QED
    BY <2>3 DEF s
<1>3. ASSUME NEW e \in {"simple_rcu", "simple_rwlock", "simple_rculist",
                       "ku_ipc"}
      PROVE  GoodInit(e, <<"cdev_add", "data">>)
  <2> DEFINE s == <<"cdev_add", "data">>
  <2>1. IsSeq(s)
    BY TupleIsSeq
  <2>2. /\ \A x : Has(s, x) <=> x \in {"cdev_add", "data"}
        /\ NoneOf(s, Ends)
        /\ Requested(s, Needs(e))
        /\ Once(s, "add_timer")
    BY <1>3, Facts2
  <2> HIDE DEF s
  <2>3. GoodInit(e, s)
    BY <1>3, <2>1, <2>2
  <2> QED
    BY <2>3 DEF s
<1>4. ASSUME NEW e \in {"simple_rcu", "simple_rwlock"}
      PROVE  GoodExit(e, <<"kfree", "cdev_del">>)
  <2> DEFINE s == <<"kfree", "cdev_del">>
  <2>1. IsSeq(s)
    BY TupleIsSeq
  <2>2. /\ \A x : Has(s, x) <=> x \in {"kfree", "cdev_del"}
        /\ NoneOf(s, Starts)
        /\ Then(s, "free_irq", "synchronize")
    BY <1>4, Facts2
  <2> HIDE DEF s
  <2>3. GoodExit(e, s)
    BY <1>4, <2>1, <2>2
  <2> QED
    BY <2>3 DEF s
<1>5. ASSUME NEW e \in {"ku_SnA"}
      PROVE  GoodInit(e, <<"cdev_add", "gpio_request", "request_irq">>)
  <2> DEFINE s == <<"cdev_add", "gpio_request", "request_irq">>
  <2>1. IsSeq(s)
    BY TupleIsSeq
  <2>2. /\ \A x : Has(s, x) <=> x \in {"cdev_add", "gpio_request",
                                        "request_irq"}
        /\ NoneOf(s, Ends)
        /\ Requested(s, Needs(e))
        /\ Once(s, "add_timer")
    BY <1>5, Facts3
  <2> HIDE DEF s
  <2>3. GoodInit(e, s)
    BY <1>5, <2>1, <2>2
  <2> QED
    BY <2>3 DEF s
<1>6. ASSUME NEW e \in {"ku_SnA"}
      PROVE  GoodExit(e, <<"cdev_del", "free_irq", "synchronize", "set_low",
                        "gpio_free">>)
  <2> DEFINE s == <<"cdev_del", "free_irq", "synchronize", "set_low",
                    "gpio_free">>
  <2>1. IsSeq(s)
    BY TupleIsSeq
  <2>2. /\ \A x : Has(s, x) <=> x \in {"cdev_del", "free_irq",
                                        "synchronize", "set_low",
                                        "gpio_free"}
        /\ NoneOf(s, Starts)
        /\ Then(s, "free_irq", "synchronize")
        /\ Then(s, "synchronize", "set_low")
    BY <1>6, Facts5
  <2> HIDE DEF s
  <2>3. GoodExit(e, s)
    BY <1>6, <2>1, <2>2
  <2> QED
    BY <2>3 DEF s
<1> HIDE DEF GoodInit, GoodExit
<1> QED
  BY <1>1, <1>2, <1>3, <1>4, <1>5, <1>6
     DEF CharDrivers, CharInitCalls, CharExitCalls, simple_char_init,
         simple_char_exit, simple_ioctl_init, simple_ioctl_exit,
         simple_param_init, simple_param_exit, ch2_init, ch2_exit,
         simple_rcu_init, simple_rcu_exit, simple_rwlock_init,
         simple_rwlock_exit, simple_rculist_init, simple_rculist_exit,
         ku_ipc_init, ku_ipc_exit, ku_SnA_init, ku_SnA_exit


LEMMA SpiGood ==
    GoodInit("spidev", <<"probe">>)
<1> DEFINE s == <<"probe">>
<1>1. IsSeq(s)
  BY TupleIsSeq
<1>2. /\ \A x : Has(s, x) <=> x \in {"probe"}
      /\ NoneOf(s, Ends)
      /\ Requested(s, Needs("spidev"))
      /\ Once(s, "add_timer")
  BY Facts1 DEF Ends, Needs
<1> HIDE DEF s
<1>3. GoodInit("spidev", s)
  BY <1>1, <1>2 DEF GoodInit, Fits, InitFits, Pointed
<1> QED
  BY <1>3 DEF s

LEMMA FirstGood ==
    ASSUME NEW d \in FirstDrivers
    PROVE  GoodInit(d, FirstInitCalls[d]) /\ GoodExit(d, <<"printk">>)
<1> USE DEF GoodInit, GoodExit, Fits, InitFits, ExitFits, WholeExit, Needs,
            Starts, Ends, IrqDrivers, GpioDrivers, LevelDrivers, TimerDrivers,
            Pointed
<1>1. d \in {"ch1", "symbol", "hello", "hello2", "debug"}
  BY DEF FirstDrivers, FirstInitCalls
<1>2. GoodInit(d, <<"printk">>) /\ GoodExit(d, <<"printk">>)
  <2> DEFINE s == <<"printk">>
  <2>1. IsSeq(s)
    BY TupleIsSeq
  <2>2. /\ \A x : Has(s, x) <=> x \in {"printk"}
        /\ NoneOf(s, Starts) /\ NoneOf(s, Ends)
        /\ Requested(s, Needs(d))
        /\ Then(s, "free_irq", "synchronize")
        /\ Once(s, "add_timer")
    BY Facts1
  <2> HIDE DEF s
  <2>3. GoodInit(d, s)
    BY <1>1, <2>1, <2>2
  <2>4. GoodExit(d, s)
    BY <1>1, <2>1, <2>2
  <2> QED
    BY <2>3, <2>4 DEF s
<1>3. GoodInit(d, <<"printk", "DEBUG_MSG">>)
  <2> DEFINE s == <<"printk", "DEBUG_MSG">>
  <2>1. IsSeq(s)
    BY TupleIsSeq
  <2>2. /\ \A x : Has(s, x) <=> x \in {"printk", "DEBUG_MSG"}
        /\ NoneOf(s, Ends)
        /\ Requested(s, Needs(d))
        /\ Once(s, "add_timer")
    BY Facts2
  <2> HIDE DEF s
  <2>3. GoodInit(d, s)
    BY <1>1, <2>1, <2>2
  <2> QED
    BY <2>3 DEF s
<1> HIDE DEF GoodInit, GoodExit
<1> QED
  BY <1>1, <1>2, <1>3 DEF FirstInitCalls, ch1_mod1_init, mod1_init,
     hello_init, hello2_init, debug_init

-----------------------------------------------------------------------------
(* The families of drivers.  A call that is being made is the first one.   *)
LEMMA AtCall ==
    ASSUME LoadInv, NEW c, At(c)
    PROVE  /\ ~bug /\ Has(calls, c) /\ stage \in {"init", "exit"}
           /\ c \in Starts => stage = "init"
           /\ stage = "init" /\ c \in Needs(driver) => gpio
<1>1. ~bug /\ calls # <<>> /\ stage \in {"init", "exit"}
  BY DEF LoadInv, Types, At
<1>2. 1 \in 1..Len(calls) /\ calls[1] = c
  <2>1. PICK S : calls \in Seq(S)
    BY DEF LoadInv, Types, IsSeq
  <2> QED
    BY <1>1, <2>1, HeadTailProperties, EmptySeq DEF At
<1>3. Has(calls, c)
  BY <1>2 DEF Has
<1>4. stage = "exit" => c \notin Starts
  BY <1>2 DEF LoadInv, Down, ExitFits, NoneOf
<1>5. stage = "init" => gpio \/ Requested(calls, Needs(driver))
  BY DEF LoadInv, Up, InitFits
<1>6. Requested(calls, Needs(driver)) => c \notin Needs(driver)
  BY <1>2 DEF Requested
<1> QED
  BY <1>1, <1>3, <1>4, <1>5, <1>6

LEMMA DeferredStep ==
    ASSUME LoadInv, Deferred(DeferredNext)
    PROVE  LoadInv' /\ (bug' # bug => driver = "ch8" /\ detected)
<1>1. driver \in DeferredDrivers /\ DeferredNext /\ UNCHANGED <<opened, ready>>
  BY DEF Deferred, sensors, device, chars
<1>2. bug \in BOOLEAN /\ \A u \in User : opened[u] # "no" => driver = "simple_sensor"
  BY DEF LoadInv, Types, Owned
<1>3. UNCHANGED deferred => UNCHANGED deferring
  BY DEF deferred, deferring, kthread, marks
<1>4. CASE CommonCalls /\ UNCHANGED deferred
  BY <1>1, <1>3, <1>4, CommonNext
<1>5. CASE AddTimer
  BY <1>1, <1>5, AddTimerNext
<1>6. CASE DelTimer
  BY <1>1, <1>6, DelTimerNext DEF DelTimer
<1>7. CASE TaskletKill
  BY <1>1, <1>7, TaskletKillNext DEF TaskletKill
<1>8. CASE FlushWorkqueue
  BY <1>1, <1>8, FlushNext DEF FlushWorkqueue
<1>9. CASE Kthread
  BY <1>1, <1>9, ThreadNext DEF Kthread
<1>10. CASE Unload(DeferredExitCalls[driver]) /\ UNCHANGED deferred
  <2>1. GoodExit(driver, DeferredExitCalls[driver])
    BY <1>1, DeferredGood
  <2> QED
    BY <1>1, <1>3, <1>10, <2>1, UnloadNext DEF GoodExit
<1>11. CASE Edge /\ UNCHANGED deferred
  <2>1. UNCHANGED <<code, line, isr, bug>>
    BY <1>11 DEF Edge
  <2> QED
    BY <1>1, <1>2, <1>3, <1>11, <2>1, QuietStep
<1>12. CASE IsrEnter /\ UNCHANGED deferred
  <2>1. line /\ UNCHANGED <<code, line, bug>>
    BY <1>12 DEF IsrEnter
  <2> QED
    BY <1>1, <1>3, <1>12, <2>1, HandlerRuns
<1>13. CASE ch8_isr
  BY <1>1, <1>13, Ch8Next DEF ch8_isr
<1>14. CASE simple_tasklet_isr
  BY <1>1, <1>14, TaskletIsrNext DEF simple_tasklet_isr
<1>15. CASE simple_workqueue_isr \/ my_work_func
  BY <1>1, <1>15, WorkNext DEF simple_workqueue_isr, my_work_func, lab
<1>16. CASE TimerStep
  <2>1. bug' = bug
    BY <1>16 DEF TimerStep, Expire, TimerFunc, ModTimer, lab
  <2> QED
    BY <1>1, <1>16, <2>1, TimerStepNext
<1>17. CASE simple_tasklet_func
  BY <1>1, <1>17, TaskletFuncNext DEF simple_tasklet_func, lab
<1>18. CASE simple_kthread_func
  BY <1>1, <1>18, ThreadNext DEF simple_kthread_func, lab
<1> QED
  BY <1>1, <1>4, <1>5, <1>6, <1>7, <1>8, <1>9, <1>10, <1>11, <1>12, <1>13,
     <1>14, <1>15, <1>16, <1>17, <1>18 DEF DeferredNext, DeferredLoad, DeferredIsr

LEMMA SensorStep ==
    ASSUME LoadInv, Sensor(SensorNext)
    PROVE  /\ LoadInv'
           /\ bug' # bug => driver = "simple_sensor" /\ stage # "live"
<1>1. driver \in SensorDrivers /\ SensorNext /\ UNCHANGED ready
  BY DEF Sensor, chars
<1>2. bug \in BOOLEAN /\ \A u \in User : opened[u] # "no" => driver = "simple_sensor"
  BY DEF LoadInv, Types, Owned
<1>3. UNCHANGED deferring
  BY DEF Sensor, deferred, deferring, kthread, marks
<1>4. UNCHANGED sensors \/ UNCHANGED device => UNCHANGED opened
  BY DEF sensors, device
<1>5. CASE CommonCalls /\ UNCHANGED opened
  BY <1>1, <1>3, <1>5, CommonNext
<1>6. ASSUME NEW c \in {"disable_irq", "wait_irq", "cdev_add", "cdev_del",
                        "proc_create", "proc_remove", "rundown", "list_del",
                        "trigger", "valid"},
             Calls(c), UNCHANGED <<pins, interrupt, bug, opened>>
      PROVE  LoadInv' /\ bug' = bug
  <2>1. UNCHANGED <<line, isr>> /\ c \notin Awaited
    BY <1>6 DEF interrupt, Awaited
  <2> QED
    BY <1>1, <1>3, <1>6, <2>1, QuietCall
<1>7. CASE DisableIrq \/ CdevCalls \/ ProcCalls \/ Trigger
  BY <1>4, <1>6, <1>7 DEF DisableIrq, CdevCalls, ProcCalls, Trigger
<1>8. CASE DeleteList
  <2>1. UNCHANGED <<pins, interrupt, bug, opened>>
    BY <1>4, <1>8 DEF DeleteList
  <2>2. CASE Calls("list_del")
    BY <1>6, <2>1, <2>2
  <2>3. CASE During("list_del")
    <3>1. UNCHANGED <<code, line, isr>>
      BY <2>1, <2>3 DEF During, code, interrupt
    <3> QED
      BY <1>1, <1>2, <1>3, <2>1, <3>1, QuietStep
  <2> QED
    BY <1>8, <2>2, <2>3 DEF DeleteList
<1>9. CASE Unload(SensorExitCalls[driver]) /\ UNCHANGED sensors
  <2>1. GoodExit(driver, SensorExitCalls[driver])
    BY <1>1, SensorGood
  <2> QED
    BY <1>1, <1>3, <1>4, <1>9, <2>1, UnloadNext DEF GoodExit
<1>10. CASE SensorEdge \/ Echo
  <2>1. UNCHANGED <<code, line, isr, bug, opened>>
    BY <1>4, <1>10 DEF SensorEdge, Edge, Echo
  <2> QED
    BY <1>1, <1>2, <1>3, <2>1, QuietStep
<1>11. CASE SensorIsr
  <2>1. /\ UNCHANGED <<code, line, bug, opened>>
        /\ isr' => line \/ isr
    BY <1>4, <1>11 DEF SensorIsr, IsrEnter, IsrLeave, switch_irq_isr,
       simple_sensor_isr, sensor_proc_isr, simple_ultra_isr, device, sensors
  <2> QED
    BY <1>1, <1>3, <2>1, HandlerRuns
<1>12. ASSUME NEW u \in User, UserStep(u)
       PROVE  /\ LoadInv'
              /\ bug' # bug => driver = "simple_sensor" /\ stage # "live"
  <2>1. CASE ReleaseGone(u)
    <3>1. /\ stage = "gone" /\ opened[u] # "no" /\ bug' = TRUE
          /\ UNCHANGED <<code, line, isr, opened>>
      BY <1>4, <2>1 DEF ReleaseGone, interrupt
    <3> QED
      BY <1>1, <1>2, <1>3, <3>1, QuietStep
  <2>2. CASE simple_sensor_open(u) \/ GetStart(u) \/ simple_sensor_release(u)
                \/ Released(u)
    <3>1. driver = "simple_sensor" /\ UNCHANGED <<code, line, isr, bug>>
      BY <2>2 DEF simple_sensor_open, GetStart, simple_sensor_release,
                  Released, lab, interrupt
    <3> QED
      BY <1>1, <1>2, <1>3, <3>1, QuietStep
  <2>3. CASE sensor_proc_open(u) \/ sensor_proc_show(u)
    <3>1. UNCHANGED lab /\ UNCHANGED device
      BY <2>3 DEF sensor_proc_open, sensor_proc_show, ListEmpty, LockList,
         Sprintf, SeqPrintf, UnlockList, ShowEmpty, ShowReturns, Shows
    <3>2. UNCHANGED <<code, line, isr, bug, opened>>
      BY <1>4, <3>1 DEF lab, interrupt
    <3> QED
      BY <1>1, <1>2, <1>3, <3>2, QuietStep
  <2> QED
    BY <1>12, <2>1, <2>2, <2>3 DEF UserStep
<1> QED
  BY <1>1, <1>5, <1>7, <1>8, <1>9, <1>10, <1>11, <1>12
     DEF SensorNext, SensorCalls

(* A level of the loop of simple_speaker.                                  *)
LEMMA PlayNext ==
    ASSUME LoadInv, During("play"), SetPin(~level),
           UNCHANGED <<interrupt, bug, deferring, opened, ready>>
    PROVE  LoadInv'
<1>1. UNCHANGED <<driver, stage, calls, gpio, line, isr, bug, timer,
                  timer_func, sched, tasklet, queued, working, thread,
                  detected, slipped, opened, ready>>
  BY DEF During, SetPin, interrupt, deferring, timers, tasklets, works
<1>2. stage = "init" /\ Has(calls, "play") /\ gpio
  BY AtCall DEF During, Starts, Needs
<1>3. Up /\ badpin' = FALSE
  BY <1>2 DEF LoadInv, Up, SetPin
<1>4. driver \in LevelDrivers
  BY <1>2 DEF LoadInv, Owned, Fits
<1>5. Types'
  BY <1>1, <1>3 DEF LoadInv, Types
<1>6. Owned' /\ Tracks'
  BY <1>1, <1>3, <1>4 DEF LoadInv, Owned, Tracks
<1>7. Up'
  BY <1>1, <1>3 DEF Up, InitFits
<1> QED
  BY <1>1, <1>2, <1>5, <1>6, <1>7 DEF LoadInv

LEMMA PinStep ==
    ASSUME LoadInv, PinNext, UNCHANGED <<deferred, sensors, chars>>
    PROVE  LoadInv' /\ bug' = bug
<1>1. driver \in PinDrivers /\ UNCHANGED <<deferring, opened, ready>>
  BY DEF PinNext, deferred, deferring, kthread, marks, sensors, device, chars
<1>2. bug \in BOOLEAN /\ \A u \in User : opened[u] # "no" => driver = "simple_sensor"
  BY DEF LoadInv, Types, Owned
<1>3. CASE CommonCalls
  BY <1>1, <1>3, CommonNext
<1>4. CASE Unload(PinExitCalls[driver])
  <2>1. GoodExit(driver, PinExitCalls[driver])
    BY <1>1, PinGood
  <2> QED
    BY <1>1, <1>4, <2>1, UnloadNext DEF GoodExit
<1>5. ASSUME NEW c \in {"poll", "play", "forward", "backward", "moveDegree"},
             Calls(c) \/ During(c), UNCHANGED <<pins, interrupt, bug>>
      PROVE  LoadInv'
  <2>1. UNCHANGED <<line, isr>> /\ c \notin Awaited
    BY <1>5 DEF interrupt, Awaited
  <2>2. During(c) => UNCHANGED code
    BY <1>5 DEF During, code
  <2> QED
    BY <1>1, <1>2, <1>5, <2>1, <2>2, QuietCall, QuietStep
<1>6. CASE Poll
  BY <1>5, <1>6 DEF Poll
<1>7. CASE play
  <2>1. UNCHANGED <<interrupt, bug>>
    BY <1>7 DEF play
  <2>2. \/ Calls("play") /\ UNCHANGED pins
        \/ During("play") /\ SetPin(~level)
    BY <1>7 DEF play
  <2> QED
    BY <1>1, <1>5, <2>1, <2>2, PlayNext
<1>8. ASSUME NEW c \in {"forward", "backward", "moveDegree"}, NEW n,
             Loop(c, n), half < n => UNCHANGED pins
      PROVE  LoadInv' /\ bug' = bug
  BY <1>5, <1>8 DEF Loop
<1>9. CASE simple_forward
  <2>1. /\ Loop("forward", 8 * ONEROUND)
        /\ half < 8 * ONEROUND => UNCHANGED pins
    BY <1>9 DEF simple_forward, setstep
  <2> QED
    BY <2>1, <1>8
<1>10. CASE simple_backward
  <2>1. /\ Loop("backward", 8 * ONEROUND)
        /\ half < 8 * ONEROUND => UNCHANGED pins
    BY <1>10 DEF simple_backward, setstep
  <2> QED
    BY <2>1, <1>8
<1>11. CASE moveDegree
  <2>1. PICK n : Loop("moveDegree", n) /\ (half < n => UNCHANGED pins)
    BY <1>11 DEF moveDegree, setstep
  <2> QED
    BY <2>1, <1>8
<1> QED
  BY <1>3, <1>4, <1>6, <1>7, <1>9, <1>10, <1>11 DEF PinNext, PinCalls, Poll, play

(* What the calls of a driver follow comes and goes.                       *)
LEMMA DataNext ==
    ASSUME LoadInv, NEW c \in {"data", "kfree"}, Calls(c),
           UNCHANGED <<pins, interrupt, bug, deferring, opened>>,
           c = "data" => "data" \in ready'
    PROVE  LoadInv'
<1>1. UNCHANGED <<gpio, level, badpin, line, isr, bug, timer, timer_func,
                  sched, tasklet, queued, working, thread, detected, slipped,
                  opened>>
  BY DEF pins, interrupt, deferring, timers, tasklets, works
<1>2. Types'
  BY <1>1, AfterCall DEF LoadInv, Types
<1>3. Owned' /\ Tracks'
  BY <1>1, AfterCall DEF LoadInv, Owned, Tracks
<1>4. \A x : Has(calls, x) => x = c \/ Has(calls', x)
  BY CallMade DEF LoadInv, Types
<1>5. \A x : Has(calls', x) => Has(calls, x)
  BY CallMade DEF LoadInv, Types
<1>6. ASSUME stage' \in {"init", "live"}
      PROVE  Up'
  <2>1. stage = "init" /\ driver' = driver
    BY <1>6, AfterCall
  <2>2. /\ Up /\ c = "data" /\ NoneOf(calls', Ends)
        /\ Once(calls', "add_timer")
        /\ gpio \/ Requested(calls', Needs(driver))
    BY <2>1, InitAfter DEF Ends
  <2>3. InitFits(driver, calls, gpio, "data" \in ready)'
    BY <1>1, <1>4, <2>1, <2>2 DEF Up, InitFits
  <2> QED
    BY <1>1, <1>5, <2>1, <2>2, <2>3 DEF Up
<1>7. ASSUME stage' \in {"exit", "gone"}
      PROVE  Down'
  BY <1>1, <1>4, <1>5, <1>7, AfterCall, ExitAfter DEF Down, Starts
<1> QED
  BY <1>2, <1>3, <1>6, <1>7 DEF LoadInv

LEMMA KuSnAIsrNext ==
    ASSUME LoadInv, driver = "ku_SnA", ku_SnA_isr, UNCHANGED <<deferring, opened>>
    PROVE  LoadInv' /\ bug' = bug
<1>1. /\ isr
      /\ UNCHANGED <<driver, stage, calls, gpio, line, bug, timer, timer_func,
                     sched, tasklet, queued, working, thread, detected,
                     slipped, opened, ready>>
  BY DEF ku_SnA_isr, SetPin, pins, deferring, timers, tasklets, works, chars
<1>2. gpio \in BOOLEAN /\ badpin \in BOOLEAN
  BY DEF LoadInv, Types
<1>3. badpin' = badpin \/ (badpin' \in BOOLEAN /\ (badpin' <=> badpin \/ ~gpio))
  BY <1>2 DEF ku_SnA_isr, SetPin, pins
<1>4. Types'
  BY <1>1, <1>2, <1>3 DEF LoadInv, Types
<1>5. Owned' /\ Tracks'
  BY <1>1 DEF LoadInv, Owned, Tracks, GpioDrivers, IrqDrivers, LevelDrivers
<1>6. ASSUME stage' \in {"init", "live"}
      PROVE  Up'
  <2>1. Up /\ gpio
    BY <1>1, <1>6 DEF LoadInv, Up
  <2>2. ~badpin'
    BY <1>3, <2>1 DEF Up
  <2>3. InitFits(driver, calls, gpio, "data" \in ready)'
    BY <1>1, <2>1 DEF Up, InitFits
  <2> QED
    BY <1>1, <2>1, <2>2, <2>3 DEF Up
<1>7. ASSUME stage' \in {"exit", "gone"}
      PROVE  Down'
  <2>1. Down /\ Has(calls, "synchronize") /\ Then(calls, "synchronize", "set_low")
    BY <1>1, <1>7 DEF LoadInv, Down, ExitFits
  <2>2. Has(calls, "set_low")
    BY <2>1, ThenHas
  <2> QED
    BY <1>1, <2>1, <2>2 DEF Down
<1> QED
  BY <1>1, <1>4, <1>5, <1>6, <1>7 DEF LoadInv

LEMMA CharStep ==
    ASSUME LoadInv, CharNext, UNCHANGED <<deferred, sensors>>
    PROVE  LoadInv' /\ (bug' # bug => stage # "live")
<1>1. driver \in CharDrivers /\ UNCHANGED <<deferring, opened>>
  BY DEF CharNext, deferred, deferring, kthread, marks, sensors, device
<1>2. bug \in BOOLEAN /\ \A u \in User : opened[u] # "no" => driver = "simple_sensor"
  BY DEF LoadInv, Types, Owned
<1>3. UNCHANGED chars => UNCHANGED ready
  BY DEF chars
<1>4. CASE CommonCalls /\ UNCHANGED chars
  BY <1>1, <1>3, <1>4, CommonNext
<1>5. ASSUME \/ Calls("cdev_add") /\ ready' = ready \cup {"cdev"}
             \/ Calls("cdev_del") /\ ready' = ready \ {"cdev"}
             \/ Calls("data") /\ ready' = ready \cup {"data"}
             \/ Calls("kfree") /\ ready' = ready \ {"data"},
             UNCHANGED <<pins, interrupt, bug>>
      PROVE  LoadInv' /\ bug' = bug
  <2>1. CASE Calls("data") /\ ready' = ready \cup {"data"}
    BY <1>1, <1>5, <2>1, DataNext
  <2>2. CASE Calls("kfree")
    BY <1>1, <1>5, <2>2, DataNext
  <2>3. ASSUME NEW c \in {"cdev_add", "cdev_del"}, Calls(c),
               "data" \in ready' <=> "data" \in ready
        PROVE  LoadInv'
    <3>1. UNCHANGED <<line, isr>> /\ c \notin Awaited
      BY <1>5 DEF interrupt, Awaited
    <3> QED
      BY <1>1, <1>5, <2>3, <3>1, QuietCall
  <2> QED
    BY <1>5, <2>1, <2>2, <2>3
<1>6. CASE CharIsr
  <2>1. CASE IsrEnter /\ UNCHANGED chars
    <3>1. line /\ UNCHANGED <<code, line, bug>>
      BY <2>1 DEF IsrEnter
    <3> QED
      BY <1>1, <1>3, <2>1, <3>1, HandlerRuns
  <2>2. CASE ku_SnA_isr
    BY <1>1, <1>6, <2>2, KuSnAIsrNext DEF CharIsr
  <2> QED
    BY <1>6, <2>1, <2>2 DEF CharIsr
<1>7. CASE Edge /\ UNCHANGED chars
  <2>1. UNCHANGED <<code, line, isr, bug>>
    BY <1>7 DEF Edge
  <2> QED
    BY <1>1, <1>2, <1>3, <1>7, <2>1, QuietStep
<1>8. CASE Unload(CharExitCalls[driver]) /\ UNCHANGED chars
  <2>1. GoodExit(driver, CharExitCalls[driver])
    BY <1>1, CharGood
  <2> QED
    BY <1>1, <1>3, <1>8, <2>1, UnloadNext DEF GoodExit
<1>9. ASSUME NEW u \in User, AppStep(u)
      PROVE  LoadInv' /\ (bug' # bug => stage # "live")
  <2>1. UNCHANGED <<code, line, isr, ready>>
    BY <1>9 DEF AppStep, Open, Fault, Enter, Leave, CallFails, Close, Goes,
       interrupt
  <2>2. bug' = bug \/ (bug' = TRUE /\ (stage = "gone" \/ Missing))
    BY <1>9 DEF AppStep, Open, Fault, Enter, Leave, CallFails, Close
  <2>3. Missing => stage # "live"
    <3>1. ASSUME stage = "live"
          PROVE  driver \in Pointed => "data" \in ready
      <4>1. Up /\ calls = <<>>
        BY <3>1 DEF LoadInv, Types
      <4>2. ~Has(calls, "data")
        BY <4>1, EmptySeq DEF Has
      <4> QED
        BY <4>1, <4>2 DEF Up, InitFits
    <3> QED
      BY <3>1 DEF Missing
  <2>4. bug' \in BOOLEAN
    BY <1>2, <2>2
  <2> QED
    BY <1>1, <1>2, <2>1, <2>2, <2>3, <2>4, QuietStep
<1> QED
  BY <1>4, <1>5, <1>6, <1>7, <1>8, <1>9 DEF CharNext, CharCalls

LEMMA SpiStep ==
    ASSUME LoadInv, SpiNext, UNCHANGED <<deferred, sensors, chars>>
    PROVE  LoadInv' /\ bug' = bug
<1>1. UNCHANGED <<deferring, opened, ready>>
  BY DEF deferred, deferring, kthread, marks, sensors, device, chars
<1>2. bug \in BOOLEAN /\ \A u \in User : opened[u] # "no" => driver = "simple_sensor"
  BY DEF LoadInv, Types, Owned
<1>3. CASE Probe
  <2>1. Calls("probe") /\ UNCHANGED <<pins, line, isr, bug>>
    BY <1>3 DEF Probe, interrupt
  <2> QED
    BY <1>1, <2>1, QuietCall DEF Awaited
<1>4. CASE OpenSpi \/ setup_spi \/ transfer_spi \/ PrintLight
  <2>1. UNCHANGED <<code, line, isr, bug>>
    BY <1>4 DEF OpenSpi, setup_spi, transfer_spi, PrintLight, Main, lab,
       interrupt
  <2> QED
    BY <1>1, <1>2, <2>1, QuietStep
<1> QED
  BY <1>3, <1>4 DEF SpiNext

LEMMA InsmodNext ==
    ASSUME LoadInv, InsmodMod1, UNCHANGED <<deferring, opened, ready>>
    PROVE  LoadInv'
<1>1. /\ driver \in {"ch1", "symbol"} /\ stage' = "init"
      /\ calls' = FirstInitCalls[driver]
      /\ UNCHANGED <<driver, gpio, level, badpin, line, isr, bug, timer,
                     timer_func, sched, tasklet, queued, working, thread,
                     detected, slipped, opened, ready>>
  BY DEF InsmodMod1, pins, interrupt, deferring, timers, tasklets, works
<1>2. /\ IsSeq(calls') /\ Fits(driver, calls')
      /\ InitFits(driver, calls', FALSE, FALSE)
  BY <1>1, FirstGood DEF GoodInit, FirstDrivers, FirstInitCalls
<1>3. InitFits(driver, calls, gpio, "data" \in ready)'
  BY <1>1, <1>2 DEF InitFits
<1>4. Types'
  BY <1>1, <1>2 DEF LoadInv, Types
<1>5. Owned' /\ Tracks'
  BY <1>1, <1>2 DEF LoadInv, Owned, Tracks
<1>6. /\ ~badpin /\ ~line /\ ~isr
      /\ ~timer /\ timer_func = "idle"
  BY <1>1 DEF LoadInv, Owned, GpioDrivers, IrqDrivers, TimerDrivers
<1>7. Up'
  BY <1>1, <1>3, <1>6 DEF Up
<1> QED
  BY <1>1, <1>4, <1>5, <1>7 DEF LoadInv

LEMMA FirstStep ==
    ASSUME LoadInv, FirstNext, UNCHANGED <<deferred, sensors, chars>>
    PROVE  LoadInv' /\ bug' = bug
<1>1. driver \in FirstDrivers /\ UNCHANGED <<deferring, opened, ready>>
  BY DEF FirstNext, deferred, deferring, kthread, marks, sensors, device, chars
<1>2. bug \in BOOLEAN /\ \A u \in User : opened[u] # "no" => driver = "simple_sensor"
  BY DEF LoadInv, Types, Owned
<1>3. CASE FirstCalls
  <2>1. UNCHANGED <<pins, line, isr, bug>>
    BY <1>3 DEF FirstCalls, interrupt
  <2>2. PICK c \in {"printk", "DEBUG_MSG"} : Calls(c)
    BY <1>3 DEF FirstCalls
  <2>3. c \notin Awaited
    BY DEF Awaited
  <2> QED
    BY <1>1, <2>1, <2>2, <2>3, QuietCall
<1>4. CASE RmmodMod1
  <2>1. GoodExit(driver, <<"printk">>)
    BY <1>1, FirstGood
  <2> QED
    BY <1>1, <1>4, <2>1, UnloadNext DEF GoodExit, RmmodMod1
<1>5. CASE InsmodMod1
  BY <1>1, <1>5, InsmodNext DEF InsmodMod1
<1>6. CASE UNCHANGED lab
  <2>1. UNCHANGED <<code, line, isr, bug>>
    BY <1>6 DEF lab, interrupt
  <2> QED
    BY <1>1, <1>2, <2>1, QuietStep
<1>7. InsmodMod2 \/ RmmodMod2 \/ ch1_mod2_init \/ mod2_init => UNCHANGED lab
  BY DEF InsmodMod2, RmmodMod2, ch1_mod2_init, mod2_init, PrintId, set_my_id,
         Mod2
<1> QED
  BY <1>3, <1>4, <1>5, <1>6, <1>7 DEF FirstNext

-----------------------------------------------------------------------------
LEMMA LoadInit ==
    ASSUME Init
    PROVE  LoadInv
<1>1. GoodInit(driver, calls)
  BY DeferredGood, SensorGood, PinGood, CharGood, SpiGood, FirstGood DEF Init
<1>2. /\ stage = "init" /\ ~gpio /\ ~level /\ ~badpin /\ ~line /\ ~isr
      /\ gpio = FALSE /\ badpin = FALSE /\ bug = FALSE
      /\ timer = FALSE /\ timer_func = "idle" /\ sched = FALSE /\ tasklet = {}
      /\ queued = 0 /\ working = FALSE /\ thread = "new"
      /\ slipped = FALSE /\ \A u \in User : opened[u] = "no"
  BY DEF Init, LabInit, DeferredInit, SensorInit
<1>3. IsSeq(calls) /\ Fits(driver, calls) /\ InitFits(driver, calls, FALSE, FALSE)
  BY <1>1 DEF GoodInit
<1>4. InitFits(driver, calls, gpio, "data" \in ready)
  BY <1>3 DEF InitFits
<1> QED
  BY <1>2, <1>3, <1>4 DEF LoadInv, Types, Owned, Tracks, Up

(* Any step keeps the invariant, and faults only as FaultsOnlySo says.     *)
LEMMA LoadNext ==
    ASSUME LoadInv, [Next]_vars
    PROVE  /\ LoadInv'
           /\ bug' # bug =>
                 \/ driver = "ch8" /\ detected
                 \/ driver \in CharDrivers \cup {"simple_sensor"} /\ stage # "live"
<1>1. CASE Deferred(DeferredNext)
  BY <1>1, DeferredStep
<1>2. CASE Sensor(SensorNext)
  BY <1>2, SensorStep
<1>3. CASE PinNext /\ UNCHANGED <<deferred, sensors, chars, spidev, first>>
  BY <1>3, PinStep
<1>4. CASE CharNext /\ UNCHANGED <<deferred, sensors, pinlabs, spidev, first>>
  BY <1>4, CharStep DEF CharNext
<1>5. CASE SpiNext /\ UNCHANGED <<deferred, sensors, pinlabs, chars, first>>
  BY <1>5, SpiStep
<1>6. CASE FirstNext /\ UNCHANGED <<deferred, sensors, pinlabs, chars, spidev>>
  BY <1>6, FirstStep
<1>7. CASE UNCHANGED vars
  <2>1. UNCHANGED <<code, line, isr, bug, deferring, opened, ready>>
    BY <1>7 DEF vars, lab, interrupt, deferred, deferring, kthread, marks,
       sensors, device, chars
  <2>2. bug \in BOOLEAN /\ \A u \in User : opened[u] # "no" => driver = "simple_sensor"
    BY DEF LoadInv, Types, Owned
  <2> QED
    BY <2>1, <2>2, QuietStep
<1> QED
  BY <1>1, <1>2, <1>3, <1>4, <1>5, <1>6, <1>7 DEF Next

(* The inductive invariant: before exit begins Up, from then on Down.      *)
THEOREM LoadInvariance == Spec => []LoadInv
<1>1. Init => LoadInv
  BY LoadInit
<1>2. LoadInv /\ [Next]_vars => LoadInv'
  BY LoadNext
<1> QED
  BY <1>1, <1>2, PTL DEF Spec

(* Of a module that is gone nothing is left to run, but in the windows     *)
(* that slipped marks; its pins are given back and what it drives is low.  *)
THEOREM NothingIsLeft == Spec => []NothingLeft
<1>1. LoadInv => NothingLeft
  <2>1. SUFFICES ASSUME LoadInv, stage = "gone"
                 PROVE  /\ Quiet \/ slipped
                        /\ gpio <=> driver = "simple_ultra"
                        /\ level => driver = "ch7"
    BY DEF NothingLeft
  <2>2. Down /\ calls = <<>>
    BY <2>1 DEF LoadInv, Types
  <2>3. \A c : ~Has(calls, c)
    BY <2>2, EmptySeq DEF Has
  <2> QED
    BY <2>2, <2>3 DEF Down, Quiet
<1> QED
  BY <1>1, LoadInvariance, PTL

(* And of a driver that has neither a timer nor a tasklet nothing is left. *)
THEOREM OthersAreQuiet ==
    Spec => [](stage = "gone" /\ driver \notin TimerDrivers \cup {"simple_tasklet"}
                   => Quiet)
<1>1. LoadInv /\ NothingLeft =>
        (stage = "gone" /\ driver \notin TimerDrivers \cup {"simple_tasklet"}
             => Quiet)
  BY DEF LoadInv, Owned, NothingLeft
<1> QED
  BY <1>1, LoadInvariance, NothingIsLeft, PTL

(* Until exit begins no driver uses a pin that it has not requested.       *)
THEOREM PinsAreRequested == Spec => []PinsRequested
<1>1. LoadInv => PinsRequested
  BY DEF LoadInv, Types, Up, PinsRequested
<1> QED
  BY <1>1, LoadInvariance, PTL

(* The kernel faults only when ch8 starts a timer that runs, or when a     *)
(* call through a device meets init half done or exit begun.               *)
THEOREM FaultsAreKnown == Spec => FaultsOnlySo
<1>1. LoadInv /\ [Next]_vars =>
        [bug' # bug =>
            \/ driver = "ch8" /\ detected
            \/ driver \in CharDrivers \cup {"simple_sensor"} /\ stage # "live"]_vars
  BY LoadNext
<1> QED
  BY <1>1, LoadInvariance, PTL DEF Spec, FaultsOnlySo

-----------------------------------------------------------------------------
(* Short sequences, one longer.                                            *)
LEMMA AppendToShort ==
    ASSUME NEW l, NEW m, NEW n
    PROVE  /\ Append(<<>>, l) = <<l>>
           /\ Append(<<l>>, m) = <<l, m>>
           /\ Append(<<l, m>>, n) = <<l, m, n>>
<1> DEFINE S == {l, m, n}
<1>1. l \in S /\ m \in S /\ n \in S
  OBVIOUS
<1> HIDE DEF S
<1>2. ASSUME NEW s \in Seq(S), NEW t \in Seq(S), NEW x \in S,
             Len(t) = Len(s) + 1, t[Len(t)] = x,
             \A i \in 1..Len(s) : t[i] = s[i]
      PROVE  Append(s, x) = t
  <2>1. /\ Append(s, x) \in Seq(S) /\ Len(Append(s, x)) = Len(s) + 1
        /\ Append(s, x)[Len(s) + 1] = x /\ Len(s) \in Nat
        /\ \A i \in 1..Len(s) : Append(s, x)[i] = s[i]
    BY AppendProperties
  <2>2. \A i \in 1..(Len(s) + 1) : i \in 1..Len(s) \/ i = Len(s) + 1
    BY <2>1
  <2>3. \A i \in 1..Len(Append(s, x)) : Append(s, x)[i] = t[i]
    BY <1>2, <2>1, <2>2
  <2> QED
    BY <1>2, <2>1, <2>3, SeqEqual
<1>3. Append(<<>>, l) = <<l>>
  <2>1. <<>> \in Seq(S) /\ <<l>> \in Seq(S)
    BY <1>1
  <2>2. Len(<<l>>) = Len(<<>>) + 1 /\ <<l>>[Len(<<l>>)] = l /\ Len(<<>>) = 0
    BY EmptySeq
  <2> QED
    BY <1>1, <1>2, <2>1, <2>2
<1>4. Append(<<l>>, m) = <<l, m>>
  <2>1. <<l>> \in Seq(S) /\ <<l, m>> \in Seq(S)
    BY <1>1
  <2>2. /\ Len(<<l, m>>) = Len(<<l>>) + 1 /\ <<l, m>>[Len(<<l, m>>)] = m
        /\ \A i \in 1..Len(<<l>>) : <<l, m>>[i] = <<l>>[i]
    OBVIOUS
  <2> QED
    BY <1>1, <1>2, <2>1, <2>2
<1>5. Append(<<l, m>>, n) = <<l, m, n>>
  <2>1. <<l, m>> \in Seq(S) /\ <<l, m, n>> \in Seq(S)
    BY <1>1
  <2>2. /\ Len(<<l, m, n>>) = Len(<<l, m>>) + 1
        /\ <<l, m, n>>[Len(<<l, m, n>>)] = n
        /\ \A i \in 1..Len(<<l, m>>) : <<l, m, n>>[i] = <<l, m>>[i]
    OBVIOUS
  <2> QED
    BY <1>1, <1>2, <2>1, <2>2
<1> QED
  BY <1>3, <1>4, <1>5

-----------------------------------------------------------------------------
(* simple_spi: what the converter has answered, as long as every ioctl has *)
(* succeeded, is its sample under four bits that are masked out.           *)
SpiInv ==
    /\ rbuf[1] \in 0..255 /\ rbuf[2] \in 0..255 /\ sample \in 0..4095
    /\ spi = "print" /\ obeyed => Twelve = sample
    /\ spi = "done" =>
          light_value < 4096 /\ (obeyed => light_value = sample)

LEMMA SpiInvInit ==
    ASSUME Init
    PROVE  SpiInv
<1>1. spi = "open"
  BY DEF Init, SpiInit
<1>2. CASE driver = "spidev"
  <2>1. sample \in Sample
    BY <1>2 DEF Init, SpiInit
  <2>2. rbuf[1] \in Byte /\ rbuf[2] \in Byte
    BY <1>2 DEF Init, SpiInit
  <2>3. \A b \in Byte : b \in 0..255
    BY SpiAssumption
  <2>4. \A s \in Sample : s \in 0..4095
    BY SpiAssumption
  <2> QED
    BY <1>1, <2>1, <2>2, <2>3, <2>4 DEF SpiInv
<1>3. CASE driver # "spidev"
  BY <1>1, <1>3 DEF Init, SpiInit, SpiInv
<1> QED
  BY <1>2, <1>3

LEMMA SpiInvNext ==
    ASSUME SpiInv, [Next]_vars
    PROVE  SpiInv'
<1>1. CASE UNCHANGED spidev
  BY <1>1 DEF SpiInv, Twelve, spidev
<1>2. CASE OpenSpi \/ setup_spi
  <2>1. /\ rbuf' = rbuf /\ sample' = sample
        /\ spi' \notin {"print", "done"}
    BY <1>2 DEF OpenSpi, setup_spi, Main
  <2> QED
    BY <2>1 DEF SpiInv
<1>3. CASE transfer_spi
  <2>1. sample' = sample /\ spi' = "print"
    BY <1>3 DEF transfer_spi, Main
  <2>2. CASE obeyed' = FALSE /\ UNCHANGED rbuf
    BY <2>1, <2>2 DEF SpiInv
  <2>3. CASE ~(obeyed' = FALSE /\ UNCHANGED rbuf)
    <3>1. PICK b \in Byte, c \in Byte :
            rbuf' = IF obeyed
                    THEN <<16 * (b \div 16) + sample \div 256, sample % 256>>
                    ELSE <<b, c>>
      BY <1>3, <2>3 DEF transfer_spi
    <3>5. obeyed' = obeyed
      BY <1>3, <2>3 DEF transfer_spi
    <3>2. b \in 0..255 /\ c \in 0..255
      BY SpiAssumption
    <3>3. CASE obeyed
      <4>1. /\ rbuf'[1] = 16 * (b \div 16) + sample \div 256
            /\ rbuf'[2] = sample % 256
        BY <3>1, <3>3
      <4>2. sample \in 0..4095
        BY DEF SpiInv
      <4>3. PICK p \in 0..15 : p = b \div 16
        BY <3>2
      <4>4. PICK q \in 0..15 : q = sample \div 256
        BY <4>2
      <4>5. \A n \in Nat : n = 256 * (n \div 256) + (n % 256)
        BY Z3
      <4>6. sample % 256 \in 0..255 /\ sample = q * 256 + (sample % 256)
        BY <4>2, <4>4, <4>5
      <4>7. rbuf'[1] = 16 * p + q
        BY <4>1, <4>3, <4>4
      <4>8. rbuf'[1] \in 0..255
        BY <4>7
      <4>9. rbuf'[1] % 16 = q
        BY <4>7
      <4>10. rbuf'[2] \in 0..255 /\ (rbuf'[1] % 16) * 256 + rbuf'[2] = sample
        BY <4>1, <4>6, <4>9
      <4>11. Twelve' = sample
        BY <4>10 DEF Twelve
      <4> QED
        BY <2>1, <4>2, <4>8, <4>10, <4>11 DEF SpiInv
    <3>4. CASE ~obeyed
      BY <2>1, <3>1, <3>2, <3>4, <3>5 DEF SpiInv
    <3> QED
      BY <3>3, <3>4
  <2> QED
    BY <1>3, <2>2, <2>3 DEF transfer_spi
<1>4. CASE PrintLight
  <2>1. /\ UNCHANGED <<sample, obeyed, rbuf>> /\ spi = "print"
        /\ spi' = "done" /\ light_value' = Twelve
    BY <1>4 DEF PrintLight, Main
  <2>2. rbuf[1] \in 0..255 /\ rbuf[2] \in 0..255
    BY DEF SpiInv
  <2>3. Twelve < 4096
    BY <2>2 DEF Twelve
  <2> QED
    BY <2>1, <2>3 DEF SpiInv
<1> QED
  BY <1>1, <1>2, <1>3, <1>4
     DEF Next, Deferred, Sensor, SpiNext, Probe, vars

-----------------------------------------------------------------------------
(* The pairs of Lab02.  mod2 stands on mod1; what the number of mod1 is    *)
(* depends on how often mod2 was loaded upon it.                           *)
Brought == IF visits = 1 THEN 0 ELSE MyId

FirstInv ==
    /\ mod2 # "out" => stage = "live" /\ driver \in {"ch1", "symbol"}
    /\ visits \in 0..2
    /\ driver = "symbol" =>
          /\ my_id = MyId /\ mod2 \in {"out", "last", "live"}
          /\ mod2 = "last" => lines = <<>>
          /\ mod2 = "live" => lines = <<MyId>>
    /\ driver = "ch1" =>
          /\ mod2 \in {"out", "first", "set", "last", "live"}
          /\ mod2 = "out" => my_id = IF visits = 0 THEN 0 ELSE MyId
          /\ mod2 # "out" => visits # 0
          /\ mod2 = "first" => my_id = Brought /\ lines = <<>>
          /\ mod2 = "set" => lines = <<Brought>>
          /\ mod2 = "last" => my_id = MyId /\ lines = <<Brought>>
          /\ mod2 = "live" => my_id = MyId /\ lines = <<Brought, MyId>>

LEMMA FirstInvInit ==
    ASSUME Init
    PROVE  FirstInv
  BY DEF Init, FirstInit, FirstInv, Loaded

LEMMA FirstInvNext ==
    ASSUME LoadInv, FirstInv, [Next]_vars
    PROVE  FirstInv'
<1>1. driver' = driver
  BY DriverStays
<1>2. ASSUME UNCHANGED first, mod2 = "out" \/ stage' = "live"
      PROVE  FirstInv'
  BY <1>1, <1>2 DEF FirstInv, Brought, first
<1>3. CASE UNCHANGED first /\ (driver \notin {"ch1", "symbol"} \/ UNCHANGED lab)
  BY <1>2, <1>3 DEF FirstInv, lab, code
<1>4. CASE FirstCalls
  <2>1. stage # "live"
    BY <1>4, AtCall DEF FirstCalls, Calls
  <2> QED
    BY <1>2, <1>4, <2>1 DEF FirstCalls, FirstInv
<1>5. CASE RmmodMod1
  BY <1>2, <1>5 DEF RmmodMod1
<1>6. CASE InsmodMod1
  <2>1. /\ mod2 = "out" /\ mod2' = mod2 /\ visits' = 0
        /\ driver \in {"ch1", "symbol"} /\ my_id' = Loaded
    BY <1>6 DEF InsmodMod1, FirstInv
  <2> QED
    BY <1>1, <2>1 DEF FirstInv, Loaded
<1>7. CASE InsmodMod2
  <2>1. /\ mod2 = "out" /\ stage' = "live" /\ lines' = <<>> /\ my_id' = my_id
        /\ visits' = IF visits = 0 THEN 1 ELSE 2
        /\ \/ driver = "ch1" /\ mod2' = "first"
           \/ driver = "symbol" /\ mod2' = "last"
    BY <1>7 DEF InsmodMod2, Mod2, lab, code
  <2> QED
    BY <1>1, <2>1 DEF FirstInv, Brought
<1>8. CASE RmmodMod2
  <2>1. /\ mod2 = "live" /\ mod2' = "out" /\ stage' = stage
        /\ UNCHANGED <<my_id, lines, visits>>
    BY <1>8 DEF RmmodMod2, Mod2, lab, code
  <2> QED
    BY <1>1, <2>1 DEF FirstInv, Brought
<1>9. CASE driver = "ch1" /\ ch1_mod2_init
  <2>1. stage' = stage /\ visits' = visits
    BY <1>9 DEF ch1_mod2_init, PrintId, set_my_id, Mod2, lab, code
  <2>2. CASE PrintId("first", "set")
    <3>1. lines' = <<Brought>> /\ mod2 = "first" /\ mod2' = "set"
      BY <1>9, <2>2 DEF PrintId, Mod2, FirstInv
    <3> QED
      BY <1>1, <1>9, <2>1, <3>1 DEF FirstInv, Brought
  <2>3. CASE set_my_id(MyId)
    <3>1. lines' = lines /\ mod2 = "set" /\ mod2' = "last" /\ my_id' = MyId
      BY <2>3 DEF set_my_id, Mod2
    <3> QED
      BY <1>1, <1>9, <2>1, <3>1 DEF FirstInv, Brought
  <2>4. CASE PrintId("last", "live")
    <3>2. /\ lines = <<Brought>> /\ lines' = Append(lines, MyId)
          /\ my_id' = MyId /\ mod2 = "last" /\ mod2' = "live"
      BY <1>9, <2>4 DEF PrintId, Mod2, FirstInv
    <3>3. \A m, n : Append(<<m>>, n) = <<m, n>>
      BY AppendToShort
    <3>1. lines' = <<Brought, MyId>>
      BY <3>2, <3>3
    <3> QED
      BY <1>1, <1>9, <2>1, <3>1, <3>2 DEF FirstInv, Brought
  <2> QED
    BY <1>9, <2>2, <2>3, <2>4 DEF ch1_mod2_init
<1>10. CASE driver = "symbol" /\ mod2_init
  <2>1. /\ stage' = stage /\ visits' = visits /\ my_id' = my_id
        /\ mod2 = "last" /\ mod2' = "live" /\ lines' = <<MyId>>
    BY <1>10 DEF mod2_init, PrintId, Mod2, FirstInv, lab, code
  <2> QED
    BY <1>1, <1>10, <2>1 DEF FirstInv
<1>11. FirstNext \/ UNCHANGED first
  BY DEF Next, Deferred, Sensor, vars
<1>12. UNCHANGED first =>
         driver \notin {"ch1", "symbol"} \/ UNCHANGED lab \/ FirstNext
  BY DEF Next, Deferred, Sensor, PinNext, CharNext, SpiNext, vars,
     DeferredDrivers, DeferredInitCalls, SensorDrivers, SensorInitCalls,
     PinDrivers, PinInitCalls, CharDrivers, CharInitCalls
<1> QED
  BY <1>3, <1>4, <1>5, <1>6, <1>7, <1>8, <1>9, <1>10, <1>11, <1>12
     DEF FirstNext

-----------------------------------------------------------------------------
(* The applications of simple_param and ch2.  The number that n calls of   *)
(* one leave in the module, and what it has printed by then.               *)
Counted == {"simple_param", "ch2"}

Stored(n) ==
    IF driver = "simple_param" THEN 201411303
    ELSE IF n \in 1..2 THEN 200 ELSE IF n \in 3..4 THEN 500 ELSE 50000

Prints(n) ==
    IF n < 2 THEN <<>>
    ELSE IF driver = "simple_param" THEN <<201411303>>
    ELSE IF n < 4 THEN <<200>>
    ELSE IF n < 6 THEN <<200, 500>> ELSE <<200, 500, 50000>>

(* Where an application is says which file it has and what calls it made;  *)
(* and as long as no other one has come between, all of simple_param       *)
(* storing the same, the number and what it prints are its own.            *)
Where(u) ==
    /\ made[u] \in 0..Len(App)
    /\ at[u] = "start" => made[u] = 0 /\ printed[u] = <<>>
    /\ at[u] = "in" => fd[u] = "open" /\ made[u] < Len(App)
    /\ at[u] = "done" => made[u] = Len(App)
    /\ at[u] = "start" => fd[u] = "none"

Alone(u) == fd[u] = "open" /\ (driver = "ch2" => ~disturbed[u])

OwnNumber(u) ==
    Alone(u) =>
        /\ printed[u] = Prints(made[u])
        /\ made[u] > 0 => result = Stored(made[u])
        /\ made[u] > 0 /\ at[u] = "in" => loaded[u] = Stored(made[u])

CharInv ==
    driver \in Counted =>
        /\ DOMAIN at = User /\ DOMAIN fd = User
        /\ DOMAIN made = User
        /\ DOMAIN loaded = User
        /\ DOMAIN printed = User
        /\ \A u \in User : Where(u) /\ OwnNumber(u)

(* The length of their programs, and what a call does on the way.          *)
LEMMA Programs ==
    /\ driver = "ch2" => App = ch2_app /\ Len(App) = 6
    /\ driver = "simple_param" => App = simple_param_app /\ Len(App) = 2
<1>1. Len(ch2_app) = 6
  BY DEF ch2_app
<1>2. Len(simple_param_app) = 2
  BY DEF simple_param_app
<1>3. driver = "ch2" => App = ch2_app
  BY DEF App, Pointed
<1>4. driver = "simple_param" => App = simple_param_app
  BY DEF App, Pointed
<1> QED
  BY <1>1, <1>2, <1>3, <1>4

LEMMA CharInvInit ==
    ASSUME Init
    PROVE  CharInv
<1>1. Len(App) \in Nat \/ driver \notin Counted
  BY Programs DEF Counted
<1> QED
  BY <1>1 DEF Init, CharInit, CharInv, Where, OwnNumber, Alone

LEMMA CallDoes ==
    ASSUME driver \in Counted, NEW u \in User, made[u] \in 0..Len(App),
           made[u] < Len(App), made[u] > 0 => loaded[u] = Stored(made[u])
    PROVE  /\ Number(Call(u), loaded[u]) = Stored(made[u] + 1)
           /\ \/ /\ Call(u).op \in {"set", "add", "mul"}
                 /\ Prints(made[u] + 1) = Prints(made[u])
              \/ /\ Call(u).op = "get" /\ made[u] > 0
                 /\ Stored(made[u] + 1) = Stored(made[u])
                 /\ Prints(made[u] + 1)
                      = Append(Prints(made[u]), Answer(Stored(made[u])))
<1>1. /\ Answer(200) = 200 /\ Answer(500) = 500 /\ Answer(50000) = 50000
      /\ Answer(201411303) = 201411303
  BY DEF Answer
<1>2. CASE driver = "simple_param"
  <2>1. made[u] \in {0, 1}
    <3>1. Len(App) = 2
      BY <1>2, Programs
    <3> QED
      BY <3>1
  <2>2. CASE made[u] = 0
    <3>1. Call(u) = Op("set", 201411303)
      BY <1>2, <2>2, Programs DEF Call, simple_param_app
    <3> QED
      BY <1>2, <2>2, <3>1
         DEF Number, simple_param_ioctl, Op, Stored, Prints
  <2>3. CASE made[u] = 1
    <3>1. Call(u) = Get
      BY <1>2, <2>3, Programs DEF Call, simple_param_app
    <3>2. loaded[u] = 201411303
      BY <1>2, <2>3 DEF Stored
    <3>3. Prints(2) = Append(Prints(1), 201411303)
      BY <1>2, AppendToShort DEF Prints
    <3> QED
      BY <1>1, <1>2, <2>3, <3>1, <3>2, <3>3
         DEF Number, simple_param_ioctl, Get, Stored
  <2> QED
    BY <2>1, <2>2, <2>3
<1>3. CASE driver = "ch2"
  <2>1. made[u] \in {0, 1, 2, 3, 4, 5}
    <3>1. Len(App) = 6
      BY <1>3, Programs
    <3> QED
      BY <3>1
  <2>2. CASE made[u] = 0
    <3>1. Call(u) = Op("set", 200)
      BY <1>3, <2>2, Programs DEF Call, ch2_app
    <3> QED
      BY <1>3, <2>2, <3>1 DEF Number, ch2_ioctl, Op, Stored, Prints
  <2>3. CASE made[u] = 1
    <3>1. Call(u) = Get
      BY <1>3, <2>3, Programs DEF Call, ch2_app
    <3>2. Prints(2) = Append(Prints(1), 200)
      BY <1>3, AppendToShort DEF Prints
    <3> QED
      BY <1>1, <1>3, <2>3, <3>1, <3>2 DEF Number, ch2_ioctl, Get, Stored
  <2>4. CASE made[u] = 2
    <3>1. Call(u) = Op("add", 300)
      BY <1>3, <2>4, Programs DEF Call, ch2_app
    <3> QED
      BY <1>3, <2>4, <3>1 DEF Number, ch2_ioctl, Op, Stored, Prints
  <2>5. CASE made[u] = 3
    <3>1. Call(u) = Get
      BY <1>3, <2>5, Programs DEF Call, ch2_app
    <3>2. Prints(4) = Append(Prints(3), 500)
      BY <1>3, AppendToShort DEF Prints
    <3> QED
      BY <1>1, <1>3, <2>5, <3>1, <3>2 DEF Number, ch2_ioctl, Get, Stored
  <2>6. CASE made[u] = 4
    <3>1. Call(u) = Op("mul", 100)
      BY <1>3, <2>6, Programs DEF Call, ch2_app
    <3> QED
      BY <1>3, <2>6, <3>1 DEF Number, ch2_ioctl, Op, Stored, Prints
  <2>7. CASE made[u] = 5
    <3>1. Call(u) = Get
      BY <1>3, <2>7, Programs DEF Call, ch2_app
    <3>2. Prints(6) = Append(Prints(5), 50000)
      BY <1>3, AppendToShort DEF Prints
    <3> QED
      BY <1>1, <1>3, <2>7, <3>1, <3>2 DEF Number, ch2_ioctl, Get, Stored
  <2> QED
    BY <2>1, <2>2, <2>3, <2>4, <2>5, <2>6, <2>7
<1> QED
  BY <1>2, <1>3 DEF Counted

(* One application's step: what it does to itself, and to another.         *)
LEMMA AppStepKeeps ==
    ASSUME CharInv, driver \in Counted, driver' = driver,
           NEW u \in User, AppStep(u)
    PROVE  CharInv'
<1>1. /\ Len(App) \in Nat /\ App' = App
      /\ \A n : Stored(n)' = Stored(n) /\ Prints(n)' = Prints(n)
  <2>1. Len(App) \in Nat
    BY Programs DEF Counted
  <2> QED
    BY <2>1 DEF App, Stored, Prints
<1>2. /\ DOMAIN at = User /\ DOMAIN fd = User
      /\ DOMAIN made = User
      /\ DOMAIN loaded = User
      /\ DOMAIN printed = User
      /\ \A v \in User : Where(v) /\ OwnNumber(v)
  BY DEF CharInv
<1> DEFINE Functions ==
        /\ DOMAIN at = User /\ DOMAIN fd = User
        /\ DOMAIN made = User
        /\ DOMAIN loaded = User
        /\ DOMAIN printed = User
<1>3. ASSUME Functions', \A v \in User : Where(v)' /\ OwnNumber(v)'
      PROVE  CharInv'
  BY <1>3 DEF CharInv
<1>4. CASE Open(u)
  <2>1. Functions'
    BY <1>2, <1>4 DEF Open, Goes
  <2>2. /\ at'[u] = "next" /\ made' = made /\ printed' = printed
        /\ at[u] = "start" /\ result' = result
        /\ \A v \in User \ {u} : at'[v] = at[v] /\ fd'[v] = fd[v]
        /\ loaded' = loaded /\ disturbed' = disturbed
    BY <1>2, <1>4 DEF Open, Goes
  <2>3. ASSUME NEW v \in User PROVE Where(v)' /\ OwnNumber(v)'
    <3>1. CASE v = u
      BY <1>1, <1>2, <2>2, <3>1 DEF Where, OwnNumber, Alone, Prints
    <3>2. CASE v # u
      BY <1>1, <1>2, <2>2, <3>2 DEF Where, OwnNumber, Alone
    <3> QED
      BY <3>1, <3>2
  <2> QED
    BY <1>3, <2>1, <2>3
<1>5. CASE Fault(u) \/ Close(u)
  <2>1. Functions'
    BY <1>2, <1>5 DEF Fault, Close, Goes
  <2>2. /\ at'[u] \in {"fault", "done"} /\ UNCHANGED <<fd, made, printed>>
        /\ at'[u] = "done" => made[u] = Len(App)
        /\ \A v \in User \ {u} : at'[v] = at[v]
        /\ UNCHANGED <<result, loaded, disturbed>>
    BY <1>2, <1>5 DEF Fault, Close, Goes
  <2>3. ASSUME NEW v \in User PROVE Where(v)' /\ OwnNumber(v)'
    <3>1. CASE v = u
      BY <1>1, <1>2, <2>2, <3>1 DEF Where, OwnNumber, Alone
    <3>2. CASE v # u
      BY <1>1, <1>2, <2>2, <3>2 DEF Where, OwnNumber, Alone
    <3> QED
      BY <3>1, <3>2
  <2> QED
    BY <1>3, <2>1, <2>3
<1>6. CASE Enter(u)
  <2>1. Functions'
    BY <1>2, <1>6 DEF Enter, Goes
  <2>2. /\ at'[u] = "in" /\ fd[u] = "open" /\ made[u] < Len(App)
        /\ \A v \in User \ {u} : at'[v] = at[v] /\ loaded'[v] = loaded[v]
        /\ loaded'[u] = result
        /\ UNCHANGED <<fd, made, printed, result, disturbed>>
    BY <1>2, <1>6 DEF Enter, Goes
  <2>3. ASSUME NEW v \in User PROVE Where(v)' /\ OwnNumber(v)'
    <3>1. CASE v = u
      BY <1>1, <1>2, <2>2, <3>1 DEF Where, OwnNumber, Alone
    <3>2. CASE v # u
      BY <1>1, <1>2, <2>2, <3>2 DEF Where, OwnNumber, Alone
    <3> QED
      BY <3>1, <3>2
  <2> QED
    BY <1>3, <2>1, <2>3
<1>7. CASE Leave(u)
  <2> DEFINE n == Number(Call(u), loaded[u])
             store == Call(u).op \in {"set", "add", "mul"}
  <2>1. Functions'
    BY <1>2, <1>7 DEF Leave, Goes, Returned
  <2>2. /\ at[u] = "in" /\ at'[u] = "next" /\ made'[u] = made[u] + 1
        /\ printed'[u] = IF Call(u).op = "get"
                         THEN Append(printed[u], Answer(n)) ELSE printed[u]
        /\ result' = IF store THEN n ELSE result
    BY <1>2, <1>7 DEF Leave, Goes, Returned
  <2>3. /\ \A v \in User : disturbed'[v] = (disturbed[v] \/ (store /\ v # u
                                   /\ (at[v] = "in" \/ made[v] > 0)))
        /\ \A v \in User \ {u} : /\ at'[v] = at[v] /\ made'[v] = made[v]
                                 /\ printed'[v] = printed[v]
        /\ UNCHANGED <<fd, loaded>>
    BY <1>2, <1>7 DEF Leave, Goes, Returned
  <2>4. /\ made[u] \in 0..Len(App) /\ fd[u] = "open" /\ made[u] < Len(App)
    BY <1>2, <2>2 DEF Where
  <2>5. Where(u)'
    BY <1>1, <2>2, <2>4 DEF Where
  <2>6. OwnNumber(u)'
    <3>1. CASE ~Alone(u)
      BY <2>3, <3>1 DEF OwnNumber, Alone
    <3>2. CASE Alone(u)
      <4>1. /\ printed[u] = Prints(made[u])
            /\ made[u] > 0 => result = Stored(made[u])
            /\ made[u] > 0 => loaded[u] = Stored(made[u])
        BY <1>2, <2>2, <3>2 DEF OwnNumber
      <4>2. CASE store
        <5>1. /\ n = Stored(made[u] + 1) /\ Call(u).op # "get"
              /\ Prints(made[u] + 1) = Prints(made[u])
          BY <2>4, <4>1, <4>2, CallDoes
        <5>2. /\ result' = Stored(made'[u]) /\ printed'[u] = Prints(made'[u])
          BY <2>2, <4>1, <4>2, <5>1
        <5> QED
          BY <1>1, <2>2, <5>2 DEF OwnNumber
      <4>3. CASE ~store
        <5>1. /\ n = Stored(made[u] + 1) /\ Call(u).op = "get"
              /\ made[u] > 0 /\ Stored(made[u] + 1) = Stored(made[u])
              /\ Prints(made[u] + 1)
                   = Append(Prints(made[u]), Answer(Stored(made[u])))
          BY <2>4, <4>1, <4>3, CallDoes
        <5>2. /\ result' = Stored(made'[u]) /\ printed'[u] = Prints(made'[u])
          BY <2>2, <4>1, <4>3, <5>1
        <5> QED
          BY <1>1, <2>2, <5>2 DEF OwnNumber
      <4> QED
        BY <4>2, <4>3
    <3> QED
      BY <3>1, <3>2
  <2>7. ASSUME NEW v \in User \ {u} PROVE Where(v)' /\ OwnNumber(v)'
    <3>0. /\ at'[v] = at[v] /\ made'[v] = made[v] /\ fd'[v] = fd[v]
          /\ printed'[v] = printed[v] /\ loaded'[v] = loaded[v]
          /\ Where(v) /\ OwnNumber(v) /\ v # u
      BY <1>2, <2>3
    <3>1. Where(v)'
      BY <1>1, <3>0 DEF Where
    <3>5. Alone(v)' => Alone(v)
      BY <1>1, <2>3, <3>0 DEF Alone
    <3>6. /\ Prints(made[v])' = Prints(made[v])
          /\ Stored(made[v])' = Stored(made[v])
      BY <1>1, <3>0
    <3>7. ASSUME Alone(v)', made[v] > 0 => result' = Stored(made[v])
          PROVE  OwnNumber(v)'
      <4>1. /\ printed[v] = Prints(made[v])
            /\ made[v] > 0 /\ at[v] = "in" => loaded[v] = Stored(made[v])
        BY <3>0, <3>5, <3>7 DEF OwnNumber
      <4> QED
        BY <3>0, <3>6, <3>7, <4>1 DEF OwnNumber
    <3>2. CASE result' = result
      <4>1. Alone(v)' => (made[v] > 0 => result = Stored(made[v]))
        BY <3>0, <3>5 DEF OwnNumber
      <4> QED
        BY <3>1, <3>2, <3>7, <4>1 DEF OwnNumber
    <3>3. CASE store /\ driver = "ch2"
      <4>1. Alone(v)' => at[v] # "in" /\ ~(made[v] > 0)
        BY <2>3, <3>0, <3>3 DEF Alone
      <4> QED
        BY <3>1, <3>7, <4>1 DEF OwnNumber
    <3>4. CASE store /\ driver = "simple_param"
      <4>1. made[u] = 0
        <5>3. Len(App) = 2
          BY <3>4, Programs
        <5>1. made[u] \in 0..1
          BY <2>4, <5>3
        <5>2. made[u] = 1 => Call(u) = Get
          BY <3>4, Programs DEF Call, simple_param_app
        <5> QED
          BY <3>4, <5>1, <5>2 DEF Get
      <4>2. n = Stored(1)
        BY <2>4, <4>1, CallDoes
      <4>3. result' = n
        BY <2>2, <3>4
      <4>4. \A m : Stored(m) = Stored(1)
        BY <3>4 DEF Stored
      <4>5. result' = Stored(made[v])
        BY <4>2, <4>3, <4>4
      <4> QED
        BY <3>1, <3>7, <4>5 DEF OwnNumber
    <3> QED
      BY <2>2, <3>1, <3>2, <3>3, <3>4 DEF Counted
  <2> QED
    BY <1>3, <2>1, <2>5, <2>6, <2>7
<1>8. CASE CallFails(u)
  <2>1. Functions'
    BY <1>2, <1>8 DEF CallFails, Goes, Returned
  <2>2. /\ at'[u] = "next" /\ made'[u] = made[u] + 1 /\ made[u] < Len(App)
        /\ \A v \in User \ {u} : /\ at'[v] = at[v] /\ made'[v] = made[v]
                                 /\ printed'[v] = printed[v]
        /\ UNCHANGED <<fd, loaded, result, disturbed>> /\ fd[u] = "failed"
    BY <1>2, <1>8 DEF CallFails, Goes, Returned
  <2>3. ASSUME NEW v \in User PROVE Where(v)' /\ OwnNumber(v)'
    <3>1. CASE v = u
      BY <1>1, <1>2, <2>2, <3>1 DEF Where, OwnNumber, Alone
    <3>2. CASE v # u
      BY <1>1, <1>2, <2>2, <3>2 DEF Where, OwnNumber, Alone
    <3> QED
      BY <3>1, <3>2
  <2> QED
    BY <1>3, <2>1, <2>3
<1> QED
  BY <1>4, <1>5, <1>6, <1>7, <1>8 DEF AppStep

LEMMA CharInvNext ==
    ASSUME CharInv, [Next]_vars
    PROVE  CharInv'
<1>1. driver' = driver
  BY DriverStays
<1>2. CASE driver \notin Counted
  BY <1>1, <1>2 DEF CharInv
<1>3. CASE driver \in Counted /\ UNCHANGED <<result, app>>
  BY <1>1, <1>3
     DEF CharInv, Where, OwnNumber, Alone, App, Stored, Prints, app, Counted
<1>4. CASE driver \in Counted /\ \E u \in User : AppStep(u)
  BY <1>1, <1>4, AppStepKeeps
<1> QED
  BY <1>2, <1>3, <1>4
     DEF Next, Deferred, Sensor, CharNext, CharCalls, CharIsr, Counted,
         chars, vars

(* PrintsExact is an invariant.                                            *)
PrintsInv == SpiInv /\ FirstInv /\ CharInv

(* Applications print what they have set, those of ch2 if no other one     *)
(* came between; simple_spi the sample, if every ioctl succeeded; and mod2 *)
(* what mod1 brings and then the id: for any number of applications.       *)
THEOREM PrintsAreExact == Spec => []PrintsExact
<1>1. Init => PrintsInv
  BY SpiInvInit, FirstInvInit, CharInvInit DEF PrintsInv
<1>2. LoadInv /\ PrintsInv /\ [Next]_vars => PrintsInv'
  BY SpiInvNext, FirstInvNext, CharInvNext DEF PrintsInv
<1>3. PrintsInv => PrintsExact
  <2> SUFFICES ASSUME PrintsInv PROVE PrintsExact
    OBVIOUS
  <2>1. ASSUME NEW u \in User, at[u] = "done", fd[u] = "open"
        PROVE  /\ driver = "simple_param" => printed[u] = <<201411303>>
               /\ driver = "ch2" /\ ~disturbed[u] =>
                    printed[u] = <<200, 500, 50000>>
    <3>1. driver \in Counted => Where(u) /\ OwnNumber(u)
      BY DEF PrintsInv, CharInv
    <3>2. CASE driver = "simple_param"
      <4>1. made[u] = 2
        BY <2>1, <3>1, <3>2, Programs DEF Where, Counted
      <4>2. printed[u] = Prints(2)
        BY <2>1, <3>1, <3>2, <4>1 DEF OwnNumber, Alone, Counted
      <4> QED
        BY <3>2, <4>2 DEF Prints
    <3>3. CASE driver = "ch2" /\ ~disturbed[u]
      <4>1. made[u] = 6
        BY <2>1, <3>1, <3>3, Programs DEF Where, Counted
      <4>2. printed[u] = Prints(6)
        BY <2>1, <3>1, <3>3, <4>1 DEF OwnNumber, Alone, Counted
      <4> QED
        BY <3>3, <4>2 DEF Prints
    <3> QED
      BY <3>2, <3>3
  <2>2. spi = "done" => light_value < 4096 /\ (obeyed => light_value = sample)
    BY DEF PrintsInv, SpiInv
  <2>3. mod2 = "live" =>
          lines = IF driver = "symbol" THEN <<MyId>>
                  ELSE <<IF visits = 1 THEN 0 ELSE MyId, MyId>>
    BY DEF PrintsInv, FirstInv, Brought
  <2> QED
    BY <2>1, <2>2, <2>3 DEF PrintsExact
<1>4. Spec => []LoadInv
  BY LoadInvariance
<1> QED
  BY <1>1, <1>2, <1>3, <1>4, PTL DEF Spec

-----------------------------------------------------------------------------
(* The motors.  ch10 and test, with n moves left: where the shaft stood,   *)
(* in eighths of a turn, before the first of them; by how many it turns    *)
(* the shaft, and which way.                                               *)
Before(n) ==
    (IF driver = "ch10" THEN <<8, 4, 3, 2, 0>> ELSE <<2, -2, -1, -2, 0>>)[n + 1]
Eighths(n) == IF n = 4 THEN 2 ELSE IF n = 1 THEN 4 ELSE 1
Sense(n) == IF driver = "test" /\ n \in {2, 4} THEN -1 ELSE 1

Resting == half = 0 /\ c_step = 0 /\ shaft \in -2..2

Turning(n) ==
    /\ half \in 0..(ONEROUND * Eighths(n))
    /\ shaft = ONEROUND * Before(n) + Sense(n) * half
    /\ c_step = shaft % 8

(* init moves the shaft, from the second half step on, by what the moves   *)
(* say; later calls leave it where it is.                                  *)
TurnerInit ==
    \/ calls = ch10_motor_init /\ Resting
    \/ /\ calls \in Seq({"moveDegree"}) /\ Len(calls) \in 1..4
       /\ Turning(Len(calls)) \/ (Len(calls) = 4 /\ Resting)

(* simple_motor: one half step behind on the way there, one ahead on the   *)
(* way back, but where the phase is what lies behind the arrays.           *)
There ==
    /\ half = 0 => shaft \in -2..2
    /\ half > 0 => shaft = half - 1

Back ==
    LET ahead == 8 * ONEROUND + 1 - half
    IN  /\ half = 0 => shaft = ahead - 2
        /\ half % 8 = 1 => shaft \in (ahead - 2)..(ahead + 2)
        /\ half > 0 /\ half % 8 # 1 => shaft = ahead

MoverInit ==
    \/ calls = simple_motor_init /\ half = 0 /\ There
    \/ calls = <<"forward", "backward">> /\ half \in 0..(8 * ONEROUND) /\ There
    \/ calls = <<"backward">> /\ half \in 0..(8 * ONEROUND) /\ (Harmless => Back)

Later == half = 0 /\ calls = IF stage = "exit" THEN <<"gpio_free">> ELSE <<>>

MotorInv ==
    /\ driver \in {"ch10", "test"} =>
          IF stage = "init" THEN TurnerInit
          ELSE Later /\ shaft = ONEROUND * Before(0)
    /\ driver = "simple_motor" =>
          IF stage = "init" THEN MoverInit ELSE Later /\ (Harmless => shaft = 1)

(* The field of a phase pulls to that phase.                               *)
LEMMA PhaseField ==
    ASSUME NEW j \in 0..7
    PROVE  Field(Coils(j)) = j
<1> DEFINE P(i) == Pull(Coils(i))
<1>1. /\ P(0) = <<1, 0>> /\ P(1) = <<1, 1>> /\ P(2) = <<0, 1>>
      /\ P(3) = <<-1, 1>> /\ P(4) = <<-1, 0>> /\ P(5) = <<-1, -1>>
      /\ P(6) = <<0, -1>> /\ P(7) = <<1, -1>>
  BY DEF Coils, Pull
<1>2. \A i \in 0..7 : i \in {0, 1, 2, 3, 4, 5, 6, 7}
  OBVIOUS
<1> HIDE DEF P
<1>3. P(j) # <<0, 0>>
  BY <1>1, <1>2
<1>4. ASSUME NEW i \in 0..7, P(i) = P(j)
      PROVE  i = j
  <2>1. i \in {0, 1, 2, 3, 4, 5, 6, 7} /\ j \in {0, 1, 2, 3, 4, 5, 6, 7}
    BY <1>2
  <2>2. P(i)[1] = P(j)[1] /\ P(i)[2] = P(j)[2]
    BY <1>4
  <2> QED
    BY <1>1, <2>1, <2>2
<1>5. (CHOOSE i \in 0..7 : P(i) = P(j)) = j
  <2>1. \E i \in 0..7 : P(i) = P(j)
    OBVIOUS
  <2> QED
    BY <1>4, <2>1
<1> QED
  BY <1>3, <1>5 DEF Field, P

(* The shaft turns to a phase that is less than half a turn of the field   *)
(* away.                                                                   *)
LEMMA TurnsTo ==
    ASSUME shaft \in Int, NEW j \in 0..7, NEW e \in -3..3, (shaft + e) % 8 = j
    PROVE  Turns(j) = {shaft + e}
<1>1. PICK q \in Int : shaft + e = 8 * q + j
  <2>1. PICK s \in Int : s = shaft + e
    OBVIOUS
  <2>2. s = 8 * (s \div 8) + (s % 8) /\ s \div 8 \in Int
    BY Z3
  <2> QED
    BY <2>1, <2>2
<1>2. j - shaft = e - 8 * q
  BY <1>1
<1>3. CASE e \in 0..3
  <2>1. (j - shaft) % 8 = e
    BY <1>2, <1>3
  <2>2. (j - shaft) % 8 < 4 /\ j # 8
    BY <1>3, <2>1
  <2>3. Turns(j) = {shaft + ((j - shaft) % 8)}
    BY <2>2 DEF Turns
  <2> QED
    BY <2>1, <2>3
<1>4. CASE e \in -3..(-1)
  <2>1. (j - shaft) % 8 = e + 8
    BY <1>2, <1>4
  <2> QED
    BY <1>4, <2>1 DEF Turns
<1> QED
  BY <1>3, <1>4

LEMMA HalfStep ==
    ASSUME shaft \in Int, NEW j \in 0..7, NEW e \in -3..3,
           (shaft + e) % 8 = j, setstep(j)
    PROVE  shaft' = shaft + e
  BY PhaseField, TurnsTo DEF setstep

(* What ch10 and test say of their moves, in eighths of a turn.            *)
LEMMA MoveTable ==
    ASSUME driver \in {"ch10", "test"}, NEW n \in 1..4, n = Len(calls)
    PROVE  /\ ThisMove[1] \div 45 = Eighths(n) /\ Eighths(n) \in 1..4
           /\ Before(n) \in Int /\ Before(4) = 0
           /\ Before(n - 1) = Before(n) + Sense(n) * Eighths(n)
           /\ \/ ThisMove[2] = 0 /\ Sense(n) = 1
              \/ ThisMove[2] = 1 /\ Sense(n) = -1
<1>1. n \in {1, 2, 3, 4}
  OBVIOUS
<1>2. 45 \div 45 = 1 /\ 90 \div 45 = 2 /\ 180 \div 45 = 4
  OBVIOUS
<1>3. CASE driver = "ch10"
  <2>1. ThisMove = ch10_moves[5 - n]
    BY <1>3 DEF ThisMove
  <2>2. /\ ch10_moves[1] = <<90, 0>> /\ ch10_moves[2] = <<45, 0>>
        /\ ch10_moves[3] = <<45, 0>> /\ ch10_moves[4] = <<180, 0>>
    BY DEF ch10_moves
  <2>3. /\ Before(0) = 8 /\ Before(1) = 4 /\ Before(2) = 3
        /\ Before(3) = 2 /\ Before(4) = 0
    BY <1>3 DEF Before
  <2>4. CASE n = 1
    <3>1. ThisMove = <<180, 0>>
      BY <2>1, <2>2, <2>4
    <3>2. ThisMove[1] \div 45 = Eighths(n) /\ Eighths(n) \in 1..4
      BY <1>2, <2>4, <3>1 DEF Eighths
    <3> QED
      BY <1>3, <2>3, <2>4, <3>1, <3>2 DEF Eighths, Sense
  <2>5. CASE n = 2
    <3>1. ThisMove = <<45, 0>>
      BY <2>1, <2>2, <2>5
    <3>2. ThisMove[1] \div 45 = Eighths(n) /\ Eighths(n) \in 1..4
      BY <1>2, <2>5, <3>1 DEF Eighths
    <3> QED
      BY <1>3, <2>3, <2>5, <3>1, <3>2 DEF Eighths, Sense
  <2>6. CASE n = 3
    <3>1. ThisMove = <<45, 0>>
      BY <2>1, <2>2, <2>6
    <3>2. ThisMove[1] \div 45 = Eighths(n) /\ Eighths(n) \in 1..4
      BY <1>2, <2>6, <3>1 DEF Eighths
    <3> QED
      BY <1>3, <2>3, <2>6, <3>1, <3>2 DEF Eighths, Sense
  <2>7. CASE n = 4
    <3>1. ThisMove = <<90, 0>>
      BY <2>1, <2>2, <2>7
    <3>2. ThisMove[1] \div 45 = Eighths(n) /\ Eighths(n) \in 1..4
      BY <1>2, <2>7, <3>1 DEF Eighths
    <3> QED
      BY <1>3, <2>3, <2>7, <3>1, <3>2 DEF Eighths, Sense
  <2> QED
    BY <1>1, <2>4, <2>5, <2>6, <2>7
<1>4. CASE driver = "test"
  <2>1. ThisMove = test_moves[5 - n]
    BY <1>4 DEF ThisMove
  <2>2. /\ test_moves[1] = <<90, 1>> /\ test_moves[2] = <<45, 0>>
        /\ test_moves[3] = <<45, 1>> /\ test_moves[4] = <<180, 0>>
    BY DEF test_moves
  <2>3. /\ Before(0) = 2 /\ Before(1) = -2 /\ Before(2) = -1
        /\ Before(3) = -2 /\ Before(4) = 0
    BY <1>4 DEF Before
  <2>4. CASE n = 1
    <3>1. ThisMove = <<180, 0>>
      BY <2>1, <2>2, <2>4
    <3>2. ThisMove[1] \div 45 = Eighths(n) /\ Eighths(n) \in 1..4
      BY <1>2, <2>4, <3>1 DEF Eighths
    <3> QED
      BY <1>4, <2>3, <2>4, <3>1, <3>2 DEF Eighths, Sense
  <2>5. CASE n = 2
    <3>1. ThisMove = <<45, 1>>
      BY <2>1, <2>2, <2>5
    <3>2. ThisMove[1] \div 45 = Eighths(n) /\ Eighths(n) \in 1..4
      BY <1>2, <2>5, <3>1 DEF Eighths
    <3> QED
      BY <1>4, <2>3, <2>5, <3>1, <3>2 DEF Eighths, Sense
  <2>6. CASE n = 3
    <3>1. ThisMove = <<45, 0>>
      BY <2>1, <2>2, <2>6
    <3>2. ThisMove[1] \div 45 = Eighths(n) /\ Eighths(n) \in 1..4
      BY <1>2, <2>6, <3>1 DEF Eighths
    <3> QED
      BY <1>4, <2>3, <2>6, <3>1, <3>2 DEF Eighths, Sense
  <2>7. CASE n = 4
    <3>1. ThisMove = <<90, 1>>
      BY <2>1, <2>2, <2>7
    <3>2. ThisMove[1] \div 45 = Eighths(n) /\ Eighths(n) \in 1..4
      BY <1>2, <2>7, <3>1 DEF Eighths
    <3> QED
      BY <1>4, <2>3, <2>7, <3>1, <3>2 DEF Eighths, Sense
  <2> QED
    BY <1>1, <2>4, <2>5, <2>6, <2>7
<1> QED
  BY <1>3, <1>4

(* A half step of a move, the first one from wherever the shaft rests.     *)
LEMMA MoveGoesOn ==
    ASSUME driver \in {"ch10", "test"}, driver' = driver,
           NEW n \in 1..4, n = Len(calls),
           Turning(n) \/ (n = 4 /\ Resting),
           half < ONEROUND * Eighths(n), half' = half + 1,
           c_step' = IF ThisMove[2] = 0 THEN forward ELSE backward,
           setstep(c_step')
    PROVE  Turning(n)'
<1> DEFINE s == Sense(n)
           b == Before(n)
           m == Eighths(n)
<1>1. /\ m \in 1..4 /\ b \in Int /\ (n = 4 => b = 0)
      /\ \/ ThisMove[2] = 0 /\ s = 1
         \/ ThisMove[2] = 1 /\ s = -1
  BY MoveTable
<1>2. Sense(n)' = s /\ Before(n)' = b /\ Eighths(n)' = m
  BY DEF Sense, Before, Eighths
<1>3. ONEROUND \in Nat \ {0} /\ ONEROUND * m \in Nat /\ ONEROUND * b \in Int
  <2>1. ONEROUND \in Nat \ {0}
    BY PinAssumption
  <2> QED
    BY <1>1, <2>1, Z3
<1>4. half \in Nat /\ half' \in 0..(ONEROUND * m) /\ half' > 0
  BY <1>3 DEF Turning, Resting
<1> HIDE DEF s, b, m
<1>5. /\ shaft \in Int /\ shaft' = ONEROUND * b + s * (half + 1)
      /\ c_step' = shaft' % 8
  <2>1. ASSUME c_step \in 0..7
        PROVE  c_step' \in 0..7 /\ c_step' = (c_step + s) % 8
    BY <1>1, <2>1 DEF forward, backward
  <2>2. CASE Turning(n)
    <3>1. /\ shaft = ONEROUND * b + s * half /\ c_step = shaft % 8
          /\ shaft \in Int
      <4>1. shaft = ONEROUND * b + s * half /\ c_step = shaft % 8
        BY <2>2 DEF Turning, s, b
      <4>2. s * half \in Int
        BY <1>1, <1>4
      <4> QED
        BY <1>3, <4>1, <4>2
    <3>2. c_step \in 0..7 /\ s \in -3..3
      BY <1>1, <3>1
    <3>3. (shaft + s) % 8 = c_step'
      BY <1>1, <2>1, <3>1, <3>2
    <3>4. shaft' = shaft + s
      BY <2>1, <3>1, <3>2, <3>3, HalfStep
    <3>5. s * half \in Int /\ s * (half + 1) = s * half + s /\ s \in Int
      BY <1>1, <1>4
    <3>7. PICK p \in Int, q \in Int : p = ONEROUND * b /\ q = s * half
      BY <1>3, <3>5
    <3>8. shaft = p + q /\ s * (half + 1) = q + s
      BY <3>1, <3>5, <3>7
    <3>6. shaft + s = ONEROUND * b + s * (half + 1)
      BY <3>5, <3>7, <3>8
    <3> QED
      BY <3>1, <3>3, <3>4, <3>6
  <2>3. CASE n = 4 /\ Resting
    <3>1. half = 0 /\ c_step = 0 /\ shaft \in -2..2 /\ b = 0
      BY <1>1, <2>3 DEF Resting
    <3>2. PICK e \in -3..3 : shaft + e = s
      BY <1>1, <3>1
    <3>3. s % 8 = c_step' /\ c_step' \in 0..7
      BY <1>1, <2>1, <3>1
    <3>4. shaft' = s
      <4>3. shaft \in Int
        BY <3>1
      <4>4. (shaft + e) % 8 = s % 8
        BY <3>2
      <4>1. shaft \in Int /\ (shaft + e) % 8 = c_step'
        BY <3>3, <4>3, <4>4
      <4>2. shaft' = shaft + e
        BY <2>1, <2>3, <3>3, <4>1, HalfStep
      <4> QED
        BY <3>2, <4>2
    <3>5. ONEROUND * b = 0 /\ s * (half + 1) = s /\ s \in Int
      BY <1>1, <1>3, <3>1
    <3>6. s = ONEROUND * b + s * (half + 1)
      BY <3>5
    <3>7. shaft \in Int
      BY <3>1
    <3> QED
      BY <3>3, <3>4, <3>6, <3>7
  <2> QED
    BY <2>2, <2>3
<1> QED
  BY <1>2, <1>4, <1>5 DEF Turning, s, b, m

(* The end of a move: what is left turns on from there.                    *)
LEMMA MoveEnds ==
    ASSUME driver \in {"ch10", "test"},
           NEW n \in 1..4, n = Len(calls),
           Turning(n) \/ (n = 4 /\ Resting),
           half = ONEROUND * Eighths(n)
    PROVE  shaft = ONEROUND * Before(n - 1) /\ c_step = shaft % 8
<1> DEFINE s == Sense(n)
           b == Before(n)
           m == Eighths(n)
<1>1. /\ m \in 1..4 /\ b \in Int /\ s \in {1, -1} /\ ONEROUND \in Nat \ {0}
      /\ Before(n - 1) = b + s * m
  <2>1. ONEROUND \in Nat \ {0}
    BY PinAssumption
  <2> QED
    BY <2>1, MoveTable
<1> HIDE DEF s, b, m
<1>2. ONEROUND * m > 0
  BY <1>1, Z3
<1>3. half = ONEROUND * m /\ Turning(n)
  BY <1>2 DEF Resting, m
<1>4. shaft = ONEROUND * b + s * (ONEROUND * m) /\ c_step = shaft % 8
  BY <1>3 DEF Turning, s, b
<1>5. ONEROUND * (b + s * m) = ONEROUND * b + s * (ONEROUND * m)
  BY <1>1, Z3
<1> QED
  BY <1>1, <1>4, <1>5

-----------------------------------------------------------------------------
Motors == {"simple_motor", "ch10", "test"}

LEMMA MotorsOnly ==
    ASSUME driver \in Motors, [Next]_vars
    PROVE  PinNext \/ UNCHANGED <<driver, stage, calls, pinlabs>>
<1>1. /\ driver \notin DeferredDrivers /\ driver \notin SensorDrivers
      /\ driver \notin CharDrivers /\ driver # "spidev"
      /\ driver \notin FirstDrivers
  BY DEF Motors, DeferredDrivers, DeferredInitCalls, SensorDrivers,
     SensorInitCalls, CharDrivers, CharInitCalls, FirstDrivers, FirstInitCalls
<1>2. CASE Next
  BY <1>1, <1>2 DEF Next, Deferred, Sensor, CharNext, SpiNext, FirstNext
<1>3. CASE UNCHANGED vars
  BY <1>3 DEF vars, lab, code
<1> QED
  BY <1>2, <1>3

(* The calls of init and exit, one after the other.                        *)
LEMMA MotorCalls ==
    /\ Tail(ch10_motor_init) \in Seq({"moveDegree"})
    /\ Len(Tail(ch10_motor_init)) = 4 /\ Head(ch10_motor_init) = "gpio_request"
    /\ Tail(simple_motor_init) = <<"forward", "backward">>
    /\ Head(simple_motor_init) = "gpio_request"
    /\ Tail(<<"forward", "backward">>) = <<"backward">>
    /\ Head(<<"forward", "backward">>) = "forward"
    /\ Head(<<"backward">>) = "backward" /\ Head(<<"gpio_free">>) = "gpio_free"
    /\ Tail(<<"backward">>) = <<>> /\ Tail(<<"gpio_free">>) = <<>>
    /\ Len(<<>>) = 0
<1>1. Tail(ch10_motor_init) \in Seq({"moveDegree"}) /\ Len(Tail(ch10_motor_init)) = 4
  <2> DEFINE moves == <<"moveDegree", "moveDegree", "moveDegree", "moveDegree">>
  <2>1. Tail(ch10_motor_init) = moves
    BY DEF ch10_motor_init
  <2>2. moves \in Seq({"moveDegree"}) /\ Len(moves) = 4
    OBVIOUS
  <2> QED
    BY <2>1, <2>2
<1>2. Head(ch10_motor_init) = "gpio_request" /\ Head(simple_motor_init) = "gpio_request"
  BY DEF ch10_motor_init, simple_motor_init
<1>3. /\ Tail(simple_motor_init) = <<"forward", "backward">>
      /\ Tail(<<"forward", "backward">>) = <<"backward">>
      /\ Tail(<<"backward">>) = <<>> /\ Tail(<<"gpio_free">>) = <<>>
  BY DEF simple_motor_init
<1>4. /\ Head(<<"forward", "backward">>) = "forward"
      /\ Head(<<"backward">>) = "backward" /\ Head(<<"gpio_free">>) = "gpio_free"
  OBVIOUS
<1>5. Len(<<>>) = 0
  BY EmptySeq
<1> QED
  BY <1>1, <1>2, <1>3, <1>4, <1>5

LEMMA MotorSteps ==
    ASSUME driver \in Motors, PinNext
    PROVE  \/ Unload(<<"gpio_free">>) /\ UNCHANGED pinlabs
           \/ /\ Calls("gpio_request") \/ Calls("gpio_free")
              /\ UNCHANGED pinlabs
           \/ simple_forward \/ simple_backward \/ moveDegree
           \/ \E c \in {"set_high", "set_low", "request_irq", "free_irq",
                        "synchronize", "poll", "play"} : At(c)
<1>1. PinExitCalls[driver] = <<"gpio_free">>
  BY DEF Motors, PinExitCalls, simple_motor_exit, ch10_motor_exit, test_motor_exit
<1>2. CASE Unload(PinExitCalls[driver]) /\ UNCHANGED pinlabs
  BY <1>1, <1>2
<1>3. CASE CommonCalls /\ UNCHANGED pinlabs
  BY <1>3 DEF CommonCalls, GpioRequest, GpioFree, GpioSetValue, RequestIrq,
     RequestFails, FreeIrq, Synchronize, Calls
<1>4. CASE Poll \/ play
  BY <1>4 DEF Poll, play, Calls, During
<1> QED
  BY <1>2, <1>3, <1>4 DEF PinNext, PinCalls

(* The only call that can be made is the first one.                        *)
LEMMA HeadOnly ==
    ASSUME NEW c, At(c)
    PROVE  c = Head(calls) /\ calls # <<>>
  BY DEF At

(* Once init has returned the motors are left alone.                       *)
LEMMA LaterNext ==
    ASSUME driver \in Motors, stage # "init", Later, PinNext
    PROVE  stage' # "init" /\ Later' /\ UNCHANGED <<shaft, stray>>
<1>1. CASE Unload(<<"gpio_free">>) /\ UNCHANGED pinlabs
  BY <1>1 DEF Unload, Later, pinlabs, motor
<1>2. CASE (Calls("gpio_request") \/ Calls("gpio_free")) /\ UNCHANGED pinlabs
  <2>1. calls = <<"gpio_free">>
    BY <1>2, HeadOnly DEF Calls, Later
  <2>2. calls' = <<>> /\ stage' = "gone"
    BY <1>2, <2>1, MotorCalls DEF Calls
  <2> QED
    BY <1>2, <2>2 DEF Later, pinlabs, motor
<1>3. ASSUME NEW c, At(c)
      PROVE  c = "gpio_free"
  BY <1>3, HeadOnly, MotorCalls DEF Later
<1>4. simple_forward => At("forward")
  BY DEF simple_forward, Loop, Calls, During
<1>5. simple_backward => At("backward")
  BY DEF simple_backward, Loop, Calls, During
<1>6. moveDegree => At("moveDegree")
  BY DEF moveDegree
<1> QED
  BY <1>1, <1>2, <1>3, <1>4, <1>5, <1>6, MotorSteps

LEMMA TurnsNat ==
    ASSUME NEW n \in 1..4, n # 1, driver \in {"ch10", "test"}
    PROVE  /\ ONEROUND * Eighths(n - 1) \in Nat /\ Sense(n - 1) * 0 = 0
           /\ ONEROUND * Before(n - 1) \in Int
<1>1. ONEROUND \in Nat
  BY PinAssumption
<1>2. Eighths(n - 1) \in Nat /\ Sense(n - 1) \in {1, -1}
  BY DEF Eighths, Sense
<1>3. Before(n - 1) \in Int
  BY DEF Before
<1>4. \A a, b \in Int : a * b \in Int
  BY Z3
<1>5. \A a, b \in Nat : a * b \in Nat
  BY Z3
<1> QED
  BY <1>1, <1>2, <1>3, <1>4, <1>5

(* init of ch10 and test.                                                  *)
LEMMA TurnerNext ==
    ASSUME driver \in {"ch10", "test"}, driver' = driver,
           stage = "init", TurnerInit, PinNext
    PROVE  IF stage' = "init" THEN TurnerInit'
           ELSE Later' /\ shaft' = ONEROUND * Before(0)'
<1>1. driver \in Motors /\ stage # "live"
  BY DEF Motors
<1>2. ASSUME NEW c, At(c), c # "gpio_request"
      PROVE  calls # ch10_motor_init
  BY <1>2, HeadOnly, MotorCalls
<1>3. simple_forward => At("forward")
  BY DEF simple_forward, Loop, Calls, During
<1>4. simple_backward => At("backward")
  BY DEF simple_backward, Loop, Calls, During
<1>5. moveDegree => At("moveDegree")
  BY DEF moveDegree
<1>6. CASE calls = ch10_motor_init /\ Resting
  <2>1. Calls("gpio_request") \/ Calls("gpio_free")
    BY <1>1, <1>2, <1>3, <1>4, <1>5, <1>6, MotorSteps DEF Unload
  <2>2. UNCHANGED pinlabs
    BY <1>1, <1>2, <1>3, <1>4, <1>5, <1>6, MotorSteps DEF Unload
  <2>3. calls' = Tail(ch10_motor_init)
    BY <1>6, <2>1 DEF Calls
  <2>4. calls' \in Seq({"moveDegree"}) /\ Len(calls') = 4
    BY <2>3, MotorCalls
  <2>5. stage' = "init"
    BY <2>1, <2>3, <2>4, MotorCalls DEF Calls
  <2> QED
    BY <1>6, <2>2, <2>4, <2>5 DEF TurnerInit, Resting, pinlabs, motor
<1>7. CASE /\ calls \in Seq({"moveDegree"}) /\ Len(calls) \in 1..4
           /\ Turning(Len(calls)) \/ (Len(calls) = 4 /\ Resting)
  <2>1. calls # <<>> /\ Head(calls) = "moveDegree"
    <3>1. calls # <<>>
      BY <1>7, MotorCalls
    <3>2. Head(calls) \in {"moveDegree"}
      BY <1>7, <3>1, HeadTailProperties
    <3> QED
      BY <3>1, <3>2
  <2>2. moveDegree
    <3>1. \A c : At(c) => c = "moveDegree"
      BY <2>1, HeadOnly
    <3> QED
      BY <1>1, <1>3, <1>4, <3>1, MotorSteps DEF Unload, Calls
  <2>3. PICK n \in 1..4 : n = Len(calls) /\ (Turning(n) \/ (n = 4 /\ Resting))
    BY <1>7
  <2>4. Loop("moveDegree", ONEROUND * Eighths(n))
    BY <2>2, <2>3, MoveTable DEF moveDegree
  <2>5. CASE half < ONEROUND * Eighths(n) /\ During("moveDegree") /\ half' = half + 1
    <3>1. /\ c_step' = IF ThisMove[2] = 0 THEN forward ELSE backward
          /\ setstep(c_step')
      BY <2>2, <2>3, <2>5, MoveTable DEF moveDegree
    <3>2. Turning(n)'
      BY <2>3, <2>5, <3>1, MoveGoesOn
    <3>3. calls' = calls /\ stage' = "init" /\ Len(calls)' = n
      BY <2>3, <2>5 DEF During
    <3>4. Turning(Len(calls))'
      BY <3>2, <3>3 DEF Turning, Before, Eighths, Sense
    <3> QED
      BY <1>7, <3>3, <3>4 DEF TurnerInit
  <2>6. CASE /\ half = ONEROUND * Eighths(n) /\ Calls("moveDegree")
             /\ half' = 0 /\ UNCHANGED <<pins, c_step, shaft>>
    <3>1. /\ calls' = Tail(calls)
          /\ stage' = IF Tail(calls) # <<>> THEN "init" ELSE "live"
      BY <2>6 DEF Calls
    <3>2. /\ calls' \in Seq({"moveDegree"}) /\ Len(calls') = n - 1
      BY <1>7, <2>1, <2>3, <3>1, HeadTailProperties
    <3>3. shaft' = ONEROUND * Before(n - 1) /\ c_step' = shaft' % 8
      BY <2>3, <2>6, MoveEnds
    <3>4. CASE n = 1
      <4>1. calls' = <<>> /\ stage' = "live"
        BY <3>1, <3>2, <3>4, EmptySeq
      <4>2. shaft' = ONEROUND * Before(0)'
        BY <3>3, <3>4 DEF Before
      <4> QED
        BY <2>6, <4>1, <4>2 DEF Later
    <3>5. CASE n # 1
      <4>1. stage' = "init" /\ Len(calls') \in 1..4
        BY <2>3, <3>1, <3>2, <3>5, MotorCalls
      <4>2. /\ ONEROUND * Eighths(n - 1) \in Nat /\ Sense(n - 1) * 0 = 0
            /\ ONEROUND * Before(n - 1) \in Int
        BY <2>3, <3>5, TurnsNat
      <4>3. /\ shaft' = ONEROUND * Before(n - 1) + Sense(n - 1) * half'
            /\ half' \in 0..(ONEROUND * Eighths(n - 1))
        BY <2>6, <3>3, <4>2
      <4>4. Turning(Len(calls))'
        BY <3>2, <3>3, <4>3 DEF Turning, Before, Eighths, Sense
      <4> QED
        BY <3>2, <4>1, <4>4 DEF TurnerInit
    <3> QED
      BY <3>4, <3>5
  <2> QED
    BY <2>4, <2>5, <2>6 DEF Loop
<1> QED
  BY <1>6, <1>7 DEF TurnerInit

(* What lies behind the arrays turns the shaft by three half steps at most.*)
LEMMA StrayTurn ==
    ASSUME Harmless, shaft \in Int, setstep(8)
    PROVE  /\ shaft % 8 = 7 => shaft' \in (shaft - 1)..(shaft + 3)
           /\ shaft % 8 = 1 => shaft' \in (shaft - 3)..(shaft + 1)
<1>1. PICK f \in {8, 0, 1, 2, 6, 7} : f = Field(stray)
  BY DEF Harmless
<1>2. shaft' \in Turns(f)
  BY <1>1 DEF setstep, Coils
<1>3. CASE f = 8
  BY <1>2, <1>3 DEF Turns
<1>4. ASSUME NEW e \in -3..3, f # 8, (shaft + e) % 8 = f
      PROVE  shaft' = shaft + e
  BY <1>1, <1>2, <1>4, TurnsTo
<1>5. PICK q \in Int : shaft = 8 * q + (shaft % 8)
  BY Z3
<1>6. CASE f # 8 /\ shaft % 8 = 7
  <2>1. \/ f = 0 /\ (shaft + 1) % 8 = 0
        \/ f = 1 /\ (shaft + 2) % 8 = 1
        \/ f = 2 /\ (shaft + 3) % 8 = 2
        \/ f = 6 /\ (shaft + (-1)) % 8 = 6
        \/ f = 7 /\ (shaft + 0) % 8 = 7
    BY <1>1, <1>5, <1>6
  <2>2. shaft' \in {shaft + 1, shaft + 2, shaft + 3, shaft + (-1), shaft + 0}
    BY <1>4, <1>6, <2>1
  <2> QED
    BY <1>6, <2>2
<1>7. CASE f # 8 /\ shaft % 8 = 1
  <2>1. \/ f = 0 /\ (shaft + (-1)) % 8 = 0
        \/ f = 1 /\ (shaft + 0) % 8 = 1
        \/ f = 2 /\ (shaft + 1) % 8 = 2
        \/ f = 6 /\ (shaft + (-3)) % 8 = 6
        \/ f = 7 /\ (shaft + (-2)) % 8 = 7
    BY <1>1, <1>5, <1>7
  <2>2. shaft' \in {shaft + 1, shaft + (-2), shaft + (-3), shaft + (-1), shaft + 0}
    BY <1>4, <1>7, <2>1
  <2> QED
    BY <1>7, <2>2
<1> QED
  BY <1>3, <1>6, <1>7

(* A half step there, and one back.                                        *)
LEMMA StepThere ==
    ASSUME half \in Nat, There, half' = half + 1, setstep(half % 8)
    PROVE  There'
<1>1. half % 8 \in 0..7
  OBVIOUS
<1>2. CASE half = 0
  <2>1. shaft \in -2..2
    BY <1>2 DEF There
  <2>2. PICK e \in -2..2 : shaft + e = 0
    BY <2>1
  <2>3. shaft \in Int /\ (shaft + e) % 8 = 0 /\ half % 8 = 0
    BY <1>2, <2>1, <2>2
  <2>4. shaft' = shaft + e
    BY <1>2, <2>2, <2>3, HalfStep
  <2> QED
    BY <1>2, <2>2, <2>4 DEF There
<1>3. CASE half > 0
  <2>1. shaft = half - 1 /\ shaft \in Int /\ (shaft + 1) % 8 = half % 8
    BY <1>3 DEF There
  <2>2. shaft' = shaft + 1
    BY <1>1, <2>1, HalfStep
  <2> QED
    BY <1>3, <2>1, <2>2 DEF There
<1> QED
  BY <1>2, <1>3

LEMMA StepBack ==
    ASSUME half \in Nat, half < 8 * ONEROUND, Harmless, Back,
           half' = half + 1, setstep(8 - (half % 8))
    PROVE  Back'
<1>1. PICK k \in Nat, g \in Nat, m \in 0..7 :
         k = ONEROUND /\ half = 8 * g + m /\ m = half % 8
  <2>1. half = 8 * (half \div 8) + (half % 8) /\ half \div 8 \in Nat
    BY Z3
  <2>2. half % 8 \in 0..7 /\ ONEROUND \in Nat
    BY PinAssumption
  <2> QED
    BY <2>1, <2>2
<1> DEFINE ahead == 8 * k + 1 - half
<1>2. /\ half = 0 => shaft = ahead - 2
      /\ half % 8 = 1 => shaft \in (ahead - 2)..(ahead + 2)
      /\ half > 0 /\ half % 8 # 1 => shaft = ahead
  BY <1>1 DEF Back
<1>3. half' > 0 /\ 8 * ONEROUND + 1 - half' = ahead - 1
  BY <1>1
<1>4. ASSUME m = 0 => shaft' \in (ahead - 3)..(ahead + 1),
             m # 0 => shaft' = ahead - 1
      PROVE  Back'
  <2>1. half' % 8 = 1 <=> m = 0
    BY <1>1
  <2> QED
    BY <1>3, <1>4, <2>1 DEF Back
<1>5. CASE half = 0
  <2>1. shaft = 8 * k - 1 /\ m = 0
    BY <1>1, <1>2, <1>5
  <2>2. shaft \in Int /\ shaft % 8 = 7
    BY <2>1
  <2>3. shaft' \in (shaft - 1)..(shaft + 3)
    BY <1>1, <2>1, <2>2, StrayTurn
  <2> QED
    BY <1>4, <1>5, <2>1, <2>3
<1>6. CASE half > 0 /\ m = 0
  <2>1. shaft = 8 * k + 1 - half /\ half = 8 * g
    BY <1>1, <1>2, <1>6
  <2>2. shaft \in Int /\ shaft % 8 = 1
    BY <2>1
  <2>3. shaft' \in (shaft - 3)..(shaft + 1)
    BY <1>1, <1>6, <2>2, StrayTurn
  <2> QED
    BY <1>4, <1>6, <2>1, <2>3
<1>7. CASE m = 1
  <2>1. shaft \in (ahead - 2)..(ahead + 2) /\ ahead = 8 * k + 1 - half
    BY <1>1, <1>2, <1>7
  <2>2. PICK e \in -3..3 : shaft + e = 8 * k - half
    BY <1>1, <2>1
  <2>3. shaft \in Int /\ (shaft + e) % 8 = 7
    BY <1>1, <1>7, <2>1, <2>2
  <2>4. shaft' = shaft + e
    BY <1>1, <1>7, <2>3, HalfStep
  <2> QED
    BY <1>1, <1>4, <1>7, <2>2, <2>4
<1>8. CASE m \in 2..7
  <2>1. shaft = 8 * k + 1 - half /\ shaft \in Int
    BY <1>1, <1>2, <1>8
  <2>2. (shaft + (-1)) % 8 = 8 - m /\ 8 - m \in 0..7
    BY <1>1, <1>8, <2>1
  <2>3. shaft' = shaft + (-1)
    BY <1>1, <2>1, <2>2, HalfStep
  <2> QED
    BY <1>4, <1>8, <2>1, <2>3
<1> QED
  BY <1>1, <1>5, <1>6, <1>7, <1>8

(* init of simple_motor.                                                   *)
LEMMA MoverNext ==
    ASSUME driver = "simple_motor", stage = "init", MoverInit, PinNext
    PROVE  IF stage' = "init" THEN MoverInit'
           ELSE Later' /\ (Harmless' => shaft' = 1)
<1>1. driver \in Motors /\ stage # "live" /\ ONEROUND \in Nat \ {0}
  BY PinAssumption DEF Motors
<1>2. simple_forward => At("forward") /\ UNCHANGED stray
  BY DEF simple_forward, Loop, Calls, During
<1>3. simple_backward => At("backward") /\ UNCHANGED stray
  BY DEF simple_backward, Loop, Calls, During
<1>4. moveDegree => At("moveDegree")
  BY DEF moveDegree
<1>5. CASE calls = simple_motor_init /\ half = 0 /\ There
  <2>1. \A c : At(c) => c = "gpio_request"
    BY <1>5, HeadOnly, MotorCalls
  <2>2. Calls("gpio_request") /\ UNCHANGED pinlabs
    BY <1>1, <1>2, <1>3, <1>4, <2>1, MotorSteps DEF Unload, Calls
  <2>3. calls' = <<"forward", "backward">> /\ stage' = "init"
    BY <1>5, <2>2, MotorCalls DEF Calls
  <2>4. There' /\ half' = 0
    BY <1>5, <2>2 DEF There, pinlabs, motor
  <2>5. half' \in 0..(8 * ONEROUND)
    BY <1>1, <2>4
  <2> QED
    BY <2>3, <2>4, <2>5 DEF MoverInit
<1>6. CASE calls = <<"forward", "backward">> /\ half \in 0..(8 * ONEROUND) /\ There
  <2>1. \A c : At(c) => c = "forward"
    BY <1>6, HeadOnly, MotorCalls
  <2>2. simple_forward
    BY <1>1, <1>3, <1>4, <2>1, MotorSteps DEF Unload, Calls
  <2>3. CASE half < 8 * ONEROUND
    <3>5. half # 8 * ONEROUND
      BY <1>1, <2>3
    <3>1. /\ During("forward") /\ half' = half + 1 /\ setstep(half % 8)
      BY <2>2, <2>3, <3>5 DEF simple_forward, Loop
    <3>2. calls' = calls /\ stage' = "init"
      BY <3>1 DEF During
    <3>3. half' \in 0..(8 * ONEROUND) /\ half \in Nat
      BY <1>1, <1>6, <2>3, <3>1
    <3>4. There'
      BY <1>6, <3>1, <3>3, StepThere
    <3> QED
      BY <1>6, <3>2, <3>3, <3>4 DEF MoverInit
  <2>4. CASE ~(half < 8 * ONEROUND)
    <3>1. /\ Calls("forward") /\ half' = 0 /\ half = 8 * ONEROUND
          /\ shaft' = shaft
      BY <2>2, <2>4 DEF simple_forward, Loop
    <3>2. calls' = <<"backward">> /\ stage' = "init"
      BY <1>6, <3>1, MotorCalls DEF Calls
    <3>3. shaft' = 8 * ONEROUND - 1
      BY <1>1, <1>6, <3>1 DEF There
    <3>4. Back'
      BY <1>1, <3>1, <3>3 DEF Back
    <3>5. half' \in 0..(8 * ONEROUND)
      BY <1>1, <3>1
    <3> QED
      BY <3>2, <3>4, <3>5 DEF MoverInit
  <2> QED
    BY <2>3, <2>4
<1>7. CASE /\ calls = <<"backward">> /\ half \in 0..(8 * ONEROUND)
           /\ Harmless => Back
  <2>1. \A c : At(c) => c = "backward"
    BY <1>7, HeadOnly, MotorCalls
  <2>2. simple_backward
    BY <1>1, <1>2, <1>4, <2>1, MotorSteps DEF Unload, Calls
  <2>3. Harmless' = Harmless
    BY <1>3, <2>2 DEF Harmless, Field, Pull, Coils
  <2>4. CASE half < 8 * ONEROUND
    <3>5. half # 8 * ONEROUND
      BY <1>1, <2>4
    <3>1. /\ During("backward") /\ half' = half + 1
          /\ setstep(8 - (half % 8))
      BY <2>2, <2>4, <3>5 DEF simple_backward, Loop
    <3>2. calls' = calls /\ stage' = "init"
      BY <3>1 DEF During
    <3>3. half' \in 0..(8 * ONEROUND) /\ half \in Nat
      BY <1>1, <1>7, <2>4, <3>1
    <3>4. Harmless => Back'
      BY <1>7, <2>4, <3>1, <3>3, StepBack
    <3> QED
      BY <1>7, <2>3, <3>2, <3>3, <3>4 DEF MoverInit
  <2>5. CASE ~(half < 8 * ONEROUND)
    <3>1. /\ Calls("backward") /\ half' = 0 /\ half = 8 * ONEROUND
          /\ shaft' = shaft
      BY <2>2, <2>5 DEF simple_backward, Loop
    <3>2. calls' = <<>> /\ stage' = "live"
      BY <1>7, <3>1, MotorCalls DEF Calls
    <3>3. Harmless => shaft' = 1
      <4>1. half > 0 /\ half % 8 # 1
        BY <1>1, <3>1
      <4>2. 8 * ONEROUND + 1 - half = 1
        BY <1>1, <3>1
      <4> QED
        BY <1>7, <3>1, <4>1, <4>2 DEF Back
    <3> QED
      BY <2>3, <3>1, <3>2, <3>3 DEF Later
  <2> QED
    BY <2>4, <2>5
<1> QED
  BY <1>5, <1>6, <1>7 DEF MoverInit

LEMMA MotorInvInit ==
    ASSUME Init
    PROVE  MotorInv
<1>1. /\ stage = "init" /\ half = 0 /\ c_step = 0
      /\ driver \in Motors => shaft \in -2..2
  BY DEF Init, LabInit, PinInit, Motors
<1>2. driver \in Motors => calls = PinInitCalls[driver]
  BY DEF Init, Motors, DeferredDrivers, DeferredInitCalls, SensorDrivers,
     SensorInitCalls, CharDrivers, CharInitCalls, FirstDrivers, FirstInitCalls
<1>3. driver \in {"ch10", "test"} => calls = ch10_motor_init /\ Resting
  BY <1>1, <1>2 DEF Motors, PinInitCalls, Resting
<1>4. driver = "simple_motor" => calls = simple_motor_init /\ There
  BY <1>1, <1>2 DEF Motors, PinInitCalls, There
<1> QED
  BY <1>1, <1>3, <1>4 DEF MotorInv, TurnerInit, MoverInit

LEMMA MotorInvNext ==
    ASSUME MotorInv, [Next]_vars
    PROVE  MotorInv'
<1>1. driver' = driver
  BY DriverStays
<1>2. CASE driver \notin Motors
  BY <1>1, <1>2 DEF MotorInv, Motors
<1>3. CASE UNCHANGED <<driver, stage, calls, pinlabs>>
  BY <1>3 DEF MotorInv, TurnerInit, MoverInit, Later, There, Back, Resting,
     Turning, Before, Eighths, Sense, Harmless, Field, Pull, Coils, pinlabs,
     motor
<1>4. CASE driver \in {"ch10", "test"} /\ PinNext
  <2>1. Before(0)' = Before(0)
    BY <1>1 DEF Before
  <2>2. CASE stage = "init"
    BY <1>1, <1>4, <2>1, <2>2, TurnerNext DEF MotorInv
  <2>3. CASE stage # "init"
    BY <1>1, <1>4, <2>1, <2>3, LaterNext DEF MotorInv, Motors
  <2> QED
    BY <2>2, <2>3
<1>5. CASE driver = "simple_motor" /\ PinNext
  <2>1. CASE stage = "init"
    BY <1>1, <1>5, <2>1, MoverNext DEF MotorInv
  <2>2. CASE stage # "init"
    <3>1. stage' # "init" /\ Later' /\ UNCHANGED <<shaft, stray>>
      BY <1>5, <2>2, LaterNext DEF MotorInv, Motors
    <3>2. Harmless' = Harmless
      BY <3>1 DEF Harmless, Field, Pull, Coils
    <3> QED
      BY <1>1, <1>5, <2>2, <3>1, <3>2 DEF MotorInv
  <2> QED
    BY <2>1, <2>2
<1> QED
  BY <1>2, <1>3, <1>4, <1>5, MotorsOnly DEF Motors

(* The shaft of ch10 and test stands where their moves say, and that of    *)
(* simple_motor where it began, for any number of half steps to 45 degrees.*)
THEOREM ShaftIsWhereMovesSay == Spec => []ShaftWhereMovesSay
<1>1. Init => MotorInv
  BY MotorInvInit
<1>2. MotorInv /\ [Next]_vars => MotorInv'
  BY MotorInvNext
<1>3. MotorInv => ShaftWhereMovesSay
  <2> SUFFICES ASSUME MotorInv PROVE ShaftWhereMovesSay
    OBVIOUS
  <2>1. ASSUME NEW d \in {"ch10", "test"}, NEW k \in 1..4, driver = d,
               stage # "exit", half = 0, Len(calls) = 4 - k
        PROVE  45 * shaft = ONEROUND * Stops[d][k]
    <3>1. ONEROUND \in Nat /\ k \in {1, 2, 3, 4}
      BY PinAssumption
    <3>2. shaft = ONEROUND * Before(4 - k)
      <4>1. CASE stage = "init"
        <5>1. Len(ch10_motor_init) = 5
          BY DEF ch10_motor_init
        <5>2. Len(calls) \in 1..3
          BY <2>1, <4>1, <5>1 DEF MotorInv, TurnerInit
        <5>3. Turning(4 - k)
          BY <2>1, <4>1, <5>1, <5>2 DEF MotorInv, TurnerInit
        <5>4. Sense(4 - k) * 0 = 0 /\ ONEROUND * Before(4 - k) \in Int
          <6>1. Sense(4 - k) \in {1, -1} /\ Before(4 - k) \in Int
            BY <3>1 DEF Sense, Before
          <6>2. \A a, b \in Int : a * b \in Int
            BY Z3
          <6> QED
            BY <3>1, <6>1, <6>2
        <5> QED
          BY <2>1, <5>3, <5>4 DEF Turning
      <4>2. CASE stage # "init"
        <5>1. calls = <<>> /\ shaft = ONEROUND * Before(0)
          BY <2>1, <4>2 DEF MotorInv, Later
        <5>2. 4 - k = 0
          BY <2>1, <5>1, MotorCalls
        <5> QED
          BY <5>1, <5>2
      <4> QED
        BY <4>1, <4>2
    <3>3. Stops[d][k] = 45 * Before(4 - k) /\ Before(4 - k) \in Int
      <4>1. CASE d = "ch10"
        BY <2>1, <3>1, <4>1 DEF Stops, Before
      <4>2. CASE d = "test"
        BY <2>1, <3>1, <4>2 DEF Stops, Before
      <4> QED
        BY <4>1, <4>2
    <3>4. \A a, b \in Int : 45 * (a * b) = a * (45 * b)
      BY Z3
    <3> QED
      BY <3>1, <3>2, <3>3, <3>4
  <2>2. driver = "simple_motor" /\ stage = "live" /\ Harmless => shaft = 1
    BY DEF MotorInv
  <2> QED
    BY <2>1, <2>2 DEF ShaftWhereMovesSay
<1> QED
  BY <1>1, <1>2, <1>3, PTL DEF Spec
=============================================================================
