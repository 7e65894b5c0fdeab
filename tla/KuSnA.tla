-------------------------------- MODULE KuSnA --------------------------------
(***************************************************************************)
(* The door opener of assignment 2, ku_SnA.c: a switch whose interrupt     *)
(* turns a stepper motor one turn forward, the next time one turn back,    *)
(* and plays a scale; applications enable and disable it with ioctl.       *)
(*                                                                         *)
(* The interrupt is served by processor 0 with its interrupts off.  While  *)
(* the handler runs, which takes seconds, the processes of processor 0 do  *)
(* not; and while one of them holds or waits for my_lock, with interrupts  *)
(* off, no handler starts.  The interrupt controller remembers one edge,   *)
(* however often the switch closes until the handler can start.            *)
(***************************************************************************)
EXTENDS Integers, Sequences, FiniteSets

CONSTANTS
    App,            \* applications
    OnCpu0,         \* those that run on the processor of the interrupt
    ONEROUND,       \* half steps per eighth of a turn, 512
    CanUnload,      \* may rmmod run?
    ISR, NULL

ASSUME KuSnAAssumption ==
    /\ OnCpu0 \subseteq App
    /\ ONEROUND \in Nat \ {0}
    /\ CanUnload \in BOOLEAN
    /\ ISR \notin App /\ NULL \notin App \cup {ISR}

VARIABLES
    app_state,      \* 1: the switch is enabled
    state,          \* 1: the motor is one turn ahead
    c_step,         \* phase of the motor, 0 to 7
    lock,           \* my_lock: its holder, or NULL
    isr,            \* where the interrupt handler is, "idle" outside it
    note, left,     \* the loop variables: scale note, half steps to go
    pc, cmd,        \* where each application is, and its ioctl command
    module,         \* "live", "masked" by disable_irq, "gone"
    pending,        \* an edge of the switch waits for the handler
    pins,           \* the levels of PIN1 to PIN4
    shaft,          \* the shaft, in half steps from where it was at first
    melody          \* the notes heard during the present or last turn

driver == <<app_state, state, c_step, lock, isr, note, left>>
users == <<pc, cmd, module>>
outside == <<pending, pins, shaft, melody>>
vars == <<driver, users, outside>>

Turn == 8 * ONEROUND

-----------------------------------------------------------------------------
(* The columns of the half-step table, by c_step + 1.                      *)
blue   == <<1, 1, 0, 0, 0, 0, 0, 1>>
pink   == <<0, 1, 1, 1, 0, 0, 0, 0>>
yellow == <<0, 0, 0, 1, 1, 1, 0, 0>>
orange == <<0, 0, 0, 0, 0, 1, 1, 1>>

(* Mutant: the pink column starts one phase late.                          *)
PhaseLatePink(c) == <<blue[c + 1], <<0, 0, 1, 1, 1, 0, 0, 0>>[c + 1],
                      yellow[c + 1], orange[c + 1]>>

(* What setstep puts on the four pins in phase c.                          *)
Phase(c) == <<blue[c + 1], pink[c + 1], yellow[c + 1], orange[c + 1]>>

AllLow == <<0, 0, 0, 0>>

(* Mutant: the wrap-around is missed.                                      *)
ForwardShort(c) == IF c + 1 > 6 THEN 0 ELSE c + 1

Forward(c) == IF c + 1 > 7 THEN 0 ELSE c + 1

Backward(c) == IF c - 1 < 0 THEN 7 ELSE c - 1

(* The coils of a 28BYJ stepper attract the rotor in eight directions.     *)
Directions ==
    << <<1, 0, 0, 0>>, <<1, 1, 0, 0>>, <<0, 1, 0, 0>>, <<0, 1, 1, 0>>,
       <<0, 0, 1, 0>>, <<0, 0, 1, 1>>, <<0, 0, 0, 1>>, <<1, 0, 0, 1>> >>

(* How far the rotor may turn when it stands at s and the pins become new: *)
(* to the neighbouring direction; anything further and it may slip either  *)
(* way.  It stands in direction 0 when the driver is loaded.               *)
RotorTurns(s, new) ==
    {d \in {-1, 0, 1} : Directions[((s + d) % 8) + 1] = new}

Slips == {-1, 0, 1}

-----------------------------------------------------------------------------
Init ==
    /\ app_state = 0 /\ state = 0 /\ c_step = 0
    /\ lock = NULL
    /\ isr = "idle"
    /\ note = 0 /\ left = 0
    /\ pc = [a \in App |-> "user"]
    /\ cmd = [a \in App |-> "none"]
    /\ module = "live"
    /\ pending = FALSE
    /\ pins = AllLow
    /\ shaft = 0
    /\ melody = <<>>

(* A rising edge on the switch. *)
Press ==
    /\ module # "gone"
    /\ pending' = TRUE
    /\ UNCHANGED <<driver, users, pins, shaft, melody>>

-----------------------------------------------------------------------------
(* Mutant: spin_lock instead of spin_lock_irqsave.                         *)
InterruptsOn == TRUE

(* spin_lock_irqsave of an application keeps interrupts off.               *)
InterruptsOff == \A a \in OnCpu0 : pc[a] = "user"

(* The handler starts; the edge is acknowledged. *)
IsrEnter ==
    /\ isr = "idle"
    /\ pending
    /\ module = "live"
    /\ InterruptsOff
    /\ pending' = FALSE
    /\ isr' = "enter"
    /\ UNCHANGED <<app_state, state, c_step, lock, note, left, users,
                   pins, shaft, melody>>

(* Mutant: the scale is played upwards in both directions.                 *)
FirstUp == 0

FirstNote == IF state = 0 THEN 0 ELSE 7

(* switch_irq_isr reads app_state without the lock; func reads state.      *)
IsrCheck ==
    /\ isr = "enter"
    /\ IF app_state = 1
       THEN /\ isr' = "motor"
            /\ note' = FirstNote
            /\ left' = ONEROUND
            /\ melody' = <<>>
       ELSE /\ isr' = "idle"
            /\ UNCHANGED <<note, left, melody>>
    /\ UNCHANGED <<app_state, state, c_step, lock, users,
                   pending, pins, shaft>>

(* forward or backward, one pass of the loop: the phase and setstep.       *)
MotorStep ==
    /\ isr = "motor"
    /\ left > 0
    /\ left' = left - 1
    /\ c_step' = IF state = 0 THEN Forward(c_step) ELSE Backward(c_step)
    /\ pins' = Phase(c_step')
    /\ LET turns == RotorTurns(shaft, pins') IN
        \E d \in IF turns = {} THEN Slips ELSE turns : shaft' = shaft + d
    /\ UNCHANGED <<app_state, state, lock, isr, note, users, pending, melody>>

LastNote == IF state = 0 THEN 7 ELSE 0

(* spk after moveDegree, and the end of the loop pass of func.             *)
PlayNote ==
    /\ isr = "motor"
    /\ left = 0
    /\ melody' = Append(melody, note)
    /\ IF note = LastNote
       THEN isr' = "lock" /\ UNCHANGED <<note, left>>
       ELSE /\ note' = IF state = 0 THEN note + 1 ELSE note - 1
            /\ left' = ONEROUND
            /\ isr' = isr
    /\ UNCHANGED <<app_state, state, c_step, lock, users,
                   pending, pins, shaft>>

IsrLock ==
    /\ isr = "lock"
    /\ lock = NULL
    /\ lock' = ISR
    /\ isr' = "flip"
    /\ UNCHANGED <<app_state, state, c_step, note, left, users, outside>>

(* Mutant: the lock is not released.                                       *)
HeldOn == lock

Released == NULL

(* Mutant: the direction is never changed.                                 *)
Same(s) == s

Other(s) == 1 - s

(* state is changed, my_lock released, and the handler returns.            *)
IsrFlip ==
    /\ isr = "flip"
    /\ state' = Other(state)
    /\ lock' = Released
    /\ isr' = "idle"
    /\ UNCHANGED <<app_state, c_step, note, left, users, outside>>

-----------------------------------------------------------------------------
(* a has a processor: it is not interrupted by the handler.                *)
Runs(a) == a \in OnCpu0 => isr = "idle"

Ioctl(a, c) ==
    /\ pc[a] = "user" /\ Runs(a)
    /\ module # "gone"
    /\ pc' = [pc EXCEPT ![a] = "spin"]
    /\ cmd' = [cmd EXCEPT ![a] = c]
    /\ UNCHANGED <<driver, module, outside>>

IoctlLock(a) ==
    /\ pc[a] = "spin" /\ Runs(a)
    /\ lock = NULL
    /\ lock' = a
    /\ pc' = [pc EXCEPT ![a] = "set"]
    /\ UNCHANGED <<app_state, state, c_step, isr, note, left,
                   cmd, module, outside>>

(* app_state is set and the lock released. *)
IoctlSet(a) ==
    /\ pc[a] = "set" /\ Runs(a)
    /\ app_state' = IF cmd[a] = "IOCTL_RUN" THEN 1 ELSE 0
    /\ lock' = Released
    /\ pc' = [pc EXCEPT ![a] = "user"]
    /\ cmd' = [cmd EXCEPT ![a] = "none"]
    /\ UNCHANGED <<state, c_step, isr, note, left, module, outside>>

-----------------------------------------------------------------------------
(* ku_exit: cdev_del, then disable_irq masks the interrupt.                *)
ExitMask ==
    /\ CanUnload
    /\ module = "live"
    /\ module' = "masked"
    /\ UNCHANGED <<driver, pc, cmd, outside>>

(* Mutant: disable_irq_nosync.                                             *)
NotWaited == TRUE

(* disable_irq returns when no handler is running.                         *)
HandlerDone == isr = "idle"

(* free_irq, gpio_free. *)
ExitFree ==
    /\ module = "masked"
    /\ HandlerDone
    /\ module' = "gone"
    /\ pending' = FALSE
    /\ UNCHANGED <<driver, pc, cmd, pins, shaft, melody>>

-----------------------------------------------------------------------------
Isr == IsrEnter \/ IsrCheck \/ MotorStep \/ PlayNote \/ IsrLock \/ IsrFlip

Call(a) == IoctlLock(a) \/ IoctlSet(a)

Next ==
    \/ Press
    \/ Isr
    \/ \E a \in App : \/ \E c \in {"IOCTL_RUN", "IOCTL_END"} : Ioctl(a, c)
                      \/ Call(a)
    \/ ExitMask \/ ExitFree

Spec == Init /\ [][Next]_vars

(* Processor 0 runs the handler, and every other processor its process.    *)
(* The ticket lock serves its waiters in order; an interrupt that stays    *)
(* pending is taken, for processes do not stay in the kernel.              *)
Fairness ==
    /\ WF_vars(IsrCheck \/ MotorStep \/ PlayNote \/ IsrFlip)
    /\ SF_vars(IsrEnter) /\ SF_vars(IsrLock)
    /\ \A a \in App : SF_vars(IoctlLock(a)) /\ WF_vars(IoctlSet(a))

FairSpec == Spec /\ Fairness

-----------------------------------------------------------------------------
SnATypeOK ==
    /\ app_state \in {0, 1} /\ state \in {0, 1}
    /\ c_step \in 0..7
    /\ lock \in App \cup {ISR, NULL}
    /\ isr \in {"idle", "enter", "motor", "lock", "flip"}
    /\ note \in 0..7 /\ left \in 0..ONEROUND
    /\ pc \in [App -> {"user", "spin", "set"}]
    /\ cmd \in [App -> {"IOCTL_RUN", "IOCTL_END", "none"}]
    /\ module \in {"live", "masked", "gone"}
    /\ pending \in BOOLEAN
    /\ pins \in {AllLow} \cup {Directions[x] : x \in 1..8}
    /\ shaft \in 0..Turn
    /\ melody \in Seq(0..7)

Turning == isr \in {"motor", "lock", "flip"}

(* Between turns the shaft stands where state says: at its start or one    *)
(* whole turn ahead, whatever presses and ioctls came during the turns.    *)
DoorWhereStateSays == ~Turning => shaft = state * Turn

(* The phase the driver keeps is the one the rotor is in.                  *)
PhaseOfRotor == c_step = shaft % 8

(* A note sounds at its eighth of the turn: the melody heard is always the *)
(* part of the scale that belongs to the way the shaft has gone.           *)
NotesFollowShaft ==
    isr = "motor" =>
        LET gone == IF state = 0 THEN shaft ELSE Turn - shaft IN
        /\ gone = Len(melody) * ONEROUND + (ONEROUND - left)
        /\ melody = [x \in 1..Len(melody) |->
                        IF state = 0 THEN x - 1 ELSE 8 - x]

(* The driver touches its pins only while they are requested.              *)
NoGpioAfterFree == Turning => module # "gone"

(* A turn only goes one way, and a press, an ioctl or an unload under way  *)
(* never takes the shaft off it.                                           *)
OneWay ==
    [][shaft' # shaft => /\ shaft' - shaft = IF state = 0 THEN 1 ELSE -1
                         /\ pins # AllLow =>
                              Cardinality({x \in 1..4 : pins'[x] # pins[x]}) = 1]_vars

(* The handler comes to its end and every ioctl returns, although          *)
(* applications on the handler's processor and on others use the lock that *)
(* the handler takes.                                                      *)
CallsReturn ==
    /\ isr # "idle" ~> isr = "idle"
    /\ \A a \in App : pc[a] # "user" ~> pc[a] = "user"

(* A press of the switch reaches the handler unless the driver is removed. *)
PressServed == pending ~> (isr = "enter" \/ module # "live")
=============================================================================
