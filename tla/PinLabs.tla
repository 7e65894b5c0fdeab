------------------------------ MODULE PinLabs -------------------------------
(***************************************************************************)
(* The drivers that do their work while they are loaded, and give their    *)
(* pins back when they are unloaded: simple_led and simple_switch (Lab09), *)
(* simple_speaker, simple_motor, ch10 and test (Lab12).  The three motor   *)
(* drivers switch four coils; the shaft follows their field.               *)
(***************************************************************************)
EXTENDS LabModule, Integers

CONSTANTS ONEROUND,     \* half steps that turn the shaft by 45 degrees
          PERIODS       \* periods of a note of simple_speaker

ASSUME PinAssumption == ONEROUND \in Nat \ {0} /\ PERIODS \in Nat \ {0}

VARIABLES
    count,      \* pushes seen, or levels played
    half,       \* half steps made in this call
    c_step,     \* the phase of ch10 and test
    shaft,      \* the half step the shaft stands at
    stray       \* what lies behind the four arrays of simple_motor

motor == <<half, c_step, shaft>>
pinlabs == <<count, motor, stray>>

-----------------------------------------------------------------------------
simple_led_init == <<"gpio_request", "set_high">>
simple_switch_init == <<"gpio_request", "poll">>
simple_speaker_init == <<"gpio_request", "play", "set_low">>
simple_motor_init == <<"gpio_request", "forward", "backward">>
ch10_motor_init ==
    <<"gpio_request", "moveDegree", "moveDegree", "moveDegree", "moveDegree">>

PinInitCalls ==
    [simple_led |-> simple_led_init, simple_switch |-> simple_switch_init,
     simple_speaker |-> simple_speaker_init,
     simple_motor |-> simple_motor_init,
     ch10 |-> ch10_motor_init, test |-> ch10_motor_init]

PinDrivers == DOMAIN PinInitCalls

(* Degrees and direction of the moves of ch10 and of test.                 *)
ch10_moves == <<<<90, 0>>, <<45, 0>>, <<45, 0>>, <<180, 0>>>>
test_moves == <<<<90, 1>>, <<45, 0>>, <<45, 1>>, <<180, 0>>>>

simple_led_exit == <<"set_low", "gpio_free">>
simple_switch_exit == <<"gpio_free">>
simple_speaker_exit == <<"set_low", "gpio_free">>
simple_motor_exit == <<"gpio_free">>
ch10_motor_exit == <<"gpio_free">>
test_motor_exit == <<"gpio_free">>

PinExitCalls ==
    [simple_led |-> simple_led_exit, simple_switch |-> simple_switch_exit,
     simple_speaker |-> simple_speaker_exit,
     simple_motor |-> simple_motor_exit,
     ch10 |-> ch10_motor_exit, test |-> test_motor_exit]

(* The shaft may rest anywhere within reach of the first phases.           *)
PinInit ==
    /\ count = 0 /\ half = 0 /\ c_step = 0
    /\ \/ driver \in {"simple_motor", "ch10", "test"} /\ shaft \in -2..2
       \/ driver \notin {"simple_motor", "ch10", "test"} /\ shaft = 0
    /\ \/ driver = "simple_motor" /\ stray \in [1..4 -> 0..1]
       \/ driver # "simple_motor" /\ stray = <<0, 0, 0, 0>>

-----------------------------------------------------------------------------
(* The loop of simple_switch: once a second it reads the switch, until it  *)
(* has found it pushed five times.                                         *)
Poll ==
    /\ IF count = 5
       THEN Calls("poll") /\ UNCHANGED count
       ELSE During("poll") /\ count' \in {count, count + 1}
    /\ UNCHANGED <<pins, interrupt, bug, motor, stray>>

(* The loops of simple_speaker: seven notes, each period high and low.     *)
play ==
    /\ IF count = 7 * 2 * PERIODS
       THEN Calls("play") /\ UNCHANGED <<pins, count>>
       ELSE During("play") /\ count' = count + 1 /\ SetPin(~level)
    /\ UNCHANGED <<interrupt, bug, motor, stray>>

-----------------------------------------------------------------------------
(* The levels of the four coils in phase j; behind the arrays, at index 8, *)
(* lies what the build has put there.                                      *)
Coils(j) ==
    LET On(phases) == IF j \in phases THEN 1 ELSE 0
        blue == On({7, 0, 1})
        pink == On({1, 2, 3})
        yellow == On({3, 4, 5})
        orange == On({5, 6, 7})
    IN  IF j \in 0..7 THEN <<blue, pink, yellow, orange>> ELSE stray

(* The direction of the coils' field, that of the phase with the same pull; *)
(* blue and yellow, and pink and orange oppose each other.  8 for no pull. *)
Pull(coils) == <<coils[1] - coils[3], coils[2] - coils[4]>>

Field(coils) ==
    IF Pull(coils) = <<0, 0>> THEN 8
    ELSE CHOOSE j \in 0..7 : Pull(Coils(j)) = Pull(coils)

(* The shaft turns to the field the shorter way; when it stands opposite   *)
(* it may turn either way or stay.                                         *)
Turns(field) ==
    LET d == (field - shaft) % 8
    IN  CASE field = 8 -> {shaft}
          [] field # 8 /\ d < 4 -> {shaft + d}
          [] field # 8 /\ d > 4 -> {shaft + d - 8}
          [] OTHER -> {shaft - 4, shaft, shaft + 4}

setstep(j) == shaft' \in Turns(Field(Coils(j))) /\ UNCHANGED pins

(* One round of the inner loop, or the end of the outer one. *)
Loop(c, halves) ==
    /\ \/ half = halves /\ Calls(c) /\ half' = 0
          /\ UNCHANGED <<pins, c_step, shaft>>
       \/ half < halves /\ During(c) /\ half' = half + 1
    /\ UNCHANGED <<interrupt, bug, count, stray>>

(* simple_motor: whole turns; backward runs from 8 down to 1.              *)
simple_forward ==
    /\ Loop("forward", 8 * ONEROUND)
    /\ half < 8 * ONEROUND => setstep(half % 8) /\ UNCHANGED c_step

simple_backward ==
    /\ Loop("backward", 8 * ONEROUND)
    /\ half < 8 * ONEROUND => setstep(8 - (half % 8)) /\ UNCHANGED c_step

(* Mutant: each call starts with the phase after 0.                        *)
Restart == IF half = 0 THEN 1 ELSE (c_step + 1) % 8

forward == IF c_step + 1 > 7 THEN 0 ELSE c_step + 1
backward == IF c_step - 1 < 0 THEN 7 ELSE c_step - 1

ThisMove ==
    LET moves == IF driver = "test" THEN test_moves ELSE ch10_moves
    IN  moves[5 - Len(calls)]

moveDegree ==
    LET degree == ThisMove[1]
        direction == ThisMove[2]
        step == degree \div 45
    IN  /\ At("moveDegree")
        /\ Loop("moveDegree", ONEROUND * step)
        /\ half < ONEROUND * step =>
              /\ c_step' = IF direction = 0 THEN forward ELSE backward
              /\ setstep(c_step')

PinCalls ==
    \/ CommonCalls /\ UNCHANGED pinlabs
    \/ Poll \/ play
    \/ simple_forward \/ simple_backward \/ moveDegree

PinNext ==
    /\ driver \in PinDrivers
    /\ \/ PinCalls
       \/ Unload(PinExitCalls[driver]) /\ UNCHANGED pinlabs

PinTypeOK ==
    /\ count \in 0..(5 + 14 * PERIODS)
    /\ half \in 0..(8 * ONEROUND)
    /\ c_step \in 0..7 /\ shaft \in Int
    /\ stray \in [1..4 -> 0..1]

-----------------------------------------------------------------------------
(* Where the shaft of ch10 and test stands, in degrees, after each move.   *)
Stops ==
    [ch10 |-> <<90, 135, 180, 360>>, test |-> <<-90, -45, -90, 90>>]

(* What lies behind the arrays neither turns the shaft across nor leaves   *)
(* it in doubt.                                                            *)
Harmless == Field(stray) \in {8, 0, 1, 2, 6, 7}

(* The shaft turns by what the moves say, though every move goes on from   *)
(* the phase in which the last one has stopped: ch10 turns it once round,  *)
(* test a quarter.  simple_motor, which never energizes phase 0 on its way *)
(* back, returns to within one half step, unless the memory behind its     *)
(* arrays, which backward reads, happens to hold an opposite field.        *)
ShaftWhereMovesSay ==
    /\ \A d \in {"ch10", "test"}, k \in 1..4 :
          driver = d /\ stage # "exit" /\ half = 0 /\ Len(calls) = 4 - k
              => 45 * shaft = ONEROUND * Stops[d][k]
    /\ driver = "simple_motor" /\ stage = "live" /\ Harmless => shaft = 1
=============================================================================
