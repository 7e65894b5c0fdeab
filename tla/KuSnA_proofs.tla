---------------------------- MODULE KuSnA_proofs ----------------------------
(***************************************************************************)
(* Proofs about the door opener for every ONEROUND (512 in the code), any  *)
(* number of applications on any processors, and any timing of presses,    *)
(* ioctls and the unload.                                                  *)
(***************************************************************************)
EXTENDS KuSnA, SequenceTheorems, FiniteSetTheorems, TLAPS

USE KuSnAAssumption

(* The eight directions of the rotor are different.                        *)
LEMMA DirectionsDiffer ==
    ASSUME NEW a \in 1..8, NEW b \in 1..8, Directions[a] = Directions[b]
    PROVE  a = b
  BY DEF Directions

(* The columns of the table give the coils their directions in order.      *)
LEMMA PhaseDirection ==
    ASSUME NEW c \in 0..7
    PROVE  Phase(c) = Directions[c + 1]
  BY DEF Phase, Directions, blue, pink, yellow, orange

(* From each phase to the next and back one coil is switched.              *)
LEMMA OneCoil ==
    ASSUME NEW c \in 0..7, NEW n \in {Forward(c), Backward(c)}
    PROVE  Cardinality({x \in 1..4 : Phase(n)[x] # Phase(c)[x]}) = 1
<1>1. n \in 0..7 /\ n \in {(c + 1) % 8, (c - 1) % 8}
  BY DEF Forward, Backward
<1>2. \E y \in 1..4 : \A x \in 1..4 : Phase(n)[x] # Phase(c)[x] <=> x = y
  <2>1. c = 0 \/ c = 1 \/ c = 2 \/ c = 3 \/ c = 4 \/ c = 5 \/ c = 6 \/ c = 7
    OBVIOUS
  <2>2. 1 \in 1..4 /\ 2 \in 1..4 /\ 3 \in 1..4 /\ 4 \in 1..4
    OBVIOUS
  <2> QED
    BY <1>1, <2>1, <2>2, Z3 DEF Phase, blue, pink, yellow, orange
<1>3. PICK y \in 1..4 : {x \in 1..4 : Phase(n)[x] # Phase(c)[x]} = {y}
  BY <1>2
<1> QED
  BY <1>3, FS_Singleton

(* A rotor in the phase the driver keeps follows its next phase.           *)
LEMMA Follows ==
    ASSUME NEW s \in Int, NEW c \in 0..7, c = s % 8
    PROVE  /\ RotorTurns(s, Phase(Forward(c))) = {1}
           /\ RotorTurns(s, Phase(Backward(c))) = {-1}
           /\ Forward(c) \in 0..7 /\ Forward(c) = (s + 1) % 8
           /\ Backward(c) \in 0..7 /\ Backward(c) = (s - 1) % 8
<1>1. Forward(c) \in 0..7 /\ Forward(c) = (s + 1) % 8
  BY DEF Forward
<1>2. Backward(c) \in 0..7 /\ Backward(c) = (s - 1) % 8
  BY DEF Backward
<1>3. ASSUME NEW n \in 0..7
      PROVE  RotorTurns(s, Phase(n)) = {d \in {-1, 0, 1} : (s + d) % 8 = n}
  <2>1. \A d \in {-1, 0, 1} : (s + d) % 8 \in 0..7
    OBVIOUS
  <2>2. \A d \in {-1, 0, 1} :
            Directions[((s + d) % 8) + 1] = Directions[n + 1] <=> (s + d) % 8 = n
    BY <2>1, DirectionsDiffer
  <2> QED
    BY <2>2, PhaseDirection DEF RotorTurns
<1>4. {d \in {-1, 0, 1} : (s + d) % 8 = (s + 1) % 8} = {1}
  <2>1. (s - 1) % 8 # (s + 1) % 8 /\ s % 8 # (s + 1) % 8
    OBVIOUS
  <2> QED
    BY <2>1
<1>5. {d \in {-1, 0, 1} : (s + d) % 8 = (s - 1) % 8} = {-1}
  <2>1. (s - 1) % 8 # (s + 1) % 8 /\ s % 8 # (s - 1) % 8
    OBVIOUS
  <2> QED
    BY <2>1
<1> QED
  BY <1>1, <1>2, <1>3, <1>4, <1>5

-----------------------------------------------------------------------------
LEMMA TurnNat == Turn \in Nat /\ Turn = 7 * ONEROUND + ONEROUND
  BY DEF Turn

(* The first k notes take k eighths of a turn.                             *)
LEMMA Eighths ==
    ASSUME NEW k \in 0..7
    PROVE  /\ k * ONEROUND \in Nat /\ k * ONEROUND + ONEROUND <= Turn
           /\ (k + 1) * ONEROUND = k * ONEROUND + ONEROUND
<1>1. k = 0 \/ k = 1 \/ k = 2 \/ k = 3 \/ k = 4 \/ k = 5 \/ k = 6 \/ k = 7
  OBVIOUS
<1> QED
  BY <1>1 DEF Turn

(* Where the shaft is at the end of a turn that starts in this state.      *)
Target == IF state = 0 THEN Turn ELSE 0

Start == IF state = 0 THEN 0 ELSE Turn

(* Within a turn the loop variables, the notes heard and the way of the    *)
(* shaft belong together; after its last note the shaft is at the other    *)
(* end, where it stays while the handler waits for the lock and changes    *)
(* state.                                                                  *)
TurnInv ==
    /\ PhaseOfRotor
    /\ pins \in {AllLow, Phase(c_step)}
    /\ isr \in {"idle", "enter"} => shaft = Start
    /\ isr = "motor" =>
        /\ NotesFollowShaft
        /\ Len(melody) \in 0..7
        /\ note = IF state = 0 THEN Len(melody) ELSE 7 - Len(melody)
    /\ isr \in {"lock", "flip"} => shaft = Target
    /\ isr # "idle" => module # "gone"

SnAInv == SnATypeOK /\ TurnInv

LEMMA SnAInit == Init => SnAInv
<1> SUFFICES ASSUME Init
             PROVE  SnAInv
  OBVIOUS
<1>1. <<>> \in Seq(0..7)
  OBVIOUS
<1>2. 0 \in 0..Turn /\ 0 \in 0..ONEROUND
  BY TurnNat
<1>3. SnATypeOK
  <2>1. pending \in BOOLEAN
    BY DEF Init
  <2>2. pins \in {AllLow} \cup {Directions[x] : x \in 1..8}
    BY DEF Init
  <2> QED
    BY <1>1, <1>2, <2>1, <2>2 DEF Init, SnATypeOK
<1>4. TurnInv
  BY DEF Init, TurnInv, PhaseOfRotor, Start
<1> QED
  BY <1>3, <1>4 DEF SnAInv

(* Nothing but the handler touches the motor.                              *)
LEMMA OthersNext ==
    ASSUME SnAInv,
           \/ UNCHANGED vars \/ Press \/ ExitMask \/ ExitFree
           \/ \E a \in App : \/ \E c \in {"IOCTL_RUN", "IOCTL_END"} : Ioctl(a, c)
                             \/ Call(a)
    PROVE  SnAInv'
<1>1. /\ UNCHANGED <<state, c_step, isr, note, left, pins, shaft, melody>>
      /\ module' # module => isr = "idle" \/ module' = "masked"
  BY DEF vars, driver, users, outside, Press, ExitMask, ExitFree, HandlerDone,
         Ioctl, Call, IoctlLock, IoctlSet
<1>2. TurnInv'
  BY <1>1 DEF SnAInv, TurnInv, PhaseOfRotor, Start, Target, NotesFollowShaft
<1>3. SnATypeOK'
  <2>1. CASE UNCHANGED vars \/ Press \/ ExitMask \/ ExitFree
    BY <2>1 DEF SnAInv, SnATypeOK, vars, driver, users, outside, Press,
                ExitMask, ExitFree
  <2>2. ASSUME NEW a \in App, NEW c \in {"IOCTL_RUN", "IOCTL_END"}, Ioctl(a, c)
        PROVE  SnATypeOK'
    BY <2>2 DEF SnAInv, SnATypeOK, driver, outside, Ioctl
  <2>3. ASSUME NEW a \in App, IoctlLock(a)
        PROVE  SnATypeOK'
    BY <2>3 DEF SnAInv, SnATypeOK, outside, IoctlLock
  <2>4. ASSUME NEW a \in App, IoctlSet(a)
        PROVE  SnATypeOK'
    BY <2>4 DEF SnAInv, SnATypeOK, outside, IoctlSet, Released
  <2> QED
    BY <2>1, <2>2, <2>3, <2>4 DEF Call
<1> QED
  BY <1>2, <1>3 DEF SnAInv

(* A half step takes the rotor and the phase one on, the way of the turn.  *)
LEMMA MotorMoves ==
    ASSUME SnAInv, MotorStep
    PROVE  /\ shaft' = shaft + IF state = 0 THEN 1 ELSE -1
           /\ c_step' \in 0..7 /\ c_step' = shaft' % 8
           /\ c_step \in 0..7 /\ c_step' \in {Forward(c_step), Backward(c_step)}
           /\ pins' = Phase(c_step')
<1> DEFINE d == IF state = 0 THEN 1 ELSE -1
<1>0. /\ c_step' = IF state = 0 THEN Forward(c_step) ELSE Backward(c_step)
      /\ pins' = Phase(c_step')
  BY DEF MotorStep
<1>1. /\ state \in {0, 1} /\ shaft \in 0..Turn
      /\ c_step \in 0..7 /\ c_step = shaft % 8
  BY DEF SnAInv, SnATypeOK, TurnInv, PhaseOfRotor
<1>2. /\ RotorTurns(shaft, Phase(Forward(c_step))) = {1}
      /\ RotorTurns(shaft, Phase(Backward(c_step))) = {-1}
      /\ Forward(c_step) \in 0..7 /\ Forward(c_step) = (shaft + 1) % 8
      /\ Backward(c_step) \in 0..7 /\ Backward(c_step) = (shaft - 1) % 8
  BY <1>1, TurnNat, Follows
<1>3. RotorTurns(shaft, pins') = {d}
  BY <1>0, <1>1, <1>2
<1>4. shaft' = shaft + d
  BY <1>3 DEF MotorStep
<1>5. c_step' \in 0..7 /\ c_step' = shaft' % 8
  BY <1>0, <1>1, <1>2, <1>4
<1> QED
  BY <1>0, <1>1, <1>4, <1>5

(* A half step goes to where the loop variables say.                       *)
LEMMA MotorNext ==
    ASSUME SnAInv, MotorStep
    PROVE  SnAInv'
<1>0. /\ isr = "motor" /\ left > 0 /\ left' = left - 1
      /\ UNCHANGED <<app_state, state, lock, isr, note, users, pending, melody>>
  BY DEF MotorStep
<1>1. /\ state \in {0, 1} /\ left \in 0..ONEROUND /\ shaft \in 0..Turn
  BY DEF SnAInv, SnATypeOK
<1>4. shaft' = shaft + IF state = 0 THEN 1 ELSE -1
  BY MotorMoves
<1>5. c_step' \in 0..7 /\ c_step' = shaft' % 8 /\ pins' = Phase(c_step')
  BY MotorMoves
<1>6. /\ Len(melody) \in 0..7
      /\ note = IF state = 0 THEN Len(melody) ELSE 7 - Len(melody)
      /\ module # "gone"
      /\ (IF state = 0 THEN shaft ELSE Turn - shaft)
            = Len(melody) * ONEROUND + (ONEROUND - left)
      /\ melody = [x \in 1..Len(melody) |-> IF state = 0 THEN x - 1 ELSE 8 - x]
  BY <1>0 DEF SnAInv, TurnInv, NotesFollowShaft
<1>7. /\ Len(melody) * ONEROUND \in Nat
      /\ Len(melody) * ONEROUND + ONEROUND <= Turn
  BY <1>6, Eighths
<1> DEFINE k == Len(melody) * ONEROUND
<1> HIDE DEF k
<1>8. k \in Nat /\ k + ONEROUND <= Turn
      /\ (IF state = 0 THEN shaft ELSE Turn - shaft) = k + (ONEROUND - left)
  BY <1>6, <1>7 DEF k
<1>9. /\ shaft' \in 0..Turn /\ left' \in 0..ONEROUND
      /\ (IF state = 0 THEN shaft' ELSE Turn - shaft') = k + (ONEROUND - left')
  BY <1>0, <1>1, <1>4, <1>8, TurnNat
<1>10. NotesFollowShaft'
  BY <1>0, <1>6, <1>9 DEF NotesFollowShaft, k
<1>11. TurnInv'
  BY <1>0, <1>5, <1>6, <1>10 DEF TurnInv, PhaseOfRotor, users
<1>12. pins' \in {Directions[x] : x \in 1..8}
  <2>1. c_step' + 1 \in 1..8
    BY <1>5
  <2> QED
    BY <1>0, <1>5, <2>1, PhaseDirection
<1> QED
  BY <1>0, <1>5, <1>9, <1>11, <1>12 DEF SnAInv, SnATypeOK, users

(* A note is the last of the scale exactly when the turn is complete.      *)
LEMMA NoteNext ==
    ASSUME SnAInv, PlayNote
    PROVE  SnAInv'
<1> DEFINE L == Len(melody)
<1>0. /\ isr = "motor" /\ left = 0
      /\ melody' = Append(melody, note)
      /\ UNCHANGED <<app_state, state, c_step, lock, users, pending, pins, shaft>>
      /\ IF note = LastNote
         THEN isr' = "lock" /\ note' = note /\ left' = left
         ELSE /\ note' = IF state = 0 THEN note + 1 ELSE note - 1
              /\ left' = ONEROUND
              /\ isr' = isr
  BY DEF PlayNote
<1>1. /\ state \in {0, 1} /\ shaft \in 0..Turn /\ note \in 0..7
      /\ melody \in Seq(0..7) /\ left \in 0..ONEROUND
  BY DEF SnAInv, SnATypeOK
<1>2. /\ L \in 0..7
      /\ note = IF state = 0 THEN L ELSE 7 - L
      /\ module # "gone" /\ PhaseOfRotor /\ pins \in {AllLow, Phase(c_step)}
      /\ (IF state = 0 THEN shaft ELSE Turn - shaft)
            = L * ONEROUND + (ONEROUND - left)
      /\ melody = [x \in 1..L |-> IF state = 0 THEN x - 1 ELSE 8 - x]
  BY <1>0 DEF SnAInv, TurnInv, NotesFollowShaft
<1>3. /\ melody' \in Seq(0..7) /\ Len(melody') = L + 1
      /\ DOMAIN melody' = 1..(L + 1)
      /\ \A x \in 1..L : melody'[x] = melody[x]
      /\ melody'[L + 1] = note
  BY <1>0, <1>1, AppendProperties, LenProperties
<1> HIDE DEF L
<1>4. melody' = [x \in 1..(L + 1) |-> IF state = 0 THEN x - 1 ELSE 8 - x]
  <2>1. \A x \in 1..(L + 1) :
            melody'[x] = IF state = 0 THEN x - 1 ELSE 8 - x
    BY <1>1, <1>2, <1>3
  <2>2. melody' = [x \in DOMAIN melody' |-> melody'[x]]
    BY <1>3, SeqDef
  <2> QED
    BY <1>3, <2>1, <2>2
<1>5. /\ L * ONEROUND \in Nat
      /\ (L + 1) * ONEROUND = L * ONEROUND + ONEROUND
  BY <1>2, Eighths
<1>6. (IF state = 0 THEN shaft ELSE Turn - shaft) = (L + 1) * ONEROUND
  BY <1>0, <1>2, <1>5
<1>7. CASE note = LastNote
  <2>1. L = 7
    BY <1>1, <1>2, <1>7 DEF LastNote
  <2>2. shaft = Target
    BY <1>1, <1>6, <2>1 DEF Target, Turn
  <2>3. TurnInv'
    BY <1>0, <1>2, <1>7, <2>2
       DEF TurnInv, PhaseOfRotor, Target, users
  <2> QED
    BY <1>0, <1>3, <1>7, <2>3 DEF SnAInv, SnATypeOK, users
<1>8. CASE note # LastNote
  <2>1. L + 1 \in 0..7 /\ note' \in 0..7
        /\ note' = IF state = 0 THEN L + 1 ELSE 7 - (L + 1)
    <3>1. CASE state = 0
      BY <1>0, <1>1, <1>2, <1>8, <3>1 DEF LastNote
    <3>2. CASE state = 1
      BY <1>0, <1>1, <1>2, <1>8, <3>2 DEF LastNote
    <3> QED
      BY <1>1, <3>1, <3>2
  <2>2. left' = ONEROUND /\ left' \in 0..ONEROUND /\ isr' = "motor"
    BY <1>0, <1>8
  <2>3. (IF state = 0 THEN shaft ELSE Turn - shaft)
            = (L + 1) * ONEROUND + (ONEROUND - left')
    <3>1. ONEROUND - left' = 0
      BY <2>2
    <3>2. (L + 1) * ONEROUND \in Nat
      BY <1>5
    <3> QED
      BY <1>6, <3>1, <3>2
  <2>4. NotesFollowShaft'
    BY <1>0, <1>3, <1>4, <2>3 DEF NotesFollowShaft, Turn
  <2>5. TurnInv'
    BY <1>0, <1>2, <1>3, <2>1, <2>2, <2>4 DEF TurnInv, PhaseOfRotor, users
  <2> QED
    BY <1>0, <1>3, <2>1, <2>2, <2>5 DEF SnAInv, SnATypeOK, users
<1> QED
  BY <1>7, <1>8

LEMMA HandlerNext ==
    ASSUME SnAInv, IsrEnter \/ IsrCheck \/ IsrLock \/ IsrFlip
    PROVE  SnAInv'
<1>1. state \in {0, 1} /\ shaft \in 0..Turn
  BY DEF SnAInv, SnATypeOK
<1>2. CASE IsrEnter
  <2>1. TurnInv'
    BY <1>2 DEF IsrEnter, SnAInv, TurnInv, PhaseOfRotor, Start, users
  <2> QED
    BY <1>2, <2>1 DEF IsrEnter, SnAInv, SnATypeOK, users
<1>3. CASE IsrCheck /\ app_state # 1
  <2>1. TurnInv'
    BY <1>3 DEF IsrCheck, SnAInv, TurnInv, PhaseOfRotor, Start, users
  <2> QED
    BY <1>3, <2>1 DEF IsrCheck, SnAInv, SnATypeOK, users
<1>4. CASE IsrCheck /\ app_state = 1
  <2>1. /\ isr = "enter" /\ isr' = "motor" /\ note' = FirstNote
        /\ left' = ONEROUND /\ melody' = <<>>
        /\ UNCHANGED <<app_state, state, c_step, lock, users, pending, pins, shaft>>
    BY <1>4 DEF IsrCheck
  <2>2. shaft = Start /\ module # "gone" /\ PhaseOfRotor
        /\ pins \in {AllLow, Phase(c_step)}
    BY <2>1 DEF SnAInv, TurnInv
  <2>3. Len(melody') = 0 /\ melody' \in Seq(0..7)
        /\ melody' = [x \in 1..0 |-> IF state = 0 THEN x - 1 ELSE 8 - x]
    BY <2>1
  <2>4. (IF state = 0 THEN shaft ELSE Turn - shaft)
            = 0 * ONEROUND + (ONEROUND - left')
    BY <1>1, <2>1, <2>2, TurnNat DEF Start
  <2>5. NotesFollowShaft'
    BY <2>1, <2>3, <2>4 DEF NotesFollowShaft, Turn
  <2>6. note' = (IF state = 0 THEN 0 ELSE 7) /\ note' \in 0..7
    BY <2>1 DEF FirstNote
  <2>7. TurnInv'
    BY <2>1, <2>2, <2>3, <2>5, <2>6 DEF TurnInv, PhaseOfRotor, users
  <2> QED
    BY <2>1, <2>3, <2>6, <2>7 DEF SnAInv, SnATypeOK, users
<1>5. CASE IsrLock
  <2>1. TurnInv'
    BY <1>5 DEF IsrLock, SnAInv, TurnInv, PhaseOfRotor, Target, users, outside
  <2> QED
    BY <1>5, <2>1 DEF IsrLock, SnAInv, SnATypeOK, users, outside
<1>6. CASE IsrFlip
  <2>1. state' = 1 - state /\ state' \in {0, 1} /\ Start' = Target
    BY <1>1, <1>6 DEF IsrFlip, Other, Start, Target, Turn
  <2>2. TurnInv'
    BY <1>6, <2>1 DEF IsrFlip, SnAInv, TurnInv, PhaseOfRotor, users, outside
  <2> QED
    BY <1>6, <2>1, <2>2
       DEF IsrFlip, Released, SnAInv, SnATypeOK, users, outside
<1> QED
  BY <1>2, <1>3, <1>4, <1>5, <1>6

-----------------------------------------------------------------------------
THEOREM SnAInvariance == Spec => []SnAInv
<1>1. SnAInv /\ [Next]_vars => SnAInv'
  BY OthersNext, MotorNext, NoteNext, HandlerNext DEF Next, Isr
<1> QED
  BY <1>1, SnAInit, PTL DEF Spec

(* The variables of the door opener always have their types; in particular *)
(* the shaft never leaves its one turn.                                    *)
THEOREM SnATypeCorrect == Spec => []SnATypeOK
  BY SnAInvariance, PTL DEF SnAInv

(* The phase in c_step is that of the rotor after any number of turns.     *)
THEOREM PhaseCorrect == Spec => []PhaseOfRotor
  BY SnAInvariance, PTL DEF SnAInv, TurnInv

(* Whenever no turn is under way the door is where state says: with 512    *)
(* half steps per note, and with any presses, ioctls and unloads between.  *)
THEOREM DoorCorrect == Spec => []DoorWhereStateSays
<1>1. SnAInv => DoorWhereStateSays
  <2> SUFFICES ASSUME SnAInv, ~Turning
               PROVE  shaft = state * Turn
    BY DEF DoorWhereStateSays
  <2>1. state \in {0, 1} /\ shaft = Start
    BY DEF SnAInv, SnATypeOK, TurnInv, Turning
  <2> QED
    BY <2>1, TurnNat DEF Start
<1> QED
  BY <1>1, SnAInvariance, PTL

(* Every note sounds at its eighth of the turn, upwards while the door     *)
(* opens and downwards while it closes.                                    *)
THEOREM MelodyCorrect == Spec => []NotesFollowShaft
<1>1. SnAInv => NotesFollowShaft
  BY DEF SnAInv, TurnInv, NotesFollowShaft
<1> QED
  BY <1>1, SnAInvariance, PTL

(* The handler never uses pins that exit has given back.                   *)
THEOREM PinsRequested == Spec => []NoGpioAfterFree
<1>1. SnAInv => NoGpioAfterFree
  BY DEF SnAInv, TurnInv, NoGpioAfterFree, Turning
<1> QED
  BY <1>1, SnAInvariance, PTL

(* The shaft only moves in half steps the way of the turn, each by         *)
(* switching one coil.                                                     *)
THEOREM TurnsOneWay == Spec => OneWay
<1> DEFINE Half ==
        shaft' # shaft => /\ shaft' - shaft = IF state = 0 THEN 1 ELSE -1
                          /\ pins # AllLow =>
                                Cardinality({x \in 1..4 : pins'[x] # pins[x]}) = 1
<1>1. ASSUME SnAInv, MotorStep
      PROVE  Half
  <2>1. shaft' - shaft = IF state = 0 THEN 1 ELSE -1
    BY <1>1, MotorMoves, TurnNat DEF SnAInv, SnATypeOK
  <2>2. pins # AllLow => pins = Phase(c_step)
    BY <1>1 DEF SnAInv, TurnInv
  <2>3. pins # AllLow =>
            Cardinality({x \in 1..4 : pins'[x] # pins[x]}) = 1
    BY <1>1, <2>2, MotorMoves, OneCoil
  <2> QED
    BY <2>1, <2>3
<1>2. ASSUME [Next]_vars, ~MotorStep
      PROVE  shaft' = shaft
  BY <1>2 DEF vars, driver, users, outside, Next, Isr, IsrEnter, IsrCheck,
       PlayNote, IsrLock, IsrFlip, Press, Ioctl, Call, IoctlLock, IoctlSet,
       ExitMask, ExitFree
<1>3. SnAInv /\ [Next]_vars => [Half]_vars
  BY <1>1, <1>2
<1> QED
  BY <1>3, SnAInvariance, PTL DEF Spec, OneWay
=============================================================================
