-------------------------- MODULE KuIpcLib_proofs --------------------------
(***************************************************************************)
(* The library makes only system calls the driver's specification allows,  *)
(* so what is proved of the driver holds under every application.          *)
(***************************************************************************)
EXTENDS KuIpcLib, KuIpcDriver_proofs, FiniteSetTheorems

(* A process that waits for the driver is inside one of its calls.         *)
LibInv ==
    /\ Inv
    /\ LibTypeOK
    /\ \A p \in Proc : /\ Len(log[p]) <= Len(program[p])
                       /\ at[p] # "out" => ~Ended(p)

Waits == {"check", "create", "close", "write", "read"}

LEMMA LibCallFields ==
    ASSUME NEW c \in LibCall
    PROVE  /\ c.key \in Key
           /\ c.fn \in {"msgsnd", "msgrcv"} => c.type \in Type /\ c.len \in Size
           /\ c.fn = "msgrcv" => c.noerror \in BOOLEAN
  BY DEF LibCall

(* The call a process executes is one of its program.                      *)
LEMMA ArgsType ==
    ASSUME LibInv, NEW p \in Proc, ~Ended(p)
    PROVE  /\ Args(p) \in LibCall
           /\ Args(p).key \in Key
           /\ Len(log[p]) + 1 <= Len(program[p])
<1>1. program[p] \in Seq(LibCall) /\ log[p] \in Seq(Int)
  BY KuIpcLibAssumption DEF LibInv, LibTypeOK
<1>2. Len(log[p]) \in Nat /\ Len(program[p]) \in Nat
  BY <1>1, LenProperties
<1>3. Len(log[p]) + 1 \in 1..Len(program[p])
  BY <1>2 DEF Ended, LibInv
<1>4. program[p][Len(log[p]) + 1] \in LibCall
  BY <1>1, <1>3, ElementOfSeq
<1>5. Args(p) \in LibCall
  BY <1>4 DEF Args
<1>6. Args(p).key \in Key
  BY <1>5, LibCallFields
<1> QED
  BY <1>2, <1>3, <1>5, <1>6

(* Every library step is a system call or the return of a library call.    *)
LEMMA StepForm ==
    ASSUME LibInv, NEW p \in Proc, LibStep(p)
    PROVE  /\ ~Ended(p)
           /\ \/ \E c \in Call, l \in Waits : Issue(p, c, l)
              \/ \E r \in Int : Finish(p, r)
<1>1. ~Ended(p)
  <2>1. CASE Begin(p)
    BY <2>1 DEF Begin
  <2>2. CASE at[p] # "out"
    BY <2>2 DEF LibInv
  <2> QED
    BY <2>1, <2>2
       DEF LibStep, GetExisting, GetCreate, GetCreated, CloseExisting,
           CloseNothing, CloseDone, SendChecked, SendRetry, SendDone,
           ReceiveChecked, ReceiveRetry, ReceiveDone, Back
<1>2. Args(p) \in LibCall /\ Args(p).key \in Key
  BY <1>1, ArgsType
<1>3. Answer(p) \in Int
  <2>1. ret[p] \in Int
    BY DEF LibInv, Inv, TypeOK
  <2> QED
    BY <2>1 DEF Answer
<1>4. FAIL \in Int /\ SUCCESS \in Int
  BY DEF FAIL, SUCCESS
<1>5. \A o \in {"check", "create", "close"} :
        [op |-> o, key |-> Args(p).key] \in Call
  BY <1>2 DEF Call
<1>6. Args(p).fn = "msgsnd" => WriteCall(p) \in Call
  BY <1>2, LibCallFields DEF Call, WriteCall
<1>7. Args(p).fn = "msgrcv" => ReadCall(p) \in Call
  BY <1>2, LibCallFields DEF Call, ReadCall
<1>8. CASE Begin(p) \/ GetExisting(p) \/ GetCreate(p) \/ GetCreated(p)
  BY <1>1, <1>3, <1>4, <1>5, <1>8
     DEF Begin, GetExisting, GetCreate, GetCreated, Waits
<1>9. CASE CloseExisting(p) \/ CloseNothing(p) \/ CloseDone(p)
  BY <1>1, <1>4, <1>5, <1>9
     DEF CloseExisting, CloseNothing, CloseDone, Waits
<1>10. CASE SendChecked(p) \/ SendRetry(p) \/ SendDone(p)
  BY <1>1, <1>4, <1>6, <1>10
     DEF SendChecked, SendRetry, SendDone, Back, Waits
<1>11. CASE ReceiveChecked(p) \/ ReceiveRetry(p) \/ ReceiveDone(p)
  BY <1>1, <1>3, <1>4, <1>7, <1>11
     DEF ReceiveChecked, ReceiveRetry, ReceiveDone, Back, Waits
<1> QED
  BY <1>8, <1>9, <1>10, <1>11 DEF LibStep

(* A step of the library or of the driver under it is a driver step.       *)
LEMMA LibIsDriver == LibInv /\ [LibNext]_allVars => [Next]_vars
<1> SUFFICES ASSUME LibInv, [LibNext]_allVars PROVE [Next]_vars
  OBVIOUS
<1>1. CASE UNCHANGED allVars
  BY <1>1 DEF allVars
<1>2. ASSUME NEW p \in Proc, LibStep(p)
      PROVE  [Next]_vars
  <2>1. CASE \E c \in Call, l \in Waits : Issue(p, c, l)
    <3>1. PICK c \in Call : Syscall(p, c)
      BY <2>1 DEF Issue
    <3>2. c.op \in MayCall[p]
      BY CallFields, KuIpcLibAssumption
    <3> QED
      BY <3>1, <3>2 DEF Next
  <2>2. CASE \E r \in Int : Finish(p, r)
    BY <2>2 DEF Finish
  <2> QED
    BY <1>2, <2>1, <2>2, StepForm
<1>3. ASSUME NEW p \in Proc, Inside(p), UNCHANGED libVars
      PROVE  [Next]_vars
  BY <1>3 DEF Next
<1> QED
  BY <1>1, <1>2, <1>3 DEF LibNext, ProcStep

LEMMA LibInvInit == LibInit => LibInv
<1> SUFFICES ASSUME LibInit PROVE LibInv
  OBVIOUS
<1>1. Inv
  BY InvInit DEF LibInit
<1>2. /\ log \in [Proc -> Seq(Int)]
      /\ \A p \in Proc : log[p] = <<>> /\ Len(log[p]) = 0
  BY EmptySeq DEF LibInit
<1>3. \A p \in Proc : Len(program[p]) \in Nat
  BY KuIpcLibAssumption, LenProperties DEF LibInit
<1>4. LibTypeOK
  BY <1>1, <1>2 DEF LibInit, LibTypeOK, Inv
<1> QED
  BY <1>1, <1>2, <1>3, <1>4 DEF LibInit, LibInv

LEMMA LibInvNext == LibInv /\ [LibNext]_allVars => LibInv'
<1> SUFFICES ASSUME LibInv, [LibNext]_allVars PROVE LibInv'
  OBVIOUS
<1>1. Inv'
  BY LibIsDriver, InvNext DEF LibInv
<1>2. CASE UNCHANGED libVars
  BY <1>1, <1>2 DEF libVars, LibInv, LibTypeOK, Inv, Ended
<1>3. ASSUME NEW p \in Proc, LibStep(p)
      PROVE  LibInv'
  <2>1. ~Ended(p) /\ Len(log[p]) + 1 <= Len(program[p])
    BY <1>3, StepForm, ArgsType
  <2>2. ASSUME NEW c \in Call, NEW l \in Waits, Issue(p, c, l)
        PROVE  LibInv'
    BY <1>1, <2>1, <2>2 DEF Issue, LibInv, LibTypeOK, Inv, Ended, Waits
  <2>3. ASSUME NEW r \in Int, Finish(p, r)
        PROVE  LibInv'
    <3>1. log[p] \in Seq(Int)
      BY DEF LibInv, LibTypeOK
    <3>2. /\ Append(log[p], r) \in Seq(Int)
          /\ Len(Append(log[p], r)) = Len(log[p]) + 1
      BY <3>1, AppendProperties
    <3>3. /\ program' = program
          /\ log' = [log EXCEPT ![p] = Append(log[p], r)]
          /\ at' = [at EXCEPT ![p] = "out"]
      BY <2>3 DEF Finish
    <3>4. LibTypeOK'
      BY <1>1, <3>2, <3>3 DEF LibInv, LibTypeOK, Inv
    <3>5. ASSUME NEW q \in Proc
          PROVE  /\ Len(log'[q]) <= Len(program'[q])
                 /\ at'[q] # "out" => ~Ended(q)'
      <4>1. CASE q = p
        BY <2>1, <3>2, <3>3, <4>1 DEF LibInv, LibTypeOK
      <4>2. CASE q # p
        BY <3>3, <4>2 DEF LibInv, LibTypeOK, Ended
      <4> QED
        BY <4>1, <4>2
    <3> QED
      BY <1>1, <3>4, <3>5 DEF LibInv
  <2> QED
    BY <1>3, <2>2, <2>3, StepForm
<1> QED
  BY <1>2, <1>3 DEF LibNext, ProcStep, allVars

(* Applications use the driver as its specification says: every property   *)
(* proved of Spec holds whatever library calls the processes make.         *)
THEOREM LibUsesDriver == LibSpec => UsesDriver
<1>1. LibInit => Init
  BY DEF LibInit
<1> QED
  BY <1>1, LibInvInit, LibInvNext, LibIsDriver, PTL DEF LibSpec, UsesDriver, Spec

(* The library's variables have their types, and what it counts on as an   *)
(* application follows: the driver's limits hold under it.                 *)
THEOREM LibTypeCorrect == LibSpec => []LibTypeOK
<1>1. LibInv => LibTypeOK
  BY DEF LibInv
<1> QED
  BY <1>1, LibInvInit, LibInvNext, PTL DEF LibSpec

(* Under every application the queues keep both limits.                    *)
THEOREM LibBounded == LibSpec => [](LockOwned /\ SizeCounts /\ VolumeCounts)
  BY LibUsesDriver, LockDiscipline, SizeBounded, VolumeBounded, PTL DEF UsesDriver
-----------------------------------------------------------------------------
(* The driver executes the call a process waits for, and only msgget makes *)
(* CREATE and only msgclose CLOSE.                                         *)
WaitInv(p) ==
    /\ pc[p] # "user" => call[p].op = at[p] /\ call[p].key = Args(p).key
    /\ at[p] = "create" => Args(p).fn = "msgget"
    /\ at[p] = "close" => Args(p).fn = "msgclose"

AllWait == \A p \in Proc : WaitInv(p)

(* Every library step is such a system call or the return of a call.       *)
LEMMA StepCalls ==
    ASSUME LibInv, NEW p \in Proc, LibStep(p)
    PROVE  /\ pc[p] = "user"
           /\ \/ \E c \in Call :
                    /\ Issue(p, c, c.op) /\ c.key = Args(p).key
                    /\ c.op = "create" => GetCreate(p)
                    /\ c.op = "close" => CloseExisting(p)
              \/ \E r \in Int : Finish(p, r)
<1>0. ~Ended(p) /\ Args(p) \in LibCall /\ Args(p).key \in Key
  BY StepForm, ArgsType
<1>1. \A o \in {"check", "create", "close"} :
        /\ [op |-> o, key |-> Args(p).key] \in Call
        /\ [op |-> o, key |-> Args(p).key].op = o
        /\ [op |-> o, key |-> Args(p).key].key = Args(p).key
  BY <1>0 DEF Call
<1>2. Args(p).fn = "msgsnd" => /\ WriteCall(p) \in Call
                               /\ WriteCall(p).op = "write"
                               /\ WriteCall(p).key = Args(p).key
  BY <1>0, LibCallFields DEF Call, WriteCall
<1>3. Args(p).fn = "msgrcv" => /\ ReadCall(p) \in Call
                               /\ ReadCall(p).op = "read"
                               /\ ReadCall(p).key = Args(p).key
  BY <1>0, LibCallFields DEF Call, ReadCall
<1>4. Answer(p) \in Int /\ FAIL \in Int /\ SUCCESS \in Int
  <2>1. ret[p] \in Int
    BY DEF LibInv, Inv, TypeOK
  <2> QED
    BY <2>1 DEF Answer, FAIL, SUCCESS
<1>5. pc[p] = "user"
  BY DEF LibStep, Begin, Issue, Syscall, GetExisting, GetCreate, GetCreated,
         CloseExisting, CloseNothing, CloseDone, SendChecked, SendRetry,
         SendDone, ReceiveChecked, ReceiveRetry, ReceiveDone, Back
<1>6. CASE Begin(p) \/ CloseExisting(p)
  <2>1. CASE Begin(p)
    BY <1>1, <1>5, <2>1 DEF Begin
  <2>2. CASE CloseExisting(p)
    BY <1>1, <1>5, <2>2 DEF CloseExisting, Back
  <2> QED
    BY <1>6, <2>1, <2>2
<1>7. CASE GetCreate(p)
  <2>1. Issue(p, [op |-> "create", key |-> Args(p).key], "create")
    BY <1>7 DEF GetCreate
  <2> QED
    BY <1>1, <1>5, <1>7, <2>1
<1>8. CASE GetExisting(p) \/ GetCreated(p) \/ CloseNothing(p) \/ CloseDone(p)
  <2>1. \E r \in Int : Finish(p, r)
    BY <1>4, <1>8 DEF GetExisting, GetCreated, CloseNothing, CloseDone
  <2> QED
    BY <1>5, <2>1
<1>9. CASE SendChecked(p) \/ SendRetry(p) \/ SendDone(p)
  <2>1. Args(p).fn = "msgsnd"
    BY <1>9 DEF SendChecked, SendRetry, SendDone, Back
  <2>2. Issue(p, WriteCall(p), "write") \/ \E r \in Int : Finish(p, r)
    BY <1>4, <1>9 DEF SendChecked, SendRetry, SendDone
  <2> QED
    BY <1>2, <1>5, <2>1, <2>2
<1>10. CASE ReceiveChecked(p) \/ ReceiveRetry(p) \/ ReceiveDone(p)
  <2>1. Args(p).fn = "msgrcv"
    BY <1>10 DEF ReceiveChecked, ReceiveRetry, ReceiveDone, Back
  <2>2. Issue(p, ReadCall(p), "read") \/ \E r \in Int : Finish(p, r)
    BY <1>4, <1>10 DEF ReceiveChecked, ReceiveRetry, ReceiveDone
  <2> QED
    BY <1>3, <1>5, <2>1, <2>2
<1> QED
  BY <1>6, <1>7, <1>8, <1>9, <1>10 DEF LibStep

(* Inside the driver a process stays in its call or returns from it.       *)
LEMMA InsideCalls ==
    ASSUME Inv, NEW p \in Proc, Inside(p)
    PROVE  /\ pc[p] # "user"
           /\ pc'[p] = "user" \/ call'[p] = call[p]
           /\ \A q \in Proc : q # p => pc'[q] = pc[q] /\ call'[q] = call[q]
<1>1. CASE Acquire(p)
  BY <1>1 DEF Acquire, At, Goto, Inv, TypeOK
<1>2. CASE Scan(p)
  <2>1. pc[p] = "scan"
    BY <1>2 DEF Scan, At
  <2>2. CASE nxt[cur[p]] = Root /\ NotFound(p)
    BY <2>1, <2>2 DEF NotFound, Return, Leave, Goto, locals, Inv, TypeOK
  <2>3. CASE nxt[cur[p]] # Root
    BY <1>2, <2>1, <2>3 DEF Scan, Found, Goto, Inv, TypeOK
  <2> QED
    BY <1>2, <2>2, <2>3 DEF Scan
<1>3. CASE ReturnKey(p) \/ CloseFree(p) \/ Unlock(p)
  BY <1>3 DEF ReturnKey, CloseFree, Unlock, At, Return, Goto, Inv, TypeOK
<1>4. CASE CreateAlloc(p) \/ CreateLinkBack(p) \/ CreateLinkFront(p)
  BY <1>4 DEF CreateAlloc, CreateLinkBack, CreateLinkFront, At, Goto, Inv, TypeOK
<1>5. CASE CloseRead(p) \/ CloseUnlinkBack(p) \/ CloseUnlinkFront(p)
  BY <1>5 DEF CloseRead, CloseUnlinkBack, CloseUnlinkFront, At, Goto, Inv, TypeOK
<1>6. CASE ReadFind(p)
  BY <1>6 DEF ReadFind, At, Leave, Goto, Inv, TypeOK
<1>7. CASE ReadCopy(p) \/ ReadRemove(p)
  BY <1>7 DEF ReadCopy, ReadRemove, At, Leave, Goto, Inv, TypeOK
<1>8. CASE WriteCheck(p) \/ WriteAppend(p)
  BY <1>8 DEF WriteCheck, WriteAppend, At, Leave, Goto, Inv, TypeOK
<1>9. CASE Fault(p)
  BY <1>9 DEF Fault, Sound, Deref
<1> QED
  BY <1>1, <1>2, <1>3, <1>4, <1>5, <1>6, <1>7, <1>8, <1>9
     DEF Inside, Ioctl, Transfer

LEMMA WaitInit == LibInit => AllWait
  BY DEF LibInit, Init, AllWait, WaitInv

LEMMA WaitNext == LibInv /\ AllWait /\ [LibNext]_allVars => AllWait'
<1> SUFFICES ASSUME LibInv, AllWait, [LibNext]_allVars
             PROVE  AllWait'
  OBVIOUS
<1>0. \A p \in Proc : WaitInv(p)
  BY DEF AllWait
<1>1. ASSUME NEW p \in Proc, pc'[p] = pc[p], call'[p] = call[p],
             at'[p] = at[p], log'[p] = log[p], program' = program
      PROVE  WaitInv(p)'
  BY <1>0, <1>1 DEF WaitInv, Args
<1>2. CASE UNCHANGED allVars
  BY <1>1, <1>2 DEF allVars, vars, libVars, AllWait
<1>3. ASSUME NEW p \in Proc, Inside(p), UNCHANGED libVars
      PROVE  AllWait'
  <2>1. /\ pc[p] # "user" /\ (pc'[p] = "user" \/ call'[p] = call[p])
        /\ \A q \in Proc : q # p => pc'[q] = pc[q] /\ call'[q] = call[q]
    BY <1>3, InsideCalls DEF LibInv
  <2>2. \A q \in Proc : q # p => WaitInv(q)'
    BY <1>1, <1>3, <2>1 DEF libVars
  <2>3. WaitInv(p)'
    BY <1>0, <1>3, <2>1 DEF libVars, WaitInv, Args
  <2> QED
    BY <2>2, <2>3 DEF AllWait
<1>4. ASSUME NEW p \in Proc, LibStep(p)
      PROVE  AllWait'
  <2>0. pc[p] = "user"
    BY <1>4, StepCalls
  <2>1. ASSUME NEW c \in Call, Issue(p, c, c.op), c.key = Args(p).key,
               c.op = "create" => GetCreate(p),
               c.op = "close" => CloseExisting(p)
        PROVE  AllWait'
    <3>1. /\ pc' = [pc EXCEPT ![p] = Entry(c)]
          /\ call' = [call EXCEPT ![p] = c] /\ at' = [at EXCEPT ![p] = c.op]
          /\ log' = log /\ program' = program
      BY <2>1 DEF Issue, Syscall, Goto
    <3>2. \A q \in Proc : q # p => WaitInv(q)'
      BY <1>1, <3>1 DEF LibInv, LibTypeOK, Inv, TypeOK
    <3>3. call'[p] = c /\ at'[p] = c.op /\ Args(p)' = Args(p)
      BY <3>1 DEF LibInv, LibTypeOK, Inv, TypeOK, Args
    <3>4. WaitInv(p)'
      BY <2>1, <3>3 DEF WaitInv, GetCreate, CloseExisting, Back
    <3> QED
      BY <3>2, <3>4 DEF AllWait
  <2>2. ASSUME NEW r \in Int, Finish(p, r)
        PROVE  AllWait'
    <3>1. /\ UNCHANGED vars /\ program' = program
          /\ at' = [at EXCEPT ![p] = "out"]
          /\ log' = [log EXCEPT ![p] = Append(@, r)]
      BY <2>2 DEF Finish
    <3>2. \A q \in Proc : q # p => WaitInv(q)'
      BY <1>1, <3>1 DEF vars, LibInv, LibTypeOK
    <3>3. pc'[p] = "user" /\ at'[p] = "out"
      BY <2>0, <3>1 DEF vars, LibInv, LibTypeOK
    <3>4. WaitInv(p)'
      BY <3>3 DEF WaitInv
    <3> QED
      BY <3>2, <3>4 DEF AllWait
  <2> QED
    BY <1>4, <2>1, <2>2, StepCalls
<1> QED
  BY <1>2, <1>3, <1>4 DEF LibNext, ProcStep

-----------------------------------------------------------------------------
(* No program closes a queue.                                              *)
NobodyCloses ==
    \A p \in Proc : \A i \in 1..Len(program[p]) :
        program[p][i].fn # "msgclose"

(* Only process o opens and closes queues.                                 *)
OpensAlone(o) ==
    \A p \in Proc \ {o} : \A i \in 1..Len(program[p]) :
        program[p][i].fn \notin {"msgget", "msgclose"}

(* The programs do not change.                                             *)
LEMMA ProgramsStay == LibInv /\ [LibNext]_allVars => program' = program
<1> SUFFICES ASSUME LibInv, [LibNext]_allVars
             PROVE  program' = program
  OBVIOUS
<1>1. CASE UNCHANGED libVars
  BY <1>1 DEF libVars
<1>2. ASSUME NEW p \in Proc, LibStep(p)
      PROVE  program' = program
  BY <1>2, StepCalls DEF Issue, Finish
<1> QED
  BY <1>1, <1>2 DEF LibNext, ProcStep, allVars

(* A process that waits for the driver executes a call of its program.     *)
LEMMA ArgsAt ==
    ASSUME LibInv, NEW p \in Proc, at[p] # "out"
    PROVE  \E i \in 1..Len(program[p]) : Args(p) = program[p][i]
<1>1. log[p] \in Seq(Int) /\ program[p] \in Seq(LibCall) /\ ~Ended(p)
  BY KuIpcLibAssumption DEF LibInv, LibTypeOK
<1>2. Len(log[p]) \in Nat /\ Len(program[p]) \in Nat
  BY <1>1, LenProperties
<1>3. Len(log[p]) + 1 \in 1..Len(program[p])
  BY <1>1, <1>2 DEF Ended, LibInv
<1> QED
  BY <1>3 DEF Args

LEMMA NobodyDoesClose ==
    LibInv /\ AllWait /\ NobodyCloses => NoClose
<1> SUFFICES ASSUME LibInv, AllWait, NobodyCloses, NEW p \in Proc,
                    call[p].op = "close"
             PROVE  FALSE
  BY DEF NoClose
<1>1. WaitInv(p) /\ CallInv(p)
  BY DEF AllWait, LibInv, Inv
<1>2. at[p] = "close"
  BY <1>1 DEF WaitInv, CallInv, NoCall
<1>3. Args(p).fn = "msgclose"
  BY <1>1, <1>2 DEF WaitInv
<1> QED
  BY <1>2, <1>3, ArgsAt DEF NobodyCloses

(* As long as no program closes a queue the driver never touches memory it *)
(* may not touch, whatever the programs create, send and receive at once.  *)
THEOREM SafeWithoutClose == LibSpec /\ NobodyCloses => []NoOops
<1>1. LibInv /\ NobodyCloses /\ [LibNext]_allVars => NobodyCloses'
  BY ProgramsStay DEF NobodyCloses
<1>2. LibSpec /\ NobodyCloses => []NoClose
  BY <1>1, LibInvInit, LibInvNext, WaitInit, WaitNext, NobodyDoesClose, PTL
     DEF LibSpec
<1> QED
  BY <1>2, LibUsesDriver, OopsNeedsClose, PTL DEF UsesDriver

-----------------------------------------------------------------------------
(* The queues of key k.                                                    *)
Of(k) == {n \in Used : msq[n].key = k}

(* What msgget of o knows about the queues of its key: CHECK has found one *)
(* or says that there is none, and then there is none until CREATE.        *)
GetInv(o) ==
    LET k == Args(o).key
    IN  /\ pc[o] = "check" /\ at[o] = "check" => cur[o] \in Of(k)
        /\ pc[o] = "user" /\ at[o] = "check" /\ k > 0 => Exists(o) \/ Of(k) = {}
        /\ pc[o] = "alloc" /\ k > 0 => Of(k) = {}

OpenInv(o) == RingInv(o) /\ OwnerInv(o) /\ GetInv(o) /\ OneQueuePerKey

LEMMA SameQueues ==
    ASSUME Used' = Used, \A n \in Used : msq'[n].key = msq[n].key
    PROVE  /\ \A k : Of(k)' = Of(k)
           /\ OneQueuePerKey => OneQueuePerKey'
  BY DEF Of, OneQueuePerKey

LEMMA OpensAloneIsAlone ==
    ASSUME LibInv, AllWait, NEW o \in Proc, OpensAlone(o)
    PROVE  Alone(o)
<1> SUFFICES ASSUME NEW p \in Proc \ {o}, call[p].op \in {"create", "close"}
             PROVE  FALSE
  BY DEF Alone
<1>1. WaitInv(p) /\ CallInv(p)
  BY DEF AllWait, LibInv, Inv
<1>2. at[p] \in {"create", "close"}
  BY <1>1 DEF WaitInv, CallInv, NoCall
<1>3. Args(p).fn \in {"msgget", "msgclose"}
  BY <1>1, <1>2 DEF WaitInv
<1> QED
  BY <1>2, <1>3, ArgsAt DEF OpensAlone

LEMMA OpenInit ==
    ASSUME NEW o \in Proc, LibInit
    PROVE  OpenInv(o)
<1>1. Init /\ pc[o] = "user" /\ at[o] = "out" /\ Used = {}
  BY DEF LibInit, Init, Used
<1> QED
  BY <1>1, OwnerInit DEF OpenInv, GetInv, OneQueuePerKey

(* CREATE adds a queue only where CHECK has found none of its key.         *)
LEMMA GetNext ==
    ASSUME NEW o \in Proc, LibInv, AllWait, OpensAlone(o), OpenInv(o),
           [LibNext]_allVars
    PROVE  GetInv(o)' /\ OneQueuePerKey'
<1> USE KuIpcAssumption
<1>0. Inv /\ Alone(o) /\ WaitInv(o) /\ CallInv(o) /\ OneQueuePerKey
  BY OpensAloneIsAlone DEF LibInv, AllWait, Inv, OpenInv
<1>1. ASSUME Used' = Used, \A n \in Used : msq'[n].key = msq[n].key,
             pc'[o] = pc[o], cur'[o] = cur[o], ret'[o] = ret[o],
             at'[o] = at[o], log'[o] = log[o], program' = program
      PROVE  GetInv(o)' /\ OneQueuePerKey'
  <2>1. /\ \A k : Of(k)' = Of(k)
        /\ OneQueuePerKey'
    BY <1>0, <1>1, SameQueues
  <2>2. Args(o)' = Args(o) /\ (Exists(o)' <=> Exists(o))
    BY <1>1 DEF Args, Exists, Answer
  <2> QED
    BY <1>1, <2>1, <2>2 DEF OpenInv, GetInv
<1>2. CASE UNCHANGED allVars
  BY <1>1, <1>2 DEF allVars, vars, libVars, locals, list, Used
<1>3. ASSUME NEW p \in Proc \ {o}, ProcStep(p)
      PROVE  GetInv(o)' /\ OneQueuePerKey'
  <2>1. CASE Inside(p) /\ UNCHANGED libVars
    BY <1>0, <1>1, <2>1, OthersKeep DEF libVars
  <2>2. ASSUME NEW c \in Call, Issue(p, c, c.op)
        PROVE  GetInv(o)' /\ OneQueuePerKey'
    <3>1. Syscall(p, c) /\ log' = log /\ program' = program /\ at'[o] = at[o]
      BY <2>2 DEF Issue, LibInv, LibTypeOK
    <3> QED
      BY <1>0, <1>1, <3>1, OthersKeep
  <2>3. ASSUME NEW r \in Int, Finish(p, r)
        PROVE  GetInv(o)' /\ OneQueuePerKey'
    BY <1>1, <2>3 DEF Finish, vars, locals, list, Used, LibInv, LibTypeOK
  <2> QED
    BY <1>3, <2>1, <2>2, <2>3, StepCalls DEF ProcStep
<1>4. ASSUME NEW c \in Call, Issue(o, c, c.op), c.key = Args(o).key,
             c.op = "create" => GetCreate(o)
      PROVE  GetInv(o)' /\ OneQueuePerKey'
  <2>1. /\ pc[o] = "user" /\ pc'[o] = Entry(c) /\ UNCHANGED <<msq, cur>>
        /\ log' = log /\ program' = program
    BY <1>4 DEF Issue, Syscall, Goto, locals, LibInv, Inv, TypeOK
  <2>2. Used' = Used /\ Args(o)' = Args(o)
    BY <2>1 DEF Used, Args
  <2>3. OneQueuePerKey' /\ \A k : Of(k)' = Of(k)
    BY <1>0, <2>1, <2>2, SameQueues
  <2>4. /\ pc'[o] \notin {"user", "check"}
        /\ pc'[o] = "alloc" => GetCreate(o)
    BY <1>4, <2>1, CallFields DEF Entry, Ops
  <2>5. GetCreate(o) /\ Args(o).key > 0 => Of(Args(o).key) = {}
    BY <2>1 DEF GetCreate, Back, OpenInv, GetInv
  <2> QED
    BY <2>2, <2>3, <2>4, <2>5 DEF GetInv
<1>5. ASSUME NEW r \in Int, Finish(o, r), pc[o] = "user"
      PROVE  GetInv(o)' /\ OneQueuePerKey'
  <2>1. UNCHANGED vars /\ at'[o] = "out"
    BY <1>5 DEF Finish, LibInv, LibTypeOK
  <2>2. OneQueuePerKey'
    BY <1>0, <2>1, SameQueues DEF vars, Used
  <2>3. pc'[o] = "user"
    BY <1>5, <2>1 DEF vars
  <2> QED
    BY <2>1, <2>2, <2>3 DEF GetInv
<1>6. ASSUME Inside(o), UNCHANGED libVars
      PROVE  GetInv(o)' /\ OneQueuePerKey'
  <2> DEFINE k == Args(o).key
  <2>0. at' = at /\ Args(o)' = Args(o)
    BY <1>6 DEF libVars, Args
  <2>1. ASSUME Used' = Used, \A n \in Used : msq'[n].key = msq[n].key,
               pc'[o] # "check", pc'[o] # "alloc",
               pc'[o] = "user" => at[o] # "check"
        PROVE  GetInv(o)' /\ OneQueuePerKey'
    BY <1>0, <2>0, <2>1, SameQueues DEF GetInv
  <2>2. CASE Acquire(o)
    BY <2>1, <2>2 DEF Acquire, Goto, Used, LibInv, Inv, TypeOK
  <2>3. CASE Scan(o)
    <3>1. /\ pc[o] = "scan" /\ Sound(o) /\ msq' = msq /\ Used' = Used
          /\ call[o].op = at[o] /\ call[o].key = k
      BY <1>0, <2>3 DEF Scan, At, Used, WaitInv
    <3>2. OneQueuePerKey' /\ \A x : Of(x)' = Of(x)
      BY <1>0, <3>1, SameQueues
    <3>3. CASE nxt[cur[o]] = Root /\ NotFound(o)
      <4>1. CASE at[o] = "check"
        <5>1. Of(k) = {}
          BY <3>1, <3>3, AheadEnd DEF Of, OpenInv, OwnerInv
        <5>2. pc'[o] = "user"
          BY <3>1, <3>3, <4>1 DEF NotFound, Return, Goto, LibInv, Inv, TypeOK
        <5> QED
          BY <2>0, <3>2, <5>1, <5>2 DEF GetInv
      <4>2. CASE at[o] # "check"
        <5>1. pc'[o] \in {"close", "unlock"}
          BY <3>1, <3>3, <4>2 DEF NotFound, Leave, Goto, LibInv, Inv, TypeOK
        <5> QED
          BY <3>2, <5>1 DEF GetInv
      <4> QED
        BY <4>1, <4>2
    <3>4. CASE nxt[cur[o]] # Root
      <4> DEFINE n == nxt[cur[o]]
      <4>1. cur'[o] = n /\ n \in Used
        BY <2>3, <3>1, <3>4, <1>0, SoundScan, QueueAssumption
           DEF Scan, Used, LibInv, Inv, TypeOK
      <4>2. CASE msq[n].key = k /\ Found(o)
        <5>1. pc'[o] = at[o] /\ pc'[o] \in {"check", "close", "read", "write"}
          BY <1>0, <3>1, <4>2 DEF Found, Goto, LibInv, Inv, TypeOK, CallInv
        <5>2. n \in Of(k)
          BY <4>1, <4>2 DEF Of
        <5> QED
          BY <2>0, <3>2, <4>1, <5>1, <5>2 DEF GetInv
      <4>3. CASE pc' = pc
        BY <3>1, <3>2, <4>3 DEF GetInv
      <4> QED
        BY <2>3, <3>1, <3>4, <4>2, <4>3 DEF Scan
    <3> QED
      BY <2>3, <3>3, <3>4 DEF Scan
  <2>4. CASE ReturnKey(o)
    <3>1. /\ pc[o] = "check" /\ pc'[o] = "user" /\ msq' = msq
          /\ ret'[o] = msq[cur[o]].key
      BY <2>4 DEF ReturnKey, At, Return, Goto, LibInv, Inv, TypeOK
    <3>2. OneQueuePerKey' /\ \A x : Of(x)' = Of(x)
      BY <1>0, <3>1, SameQueues DEF Used
    <3>3. ASSUME at[o] = "check", k > 0
          PROVE  Exists(o)'
      <4>1. ret'[o] = k /\ k \in Int
        <5>1. cur[o] \in Of(k)
          BY <3>1, <3>3 DEF OpenInv, GetInv
        <5>2. msq[cur[o]] \in Queue
          BY <1>0, <2>4, SoundCur DEF ReturnKey, At
        <5>3. msq[cur[o]].key \in Key
          BY <5>2, QueueFields
        <5> QED
          BY <3>1, <5>1, <5>3 DEF Of
      <4>2. MAX_ERRNO \in Nat
        BY DEF MAX_ERRNO
      <4>3. ret'[o] \notin -MAX_ERRNO..-1 /\ ret'[o] > 0
        BY <3>3, <4>1, <4>2
      <4>4. Answer(o)' = ret'[o]
        BY <4>3 DEF Answer
      <4> QED
        BY <4>3, <4>4 DEF Exists
    <3> QED
      BY <2>0, <3>1, <3>2, <3>3 DEF GetInv
  <2>5. CASE CreateAlloc(o)
    <3>1. PICK n \in Node :
            /\ msq[n] = NULL
            /\ msq' = [msq EXCEPT ![n] = [key |-> call[o].key, msgs |-> <<>>,
                                          size |-> 0, vol |-> 0]]
      BY <2>5 DEF CreateAlloc
    <3>2. /\ pc[o] = "alloc" /\ pc'[o] = "back" /\ call[o].key = k
      BY <1>0, <2>5 DEF CreateAlloc, At, Goto, LibInv, Inv, TypeOK, WaitInv
    <3>3. /\ msq'[n].key = k
          /\ \A x \in Used : msq'[x] = msq[x]
          /\ Used' \subseteq Used \cup {n}
      BY <3>1, <3>2 DEF Used, LibInv, Inv, TypeOK
    <3>4. k > 0 => \A x \in Used : msq[x].key # k
      BY <3>2 DEF OpenInv, GetInv, Of
    <3>5. OneQueuePerKey'
      BY <1>0, <3>3, <3>4 DEF OneQueuePerKey
    <3> QED
      BY <3>2, <3>5 DEF GetInv
  <2>6. CASE CreateLinkBack(o)
    BY <2>1, <2>6 DEF CreateLinkBack, Goto, Used, LibInv, Inv, TypeOK
  <2>7. CASE CreateLinkFront(o)
    <3>1. /\ pc[o] = "front" /\ pc'[o] = "check" /\ msq' = msq
          /\ at[o] = "create"
      BY <1>0, <2>7 DEF CreateLinkFront, At, Goto, LibInv, Inv, TypeOK,
                        WaitInv, CallInv
    <3>2. OneQueuePerKey'
      BY <1>0, <3>1, SameQueues DEF Used
    <3> QED
      BY <2>0, <3>1, <3>2 DEF GetInv
  <2>8. CASE CloseRead(o) \/ CloseUnlinkBack(o) \/ CloseUnlinkFront(o)
    <3>1. msq' = msq /\ pc'[o] \in {"unback", "unfront", "kfree"}
      BY <2>8 DEF CloseRead, CloseUnlinkBack, CloseUnlinkFront, Goto, LibInv,
                  Inv, TypeOK
    <3> QED
      BY <2>1, <3>1 DEF Used
  <2>9. CASE CloseFree(o)
    <3>1. /\ pc'[o] = "user" /\ at[o] = "close"
          /\ msq' = [msq EXCEPT ![cur[o]] = NULL]
      BY <1>0, <2>9 DEF CloseFree, At, Return, Goto, LibInv, Inv, TypeOK,
                        WaitInv, CallInv
    <3>2. Used' \subseteq Used /\ \A x \in Used' : msq'[x] = msq[x]
      BY <3>1 DEF Used, LibInv, Inv, TypeOK
    <3>3. OneQueuePerKey'
      BY <1>0, <3>2 DEF OneQueuePerKey
    <3> QED
      BY <2>0, <3>1, <3>3 DEF GetInv
  <2>10. CASE ReadFind(o) \/ ReadCopy(o) \/ WriteCheck(o)
    <3>1. msq' = msq
      BY <2>10 DEF ReadFind, ReadCopy, WriteCheck
    <3>2. pc'[o] \in {"copy", "remove", "append", "unlock"}
      BY <2>10 DEF ReadFind, ReadCopy, WriteCheck, Leave, Goto, LibInv, Inv,
                   TypeOK
    <3> QED
      BY <2>1, <3>1, <3>2 DEF Used
  <2>11. CASE ReadRemove(o) \/ WriteAppend(o)
    <3>1. pc'[o] = "unlock"
      BY <2>11 DEF ReadRemove, WriteAppend, Leave, Goto, LibInv, Inv, TypeOK
    <3> QED
      BY <1>0, <2>1, <2>11, <3>1, SameKeys
  <2>12. CASE Unlock(o)
    <3>1. pc'[o] = "user" /\ at[o] \in {"read", "write"} /\ msq' = msq
      BY <1>0, <2>12 DEF Unlock, At, Return, Goto, LibInv, Inv, TypeOK,
                         WaitInv, CallInv
    <3> QED
      BY <2>1, <3>1 DEF Used
  <2>13. CASE Fault(o)
    BY <1>1, <1>6, <2>13 DEF Fault, libVars, locals, list, Used
  <2> QED
    BY <1>6, <2>2, <2>3, <2>4, <2>5, <2>6, <2>7, <2>8, <2>9, <2>10, <2>11,
       <2>12, <2>13 DEF Inside, Ioctl, Transfer
<1>7. ASSUME ProcStep(o)
      PROVE  GetInv(o)' /\ OneQueuePerKey'
  BY <1>4, <1>5, <1>6, <1>7, StepCalls DEF ProcStep
<1> QED
  BY <1>2, <1>3, <1>7 DEF LibNext

(* As long as one process does all msgget and msgclose, a positive key has *)
(* one queue: its CHECKs miss none, whatever the others send and receive.  *)
(* Two processes that open a key at the same time get two (ipc_lib_race).  *)
THEOREM OneOpenerOneQueue ==
    ASSUME NEW o \in Proc
    PROVE  LibSpec /\ OpensAlone(o) => []OneQueuePerKey
<1>1. LibInv /\ OpensAlone(o) /\ [LibNext]_allVars => OpensAlone(o)'
  BY ProgramsStay DEF OpensAlone
<1>2. LibInit => OpenInv(o)
  BY OpenInit
<1>3. /\ LibInv /\ AllWait /\ OpensAlone(o) /\ OpenInv(o)
      /\ [LibNext]_allVars
      => OpenInv(o)'
  <2> SUFFICES ASSUME LibInv, AllWait, OpensAlone(o), OpenInv(o),
                      [LibNext]_allVars
               PROVE  OpenInv(o)'
    OBVIOUS
  <2>1. Inv /\ Alone(o) /\ [Next]_vars
    BY OpensAloneIsAlone, LibIsDriver DEF LibInv
  <2>2. RingInv(o)' /\ OwnerInv(o)'
    BY <2>1, OwnerNext DEF OpenInv
  <2> QED
    BY <2>2, GetNext DEF OpenInv
<1>4. OpenInv(o) => OneQueuePerKey
  BY DEF OpenInv
<1> QED
  BY <1>1, <1>2, <1>3, <1>4, LibInvInit, LibInvNext, WaitInit, WaitNext, PTL
     DEF LibSpec

-----------------------------------------------------------------------------
(* What a traversal along N meets up to the first node of K.               *)
Passes(N, K, S) ==
    \A x \in S \cup {Root} : x \in K \/ N[x] \in S \cup {Root, NULL}

First(N, K, n) == n \in K /\ \A S \in SUBSET Node : Passes(N, K, S) => n \in S

(* N leads round all of R, whose nodes but the root are in memory.         *)
Round(N, R) ==
    /\ Root \in R /\ R \subseteq Node \cup {Root}
    /\ \A x \in R : N[x] \in R
    /\ \A S \in SUBSET R : S # {} /\ (\A x \in S : N[x] \in S) => S = R

Links == [Node \cup {Root} -> Ptr]

(* What is found is in the circle.                                         *)
LEMMA FirstIsRound ==
    ASSUME NEW N, NEW K, NEW R, Round(N, R), NEW n, First(N, K, n)
    PROVE  n \in R
<1>1. R \ {Root} \in SUBSET Node
  BY DEF Round
<1>2. Passes(N, K, R \ {Root})
  BY DEF Passes, Round
<1> QED
  BY <1>1, <1>2 DEF First

(* At most one node is found.                                              *)
LEMMA FirstIsOne ==
    ASSUME NEW N \in Links, NEW K \in SUBSET Node,
           NEW m, First(N, K, m), NEW n, First(N, K, n)
    PROVE  m = n
<1> DEFINE Closed(S) == \A x \in S : x \in K \/ N[x] \in S \cup {Root, NULL}
           L == {x \in Node : \A S \in SUBSET Node : Passes(N, K, S) => x \in S}
           B == {x \in L : \A S \in SUBSET Node : x \in S /\ Closed(S) => m \in S}
<1>0. Root \notin Node /\ NULL \notin Node
  BY KuIpcAssumption
<1>1. \A x \in L \cup {Root} : x \in K \/ N[x] \in L \cup {Root, NULL}
  <2> SUFFICES ASSUME NEW x \in L \cup {Root}, x \notin K, N[x] \notin {Root, NULL}
               PROVE  N[x] \in L
    OBVIOUS
  <2>1. N[x] \in Node
    BY DEF Links, Ptr
  <2>2. ASSUME NEW S \in SUBSET Node, Passes(N, K, S)
        PROVE  N[x] \in S
    BY <2>2 DEF Passes
  <2> QED
    BY <2>1, <2>2
<1>2. m \in K /\ n \in K /\ m \in L /\ n \in L
  BY DEF First
<1>3. B \in SUBSET Node
  OBVIOUS
<1>4. ASSUME NEW x \in B \cup {Root}
      PROVE  x \in K \/ N[x] \in B \cup {Root, NULL}
  <2> SUFFICES ASSUME x \notin K, N[x] \notin {Root, NULL}
               PROVE  N[x] \in B
    OBVIOUS
  <2>1. N[x] \in L
    BY <1>1
  <2>2. ASSUME NEW S \in SUBSET Node, N[x] \in S, Closed(S)
        PROVE  m \in S
    <3>1. CASE x = Root
      <4>1. Passes(N, K, S)
        BY <2>2, <3>1 DEF Passes
      <4> QED
        BY <4>1 DEF First
    <3>2. CASE x # Root
      <4>1. x \in B /\ x \in Node
        BY <3>2
      <4>2. S \cup {x} \in SUBSET Node /\ Closed(S \cup {x})
        BY <2>2, <4>1
      <4>3. m \in S \cup {x}
        BY <4>1, <4>2
      <4> QED
        BY <1>2, <4>3
    <3> QED
      BY <3>1, <3>2
  <2> QED
    BY <2>1, <2>2
<1>5. Passes(N, K, B)
  BY <1>4 DEF Passes
<1>6. n \in B
  BY <1>3, <1>5 DEF First
<1>7. {n} \in SUBSET Node /\ Closed({n})
  BY <1>2
<1>8. m \in {n}
  BY <1>6, <1>7
<1> QED
  BY <1>8

(* One is found when there is one in the circle.                           *)
LEMMA FirstIsThere ==
    ASSUME NEW N \in Links, NEW K \in SUBSET Node, NEW R, Round(N, R),
           NEW y \in R \cap K
    PROVE  \E m : First(N, K, m)
<1> SUFFICES ASSUME \A m : ~First(N, K, m)
             PROVE  FALSE
  OBVIOUS
<1> DEFINE L == {x \in Node : \A S \in SUBSET Node : Passes(N, K, S) => x \in S}
<1>0. Root \notin Node /\ NULL \notin Node \cup {Root}
  BY KuIpcAssumption
<1>1. \A x \in L : x \notin K
  BY DEF First
<1>2. L \subseteq R
  <2>1. R \ {Root} \in SUBSET Node /\ Passes(N, K, R \ {Root})
    BY DEF Passes, Round
  <2> QED
    BY <2>1
<1>3. ASSUME NEW x \in L \cup {Root}
      PROVE  N[x] \in L \cup {Root}
  <2>1. x \notin K /\ N[x] \in R
    BY <1>0, <1>1, <1>2 DEF Round
  <2>2. N[x] = Root \/ N[x] \in Node
    BY <2>1 DEF Round
  <2>3. ASSUME NEW S \in SUBSET Node, Passes(N, K, S), N[x] # Root
        PROVE  N[x] \in S
    <3>1. N[x] \in S \cup {Root, NULL}
      BY <2>1, <2>3 DEF Passes
    <3> QED
      BY <1>0, <2>2, <2>3, <3>1
  <2> QED
    BY <2>2, <2>3
<1>4. L \cup {Root} \in SUBSET R /\ L \cup {Root} # {}
  BY <1>2 DEF Round
<1>5. L \cup {Root} = R
  BY <1>3, <1>4 DEF Round
<1> QED
  BY <1>0, <1>1, <1>5

(* It stays the first when links and nodes change elsewhere.               *)
LEMMA FirstStays ==
    ASSUME NEW N, NEW K, NEW M, NEW J, NEW R, Round(N, R), K \subseteq Node,
           J \subseteq Node,
           \A x \in R : M[x] = N[x], R \cap J = R \cap K,
           NEW n, First(N, K, n)
    PROVE  First(M, J, n)
<1>0. n \in R /\ n \in K
  BY FirstIsRound DEF First
<1>1. ASSUME NEW S \in SUBSET Node, Passes(M, J, S)
      PROVE  n \in S
  <2>1. ASSUME NEW x \in (S \cap R) \cup {Root}
        PROVE  x \in K \/ N[x] \in (S \cap R) \cup {Root, NULL}
    <3>1. x \in R /\ N[x] \in R /\ M[x] = N[x]
      BY DEF Round
    <3>2. x \in J \/ M[x] \in S \cup {Root, NULL}
      BY <1>1 DEF Passes
    <3> QED
      BY <3>1, <3>2
  <2>2. Passes(N, K, S \cap R)
    BY <2>1 DEF Passes
  <2> QED
    BY <2>2 DEF First
<1> QED
  BY <1>0, <1>1 DEF First

(* ... also when a node without K joins at the end of the circle.          *)
LEMMA FirstWithLast ==
    ASSUME NEW N, NEW K, NEW M, NEW R, Round(N, R),
           NEW l \in R, N[l] = Root, \A x \in R : x # l => M[x] = N[x],
           NEW n, First(N, K, n)
    PROVE  First(M, K, n)
<1>0. n \in R /\ n \in K
  BY FirstIsRound DEF First
<1>1. ASSUME NEW S \in SUBSET Node, Passes(M, K, S)
      PROVE  n \in S
  <2>1. ASSUME NEW x \in (S \cap R) \cup {Root}
        PROVE  x \in K \/ N[x] \in (S \cap R) \cup {Root, NULL}
    <3>1. x \in R /\ N[x] \in R /\ (x # l => M[x] = N[x])
      BY DEF Round
    <3>2. x \in K \/ M[x] \in S \cup {Root, NULL}
      BY <1>1 DEF Passes
    <3> QED
      BY <3>1, <3>2
  <2>2. Passes(N, K, S \cap R)
    BY <2>1 DEF Passes
  <2> QED
    BY <2>2 DEF First
<1> QED
  BY <1>0, <1>1 DEF First

(* ... or when one without K leaves it.                                    *)
LEMMA FirstWithout ==
    ASSUME NEW N, NEW K, NEW M, NEW l, NEW d \in Node, d \notin K, l # d,
           N[l] = d, M[l] = N[d], \A x \in Node \cup {Root} : x # l => M[x] = N[x],
           NEW n, First(N, K, n)
    PROVE  First(M, K, n)
<1>0. n \in K /\ n # d
  BY DEF First
<1>1. ASSUME NEW S \in SUBSET Node, Passes(M, K, S)
      PROVE  n \in S
  <2>1. CASE l \in S \cup {Root} /\ l \notin K
    <3>1. N[d] \in S \cup {Root, NULL}
      BY <1>1, <2>1 DEF Passes
    <3>2. ASSUME NEW x \in S \cup {d} \cup {Root}
          PROVE  x \in K \/ N[x] \in S \cup {d} \cup {Root, NULL}
      <4>1. CASE x = d
        BY <3>1, <4>1
      <4>2. CASE x = l
        BY <4>2
      <4>3. CASE x # d /\ x # l
        BY <1>1, <4>3 DEF Passes
      <4> QED
        BY <4>1, <4>2, <4>3
    <3>3. Passes(N, K, S \cup {d}) /\ S \cup {d} \in SUBSET Node
      BY <3>2 DEF Passes
    <3> QED
      BY <1>0, <3>3 DEF First
  <2>2. CASE ~(l \in S \cup {Root} /\ l \notin K)
    <3>1. Passes(N, K, S)
      BY <1>1, <2>2 DEF Passes
    <3> QED
      BY <3>1 DEF First
  <2> QED
    BY <2>1, <2>2
<1> QED
  BY <1>0, <1>1 DEF First

(* What the users see of key k is what the queue found for it contains.    *)
Shows ==
    \A k \in Key : /\ \A n : Finds(k, n) => Contents[k] = Content(n)
                   /\ (\A n : ~Finds(k, n)) => Contents[k] = NULL

(* Finds is this search, along nxt and for the queues of key k.            *)
LEMMA FindsFirst ==
    \A k, n : Finds(k, n) <=> First(nxt, Of(k), n)
  BY DEF Finds, First, Has, OnTheWay, Passes, Of

(* ... because at most one queue is found.                                 *)
LEMMA ShowsHolds == TypeOK => Shows
<1> SUFFICES ASSUME TypeOK, NEW k \in Key
             PROVE  /\ \A n : Finds(k, n) => Contents[k] = Content(n)
                    /\ (\A n : ~Finds(k, n)) => Contents[k] = NULL
  BY DEF Shows
<1>1. ASSUME NEW n, Finds(k, n)
      PROVE  Contents[k] = Content(n)
  <2> DEFINE m == CHOOSE m \in Used : Finds(k, m)
  <2>1. n \in Used
    BY <1>1 DEF Finds, Has
  <2>2. m \in Used /\ Finds(k, m)
    BY <1>1, <2>1
  <2>3. nxt \in Links /\ Of(k) \in SUBSET Node
    BY DEF TypeOK, Links, Of, Used
  <2> HIDE DEF m
  <2>4. m = n
    BY <1>1, <2>2, <2>3, FindsFirst, FirstIsOne
  <2> QED
    BY <1>1, <2>1, <2>4 DEF Contents, m
<1> QED
  BY <1>1 DEF Contents

(* The list as o has it is such a circle.                                  *)
LEMMA RingIsRound ==
    ASSUME NEW o, RingInv(o)
    PROVE  Round(nxt, Ring(o))
  BY RingType DEF Round, RingInv, Circle

(* ... and so it is after the step.                                        *)
LEMMA RingIsRoundNext ==
    ASSUME NEW o, RingInv(o)'
    PROVE  Round(nxt', Ring(o)')
<1>1. Ring(o)' \subseteq Node \cup {Root} /\ Root \in Ring(o)'
  BY DEF Ring, Used
<1> QED
  BY <1>1 DEF Round, RingInv, Circle

(* Every key finds the same as before when the ring is as before.          *)
LEMMA FindsKept ==
    ASSUME NEW o, RingInv(o), RingInv(o)', Ring(o)' = Ring(o),
           \A x \in Ring(o) : nxt'[x] = nxt[x],
           \A x \in Ring(o) : \A k : Has(x, k)' <=> Has(x, k)
    PROVE  \A k, n : Finds(k, n)' <=> Finds(k, n)
<1> SUFFICES ASSUME NEW k, NEW n
             PROVE  Finds(k, n)' <=> Finds(k, n)
  OBVIOUS
<1> DEFINE R == Ring(o)
<1>1. Round(nxt, R) /\ Round(nxt', R)
  BY RingIsRound, RingIsRoundNext
<1>2. R \cap Of(k)' = R \cap Of(k) /\ Of(k) \subseteq Node /\ Of(k)' \subseteq Node
  BY DEF Of, Has, Used
<1>3. Finds(k, n) <=> First(nxt, Of(k), n)
  BY FindsFirst
<1>4. Finds(k, n)' <=> First(nxt', Of(k)', n)
  BY DEF Finds, First, Has, OnTheWay, Passes, Of
<1> HIDE DEF R
<1>5. First(nxt, Of(k), n) => First(nxt', Of(k)', n)
  BY <1>1, <1>2, FirstStays DEF R
<1>6. First(nxt', Of(k)', n) => First(nxt, Of(k), n)
  BY <1>1, <1>2, FirstStays DEF R
<1> QED
  BY <1>3, <1>4, <1>5, <1>6

(* ... and shows the same when what is in the queues is, too.              *)
LEMMA ContentsKept ==
    ASSUME NEW o, RingInv(o), RingInv(o)', Ring(o)' = Ring(o), Shows, Shows',
           \A x \in Ring(o) : nxt'[x] = nxt[x],
           \A x \in Ring(o) : \A k : Has(x, k)' <=> Has(x, k),
           \A x \in Ring(o) \ {Root} : Content(x)' = Content(x)
    PROVE  Contents' = Contents
<1>1. \A k, n : Finds(k, n)' <=> Finds(k, n)
  BY FindsKept
<1>2. ASSUME NEW k \in Key
      PROVE  Contents'[k] = Contents[k]
  <2>1. ASSUME NEW n, Finds(k, n)
        PROVE  Contents'[k] = Contents[k]
    <3>1. n \in Ring(o) \ {Root}
      <4>1. n \in Ring(o)
        BY <2>1, FindsFirst, FirstIsRound, RingIsRound
      <4>2. n \in Node
        BY <2>1 DEF Finds, Has, Used
      <4> QED
        BY <4>1, <4>2, KuIpcAssumption
    <3>2. Contents[k] = Content(n) /\ Contents'[k] = Content(n)'
      BY <1>1, <2>1 DEF Shows
    <3> QED
      BY <3>1, <3>2
  <2>2. ASSUME \A n : ~Finds(k, n)
        PROVE  Contents'[k] = Contents[k]
    BY <1>1, <2>2 DEF Shows
  <2> QED
    BY <2>1, <2>2
<1>3. /\ Contents = [k \in Key |-> Contents[k]]
      /\ Contents' = [k \in Key |-> Contents'[k]]
  BY DEF Contents
<1> QED
  BY <1>2, <1>3, Zenon

(* What the users see of the messages s.                                   *)
Texts(s) == [i \in DOMAIN s |-> [type |-> s[i].type, msgsz |-> s[i].msgsz]]

(* ... has a text for each of them.                                        *)
LEMMA TextsType ==
    ASSUME NEW s \in Seq(Message)
    PROVE  /\ Texts(s) \in Seq(Abstract!Text)
           /\ Len(Texts(s)) = Len(s) /\ DOMAIN Texts(s) = 1..Len(s)
           /\ \A i \in 1..Len(s) : /\ Texts(s)[i].type = s[i].type
                                   /\ Texts(s)[i].msgsz = s[i].msgsz
                                   /\ Texts(s)[i] = [type |-> s[i].type, msgsz |-> s[i].msgsz]
<1>1. Len(s) \in Nat /\ DOMAIN s = 1..Len(s)
  BY LenProperties
<1>2. \A i \in 1..Len(s) : s[i] \in Message
  BY ElementOfSeq
<1>3. \A i \in 1..Len(s) : [type |-> s[i].type, msgsz |-> s[i].msgsz] \in Abstract!Text
  BY <1>2 DEF Message, Abstract!Text
<1>4. Texts(s) \in [1..Len(s) -> Abstract!Text]
  BY <1>1, <1>3 DEF Texts
<1>5. Texts(s) \in Seq(Abstract!Text) /\ DOMAIN Texts(s) = 1..Len(s)
  BY <1>1, <1>4, SeqDef
<1>6. Len(Texts(s)) = Len(s)
  <2>1. Len(Texts(s)) \in Nat /\ DOMAIN Texts(s) = 1..Len(Texts(s))
    BY <1>5, LenProperties
  <2> QED
    BY <1>1, <1>5, <2>1
<1> QED
  BY <1>1, <1>5, <1>6 DEF Texts

(* ... grows by one text when they grow by one message,                    *)
LEMMA TextsAppend ==
    ASSUME NEW s \in Seq(Message), NEW m \in Message
    PROVE  Texts(Append(s, m)) =
                Append(Texts(s), [type |-> m.type, msgsz |-> m.msgsz])
<1> DEFINE t == [type |-> m.type, msgsz |-> m.msgsz]
<1>1. t \in Abstract!Text
  BY DEF Message, Abstract!Text
<1>2. /\ Append(s, m) \in Seq(Message) /\ Len(Append(s, m)) = Len(s) + 1
      /\ \A i \in 1..Len(s) : Append(s, m)[i] = s[i]
      /\ Append(s, m)[Len(s) + 1] = m
  BY AppendProperties
<1>3. Len(s) \in Nat /\ Texts(s) \in Seq(Abstract!Text) /\ Len(Texts(s)) = Len(s)
  BY TextsType, LenProperties
<1> HIDE DEF t
<1>4. /\ Append(Texts(s), t) \in Seq(Abstract!Text)
      /\ Len(Append(Texts(s), t)) = Len(s) + 1
      /\ \A i \in 1..Len(s) : Append(Texts(s), t)[i] = Texts(s)[i]
      /\ Append(Texts(s), t)[Len(s) + 1] = t
  BY <1>1, <1>3, AppendProperties
<1>5. ASSUME NEW i \in 1..(Len(s) + 1)
      PROVE  Texts(Append(s, m))[i] = Append(Texts(s), t)[i]
  <2>0. Texts(Append(s, m))[i] = [type |-> Append(s, m)[i].type,
                                  msgsz |-> Append(s, m)[i].msgsz]
    BY <1>2, TextsType
  <2>1. CASE i \in 1..Len(s)
    <3>1. Texts(s)[i] = [type |-> s[i].type, msgsz |-> s[i].msgsz]
      BY <2>1, TextsType
    <3> QED
      BY <1>2, <1>4, <2>0, <2>1, <3>1
  <2>2. CASE i = Len(s) + 1
    BY <1>2, <1>4, <2>0, <2>2 DEF t
  <2> QED
    BY <1>3, <2>1, <2>2
<1>6. Texts(Append(s, m)) \in Seq(Abstract!Text) /\ Len(Texts(Append(s, m))) = Len(s) + 1
  BY <1>2, TextsType
<1>7. Texts(Append(s, m)) = Append(Texts(s), t)
  BY <1>4, <1>5, <1>6, SeqEqual
<1> QED
  BY <1>7 DEF t

(* ... and loses the text of the message they lose.                        *)
LEMMA TextsRemove ==
    ASSUME NEW s \in Seq(Message), NEW k \in 1..Len(s)
    PROVE  Texts(RemoveAt(s, k)) = RemoveAt(Texts(s), k)
<1>1. Len(s) \in Nat /\ Texts(s) \in Seq(Abstract!Text) /\ Len(Texts(s)) = Len(s)
  BY TextsType, LenProperties
<1>2. /\ RemoveAt(s, k) \in Seq(Message) /\ Len(RemoveAt(s, k)) = Len(s) - 1
      /\ \A i \in 1..(Len(s) - 1) :
            RemoveAt(s, k)[i] = IF i < k THEN s[i] ELSE s[i + 1]
  BY RemoveAtProperties
<1>3. /\ RemoveAt(Texts(s), k) \in Seq(Abstract!Text)
      /\ Len(RemoveAt(Texts(s), k)) = Len(s) - 1
      /\ \A i \in 1..(Len(s) - 1) :
            RemoveAt(Texts(s), k)[i] = IF i < k THEN Texts(s)[i] ELSE Texts(s)[i + 1]
  BY <1>1, RemoveAtProperties
<1>4. ASSUME NEW i \in 1..(Len(s) - 1)
      PROVE  Texts(RemoveAt(s, k))[i] = RemoveAt(Texts(s), k)[i]
  <2>1. Texts(RemoveAt(s, k))[i] = [type |-> RemoveAt(s, k)[i].type,
                                    msgsz |-> RemoveAt(s, k)[i].msgsz]
    BY <1>2, TextsType
  <2>2. i \in 1..Len(s) /\ i + 1 \in 1..Len(s)
    BY <1>1
  <2>3. /\ Texts(s)[i] = [type |-> s[i].type, msgsz |-> s[i].msgsz]
        /\ Texts(s)[i + 1] = [type |-> s[i + 1].type, msgsz |-> s[i + 1].msgsz]
    BY <2>2, TextsType
  <2>4. CASE i < k
    BY <1>2, <1>3, <2>1, <2>3, <2>4
  <2>5. CASE ~(i < k)
    BY <1>2, <1>3, <2>1, <2>3, <2>5
  <2> QED
    BY <2>4, <2>5
<1>5. /\ Texts(RemoveAt(s, k)) \in Seq(Abstract!Text)
      /\ Len(Texts(RemoveAt(s, k))) = Len(s) - 1
  BY <1>2, TextsType
<1> QED
  BY <1>3, <1>4, <1>5, SeqEqual

(* A queue with right counters is within the limits of the abstract one.   *)
LEMMA TextsFit ==
    ASSUME StrayReads = {}, NEW q \in Queue, QueueInv(q)
    PROVE  Abstract!Fits(Texts(q.msgs)) /\ Texts(q.msgs) # NULL
<1>1. q.msgs \in Seq(Message)
  BY QueueFields
<1> DEFINE s == q.msgs
           t == Texts(q.msgs)
<1>2. /\ Len(t) = Len(s) /\ Len(s) \in Nat /\ t \in Seq(Abstract!Text)
      /\ \A i \in 1..Len(s) : t[i].msgsz = s[i].msgsz
  BY <1>1, TextsType, LenProperties
<1>3. PICK sum \in [0..Len(s) -> 0..KUIPC_MAXVOL] : PrefixSums(s, sum)
  BY DEF QueueInv, Adds
<1>4. Len(t) <= KUIPC_MAXMSG
  BY <1>2 DEF QueueInv
<1> HIDE DEF s, t
<1>5. Abstract!Fits(t)
  BY <1>2, <1>3, <1>4 DEF Abstract!Fits, PrefixSums
<1>6. t # NULL
  <2>1. t \in [1..Len(t) -> Abstract!Text] /\ Len(t) \in 0..KUIPC_MAXMSG
    BY <1>2, <1>4, LenProperties, KuIpcAssumption
  <2> QED
    BY <2>1, ContentAssumption DEF Abstract!Text
<1> QED
  BY <1>5, <1>6 DEF t

(* While read copies and removes a message, no older one has its type.     *)
FirstInv(p) ==
    pc[p] \in {"copy", "remove"} /\ pos[p] # 0 =>
        FirstOfType(msq[cur[p]].msgs, pos[p], call[p].type)

(* A WRITE appends behind, and nothing is removed but under the lock.      *)
LEMMA FirstNext ==
    ASSUME Inv, \A p \in Proc : FirstInv(p), [Next]_vars
    PROVE  \A p \in Proc : FirstInv(p)'
<1>1. ASSUME NEW q \in Proc,
             pc'[q] \in {"copy", "remove"} /\ pos'[q] # 0 =>
                /\ pc[q] \in {"copy", "remove"} /\ pos'[q] = pos[q]
                /\ cur'[q] = cur[q] /\ call'[q] = call[q]
                /\ msq'[cur[q]] = msq[cur[q]]
      PROVE  FirstInv(q)'
  BY <1>1 DEF FirstInv, FirstOfType
<1>2. CASE UNCHANGED vars
  BY <1>1, <1>2 DEF vars, locals
<1>3. ASSUME NEW p \in Proc, NEW c \in Call, Syscall(p, c)
      PROVE  \A q \in Proc : FirstInv(q)'
  <2>1. /\ pc'[p] \notin {"copy", "remove"}
        /\ \A q \in Proc \ {p} : pc'[q] = pc[q] /\ call'[q] = call[q]
        /\ msq' = msq /\ pos' = pos /\ cur' = cur
    BY <1>3, CallFields DEF Syscall, Goto, Entry, locals, Inv, TypeOK
  <2> QED
    BY <1>1, <2>1
<1>4. ASSUME NEW p \in Proc, Scan(p)
      PROVE  \A q \in Proc : FirstInv(q)'
  <2>1. /\ pc[p] = "scan" /\ msq' = msq
        /\ pc'[p] \notin {"copy", "remove"}
        /\ \A q \in Proc \ {p} : /\ pc'[q] = pc[q] /\ call'[q] = call[q]
                                 /\ pos'[q] = pos[q] /\ cur'[q] = cur[q]
    <3>0. pc[p] = "scan" /\ msq' = msq
      BY <1>4 DEF Scan, At
    <3>1. CASE nxt[cur[p]] = Root /\ NotFound(p)
      BY <3>0, <3>1 DEF NotFound, Return, Leave, Goto, locals, Inv, TypeOK
    <3>2. CASE nxt[cur[p]] # Root
      BY <1>4, <3>0, <3>2 DEF Scan, Found, Goto, Inv, TypeOK, CallInv
    <3> QED
      BY <1>4, <3>1, <3>2 DEF Scan
  <2> QED
    BY <1>1, <2>1
<1>5. ASSUME NEW p \in Proc,
             \/ Acquire(p) \/ ReturnKey(p) \/ CreateLinkBack(p)
             \/ CreateLinkFront(p) \/ CloseRead(p) \/ CloseUnlinkBack(p)
             \/ CloseUnlinkFront(p) \/ ReadCopy(p) \/ WriteCheck(p)
             \/ Unlock(p) \/ Fault(p)
      PROVE  \A q \in Proc : FirstInv(q)'
  <2>1. /\ msq' = msq
        /\ \A q \in Proc \ {p} : /\ pc'[q] = pc[q] /\ call'[q] = call[q]
                                 /\ pos'[q] = pos[q] /\ cur'[q] = cur[q]
    BY <1>5
       DEF Acquire, ReturnKey, CreateLinkBack, CreateLinkFront, CloseRead,
           CloseUnlinkBack, CloseUnlinkFront, ReadCopy, WriteCheck, Unlock,
           Fault, Goto, Return, Leave, locals, Inv, TypeOK
  <2>2. pc'[p] \in {"copy", "remove"} =>
            /\ pc[p] \in {"copy", "remove"} /\ pos'[p] = pos[p]
            /\ cur'[p] = cur[p] /\ call'[p] = call[p]
    BY <1>5
       DEF Acquire, ReturnKey, CreateLinkBack, CreateLinkFront, CloseRead,
           CloseUnlinkBack, CloseUnlinkFront, ReadCopy, WriteCheck, Unlock,
           Fault, At, Goto, Return, Leave, locals, Inv, TypeOK
  <2> QED
    BY <1>1, <2>1, <2>2
<1>6. ASSUME NEW p \in Proc, CreateAlloc(p)
      PROVE  \A q \in Proc : FirstInv(q)'
  <2>1. PICK n \in Node : /\ msq[n] = NULL
                          /\ \A x : x # n => msq'[x] = msq[x]
    BY <1>6 DEF CreateAlloc, Inv, TypeOK
  <2>2. /\ pc'[p] = "back" /\ pos' = pos /\ call' = call
        /\ \A q \in Proc \ {p} : pc'[q] = pc[q] /\ cur'[q] = cur[q]
    BY <1>6 DEF CreateAlloc, Goto, Inv, TypeOK
  <2>3. \A q \in Proc : pc[q] \in {"copy", "remove"} /\ pos[q] # 0 => cur[q] # n
    BY <2>1 DEF Inv, PosInv
  <2> QED
    BY <1>1, <2>1, <2>2, <2>3
<1>7. ASSUME NEW p \in Proc, CloseFree(p)
      PROVE  \A q \in Proc : FirstInv(q)'
  <2>1. /\ pc'[p] = "user" /\ \A x : x # cur[p] => msq'[x] = msq[x]
        /\ \A q \in Proc \ {p} :
            /\ pc'[q] = pc[q] /\ call'[q] = call[q] /\ cur'[q] = cur[q]
            /\ cur[q] = cur[p] => pos'[q] = 0
            /\ cur[q] # cur[p] => pos'[q] = pos[q]
    BY <1>7 DEF CloseFree, Return, Goto, Inv, TypeOK
  <2> QED
    BY <1>1, <2>1
<1>8. ASSUME NEW p \in Proc, ReadFind(p)
      PROVE  \A q \in Proc : FirstInv(q)'
  <2>1. /\ pc[p] = "read" /\ msq' = msq /\ call' = call /\ cur' = cur
        /\ \A q \in Proc \ {p} : pc'[q] = pc[q] /\ pos'[q] = pos[q]
    BY <1>8 DEF ReadFind, At, Leave, Goto, Inv, TypeOK
  <2>2. pc'[p] \in {"copy", "remove"} =>
            FirstOfType(msq[cur[p]].msgs, pos'[p], call[p].type)
    BY <1>8, <2>1 DEF ReadFind, Leave, Goto, Inv, TypeOK
  <2>3. FirstInv(p)'
    BY <2>1, <2>2 DEF FirstInv, FirstOfType
  <2> QED
    BY <1>1, <2>1, <2>3
<1>9. ASSUME NEW p \in Proc, ReadRemove(p) \/ WriteAppend(p)
      PROVE  \A q \in Proc : FirstInv(q)'
  <2>1. /\ pc[p] \in {"remove", "append"} /\ pc'[p] = "unlock"
        /\ \A q \in Proc \ {p} : pc'[q] = pc[q]
    BY <1>9 DEF ReadRemove, WriteAppend, At, Leave, Goto, Inv, TypeOK
  <2>2. \A q \in Proc \ {p} : pc[q] \notin {"copy", "remove"}
    BY <2>1 DEF Inv, LockOwned, Locked
  <2> QED
    BY <1>1, <2>1, <2>2
<1> QED
  BY <1>2, <1>3, <1>4, <1>5, <1>6, <1>7, <1>8, <1>9
     DEF Next, Inside, Ioctl, Transfer

-----------------------------------------------------------------------------
(* No other call stands on the queue that CLOSE of o is about to free.     *)
Unheld(o) ==
    pc[o] = "kfree" =>
        \A p \in Proc \ {o} : pc[p] # "unlock" => cur[p] # cur[o]

(* Then nobody holds a queue that is not in the list, so that a new one is *)
(* empty until it is; and CLOSE takes only queues of positive keys.        *)
HoldInv(o) ==
    /\ \A p \in Proc \ {o} : pc[p] # "unlock" => cur[p] \in Ring(o)
    /\ pc[o] \in {"back", "front"} => msq[cur[o]].msgs = <<>>

CloseInv(o) ==
    LET k == Args(o).key
    IN  /\ at[o] = "check" /\ pc[o] = "user" /\ Exists(o) => k > 0
        /\ at[o] = "close" => k > 0
        /\ pc[o] \in {"close", "unback", "unfront", "kfree"} /\ cur[o] # NULL
              => cur[o] \in Of(k)

(* A traversal only walks on in the list, and CREATE alone adds to it.     *)
LEMMA HoldNext ==
    ASSUME NEW o \in Proc, Inv, Alone(o), RingInv(o), OwnerInv(o), HoldInv(o),
           Unheld(o)', [Next]_vars
    PROVE  HoldInv(o)'
<1> USE KuIpcAssumption
<1>1. CASE UNCHANGED vars
  BY <1>1 DEF vars, locals, list, HoldInv, Ring, Used
<1>2. ASSUME NEW p \in Proc \ {o}, Inside(p) \/ \E c \in Call : Syscall(p, c)
      PROVE  HoldInv(o)'
  <2>1. /\ nxt' = nxt /\ Used' = Used /\ pc'[o] = pc[o] /\ cur'[o] = cur[o]
        /\ Ring(o)' = Ring(o)
    BY <1>2, OthersKeep DEF Ring
  <2>2. /\ ~CreateAlloc(p) /\ ~CreateLinkBack(p) /\ ~CreateLinkFront(p)
        /\ ~CloseRead(p) /\ ~CloseUnlinkBack(p) /\ ~CloseUnlinkFront(p)
        /\ ~CloseFree(p)
    BY DEF Alone, Inv, CallInv, At, CreateAlloc, CreateLinkBack,
           CreateLinkFront, CloseRead, CloseUnlinkBack, CloseUnlinkFront,
           CloseFree
  <2>3. /\ \A q \in Proc \ {p} : pc'[q] = pc[q] /\ cur'[q] = cur[q]
        /\ pc'[p] # "unlock" => cur'[p] \in Ring(o)
    <3>0. Root \in Ring(o)
      BY RingType
    <3>1. CASE Scan(p)
      <4>1. pc[p] = "scan" /\ cur[p] \in Ring(o) /\ nxt[cur[p]] \in Ring(o)
        BY <3>1 DEF Scan, At, HoldInv, RingInv, Circle
      <4>2. call[p].op # "close"
        BY DEF Alone
      <4>3. CASE nxt[cur[p]] = Root /\ NotFound(p)
        BY <3>0, <4>1, <4>2, <4>3 DEF NotFound, Return, Leave, Goto, locals, Inv, TypeOK
      <4>4. CASE nxt[cur[p]] # Root
        BY <3>1, <4>1, <4>4 DEF Scan, Found, Goto, Inv, TypeOK
      <4> QED
        BY <3>1, <4>3, <4>4 DEF Scan
    <3>2. CASE ReturnKey(p) \/ Unlock(p)
      BY <3>0, <3>2 DEF ReturnKey, Unlock, Return, Goto, Inv, TypeOK
    <3>3. CASE \E c \in Call : Syscall(p, c)
      BY <3>3 DEF Syscall, Goto, locals, HoldInv, Inv, TypeOK
    <3>4. CASE Acquire(p) \/ Fault(p)
      BY <3>4 DEF Acquire, At, Fault, Goto, locals, HoldInv, Inv, TypeOK
    <3>5. CASE ReadFind(p)
      <4>1. cur' = cur /\ pc[p] = "read" /\ \A q \in Proc \ {p} : pc'[q] = pc[q]
        BY <3>5 DEF ReadFind, At, Leave, Goto, Inv, TypeOK
      <4> QED
        BY <4>1 DEF HoldInv
    <3>6. CASE ReadCopy(p) \/ ReadRemove(p) \/ WriteCheck(p) \/ WriteAppend(p)
      <4>1. /\ cur' = cur /\ pc[p] # "unlock"
            /\ \A q \in Proc \ {p} : pc'[q] = pc[q]
        BY <3>6 DEF ReadCopy, ReadRemove, WriteCheck, WriteAppend, At, Leave,
                    Goto, locals, Inv, TypeOK
      <4> QED
        BY <4>1 DEF HoldInv
    <3> QED
      BY <1>2, <2>2, <3>1, <3>2, <3>3, <3>4, <3>5, <3>6
         DEF Inside, Ioctl, Transfer
  <2>4. pc[o] \in {"back", "front"} => msq'[cur[o]] = msq[cur[o]]
    <3>1. CASE ReadRemove(p) \/ WriteAppend(p)
      <4>1. pc[p] # "unlock" /\ \A x : x # cur[p] => msq'[x] = msq[x]
        <5>1. pc[p] # "unlock"
          BY <3>1 DEF ReadRemove, WriteAppend, At
        <5>2. \E q \in Queue : msq' = [msq EXCEPT ![cur[p]] = q]
          BY <3>1, RemoveStores, AppendStores
        <5> QED
          BY <5>1, <5>2 DEF Inv, TypeOK
      <4>2. cur[p] \in Ring(o)
        BY <4>1 DEF HoldInv
      <4>3. pc[o] \in {"back", "front"} => cur[o] \notin Ring(o)
        BY DEF Ring, OwnerInv, Used
      <4> QED
        BY <4>1, <4>2, <4>3
    <3>2. CASE ~(ReadRemove(p) \/ WriteAppend(p))
      BY <1>2, <2>2, <3>2
         DEF Inside, Ioctl, Transfer, Syscall, Acquire, Scan, ReturnKey,
             ReadFind, ReadCopy, WriteCheck, Unlock, Fault
    <3> QED
      BY <3>1, <3>2
  <2> QED
    BY <2>1, <2>3, <2>4 DEF HoldInv
(* A step of o leaves the others where they are. *)
<1>3. ASSUME \A q \in Proc \ {o} : pc'[q] = pc[q] /\ cur'[q] = cur[q],
             Ring(o) \subseteq Ring(o)', pc'[o] \notin {"back", "front"}
      PROVE  HoldInv(o)'
  BY <1>3 DEF HoldInv
<1>4. ASSUME \A q \in Proc \ {o} : pc'[q] = pc[q] /\ cur'[q] = cur[q],
             Used' = Used,
             {pc[o], pc'[o]} \cap {"back", "front", "kfree"} = {}
      PROVE  HoldInv(o)'
  BY <1>3, <1>4 DEF Ring
<1>5. ASSUME NEW c \in Call, Syscall(o, c)
      PROVE  HoldInv(o)'
  BY <1>4, <1>5, CallFields
     DEF Syscall, Goto, Entry, locals, Used, Inv, TypeOK
<1>6. CASE Acquire(o)
  BY <1>4, <1>6 DEF Acquire, At, Goto, locals, Used, Inv, TypeOK
<1>7. CASE Scan(o)
  <2>1. pc[o] = "scan" /\ msq' = msq
    BY <1>7 DEF Scan, At
  <2>2. /\ \A q \in Proc \ {o} : pc'[q] = pc[q] /\ cur'[q] = cur[q]
        /\ pc'[o] \notin {"back", "front", "kfree"}
    <3>1. CASE nxt[cur[o]] = Root /\ NotFound(o)
      BY <2>1, <3>1 DEF NotFound, Return, Leave, Goto, locals, Inv, TypeOK
    <3>2. CASE nxt[cur[o]] # Root
      BY <1>7, <2>1, <3>2 DEF Scan, Found, Goto, Inv, TypeOK, CallInv
    <3> QED
      BY <1>7, <3>1, <3>2 DEF Scan
  <2> QED
    BY <1>4, <2>1, <2>2 DEF Used
<1>8. CASE ReturnKey(o) \/ Unlock(o)
  BY <1>4, <1>8 DEF ReturnKey, Unlock, At, Return, Goto, Used, Inv, TypeOK
<1>9. CASE CloseRead(o) \/ CloseUnlinkBack(o)
  BY <1>4, <1>9 DEF CloseRead, CloseUnlinkBack, At, Goto, locals, Used, Inv, TypeOK
<1>10. CASE ReadFind(o)
  <2>1. /\ msq' = msq /\ cur' = cur /\ pc[o] = "read"
        /\ pc'[o] \in {"copy", "unlock"}
        /\ \A q \in Proc \ {o} : pc'[q] = pc[q]
    BY <1>10 DEF ReadFind, At, Leave, Goto, Inv, TypeOK
  <2> QED
    BY <1>4, <2>1 DEF Used
<1>11. CASE ReadCopy(o) \/ WriteCheck(o) \/ ReadRemove(o) \/ WriteAppend(o)
  <2>1. /\ cur' = cur /\ pc[o] \in {"copy", "write", "remove", "append"}
        /\ pc'[o] \in {"remove", "append", "unlock"}
        /\ \A q \in Proc \ {o} : pc'[q] = pc[q]
    BY <1>11 DEF ReadCopy, WriteCheck, ReadRemove, WriteAppend, At, Leave,
                 Goto, locals, Inv, TypeOK
  <2>2. Used' = Used
    BY <1>11, SameKeys DEF ReadCopy, WriteCheck, Used
  <2> QED
    BY <1>4, <2>1, <2>2
<1>12. CASE CreateAlloc(o)
  <2>1. PICK n \in Node :
          /\ msq[n] = NULL
          /\ msq' = [msq EXCEPT ![n] = [key |-> call[o].key, msgs |-> <<>>,
                                        size |-> 0, vol |-> 0]]
          /\ cur' = [cur EXCEPT ![o] = n]
    BY <1>12 DEF CreateAlloc
  <2>2. /\ pc[o] = "alloc" /\ pc'[o] = "back" /\ cur'[o] = n
        /\ msq'[n].msgs = <<>>
        /\ \A q \in Proc \ {o} : pc'[q] = pc[q] /\ cur'[q] = cur[q]
    BY <1>12, <2>1 DEF CreateAlloc, At, Goto, Inv, TypeOK
  <2>3. Used \subseteq Used' \ {n}
    BY <2>1 DEF Used, Inv, TypeOK
  <2>4. Ring(o) \subseteq Ring(o)'
    BY <2>2, <2>3 DEF Ring
  <2> QED
    BY <2>2, <2>4 DEF HoldInv
<1>13. CASE CreateLinkBack(o)
  <2>1. /\ pc[o] = "back" /\ pc'[o] = "front" /\ cur' = cur /\ msq' = msq
        /\ \A q \in Proc \ {o} : pc'[q] = pc[q]
    BY <1>13 DEF CreateLinkBack, At, Goto, locals, Inv, TypeOK
  <2>2. Ring(o)' = Ring(o)
    BY <2>1 DEF Ring, Used
  <2> QED
    BY <2>1, <2>2 DEF HoldInv
<1>14. CASE CreateLinkFront(o)
  <2>1. /\ pc'[o] = "check" /\ cur' = cur /\ msq' = msq
        /\ \A q \in Proc \ {o} : pc'[q] = pc[q]
    BY <1>14 DEF CreateLinkFront, Goto, locals, Inv, TypeOK
  <2>2. Ring(o) \subseteq Ring(o)'
    BY <2>1 DEF Ring, Used
  <2> QED
    BY <1>3, <2>1, <2>2
<1>15. CASE CloseUnlinkFront(o)
  <2>1. /\ pc[o] = "unfront" /\ pc'[o] = "kfree" /\ cur' = cur /\ msq' = msq
        /\ \A q \in Proc \ {o} : pc'[q] = pc[q]
    BY <1>15 DEF CloseUnlinkFront, At, Goto, locals, Inv, TypeOK
  <2>2. Ring(o)' = Ring(o) \ {cur[o]}
    BY <2>1 DEF Ring, OwnerInv, Used
  <2> QED
    BY <2>1, <2>2 DEF HoldInv, Unheld
<1>16. CASE CloseFree(o)
  <2>1. /\ pc[o] = "kfree" /\ pc'[o] = "user"
        /\ \A q \in Proc \ {o} : pc'[q] = pc[q] /\ cur'[q] = cur[q]
        /\ \A x \in Node \ {cur[o]} : msq'[x] = msq[x]
    BY <1>16 DEF CloseFree, At, Return, Goto, Inv, TypeOK
  <2>2. Ring(o) \subseteq Ring(o)'
    BY <2>1 DEF Ring, Used
  <2> QED
    BY <1>3, <2>1, <2>2
<1>17. CASE Fault(o)
  BY <1>17 DEF Fault, locals, HoldInv, Ring, Used
<1> QED
  BY <1>1, <1>2, <1>5, <1>6, <1>7, <1>8, <1>9, <1>10, <1>11, <1>12, <1>13,
     <1>14, <1>15, <1>16, <1>17 DEF Next, Inside, Ioctl, Transfer

(* CLOSE is called only where CHECK has found a queue of a positive key,   *)
(* and takes it out.                                                       *)
LEMMA CloseNext ==
    ASSUME NEW o \in Proc, LibInv, AllWait, OpensAlone(o), OpenInv(o),
           CloseInv(o), [LibNext]_allVars
    PROVE  CloseInv(o)'
<1> USE KuIpcAssumption
<1>0. Inv /\ Alone(o) /\ WaitInv(o) /\ CallInv(o)
  BY OpensAloneIsAlone DEF LibInv, AllWait, Inv
<1>1. ASSUME Used' = Used, \A n \in Used : msq'[n].key = msq[n].key,
             pc'[o] = pc[o], cur'[o] = cur[o], ret'[o] = ret[o],
             at'[o] = at[o], log'[o] = log[o], program' = program
      PROVE  CloseInv(o)'
  <2>1. \A k : Of(k)' = Of(k)
    BY <1>1, SameQueues
  <2>2. Args(o)' = Args(o) /\ (Exists(o)' <=> Exists(o))
    BY <1>1 DEF Args, Exists, Answer
  <2> QED
    BY <1>1, <2>1, <2>2 DEF CloseInv
<1>2. CASE UNCHANGED allVars
  BY <1>1, <1>2 DEF allVars, vars, libVars, locals, list, Used
<1>3. ASSUME NEW p \in Proc \ {o}, ProcStep(p)
      PROVE  CloseInv(o)'
  <2>1. CASE Inside(p) /\ UNCHANGED libVars
    BY <1>0, <1>1, <2>1, OthersKeep DEF libVars
  <2>2. ASSUME NEW c \in Call, Issue(p, c, c.op)
        PROVE  CloseInv(o)'
    <3>1. Syscall(p, c) /\ log' = log /\ program' = program /\ at'[o] = at[o]
      BY <2>2 DEF Issue, LibInv, LibTypeOK
    <3> QED
      BY <1>0, <1>1, <3>1, OthersKeep
  <2>3. ASSUME NEW r \in Int, Finish(p, r)
        PROVE  CloseInv(o)'
    BY <1>1, <2>3 DEF Finish, vars, locals, list, Used, LibInv, LibTypeOK
  <2> QED
    BY <1>3, <2>1, <2>2, <2>3, StepCalls DEF ProcStep
<1>4. ASSUME NEW c \in Call, Issue(o, c, c.op), c.key = Args(o).key,
             c.op = "close" => CloseExisting(o)
      PROVE  CloseInv(o)'
  <2>1. /\ pc[o] = "user" /\ pc'[o] = Entry(c) /\ at'[o] = c.op
        /\ log' = log /\ program' = program
    BY <1>4 DEF Issue, Syscall, Goto, LibInv, LibTypeOK, Inv, TypeOK
  <2>2. Args(o)' = Args(o)
    BY <2>1 DEF Args
  <2>3. pc'[o] \in {"alloc", "scan", "spin"}
    BY <2>1, CallFields DEF Entry, Ops
  <2>4. c.op = "close" => Args(o).key > 0
    BY <1>4, <2>1 DEF CloseExisting, Back, CloseInv
  <2> QED
    BY <2>1, <2>2, <2>3, <2>4 DEF CloseInv
<1>5. ASSUME NEW r \in Int, Finish(o, r), pc[o] = "user"
      PROVE  CloseInv(o)'
  <2>1. pc'[o] = "user" /\ at'[o] = "out"
    BY <1>5 DEF Finish, vars, LibInv, LibTypeOK
  <2> QED
    BY <2>1 DEF CloseInv
<1>6. ASSUME Inside(o), UNCHANGED libVars
      PROVE  CloseInv(o)'
  <2> DEFINE k == Args(o).key
  <2>0. at' = at /\ Args(o)' = Args(o) /\ (at[o] = "close" => k > 0)
    BY <1>6 DEF libVars, Args, CloseInv
  <2>1. ASSUME pc'[o] \notin {"user", "close", "unback", "unfront", "kfree"}
        PROVE  CloseInv(o)'
    BY <2>0, <2>1 DEF CloseInv
  <2>2. ASSUME pc'[o] = "user", at[o] # "check"
        PROVE  CloseInv(o)'
    BY <2>0, <2>2 DEF CloseInv
  <2>3. CASE Acquire(o)
    BY <2>1, <2>3 DEF Acquire, Goto, LibInv, Inv, TypeOK
  <2>4. CASE Scan(o)
    <3>1. /\ pc[o] = "scan" /\ Sound(o) /\ msq' = msq /\ Used' = Used
          /\ call[o].op = at[o] /\ call[o].key = k
      BY <1>0, <2>4 DEF Scan, At, Used, WaitInv
    <3>2. \A x : Of(x)' = Of(x)
      BY <3>1 DEF Of
    <3>3. CASE nxt[cur[o]] = Root /\ NotFound(o)
      <4>1. CASE at[o] = "check"
        <5>1. pc'[o] = "user" /\ ret'[o] = IPC_RES_NOMSQ
          BY <3>1, <3>3, <4>1 DEF NotFound, Return, Goto, LibInv, Inv, TypeOK
        <5>2. ~Exists(o)'
          BY <5>1, SMT DEF Exists, Answer, IPC_RES_NOMSQ, MAX_ERRNO
        <5> QED
          BY <2>0, <5>1, <5>2, <4>1 DEF CloseInv
      <4>2. CASE at[o] = "close"
        <5>1. pc'[o] = "close" /\ cur'[o] = NULL
          BY <3>1, <3>3, <4>2 DEF NotFound, Goto, LibInv, Inv, TypeOK
        <5> QED
          BY <2>0, <5>1 DEF CloseInv
      <4>3. CASE at[o] \notin {"check", "close"}
        <5>1. pc'[o] = "unlock"
          BY <3>1, <3>3, <4>3 DEF NotFound, Leave, Goto, LibInv, Inv, TypeOK
        <5> QED
          BY <2>1, <5>1
      <4> QED
        BY <4>1, <4>2, <4>3
    <3>4. CASE nxt[cur[o]] # Root
      <4> DEFINE n == nxt[cur[o]]
      <4>1. cur'[o] = n /\ n \in Used
        BY <2>4, <3>1, <3>4, <1>0, SoundScan, QueueAssumption
           DEF Scan, Used, LibInv, Inv, TypeOK
      <4>2. CASE msq[n].key = k /\ Found(o)
        <5>1. pc'[o] \in {"check", "close", "read", "write"}
          BY <1>0, <3>1, <4>2 DEF Found, Goto, LibInv, Inv, TypeOK, CallInv
        <5>2. cur'[o] \in Of(k)'
          BY <2>0, <3>2, <4>1, <4>2 DEF Of
        <5> QED
          BY <2>0, <5>1, <5>2 DEF CloseInv
      <4>3. CASE pc' = pc
        BY <2>1, <3>1, <4>3
      <4> QED
        BY <2>4, <3>1, <3>4, <4>2, <4>3 DEF Scan
    <3> QED
      BY <2>4, <3>3, <3>4 DEF Scan
  <2>5. CASE ReturnKey(o)
    <3>1. /\ pc[o] = "check" /\ pc'[o] = "user" /\ msq' = msq
          /\ ret'[o] = msq[cur[o]].key
      BY <2>5 DEF ReturnKey, At, Return, Goto, LibInv, Inv, TypeOK
    <3>2. ASSUME at[o] = "check", Exists(o)'
          PROVE  k > 0
      <4>1. ret'[o] = k
        BY <3>1, <3>2 DEF OpenInv, GetInv, Of
      <4>2. Answer(o)' = -1 \/ Answer(o)' = k
        BY <4>1 DEF Answer
      <4> QED
        BY <3>2, <4>2 DEF Exists
    <3> QED
      BY <2>0, <3>1, <3>2 DEF CloseInv
  <2>6. CASE CreateAlloc(o) \/ CreateLinkBack(o) \/ CreateLinkFront(o)
    <3>1. pc'[o] \in {"back", "front", "check"}
      BY <2>6 DEF CreateAlloc, CreateLinkBack, CreateLinkFront, Goto, LibInv,
                  Inv, TypeOK
    <3> QED
      BY <2>1, <3>1
  <2>7. CASE CloseRead(o) \/ CloseUnlinkBack(o) \/ CloseUnlinkFront(o)
    <3>1. /\ msq' = msq /\ cur' = cur /\ pc'[o] \in {"unback", "unfront", "kfree"}
          /\ pc[o] \in {"close", "unback", "unfront"}
      BY <2>7 DEF CloseRead, CloseUnlinkBack, CloseUnlinkFront, At, Goto,
                  locals, LibInv, Inv, TypeOK
    <3>2. Of(k)' = Of(k)
      BY <2>0, <3>1 DEF Of, Used
    <3> QED
      BY <2>0, <3>1, <3>2 DEF CloseInv
  <2>8. CASE CloseFree(o)
    <3>1. pc'[o] = "user" /\ at[o] = "close"
      BY <1>0, <2>8 DEF CloseFree, At, Return, Goto, LibInv, Inv, TypeOK,
                        WaitInv, CallInv
    <3> QED
      BY <2>2, <3>1
  <2>9. CASE Transfer(o) /\ ~Unlock(o)
    <3>1. pc'[o] \in {"copy", "remove", "append", "unlock"}
      BY <2>9 DEF Transfer, ReadFind, ReadCopy, ReadRemove, WriteCheck,
                  WriteAppend, Leave, Goto, LibInv, Inv, TypeOK
    <3> QED
      BY <2>1, <3>1
  <2>10. CASE Unlock(o)
    <3>1. pc'[o] = "user" /\ at[o] \in {"read", "write"}
      BY <1>0, <2>10 DEF Unlock, At, Return, Goto, LibInv, Inv, TypeOK,
                         WaitInv, CallInv
    <3> QED
      BY <2>2, <3>1
  <2>11. CASE Fault(o)
    BY <1>1, <1>6, <2>11 DEF Fault, libVars, locals, list, Used
  <2> QED
    BY <1>6, <2>3, <2>4, <2>5, <2>6, <2>7, <2>8, <2>9, <2>10, <2>11
       DEF Inside, Ioctl
<1>7. ASSUME ProcStep(o)
      PROVE  CloseInv(o)'
  BY <1>4, <1>5, <1>6, <1>7, StepCalls DEF ProcStep
<1> QED
  BY <1>2, <1>3, <1>7 DEF LibNext

(* The contents depend only on the list and the queues.                    *)
LEMMA ContentsIdle ==
    ASSUME nxt' = nxt, msq' = msq
    PROVE  Contents' = Contents
  BY DEF Contents, Finds, Has, OnTheWay, Content, Used

(* Contents is a function of the keys.                                     *)
LEMMA ContentsType ==
    /\ Contents = [k \in Key |-> Contents[k]]
    /\ Contents' = [k \in Key |-> Contents'[k]]
  BY DEF Contents

(* A key shows the same when what it finds is the same, and no more.       *)
LEMMA SameAt ==
    ASSUME Shows, Shows', NEW k \in Key,
           \A m : Finds(k, m) => Finds(k, m)' /\ Content(m)' = Content(m),
           (\A m : ~Finds(k, m)) => \A m : ~Finds(k, m)'
    PROVE  Contents'[k] = Contents[k]
<1>1. CASE \E m : Finds(k, m)
  <2>1. PICK m : Finds(k, m) /\ Finds(k, m)' /\ Content(m)' = Content(m)
    BY <1>1
  <2> QED
    BY <2>1 DEF Shows
<1>2. CASE \A m : ~Finds(k, m)
  BY <1>2 DEF Shows
<1> QED
  BY <1>1, <1>2

(* Only a queue of the list is found, and one for every key in the list.   *)
LEMMA FindsInRing ==
    ASSUME NEW o, RingInv(o), TypeOK, NEW k
    PROVE  /\ \A m : Finds(k, m) => m \in Ring(o) /\ m \in Node /\ m \in Of(k)
           /\ \A y \in Ring(o) \cap Of(k) : \E m : Finds(k, m)
<1>1. Round(nxt, Ring(o)) /\ nxt \in Links /\ Of(k) \in SUBSET Node
  BY RingIsRound DEF TypeOK, Links, Of, Used
<1>2. \A m : Finds(k, m) <=> First(nxt, Of(k), m)
  BY FindsFirst
<1>3. \A m : First(nxt, Of(k), m) => m \in Ring(o) /\ m \in Of(k)
  BY <1>1, FirstIsRound DEF First
<1>4. \A y \in Ring(o) \cap Of(k) : \E m : First(nxt, Of(k), m)
  BY <1>1, FirstIsThere
<1> QED
  BY <1>1, <1>2, <1>3, <1>4

(* ... also after the step.                                                *)
LEMMA FindsInRingNext ==
    ASSUME NEW o, RingInv(o)', TypeOK', NEW k
    PROVE  /\ \A m : Finds(k, m)' => m \in Ring(o)' /\ m \in Node /\ m \in Of(k)'
           /\ \A y \in Ring(o)' \cap Of(k)' : \E m : Finds(k, m)'
<1>1. Round(nxt', Ring(o)') /\ nxt' \in Links /\ Of(k)' \in SUBSET Node
  BY RingIsRoundNext DEF TypeOK, Links, Of, Used
<1>2. \A m : Finds(k, m)' <=> First(nxt', Of(k)', m)
  BY DEF Finds, First, Has, OnTheWay, Passes, Of
<1>3. \A m : First(nxt', Of(k)', m) => m \in Ring(o)' /\ m \in Of(k)'
  BY <1>1, FirstIsRound DEF First
<1>4. \A y \in Ring(o)' \cap Of(k)' : \E m : First(nxt', Of(k)', m)
  BY <1>1, FirstIsThere
<1> QED
  BY <1>1, <1>2, <1>3, <1>4

(* Nothing is seen of what happens outside the list.                       *)
LEMMA ContentsElsewhere ==
    ASSUME NEW o, RingInv(o), RingInv(o)', Ring(o)' = Ring(o), Shows, Shows',
           \A x \in Ring(o) : nxt'[x] = nxt[x],
           \A x \in Ring(o) \ {Root} : msq'[x] = msq[x]
    PROVE  Contents' = Contents
<1>1. \A x \in Ring(o) : \A k : Has(x, k)' <=> Has(x, k)
  BY KuIpcAssumption DEF Has, Used
<1>2. \A x \in Ring(o) \ {Root} : Content(x)' = Content(x)
  BY DEF Content
<1> QED
  BY <1>1, <1>2, ContentsKept

(* When the messages of queue n change, only its key shows it, if at all.  *)
LEMMA OneChanged ==
    ASSUME NEW o, RingInv(o), RingInv(o)', Ring(o)' = Ring(o), Shows, Shows',
           nxt' = nxt, NEW n \in Used, msq[n].key \in Key,
           msq'[n] # NULL, msq'[n].key = msq[n].key,
           \A x \in Node \ {n} : msq'[x] = msq[x]
    PROVE  \/ Contents' = Contents
           \/ /\ Contents[msq[n].key] = Content(n)
              /\ Contents' = [Contents EXCEPT ![msq[n].key] = Content(n)']
<1> DEFINE j == msq[n].key
<1>0. Root \notin Node
  BY KuIpcAssumption
<1>1. \A x, k : Has(x, k)' <=> Has(x, k)
  BY DEF Has, Used
<1>2. \A k, m : Finds(k, m)' <=> Finds(k, m)
  BY <1>1, FindsKept
<1>3. \A k, m : Finds(k, m) => m \in Used /\ msq[m].key = k
  BY DEF Finds, Has
<1>4. \A x \in Node \ {n} : Content(x)' = Content(x)
  BY DEF Content
<1>5. ASSUME NEW k \in Key, k # j \/ ~Finds(j, n)
      PROVE  Contents'[k] = Contents[k]
  <2>1. \A m : Finds(k, m) => m \in Node \ {n}
    BY <1>3, <1>5 DEF Used
  <2> QED
    BY <1>2, <1>4, <2>1, SameAt
<1>6. CASE ~Finds(j, n)
  BY <1>5, <1>6, ContentsType, Zenon
<1>7. CASE Finds(j, n)
  <2>1. Contents[j] = Content(n) /\ Contents'[j] = Content(n)'
    BY <1>2, <1>7 DEF Shows
  <2>2. \A k \in Key : Contents'[k] = IF k = j THEN Content(n)' ELSE Contents[k]
    BY <1>5, <2>1
  <2>3. Contents' = [k \in Key |-> IF k = j THEN Content(n)' ELSE Contents[k]]
    BY <2>2, ContentsType
  <2>4. DOMAIN Contents = Key
    BY DEF Contents
  <2>5. Contents' = [Contents EXCEPT ![j] = Content(n)']
    BY <2>3, <2>4
  <2> QED
    BY <2>1, <2>5
<1> QED
  BY <1>6, <1>7

-----------------------------------------------------------------------------
(* CREATE makes a queue for its key visible, unless it has one already.    *)
LEMMA LinkOpens ==
    ASSUME NEW o \in Proc, Inv, RingInv(o), OwnerInv(o), HoldInv(o), TypeOK',
           RingInv(o)', Shows, Shows', CreateLinkFront(o)
    PROVE  Contents' = Contents \/ \E k \in Key : Abstract!Open(k)
<1> DEFINE R == Ring(o)
           n == cur[o]
           l == lp[o]
           T == Ring(o)'
<1>1. /\ pc[o] = "front" /\ pc'[o] = "check"
      /\ nxt' = [nxt EXCEPT ![l] = n] /\ msq' = msq
      /\ cur' = cur /\ Used' = Used
  BY DEF CreateLinkFront, At, Goto, locals, Used, Inv, TypeOK
<1>2. n \in Used /\ n \in Node /\ n # Root /\ n \notin R /\ msq[n].msgs = <<>>
  BY <1>1, KuIpcAssumption DEF OwnerInv, HoldInv, Used, Ring
<1>3. l \in R /\ nxt[l] = Root
  BY <1>1, RingType DEF RingInv, Before
<1>4. T = R \cup {n}
  BY <1>1, <1>2 DEF Ring
<1>5. \A x \in R : x # l => nxt'[x] = nxt[x]
  BY <1>1, RingType DEF Inv, TypeOK
<1>6. PICK j \in Key : TypeOK /\ j = msq[n].key
  BY <1>2, QueueFields DEF Used, Inv, TypeOK
<1>7. \A k : Of(k)' = Of(k)
  BY <1>1 DEF Of
<1>8. \A m : Content(m)' = Content(m)
  BY <1>1 DEF Content
<1>9. ASSUME NEW k, NEW m, Finds(k, m)
      PROVE  Finds(k, m)'
  <2>1. First(nxt, Of(k), m)
    BY <1>9, FindsFirst
  <2>2. First(nxt', Of(k), m)
    BY <1>3, <1>5, <2>1, RingIsRound, FirstWithLast
  <2> QED
    BY <1>7, <2>2 DEF Finds, First, Has, OnTheWay, Passes, Of
<1>10. ASSUME NEW k \in Key, k # j \/ \E m : Finds(k, m)
       PROVE  Contents'[k] = Contents[k]
  <2>1. ASSUME \A m : ~Finds(k, m), NEW m, Finds(k, m)'
        PROVE  FALSE
    <3>1. m \in T /\ m \in Of(k)
      BY <1>7, <2>1, FindsInRingNext
    <3>2. m \in R
      BY <1>4, <1>6, <1>10, <2>1, <3>1 DEF Of
    <3> QED
      BY <1>6, <2>1, <3>1, <3>2, FindsInRing
  <2> QED
    BY <1>8, <1>9, <2>1, SameAt
<1>11. CASE \E m : Finds(j, m)
  BY <1>10, <1>11, ContentsType, Zenon
<1>12. CASE \A m : ~Finds(j, m)
  <2>1. Contents[j] = NULL
    BY <1>6, <1>12 DEF Shows
  <2>2. n \in T \cap Of(j)'
    BY <1>2, <1>4, <1>6, <1>7 DEF Of
  <2>3. PICK m : Finds(j, m)'
    BY <2>2, FindsInRingNext
  <2>4. m \in T /\ m \in Of(j)
    BY <1>7, <2>3, FindsInRingNext
  <2>5. m = n
    BY <1>4, <1>6, <1>12, <2>4, FindsInRing
  <2>6. Contents'[j] = <<>>
    <3>1. Contents'[j] = Content(n)
      BY <1>6, <1>8, <2>3, <2>5 DEF Shows
    <3>2. Content(n) = Texts(<<>>)
      BY <1>2 DEF Content, Texts
    <3>3. Texts(<<>>) = <<>>
      BY TextsType, EmptySeq
    <3> QED
      BY <3>1, <3>2, <3>3
  <2>7. \A k \in Key : Contents'[k] = IF k = j THEN <<>> ELSE Contents[k]
    BY <1>10, <2>6
  <2>8. Contents' = [k \in Key |-> IF k = j THEN <<>> ELSE Contents[k]]
    BY <2>7, ContentsType
  <2>9. DOMAIN Contents = Key
    BY DEF Contents
  <2>10. Contents' = [Contents EXCEPT ![j] = <<>>]
    BY <2>8, <2>9
  <2> QED
    BY <1>6, <2>1, <2>10 DEF Abstract!Open
<1> QED
  BY <1>11, <1>12

(* CLOSE takes the only queue of its key away from the users.              *)
LEMMA UnlinkCloses ==
    ASSUME NEW o \in Proc, Inv, OpenInv(o), CountInv, CloseInv(o), TypeOK',
           RingInv(o)', Shows, Shows', StrayReads = {}, CloseUnlinkFront(o),
           WaitInv(o), CallInv(o)
    PROVE  \E k \in Key : Abstract!Close(k)
<1> DEFINE R == Ring(o)
           n == cur[o]
           l == lp[o]
           T == Ring(o)'
<1>0. RingInv(o) /\ OwnerInv(o) /\ OneQueuePerKey
  BY DEF OpenInv
<1>1. /\ pc[o] = "unfront" /\ pc'[o] = "kfree"
      /\ nxt' = [nxt EXCEPT ![l] = ln[o]] /\ msq' = msq
      /\ cur' = cur /\ Used' = Used
  BY DEF CloseUnlinkFront, At, Goto, locals, Used, Inv, TypeOK
<1>2. /\ n \in Used /\ n \in R /\ n \in Node /\ n # Root /\ n # NULL
      /\ nxt[n] = ln[o] /\ prv[n] = l
  BY <1>0, <1>1, KuIpcAssumption DEF OwnerInv, Used, Ring
<1>3. ln[o] # n
  BY <1>0, <1>2, Apart
<1>4. Before(o, n) = l
  BY <1>1, <1>2, <1>3 DEF Before
<1>5. l \in R /\ nxt[l] = n /\ l # n
  BY <1>0, <1>2, <1>3, <1>4 DEF RingInv, Circle
<1>6. T = R \ {n}
  BY <1>1, <1>2 DEF Ring
<1>7. nxt'[l] = nxt[n] /\ \A x \in Node \cup {Root} : x # l => nxt'[x] = nxt[x]
  BY <1>1, <1>2, <1>5, RingType DEF Inv, TypeOK
<1>8. PICK j \in Key :
        TypeOK /\ j = msq[n].key /\ msq[n] \in Queue /\ QueueInv(msq[n])
  BY <1>2, QueueFields DEF Used, Inv, TypeOK, CountInv
<1>9. j > 0 /\ \A m \in Used : msq[m].key = j => m = n
  <2>1. at[o] = "close"
    BY <1>1 DEF WaitInv, CallInv
  <2>2. j = Args(o).key /\ Args(o).key > 0
    BY <1>1, <1>2, <1>8, <2>1 DEF CloseInv, Of
  <2> QED
    BY <1>0, <1>2, <1>8, <2>2 DEF OneQueuePerKey
<1>10. (\A k : Of(k)' = Of(k)) /\ \A m : Content(m)' = Content(m)
  BY <1>1 DEF Of, Content
<1>11. ASSUME NEW k \in Key, k # j
       PROVE  Contents'[k] = Contents[k]
  <2>1. ASSUME NEW m, Finds(k, m)
        PROVE  Finds(k, m)'
    <3>1. First(nxt, Of(k), m) /\ n \notin Of(k)
      BY <1>8, <1>11, <2>1, FindsFirst DEF Of
    <3>2. First(nxt', Of(k), m)
      BY <1>2, <1>5, <1>7, <3>1, FirstWithout
    <3> QED
      BY <1>10, <3>2 DEF Finds, First, Has, OnTheWay, Passes, Of
  <2>2. ASSUME \A m : ~Finds(k, m), NEW m, Finds(k, m)'
        PROVE  FALSE
    <3>1. m \in T /\ m \in Of(k)
      BY <1>10, <2>2, FindsInRingNext
    <3> QED
      BY <1>0, <1>6, <1>8, <2>2, <3>1, FindsInRing
  <2> QED
    BY <1>10, <2>1, <2>2, SameAt
<1>12. Contents[j] # NULL
  <2>1. n \in Of(j)
    BY <1>2, <1>8 DEF Of
  <2>2. PICK m : Finds(j, m)
    BY <1>0, <1>2, <1>8, <2>1, FindsInRing
  <2>3. m = n
    BY <1>9, <2>2 DEF Finds, Has
  <2>4. Contents[j] = Texts(msq[n].msgs)
    BY <1>8, <2>2, <2>3 DEF Shows, Content, Texts
  <2> QED
    BY <1>8, <2>4, TextsFit
<1>13. Contents'[j] = NULL
  <2>1. ASSUME NEW m, Finds(j, m)'
        PROVE  FALSE
    <3>1. m \in T /\ m \in Of(j)
      BY <1>10, <2>1, FindsInRingNext
    <3>2. m = n
      BY <1>9, <3>1 DEF Of
    <3> QED
      BY <1>6, <3>1, <3>2
  <2> QED
    BY <1>8, <2>1 DEF Shows
<1>14. Contents' = [Contents EXCEPT ![j] = NULL]
  <2>1. \A k \in Key : Contents'[k] = IF k = j THEN NULL ELSE Contents[k]
    BY <1>11, <1>13
  <2>2. Contents' = [k \in Key |-> IF k = j THEN NULL ELSE Contents[k]]
    BY <2>1, ContentsType
  <2>3. DOMAIN Contents = Key
    BY DEF Contents
  <2> QED
    BY <2>2, <2>3
<1> QED
  BY <1>8, <1>12, <1>14 DEF Abstract!Close

(* write and read change one queue alone.                                  *)
LEMMA TransferInRing ==
    ASSUME NEW o \in Proc, NEW p \in Proc, Inv,
           ReadRemove(p) \/ WriteAppend(p)
    PROVE  /\ Ring(o)' = Ring(o) /\ nxt' = nxt
           /\ cur[p] \in Used /\ msq[cur[p]] \in Queue /\ cur[p] \in Node
           /\ msq'[cur[p]] \in Queue /\ msq'[cur[p]] # NULL
           /\ msq'[cur[p]].key = msq[cur[p]].key
           /\ \A x \in Node \ {cur[p]} : msq'[x] = msq[x]
<1>1. cur[p] \in Node /\ msq[cur[p]] \in Queue /\ msq[cur[p]] # NULL
  BY SoundCur DEF ReadRemove, WriteAppend, At
<1>2. PICK q \in Queue : msq' = [msq EXCEPT ![cur[p]] = q]
  BY RemoveStores, AppendStores
<1>3. msq'[cur[p]] = q /\ \A n \in Node : n # cur[p] => msq'[n] = msq[n]
  BY <1>1, <1>2 DEF Inv, TypeOK
<1>4. cur[p] \in Used
  BY <1>1 DEF Used
<1>5. Used' = Used /\ msq'[cur[p]].key = msq[cur[p]].key
  BY <1>4, SameKeys
<1>6. UNCHANGED <<nxt, cur>>
  BY DEF ReadRemove, WriteAppend, list, locals
<1>7. CASE p = o
  <2>1. pc[o] \in {"remove", "append"} /\ pc'[o] = "unlock"
    BY <1>7 DEF ReadRemove, WriteAppend, At, Leave, Goto, Inv, TypeOK
  <2> QED
    BY <1>1, <1>3, <1>4, <1>5, <1>6, <2>1, QueueAssumption DEF Ring
<1>8. CASE p # o
  <2>1. pc'[o] = pc[o]
    BY <1>8 DEF ReadRemove, WriteAppend, Leave, Goto, Inv, TypeOK
  <2> QED
    BY <1>1, <1>3, <1>4, <1>5, <1>6, <2>1, QueueAssumption DEF Ring
<1> QED
  BY <1>7, <1>8

(* write sends a message to the queue of its key ...                       *)
LEMMA AppendSends ==
    ASSUME NEW o \in Proc, NEW p \in Proc, Inv, RingInv(o), RingInv(o)',
           CountInv, CountInv', Shows, Shows', StrayReads = {}, WriteAppend(p)
    PROVE  \/ Contents' = Contents
           \/ \E k \in Key, m \in Abstract!Text : Abstract!Send(k, m)
<1>0. PICK n : n = cur[p] /\ Inv
  OBVIOUS
<1> DEFINE q == msq[cur[p]]
           m == [type |-> call[p].type, msgsz |-> call[p].len,
                 index |-> q.size + 1]
           t == [type |-> m.type, msgsz |-> m.msgsz]
<1>1. /\ Ring(o)' = Ring(o) /\ nxt' = nxt
      /\ n \in Used /\ q \in Queue /\ n \in Node
      /\ msq'[n] \in Queue /\ msq'[n] # NULL /\ msq'[n].key = q.key
      /\ \A x \in Node \ {n} : msq'[x] = msq[x]
  BY <1>0, TransferInRing
<1>2. call[p].type \in Type /\ call[p].len \in Size
  BY CallFields DEF WriteAppend, At, Inv, TypeOK, CallInv
<1>3. m \in Message /\ t \in Abstract!Text
  <2>1. q.size + 1 \in Int
    BY <1>1, QueueFields
  <2> QED
    BY <1>2, <2>1 DEF Message, Abstract!Text
<1>4. q.msgs \in Seq(Message) /\ q.key \in Key
  BY <1>1, QueueFields
<1>5. msq'[n].msgs = Append(q.msgs, m)
  BY <1>0, <1>1 DEF WriteAppend, Inv, TypeOK
<1> HIDE DEF m
<1>7. /\ Content(n) = Texts(q.msgs)
      /\ Content(n)' = Texts(msq'[n].msgs)
  BY <1>0 DEF Content, Texts
<1>8. Texts(msq'[n].msgs) = Append(Texts(q.msgs), t)
  BY <1>3, <1>4, <1>5, TextsAppend
<1>9. QueueInv(msq'[n])
  BY <1>1, KuIpcAssumption DEF CountInv, Used
<1>10. Abstract!Fits(Texts(msq'[n].msgs))
  BY <1>1, <1>9, TextsFit
<1>11. CASE /\ Contents[q.key] = Content(n)
            /\ Contents' = [Contents EXCEPT ![q.key] = Content(n)']
  <2>1. QueueInv(q)
    BY <1>0, <1>1 DEF CountInv, Used
  <2>2. PICK k \in Key : TypeOK /\ k = q.key
    BY <1>4 DEF Inv
  <2>3. Contents[k] = Texts(q.msgs) /\ Contents[k] # NULL
    BY <1>1, <1>7, <1>11, <2>1, <2>2, TextsFit
  <2>4. Abstract!Fits(Append(Contents[k], t))
    BY <1>8, <1>10, <2>3
  <2>5. Content(n)' = Append(Contents[k], t)
    BY <1>7, <1>8, <2>3
  <2>6. Contents' = [Contents EXCEPT ![k] = Append(@, t)]
    BY <1>11, <2>2, <2>5
  <2> HIDE DEF t
  <2> QED
    BY <1>3, <2>2, <2>3, <2>4, <2>6 DEF Abstract!Send
<1> QED
  BY <1>0, <1>1, <1>4, <1>11, OneChanged

(* ... and read takes the oldest message of its type out of it.            *)
LEMMA RemoveReceives ==
    ASSUME NEW o \in Proc, NEW p \in Proc, Inv, RingInv(o), RingInv(o)',
           CountInv, FirstInv(p), Shows, Shows', StrayReads = {}, ReadRemove(p)
    PROVE  Contents' = Contents \/ \E k \in Key : Abstract!Receive(k)
<1>0. PICK n : n = cur[p] /\ Inv
  OBVIOUS
<1>00. PICK i : i = pos[p] /\ Inv
  OBVIOUS
<1> DEFINE q == msq[cur[p]]
<1>1. /\ Ring(o)' = Ring(o) /\ nxt' = nxt
      /\ n \in Used /\ q \in Queue /\ n \in Node
      /\ msq'[n] \in Queue /\ msq'[n] # NULL /\ msq'[n].key = q.key
      /\ \A x \in Node \ {n} : msq'[x] = msq[x]
  BY <1>0, TransferInRing
<1>2. /\ pc[p] = "remove" /\ i # 0
      /\ i \in 1..Len(q.msgs)
      /\ FirstOfType(q.msgs, i, call[p].type)
  BY <1>0, <1>00 DEF ReadRemove, At, Sound, Inv, PosInv, FirstInv
<1>4. q.msgs \in Seq(Message) /\ q.key \in Key
  BY <1>1, QueueFields
<1>5. msq'[n].msgs = RemoveAt(q.msgs, i)
  BY <1>0, <1>00, <1>1 DEF ReadRemove, Inv, TypeOK
<1>7. /\ Content(n) = Texts(q.msgs)
      /\ Content(n)' = Texts(msq'[n].msgs)
  BY <1>0 DEF Content, Texts
<1>8. Content(n)' = RemoveAt(Texts(q.msgs), i)
  BY <1>2, <1>4, <1>5, <1>7, TextsRemove
<1>9. /\ DOMAIN Texts(q.msgs) = 1..Len(q.msgs)
      /\ \A j \in 1..Len(q.msgs) : Texts(q.msgs)[j].type = q.msgs[j].type
  BY <1>4, TextsType
<1>10. \A j \in 1..(i - 1) : Texts(q.msgs)[j].type # Texts(q.msgs)[i].type
  <2>1. Len(q.msgs) \in Nat
    BY <1>4, LenProperties
  <2> QED
    BY <1>2, <1>9, <2>1 DEF FirstOfType
<1>11. CASE /\ Contents[q.key] = Content(n)
            /\ Contents' = [Contents EXCEPT ![q.key] = Content(n)']
  <2>1. QueueInv(q)
    BY <1>0, <1>1 DEF CountInv, Used
  <2>2. PICK k \in Key : TypeOK /\ k = q.key
    BY <1>4 DEF Inv
  <2>3. Contents[k] = Texts(q.msgs) /\ Contents[k] # NULL
    BY <1>1, <1>7, <1>11, <2>1, <2>2, TextsFit
  <2>4. i \in DOMAIN Contents[k]
    BY <1>2, <1>9, <2>3
  <2>5. \A j \in 1..(i - 1) : Contents[k][j].type # Contents[k][i].type
    BY <1>10, <2>3
  <2>6. Contents' = [Contents EXCEPT ![k] = RemoveAt(@, i)]
    BY <1>8, <1>11, <2>2, <2>3
  <2>7. Abstract!RemoveAt(Contents[k], i) = RemoveAt(Contents[k], i)
    BY DEF Abstract!RemoveAt, RemoveAt
  <2>8. Contents' = [Contents EXCEPT ![k] = Abstract!RemoveAt(@, i)]
    BY <2>6, <2>7
  <2> QED
    BY <2>2, <2>3, <2>4, <2>5, <2>8 DEF Abstract!Receive
<1> QED
  BY <1>0, <1>1, <1>4, <1>11, OneChanged

(* What o does with a structure outside the list is seen by nobody.        *)
LEMMA OutsideUnseen ==
    ASSUME NEW o \in Proc, Inv, OwnerInv(o), RingInv(o), RingInv(o)',
           Shows, Shows', CreateAlloc(o) \/ CreateLinkBack(o) \/ CloseFree(o)
    PROVE  Contents' = Contents
<1>1. CASE CreateAlloc(o)
  <2>1. PICK n \in Node :
          /\ msq[n] = NULL
          /\ msq' = [msq EXCEPT ![n] = [key |-> call[o].key, msgs |-> <<>>,
                                        size |-> 0, vol |-> 0]]
          /\ cur' = [cur EXCEPT ![o] = n]
    BY <1>1 DEF CreateAlloc
  <2>2. call[o].key \in Key
    BY <1>1, CallFields DEF CreateAlloc, At, Inv, TypeOK, CallInv
  <2>3. [key |-> call[o].key, msgs |-> <<>>, size |-> 0, vol |-> 0] \in Queue
    BY <2>2, EmptySeq DEF Queue
  <2>4. msq'[n] # NULL /\ \A x \in Node \ {n} : msq'[x] = msq[x]
    BY <2>1, <2>3, QueueAssumption DEF Inv, TypeOK
  <2>5. /\ pc[o] = "alloc" /\ pc'[o] = "back" /\ nxt' = nxt /\ cur'[o] = n
    BY <1>1, <2>1 DEF CreateAlloc, At, Goto, list, Inv, TypeOK
  <2>6. Used' = Used \cup {n} /\ n \notin Used
    BY <2>1, <2>4 DEF Used
  <2>7. Ring(o) = Used \cup {Root} /\ Ring(o)' = (Used' \ {n}) \cup {Root}
    BY <2>5 DEF Ring
  <2>8. Ring(o)' = Ring(o)
    BY <2>6, <2>7
  <2>9. \A x \in Ring(o) \ {Root} : msq'[x] = msq[x]
    BY <2>4, <2>6, <2>7 DEF Used
  <2> QED
    BY <2>5, <2>8, <2>9, ContentsElsewhere
<1>2. CASE CreateLinkBack(o)
  <2>1. /\ pc[o] = "back" /\ pc'[o] = "front" /\ msq' = msq /\ cur' = cur
        /\ nxt' = [nxt EXCEPT ![cur[o]] = Root] /\ Used' = Used
    BY <1>2 DEF CreateLinkBack, At, Goto, locals, Used, Inv, TypeOK
  <2>2. cur[o] \in Node /\ cur[o] \notin Ring(o) /\ Ring(o)' = Ring(o)
    BY <2>1, KuIpcAssumption DEF Ring, Inv, CurInv
  <2>3. \A x \in Ring(o) : nxt'[x] = nxt[x]
    BY <2>1, <2>2, RingType DEF Inv, TypeOK
  <2> QED
    BY <2>1, <2>2, <2>3, ContentsElsewhere
<1>3. CASE CloseFree(o)
  <2>1. /\ pc[o] = "kfree" /\ pc'[o] = "user"
        /\ nxt' = [nxt EXCEPT ![cur[o]] = NULL]
        /\ msq' = [msq EXCEPT ![cur[o]] = NULL]
    BY <1>3 DEF CloseFree, Return, At, Goto, Inv, TypeOK
  <2>2. cur[o] \in Node /\ cur[o] \notin Ring(o)
    BY <2>1, KuIpcAssumption DEF Ring, Inv, CurInv
  <2>3. msq'[cur[o]] = NULL /\ \A x \in Node \ {cur[o]} : msq'[x] = msq[x]
    BY <2>1, <2>2 DEF Inv, TypeOK
  <2>4. Used' = Used \ {cur[o]}
    BY <2>2, <2>3 DEF Used
  <2>5. Ring(o)' = Ring(o)
    BY <2>1, <2>4 DEF Ring
  <2>6. \A x \in Ring(o) : nxt'[x] = nxt[x]
    BY <2>1, <2>2, RingType DEF Inv, TypeOK
  <2>7. \A x \in Ring(o) \ {Root} : msq'[x] = msq[x]
    BY <2>2, <2>3, RingType
  <2> QED
    BY <2>5, <2>6, <2>7, ContentsElsewhere
<1> QED
  BY <1>1, <1>2, <1>3

(* All that is known of the driver while o is the only one to open and     *)
(* close queues and frees none that another call holds.                    *)
SeenInv(o) ==
    /\ AllWait /\ OpenInv(o) /\ CountInv
    /\ \A p \in Proc : FirstInv(p)
    /\ HoldInv(o) /\ CloseInv(o)

(* Every step of the library or the driver is one of MsgQueue or is not    *)
(* seen.                                                                   *)
LEMMA StepMaps ==
    ASSUME NEW o \in Proc, StrayReads = {}, LibInv, LibInv', OpensAlone(o),
           SeenInv(o), SeenInv(o)', Shows, Shows', [LibNext]_allVars
    PROVE  [Abstract!Next]_Contents
<1> SUFFICES \/ Contents' = Contents
             \/ \E k \in Key : \/ Abstract!Open(k) \/ Abstract!Close(k)
                               \/ Abstract!Receive(k)
                               \/ \E m \in Abstract!Text : Abstract!Send(k, m)
  BY DEF Abstract!Next
<1>0. /\ Inv /\ Alone(o) /\ RingInv(o) /\ OwnerInv(o) /\ OpenInv(o)
      /\ CountInv /\ HoldInv(o) /\ CloseInv(o) /\ WaitInv(o) /\ CallInv(o)
      /\ \A p \in Proc : FirstInv(p)
  BY OpensAloneIsAlone DEF SeenInv, OpenInv, LibInv, Inv, AllWait
<1>1. RingInv(o)' /\ CountInv' /\ TypeOK'
  BY DEF SeenInv, OpenInv, LibInv, Inv
<1>2. CASE UNCHANGED <<nxt, msq>>
  BY <1>2, ContentsIdle
<1>3. ASSUME NEW p \in Proc, Inside(p)
      PROVE  \/ Contents' = Contents
             \/ \E k \in Key : \/ Abstract!Open(k) \/ Abstract!Close(k)
                               \/ Abstract!Receive(k)
                               \/ \E m \in Abstract!Text : Abstract!Send(k, m)
  <2>1. CASE \/ Acquire(p) \/ Scan(p) \/ ReturnKey(p) \/ CloseRead(p)
             \/ CloseUnlinkBack(p) \/ ReadFind(p) \/ ReadCopy(p)
             \/ WriteCheck(p) \/ Unlock(p) \/ Fault(p)
    <3>1. UNCHANGED <<nxt, msq>>
      BY <2>1 DEF Acquire, Scan, ReturnKey, CloseRead, CloseUnlinkBack,
                  ReadFind, ReadCopy, WriteCheck, Unlock, Fault, list
    <3> QED
      BY <1>2, <3>1
  <2>2. CASE \/ CreateAlloc(p) \/ CreateLinkBack(p) \/ CreateLinkFront(p)
             \/ CloseUnlinkFront(p) \/ CloseFree(p)
    <3>1. p = o
      BY <1>0, <2>2
         DEF Alone, Inv, CallInv, At, CreateAlloc, CreateLinkBack,
             CreateLinkFront, CloseUnlinkFront, CloseFree
    <3>2. CASE CreateAlloc(o) \/ CreateLinkBack(o) \/ CloseFree(o)
      BY <1>0, <1>1, <3>2, OutsideUnseen
    <3>3. CASE CreateLinkFront(o)
      BY <1>0, <1>1, <3>3, LinkOpens
    <3>4. CASE CloseUnlinkFront(o)
      BY <1>0, <1>1, <3>4, UnlinkCloses
    <3> QED
      BY <2>2, <3>1, <3>2, <3>3, <3>4
  <2>3. CASE ReadRemove(p)
    BY <1>0, <1>1, <2>3, RemoveReceives
  <2>4. CASE WriteAppend(p)
    BY <1>0, <1>1, <2>4, AppendSends
  <2> QED
    BY <1>3, <2>1, <2>2, <2>3, <2>4 DEF Inside, Ioctl, Transfer
<1>4. ASSUME NEW p \in Proc, LibStep(p)
      PROVE  UNCHANGED <<nxt, msq>>
  BY <1>4, StepForm DEF Issue, Finish, Syscall, vars, list
<1> QED
  BY <1>2, <1>3, <1>4 DEF LibNext, ProcStep, allVars, vars, list

(* At first nothing is open, here and there.                               *)
LEMMA SeenInit ==
    ASSUME NEW o \in Proc, LibInit
    PROVE  SeenInv(o) /\ Abstract!Init
<1>1. /\ Init /\ Used = {} /\ \A p \in Proc : cur[p] = Root /\ pc[p] = "user"
      /\ at[o] = "out"
  BY DEF LibInit, Init, Used
<1>2. AllWait /\ OpenInv(o) /\ CountInv
  BY <1>1, WaitInit, OpenInit, CountInit
<1>3. \A p \in Proc : FirstInv(p)
  BY <1>1 DEF FirstInv
<1>4. HoldInv(o)
  BY <1>1, RingType DEF HoldInv
<1>5. CloseInv(o)
  BY <1>1 DEF CloseInv
<1>6. Abstract!Init
  BY <1>1 DEF Abstract!Init, Contents
<1> QED
  BY <1>2, <1>3, <1>4, <1>5, <1>6 DEF SeenInv

(* What is known stays true.                                               *)
LEMMA SeenNext ==
    ASSUME NEW o \in Proc, LibInv, OpensAlone(o), SeenInv(o), Unheld(o)',
           [LibNext]_allVars
    PROVE  SeenInv(o)'
<1>1. /\ Inv /\ Alone(o) /\ [Next]_vars /\ AllWait /\ OpenInv(o)
      /\ RingInv(o) /\ OwnerInv(o) /\ CountInv /\ HoldInv(o) /\ CloseInv(o)
      /\ \A p \in Proc : FirstInv(p)
  BY OpensAloneIsAlone, LibIsDriver DEF LibInv, SeenInv, OpenInv
<1>2. RingInv(o)' /\ OwnerInv(o)'
  BY <1>1, OwnerNext
<1>3. OpenInv(o)'
  BY <1>1, <1>2, GetNext DEF OpenInv
<1>4. AllWait' /\ CountInv' /\ \A p \in Proc : FirstInv(p)'
  BY <1>1, WaitNext, CountNext, FirstNext
<1>5. HoldInv(o)'
  BY <1>1, HoldNext
<1>6. CloseInv(o)'
  BY <1>1, CloseNext
<1> QED
  BY <1>3, <1>4, <1>5, <1>6 DEF SeenInv

(* The library and the driver implement MsgQueue as long as one process    *)
(* alone opens and closes queues and frees none that another call holds:   *)
(* for any number of processes and keys and any programs, sends and        *)
(* receives take effect at one instant and in order, within both limits.   *)
THEOREM OneOpenerImplements ==
    ASSUME NEW o \in Proc, StrayReads = {}
    PROVE  LibSpec /\ OpensAlone(o) /\ []Unheld(o) => ImplementsMsgQueue
<1>1. LibInv /\ OpensAlone(o) /\ [LibNext]_allVars => OpensAlone(o)'
  BY ProgramsStay DEF OpensAlone
<1>2. LibInit => SeenInv(o) /\ Abstract!Init
  BY SeenInit
<1>3. /\ LibInv /\ OpensAlone(o) /\ SeenInv(o) /\ Unheld(o)'
      /\ [LibNext]_allVars
      => SeenInv(o)'
  BY SeenNext
<1>4. LibInv => TypeOK
  BY DEF LibInv, Inv
<1>5. /\ LibInv /\ LibInv' /\ OpensAlone(o) /\ SeenInv(o) /\ SeenInv(o)'
      /\ Shows /\ Shows' /\ [LibNext]_allVars
      => [Abstract!Next]_Contents
  BY StepMaps
<1>6. LibSpec /\ OpensAlone(o) /\ []Unheld(o)
      => Abstract!Init /\ [][Abstract!Next]_Contents
  BY <1>1, <1>2, <1>3, <1>4, <1>5, ShowsHolds, LibInvInit, LibInvNext, PTL
     DEF LibSpec
<1> QED
  BY <1>6 DEF ImplementsMsgQueue, Abstract!Spec

(* With one opener and no CLOSE at all nothing else has to be assumed.     *)
THEOREM WithoutCloseImplements ==
    ASSUME NEW o \in Proc, StrayReads = {}
    PROVE  LibSpec /\ OpensAlone(o) /\ NobodyCloses => ImplementsMsgQueue
<1>1. LibInv /\ NobodyCloses /\ [LibNext]_allVars => NobodyCloses'
  BY ProgramsStay DEF NobodyCloses
<1>2. LibInv /\ AllWait /\ NobodyCloses => Unheld(o)
  BY NobodyDoesClose DEF NoClose, Unheld, LibInv, Inv, CallInv
<1>3. LibSpec /\ NobodyCloses => []Unheld(o)
  BY <1>1, <1>2, LibInvInit, LibInvNext, WaitInit, WaitNext, PTL DEF LibSpec
<1> QED
  BY <1>3, OneOpenerImplements, PTL

-----------------------------------------------------------------------------
(* CLOSE is called only while the queue that CHECK has found is there, so  *)
(* it finds it; and what o is about to use is a queue.                     *)
ThereInv(o) ==
    LET k == Args(o).key
    IN  /\ at[o] = "check" /\ pc[o] = "user" /\ Exists(o) => Of(k) # {}
        /\ at[o] = "close" /\ pc[o] = "scan" => Of(k) # {}
        /\ pc[o] = "close" => cur[o] # NULL
        /\ pc[o] \in {"check", "read", "copy", "remove", "write", "append"} =>
              cur[o] \in Used

(* ... after every step.                                                    *)
LEMMA ThereNext ==
    ASSUME NEW o \in Proc, LibInv, AllWait, OpensAlone(o), OpenInv(o),
           ThereInv(o), [LibNext]_allVars
    PROVE  ThereInv(o)'
<1> USE KuIpcAssumption
<1>0. Inv /\ Alone(o) /\ WaitInv(o) /\ CallInv(o)
  BY OpensAloneIsAlone DEF LibInv, AllWait, Inv
<1>1. ASSUME Used' = Used, \A n \in Used : msq'[n].key = msq[n].key,
             pc'[o] = pc[o], cur'[o] = cur[o], ret'[o] = ret[o],
             at'[o] = at[o], log'[o] = log[o], program' = program
      PROVE  ThereInv(o)'
  <2>1. \A k : Of(k)' = Of(k)
    BY <1>1, SameQueues
  <2>2. Args(o)' = Args(o) /\ (Exists(o)' <=> Exists(o))
    BY <1>1 DEF Args, Exists, Answer
  <2> QED
    BY <1>1, <2>1, <2>2 DEF ThereInv
<1>2. CASE UNCHANGED allVars
  BY <1>1, <1>2 DEF allVars, vars, libVars, locals, list, Used
<1>3. ASSUME NEW p \in Proc \ {o}, ProcStep(p)
      PROVE  ThereInv(o)'
  <2>1. CASE Inside(p) /\ UNCHANGED libVars
    BY <1>0, <1>1, <2>1, OthersKeep DEF libVars
  <2>2. ASSUME NEW c \in Call, Issue(p, c, c.op)
        PROVE  ThereInv(o)'
    <3>1. Syscall(p, c) /\ log' = log /\ program' = program /\ at'[o] = at[o]
      BY <2>2 DEF Issue, LibInv, LibTypeOK
    <3> QED
      BY <1>0, <1>1, <3>1, OthersKeep
  <2>3. ASSUME NEW r \in Int, Finish(p, r)
        PROVE  ThereInv(o)'
    BY <1>1, <2>3 DEF Finish, vars, locals, list, Used, LibInv, LibTypeOK
  <2> QED
    BY <1>3, <2>1, <2>2, <2>3, StepCalls DEF ProcStep
<1>4. ASSUME NEW c \in Call, Issue(o, c, c.op), c.key = Args(o).key,
             c.op = "close" => CloseExisting(o)
      PROVE  ThereInv(o)'
  <2>1. /\ pc[o] = "user" /\ pc'[o] = Entry(c) /\ at'[o] = c.op
        /\ log' = log /\ program' = program /\ msq' = msq
    BY <1>4 DEF Issue, Syscall, Goto, LibInv, LibTypeOK, Inv, TypeOK
  <2>2. Args(o)' = Args(o) /\ \A k : Of(k)' = Of(k)
    BY <2>1 DEF Args, Of, Used
  <2>3. pc'[o] \in {"alloc", "scan", "spin"}
    BY <2>1, CallFields DEF Entry, Ops
  <2>4. c.op = "close" => Of(Args(o).key) # {}
    BY <1>4, <2>1 DEF CloseExisting, Back, ThereInv
  <2> QED
    BY <2>1, <2>2, <2>3, <2>4 DEF ThereInv
<1>5. ASSUME NEW r \in Int, Finish(o, r), pc[o] = "user"
      PROVE  ThereInv(o)'
  <2>1. pc'[o] = "user" /\ at'[o] = "out"
    BY <1>5 DEF Finish, vars, LibInv, LibTypeOK
  <2> QED
    BY <2>1 DEF ThereInv
<1>6. ASSUME Inside(o), UNCHANGED libVars
      PROVE  ThereInv(o)'
  <2> DEFINE k == Args(o).key
             L == {"check", "read", "copy", "remove", "write", "append"}
  <2>0. at' = at /\ Args(o)' = Args(o)
    BY <1>6 DEF libVars, Args
  <2>1. ASSUME pc'[o] \notin {"user", "scan", "close"},
               pc'[o] \in L => cur'[o] \in Used'
        PROVE  ThereInv(o)'
    BY <2>1 DEF ThereInv
  <2>2. ASSUME pc'[o] = "user", at[o] # "check"
        PROVE  ThereInv(o)'
    BY <2>0, <2>2 DEF ThereInv
  <2>3. CASE Acquire(o)
    <3>1. pc'[o] = "scan" /\ call[o].op # "close" /\ pc[o] = "spin"
      BY <1>0, <2>3 DEF Acquire, At, Goto, LibInv, Inv, TypeOK, CallInv
    <3>2. at[o] # "close"
      BY <1>0, <3>1 DEF WaitInv
    <3> QED
      BY <2>0, <3>1, <3>2 DEF ThereInv
  <2>4. CASE Scan(o)
    <3>1. /\ pc[o] = "scan" /\ Sound(o) /\ msq' = msq /\ Used' = Used
          /\ call[o].op = at[o] /\ call[o].key = k
      BY <1>0, <2>4 DEF Scan, At, Used, WaitInv
    <3>2. \A x : Of(x)' = Of(x)
      BY <3>1 DEF Of
    <3>3. CASE nxt[cur[o]] = Root /\ NotFound(o)
      <4>0. Of(k) = {}
        BY <3>1, <3>3, AheadEnd DEF Of, OpenInv, OwnerInv
      <4>1. CASE at[o] = "check"
        <5>1. pc'[o] = "user" /\ ret'[o] = IPC_RES_NOMSQ
          BY <3>1, <3>3, <4>1 DEF NotFound, Return, Goto, LibInv, Inv, TypeOK
        <5>2. ~Exists(o)'
          BY <5>1, SMT DEF Exists, Answer, IPC_RES_NOMSQ, MAX_ERRNO
        <5> QED
          BY <2>0, <5>1, <5>2, <4>1 DEF ThereInv
      <4>2. at[o] # "close"
        BY <3>1, <4>0 DEF ThereInv
      <4>3. CASE at[o] \notin {"check", "close"}
        <5>1. pc'[o] = "unlock"
          BY <3>1, <3>3, <4>3 DEF NotFound, Leave, Goto, LibInv, Inv, TypeOK
        <5> QED
          BY <2>1, <5>1
      <4> QED
        BY <4>1, <4>2, <4>3
    <3>4. CASE nxt[cur[o]] # Root
      <4> DEFINE n == nxt[cur[o]]
      <4>1. cur'[o] = n /\ n \in Used /\ n # NULL
        BY <2>4, <3>1, <3>4, <1>0, SoundScan, QueueAssumption
           DEF Scan, Used, LibInv, Inv, TypeOK
      <4>2. CASE msq[n].key = k /\ Found(o)
        <5>1. pc'[o] \in {"check", "close", "read", "write"}
          BY <1>0, <3>1, <4>2 DEF Found, Goto, LibInv, Inv, TypeOK, CallInv
        <5> QED
          BY <3>1, <4>1, <5>1 DEF ThereInv
      <4>3. CASE pc' = pc
        BY <2>0, <3>1, <3>2, <4>3 DEF ThereInv
      <4> QED
        BY <2>4, <3>1, <3>4, <4>2, <4>3 DEF Scan
    <3> QED
      BY <2>4, <3>3, <3>4 DEF Scan
  <2>5. CASE ReturnKey(o)
    <3>1. /\ pc[o] = "check" /\ pc'[o] = "user" /\ msq' = msq
      BY <2>5 DEF ReturnKey, At, Return, Goto, LibInv, Inv, TypeOK
    <3>2. Of(k)' = Of(k)
      BY <2>0, <3>1 DEF Of, Used
    <3>3. at[o] = "check" => Of(k) # {}
      BY <3>1 DEF OpenInv, GetInv
    <3> QED
      BY <2>0, <3>1, <3>2, <3>3 DEF ThereInv
  <2>6. CASE CreateAlloc(o) \/ CreateLinkBack(o) \/ CloseRead(o)
             \/ CloseUnlinkBack(o) \/ CloseUnlinkFront(o)
    <3>1. pc'[o] \in {"back", "front", "unback", "unfront", "kfree"}
      BY <2>6 DEF CreateAlloc, CreateLinkBack, CloseRead, CloseUnlinkBack,
                  CloseUnlinkFront, Goto, LibInv, Inv, TypeOK
    <3> QED
      BY <2>1, <3>1
  <2>7. CASE CreateLinkFront(o)
    <3>1. /\ msq' = msq /\ cur' = cur /\ pc'[o] = "check" /\ pc[o] = "front"
      BY <2>7 DEF CreateLinkFront, At, Goto, locals, LibInv, Inv, TypeOK
    <3>2. cur[o] \in Used
      BY <3>1 DEF OpenInv, OwnerInv
    <3> QED
      BY <2>1, <3>1, <3>2 DEF Used
  <2>8. CASE CloseFree(o)
    <3>1. pc'[o] = "user" /\ at[o] = "close"
      BY <1>0, <2>8 DEF CloseFree, At, Return, Goto, LibInv, Inv, TypeOK,
                        WaitInv, CallInv
    <3> QED
      BY <2>2, <3>1
  <2>9. CASE Transfer(o) /\ ~Unlock(o)
    <3>1. /\ pc[o] \in L /\ cur' = cur
          /\ pc'[o] \in {"copy", "remove", "append", "unlock"}
      BY <2>9 DEF Transfer, ReadFind, ReadCopy, ReadRemove, WriteCheck,
                  WriteAppend, At, Leave, Goto, locals, LibInv, Inv, TypeOK
    <3>2. cur[o] \in Used
      BY <3>1 DEF ThereInv
    <3>3. Used' = Used
      BY <1>0, <2>9, SameKeys
         DEF Transfer, ReadFind, ReadCopy, WriteCheck, Used
    <3> QED
      BY <2>1, <3>1, <3>2, <3>3
  <2>10. CASE Unlock(o)
    <3>1. pc'[o] = "user" /\ at[o] \in {"read", "write"}
      BY <1>0, <2>10 DEF Unlock, At, Return, Goto, LibInv, Inv, TypeOK,
                         WaitInv, CallInv
    <3> QED
      BY <2>2, <3>1
  <2>11. CASE Fault(o)
    BY <1>1, <1>6, <2>11 DEF Fault, libVars, locals, list, Used
  <2> QED
    BY <1>6, <2>3, <2>4, <2>5, <2>6, <2>7, <2>8, <2>9, <2>10, <2>11
       DEF Inside, Ioctl
<1>7. ASSUME ProcStep(o)
      PROVE  ThereInv(o)'
  BY <1>4, <1>5, <1>6, <1>7, StepCalls DEF ProcStep
<1> QED
  BY <1>2, <1>3, <1>7 DEF LibNext

(* The message a read has found is still there.                            *)
FoundInv == \A p \in Proc : pc[p] \in {"copy", "remove"} => pos[p] # 0

(* All accesses are defined.                                               *)
LEMMA AllSound ==
    ASSUME NEW o \in Proc, Inv, Alone(o), OpenInv(o), HoldInv(o), CloseInv(o),
           ThereInv(o), FoundInv, NEW p \in Proc
    PROVE  Sound(p)
<1>1. \A x \in Ring(o) \cup Used : ~Bad(x)
  BY RingType, KuIpcAssumption DEF Used, Bad
<1>2. /\ RingInv(o) /\ OwnerInv(o) /\ CurInv(p) /\ CallInv(p)
      /\ pc[p] \in Labels
  BY DEF OpenInv, Inv, TypeOK
<1>3. \A x \in Ring(o) : nxt[x] \in Ring(o)
  BY <1>2 DEF RingInv, Circle
<1>4. pc[p] = "scan" => cur[p] \in Ring(o)
  BY <1>2 DEF HoldInv, OwnerInv
<1>5. pc[p] \in {"check", "read", "copy", "remove", "write", "append"} =>
        cur[p] \in Ring(o) \cup Used
  <2>1. CASE p = o
    BY <2>1 DEF ThereInv
  <2>2. CASE p # o
    BY <2>2 DEF HoldInv
  <2> QED
    BY <2>1, <2>2
<1>6. pc[p] \in {"back", "front", "close", "unback", "unfront", "kfree"} => p = o
  BY <1>2 DEF Alone, CallInv
<1>7. Deref(p) \subseteq Ring(o) \cup Used
  <2>1. CASE pc[p] = "scan"
    BY <1>3, <1>4, <2>1 DEF Deref
  <2>2. CASE pc[p] \in {"check", "read", "copy", "remove", "write", "append"}
    BY <1>5, <2>2 DEF Deref
  <2>3. CASE pc[p] \in {"back", "kfree"}
    BY <1>2, <1>6, <2>3 DEF Deref, OwnerInv
  <2>4. CASE pc[p] = "close"
    <3>1. p = o /\ cur[o] # NULL /\ cur[p] \in Node \cup {NULL}
      BY <1>2, <1>6, <2>4 DEF ThereInv, CurInv
    <3>2. cur[p] \in Used
      BY <3>1, <2>4 DEF CloseInv, Of
    <3> QED
      BY <2>4, <3>2 DEF Deref
  <2>5. CASE pc[p] = "front"
    <3>1. p = o /\ Before(o, Root) = lp[o]
      BY <1>6, <2>5 DEF Before
    <3>2. lp[o] \in Ring(o)
      BY <1>2, <3>1, RingType DEF RingInv
    <3> QED
      BY <2>5, <3>1, <3>2 DEF Deref
  <2>6. CASE pc[p] \in {"unback", "unfront"}
    <3>1. /\ p = o /\ cur[o] \in Used /\ lp[o] = prv[cur[o]]
          /\ ln[o] = nxt[cur[o]]
      BY <1>2, <1>6, <2>6 DEF OwnerInv
    <3>2. cur[o] \in Ring(o) /\ cur[o] # Root
      BY <2>6, <3>1, RingType DEF Ring, Used
    <3>3. ln[o] \in Ring(o) /\ ln[o] # cur[o]
      BY <1>2, <1>3, <3>1, <3>2, Apart
    <3>4. Before(o, cur[o]) = lp[o]
      BY <2>6, <3>1, <3>2, <3>3 DEF Before
    <3>5. lp[o] \in Ring(o)
      BY <1>2, <3>2, <3>4 DEF RingInv
    <3> QED
      BY <2>6, <3>1, <3>3, <3>5 DEF Deref
  <2>7. CASE pc[p] \in {"user", "alloc", "spin", "unlock"}
    BY <2>7 DEF Deref
  <2> QED
    BY <1>2, <2>1, <2>2, <2>3, <2>4, <2>5, <2>6, <2>7 DEF Labels
<1> QED
  BY <1>1, <1>7 DEF Sound, FoundInv

(* Only CLOSE takes a message away from another call's hands, and not from *)
(* those that hold another queue.                                          *)
LEMMA FoundNext ==
    ASSUME NEW o \in Proc, Inv, Alone(o), Unheld(o), FoundInv, [Next]_vars
    PROVE  FoundInv'
<1> SUFFICES ASSUME NEW q \in Proc, pc'[q] \in {"copy", "remove"}
             PROVE  pos'[q] # 0
  BY DEF FoundInv
<1>1. ASSUME pc[q] \in {"copy", "remove"}, pos'[q] = pos[q]
      PROVE  pos'[q] # 0
  BY <1>1 DEF FoundInv
<1>2. CASE UNCHANGED vars
  BY <1>1, <1>2 DEF vars, locals
<1>3. ASSUME NEW p \in Proc, NEW c \in Call, Syscall(p, c)
      PROVE  pos'[q] # 0
  <2>1. pc[q] \in {"copy", "remove"} /\ pos' = pos
    BY <1>3, CallFields DEF Syscall, Goto, Entry, Ops, locals, Inv, TypeOK
  <2> QED
    BY <1>1, <2>1
<1>4. ASSUME NEW p \in Proc, Scan(p)
      PROVE  pos'[q] # 0
  <2>1. pc[p] = "scan" /\ call[p].op \in {"check", "close", "read", "write"}
    BY <1>4 DEF Scan, At, Inv, CallInv
  <2>2. CASE nxt[cur[p]] = Root /\ NotFound(p)
    <3>1. pc[q] \in {"copy", "remove"} /\ pos' = pos
      BY <2>1, <2>2 DEF NotFound, Return, Leave, Goto, locals, Inv, TypeOK
    <3> QED
      BY <1>1, <3>1
  <2>3. CASE nxt[cur[p]] # Root
    <3>1. pc[q] \in {"copy", "remove"} /\ pos' = pos
      BY <1>4, <2>1, <2>3 DEF Scan, Found, Goto, Inv, TypeOK
    <3> QED
      BY <1>1, <3>1
  <2> QED
    BY <1>4, <2>2, <2>3 DEF Scan
<1>5. ASSUME NEW p \in Proc,
             \/ Acquire(p) \/ ReturnKey(p) \/ CreateAlloc(p)
             \/ CreateLinkBack(p) \/ CreateLinkFront(p) \/ CloseRead(p)
             \/ CloseUnlinkBack(p) \/ CloseUnlinkFront(p) \/ ReadCopy(p)
             \/ ReadRemove(p) \/ WriteCheck(p) \/ WriteAppend(p) \/ Fault(p)
      PROVE  pos'[q] # 0
  <2>1. pos' = pos
    BY <1>5
       DEF Acquire, ReturnKey, CreateAlloc, CreateLinkBack, CreateLinkFront,
           CloseRead, CloseUnlinkBack, CloseUnlinkFront, ReadCopy, ReadRemove,
           WriteCheck, WriteAppend, Fault, locals
  <2>2. pc[q] \in {"copy", "remove"}
    BY <1>5
       DEF Acquire, ReturnKey, CreateAlloc, CreateLinkBack, CreateLinkFront,
           CloseRead, CloseUnlinkBack, CloseUnlinkFront, ReadCopy, ReadRemove,
           WriteCheck, WriteAppend, Fault, At, Goto, Return, Leave, Inv, TypeOK
  <2> QED
    BY <1>1, <2>1, <2>2
<1>6. ASSUME NEW p \in Proc, CloseFree(p)
      PROVE  pos'[q] # 0
  <2>1. /\ pc[p] = "kfree" /\ p = o
    BY <1>6 DEF CloseFree, At, Alone, Inv, CallInv
  <2>2. q # p /\ pc[q] \in {"copy", "remove"}
    BY <1>6 DEF CloseFree, Return, Goto, Inv, TypeOK
  <2>3. cur[q] # cur[p]
    BY <2>1, <2>2 DEF Unheld
  <2> QED
    BY <1>1, <1>6, <2>2, <2>3 DEF CloseFree
<1>7. ASSUME NEW p \in Proc, ReadFind(p)
      PROVE  pos'[q] # 0
  <2>1. CASE q = p
    <3>1. PICK i \in DOMAIN msq[cur[p]].msgs : pos' = [pos EXCEPT ![p] = i]
      BY <1>7, <2>1 DEF ReadFind, Leave, Goto, Inv, TypeOK
    <3>2. msq[cur[p]] \in Queue
      BY <1>7, SoundCur DEF ReadFind, At
    <3>3. i \in 1..Len(msq[cur[p]].msgs)
      BY <3>2, QueueFields, LenProperties
    <3> QED
      BY <2>1, <3>1, <3>3 DEF Inv, TypeOK
  <2>2. CASE q # p
    <3>1. pc[q] \in {"copy", "remove"} /\ pos'[q] = pos[q]
      BY <1>7, <2>2 DEF ReadFind, Leave, Goto, Inv, TypeOK
    <3> QED
      BY <1>1, <3>1
  <2> QED
    BY <2>1, <2>2
<1>8. ASSUME NEW p \in Proc, Unlock(p)
      PROVE  pos'[q] # 0
  <2>1. q # p /\ pc[q] \in {"copy", "remove"} /\ pos'[q] = pos[q]
    BY <1>8 DEF Unlock, Return, Goto, Inv, TypeOK
  <2> QED
    BY <1>1, <2>1
<1> QED
  BY <1>2, <1>3, <1>4, <1>5, <1>6, <1>7, <1>8
     DEF Next, Inside, Ioctl, Transfer

(* A step whose accesses are defined is no fault.                          *)
LEMMA SoundSteps ==
    ASSUME ~oops, \A p \in Proc : Sound(p), [Next]_vars
    PROVE  ~oops'
<1>1. \A p \in Proc : ~Fault(p)
  BY DEF Fault
<1> QED
  BY <1>1 DEF Next, vars, Syscall, Inside, Ioctl, Transfer, Acquire, Scan,
              ReturnKey, CreateAlloc, CreateLinkBack, CreateLinkFront,
              CloseRead, CloseUnlinkBack, CloseUnlinkFront, CloseFree,
              ReadFind, ReadCopy, ReadRemove, WriteCheck, WriteAppend, Unlock

(* Not even CLOSE makes the driver touch memory it may not touch, as long  *)
(* as one process alone opens and closes queues and frees none that        *)
(* another call holds.                                                     *)
THEOREM OneOpenerSafe ==
    ASSUME NEW o \in Proc
    PROVE  LibSpec /\ OpensAlone(o) /\ []Unheld(o) => []NoOops
<1> DEFINE SafeInv == ~oops /\ FoundInv /\ ThereInv(o)
<1>1. LibInv /\ OpensAlone(o) /\ [LibNext]_allVars => OpensAlone(o)'
  BY ProgramsStay DEF OpensAlone
<1>2. LibInit => SeenInv(o) /\ SafeInv
  <2> SUFFICES ASSUME LibInit PROVE SeenInv(o) /\ SafeInv
    OBVIOUS
  <2>1. ~oops /\ pc[o] = "user" /\ at[o] = "out" /\ \A p \in Proc : pc[p] = "user"
    BY DEF LibInit, Init
  <2> QED
    BY <2>1, SeenInit DEF FoundInv, ThereInv
<1>3. /\ LibInv /\ OpensAlone(o) /\ SeenInv(o) /\ Unheld(o)'
      /\ [LibNext]_allVars
      => SeenInv(o)'
  BY SeenNext
<1>4. /\ LibInv /\ OpensAlone(o) /\ SeenInv(o) /\ SafeInv /\ Unheld(o)
      /\ [LibNext]_allVars
      => SafeInv'
  <2> SUFFICES ASSUME LibInv, OpensAlone(o), SeenInv(o), SafeInv, Unheld(o),
                      [LibNext]_allVars
               PROVE  SafeInv'
    OBVIOUS
  <2>1. /\ Inv /\ Alone(o) /\ AllWait /\ OpenInv(o) /\ HoldInv(o)
        /\ CloseInv(o) /\ [Next]_vars
    BY OpensAloneIsAlone, LibIsDriver DEF LibInv, SeenInv
  <2>2. \A p \in Proc : Sound(p)
    BY <2>1, AllSound
  <2>3. ~oops' /\ FoundInv' /\ ThereInv(o)'
    BY <2>1, <2>2, SoundSteps, FoundNext, ThereNext
  <2> QED
    BY <2>3
<1>5. SafeInv => NoOops
  BY DEF NoOops
<1> QED
  BY <1>1, <1>2, <1>3, <1>4, <1>5, LibInvInit, LibInvNext, PTL DEF LibSpec

-----------------------------------------------------------------------------
(***************************************************************************)
(* That no message is lost: the sends and receives are counted, the calls  *)
(* that are about to return included, and every step keeps the balance     *)
(* with the queues.  First, how to count.                                  *)
(***************************************************************************)

(* The members of Pairs.                                                   *)
LEMMA PairsAre ==
    ASSUME NEW f
    PROVE  \A e : e \in Pairs(f) <=> \E x \in DOMAIN f : \E y \in f[x] : e = <<x, y>>
  BY DEF Pairs

LEMMA PairIn ==
    ASSUME NEW f, NEW x, NEW y
    PROVE  <<x, y>> \in Pairs(f) <=> x \in DOMAIN f /\ y \in f[x]
  BY PairsAre

(* The pairs are the same when the sets are, ...                           *)
LEMMA PairsSame ==
    ASSUME NEW f, NEW g, DOMAIN g = DOMAIN f,
           \A x \in DOMAIN f : g[x] = f[x]
    PROVE  Pairs(g) = Pairs(f)
<1>1. \A e : e \in Pairs(g) <=> e \in Pairs(f)
  BY PairsAre
<1> QED
  BY <1>1

(* ... fewer when they are smaller, ...                                    *)
LEMMA PairsLess ==
    ASSUME NEW f, NEW g, DOMAIN g \subseteq DOMAIN f,
           \A x \in DOMAIN g : g[x] \subseteq f[x]
    PROVE  Pairs(g) \subseteq Pairs(f)
<1>1. \A e : e \in Pairs(g) => e \in Pairs(f)
  BY PairsAre
<1> QED
  BY <1>1

(* ... and grow by one when one of them does.                              *)
LEMMA PairsGrow ==
    ASSUME NEW f, NEW g, DOMAIN g = DOMAIN f, NEW x \in DOMAIN f, NEW y,
           y \notin f[x], g[x] = f[x] \cup {y},
           \A z \in DOMAIN f \ {x} : g[z] = f[z]
    PROVE  Pairs(g) = Pairs(f) \cup {<<x, y>>} /\ <<x, y>> \notin Pairs(f)
<1>1. \A e : e \in Pairs(g) <=> e \in Pairs(f) \/ e = <<x, y>>
  <2> SUFFICES ASSUME NEW e
               PROVE  e \in Pairs(g) <=> e \in Pairs(f) \/ e = <<x, y>>
    OBVIOUS
  <2>1. ASSUME e \in Pairs(g) PROVE e \in Pairs(f) \/ e = <<x, y>>
    <3>1. PICK z \in DOMAIN g : \E v \in g[z] : e = <<z, v>>
      BY <2>1, PairsAre
    <3>2. PICK v \in g[z] : e = <<z, v>>
      BY <3>1
    <3>3. CASE v \in f[z]
      BY <3>1, <3>2, <3>3, PairsAre
    <3>4. CASE v \notin f[z]
      <4>1. z = x /\ v = y
        BY <3>1, <3>2, <3>4
      <4> QED
        BY <3>2, <4>1
    <3> QED
      BY <3>3, <3>4
  <2>2. ASSUME e \in Pairs(f) PROVE e \in Pairs(g)
    <3>1. PICK z \in DOMAIN f : \E v \in f[z] : e = <<z, v>>
      BY <2>2, PairsAre
    <3>2. f[z] \subseteq g[z]
      BY <3>1
    <3> QED
      BY <3>1, <3>2, PairsAre
  <2>3. <<x, y>> \in Pairs(g)
    BY PairIn
  <2> QED
    BY <2>1, <2>2, <2>3
<1>2. <<x, y>> \notin Pairs(f)
  BY PairIn
<1> QED
  BY <1>1, <1>2

(* The members of a set and one more or less, counted.                     *)
LEMMA OneMore ==
    ASSUME NEW f, NEW g, IsFiniteSet(Pairs(f)), NEW e, e \notin Pairs(f),
           Pairs(g) = Pairs(f) \cup {e}
    PROVE  /\ IsFiniteSet(Pairs(g)) /\ Total(f) \in Nat
           /\ Total(g) = Total(f) + 1
  BY FS_AddElement, FS_CardinalityType DEF Total

LEMMA AsMany ==
    ASSUME NEW f, NEW g, Pairs(g) = Pairs(f)
    PROVE  Total(g) = Total(f)
  BY DEF Total

LEMMA NotMore ==
    ASSUME NEW f, NEW g, IsFiniteSet(Pairs(f)), Pairs(g) \subseteq Pairs(f)
    PROVE  /\ IsFiniteSet(Pairs(g)) /\ Total(g) \in Nat /\ Total(f) \in Nat
           /\ Total(g) <= Total(f)
  BY FS_Subset, FS_CardinalityType DEF Total

LEMMA NoneAtAll ==
    ASSUME NEW f, \A x \in DOMAIN f : f[x] = {}
    PROVE  IsFiniteSet(Pairs(f)) /\ Total(f) = 0
<1>1. Pairs(f) = {}
  BY PairsAre
<1> QED
  BY <1>1, FS_EmptySet DEF Total

(* One of the sets is not larger than all together.                        *)
LEMMA PartOfAll ==
    ASSUME NEW f, IsFiniteSet(Pairs(f)), NEW x \in DOMAIN f, NEW n \in Nat,
           f[x] = 1..n
    PROVE  n <= Total(f)
<1>1. IsFiniteSet(1..n) /\ Cardinality(1..n) = n
  BY FS_Interval
<1>2. IsFiniteSet({x}) /\ Cardinality({x}) = 1
  BY FS_Singleton
<1>3. Cardinality({x} \X (1..n)) = 1 * n /\ IsFiniteSet({x} \X (1..n))
  BY <1>1, <1>2, FS_Product
<1>4. {x} \X (1..n) \subseteq Pairs(f)
  BY DEF Pairs
<1>5. Cardinality({x} \X (1..n)) <= Cardinality(Pairs(f))
  BY <1>4, FS_Subset
<1> QED
  BY <1>3, <1>5 DEF Total

-----------------------------------------------------------------------------
(* The driver is done with the call that p waits for: it has taken the     *)
(* message of a msgsnd, or refused one that does not wait, ...             *)
Handing(p) ==
    /\ at[p] = "write" /\ pc[p] \in {"unlock", "user"}
    /\ ret[p] = 0 \/ Args(p).nowait

(* ... or has found a message for a msgrcv.                                *)
Taking(p) ==
    at[p] = "read" /\ pc[p] \in {"unlock", "user"} /\ ret[p] \in Nat

(* The sends and receives so far, the calls that are about to return       *)
(* included.                                                               *)
SentBy ==
    [p \in Proc |-> Sent[p] \cup {i \in {Len(log[p]) + 1} : Handing(p)}]

TakenBy ==
    [p \in Proc |-> Received[p] \cup {i \in {Len(log[p]) + 1} : Taking(p)}]

WaitedBy == [p \in Proc |-> {i \in SentBy[p] : ~program[p][i].nowait}]

(* What Answer makes of a result.                                          *)
LEMMA AnswerOf ==
    ASSUME LibInv, NEW p \in Proc
    PROVE  /\ Answer(p) \in Int /\ ret[p] \in Int
           /\ Answer(p) = 0 <=> ret[p] = 0
           /\ Answer(p) >= 0 <=> ret[p] >= 0
           /\ Answer(p) >= 0 => Answer(p) = ret[p]
<1>1. ret[p] \in Int
  BY DEF LibInv, Inv, TypeOK
<1>2. MAX_ERRNO \in Int
  BY SMT DEF MAX_ERRNO
<1>3. CASE ret[p] \in -MAX_ERRNO..-1
  <2>1. Answer(p) = -1
    BY <1>3 DEF Answer
  <2>2. ret[p] < 0
    BY <1>1, <1>2, <1>3
  <2> QED
    BY <1>1, <2>1, <2>2
<1>4. CASE ret[p] \notin -MAX_ERRNO..-1
  <2>1. Answer(p) = ret[p]
    BY <1>4 DEF Answer
  <2> QED
    BY <1>1, <2>1
<1> QED
  BY <1>3, <1>4

(* A library function returns what the driver has done, and no call is     *)
(* made anew that had taken or handed out a message.                       *)
LEMMA LibForm ==
    ASSUME LibInv, NEW p \in Proc, LibStep(p)
    PROVE  \/ ~Handing(p) /\ ~Taking(p) /\ \E c \in Call : Issue(p, c, c.op)
           \/ \E r \in Int :
                /\ Finish(p, r)
                /\ Args(p).fn = "msgsnd" /\ r = SUCCESS <=> Handing(p)
                /\ Args(p).fn = "msgrcv" /\ r \in Nat <=> Taking(p)
<1>0. pc[p] = "user" /\ ~Ended(p) /\ Args(p) \in LibCall
  BY StepCalls, StepForm, ArgsType
<1>1. /\ Answer(p) \in Int /\ ret[p] \in Int
      /\ Answer(p) = 0 <=> ret[p] = 0
      /\ Answer(p) >= 0 <=> ret[p] >= 0
  BY AnswerOf
<1>2. /\ FAIL \in Int /\ FAIL \notin Nat /\ SUCCESS \in Int /\ FAIL # SUCCESS
      /\ SUCCESS = 0 /\ IPC_RES_NOMSQ # 0
  BY SMT DEF FAIL, SUCCESS, IPC_RES_NOMSQ
<1>3. CASE Begin(p) \/ GetCreate(p) \/ CloseExisting(p)
  <2>1. at[p] \notin {"write", "read"} /\ (GetCreate(p) => at[p] = "check")
    BY <1>3 DEF Begin, GetCreate, CloseExisting, Back
  <2>2. PICK o \in {"check", "create", "close"} :
          Issue(p, [op |-> o, key |-> Args(p).key], o)
    BY <1>3 DEF Begin, GetCreate, CloseExisting
  <2>3. [op |-> o, key |-> Args(p).key] \in Call
    BY <1>0, LibCallFields DEF Call
  <2> QED
    BY <2>1, <2>2, <2>3 DEF Handing, Taking
<1>4. CASE GetExisting(p) \/ GetCreated(p) \/ CloseNothing(p) \/ CloseDone(p)
  <2>1. /\ at[p] \notin {"write", "read"}
        /\ Args(p).fn \in {"msgget", "msgclose"}
    BY <1>4 DEF GetExisting, GetCreated, CloseNothing, CloseDone, Back
  <2>2. \E r \in Int : Finish(p, r)
    BY <1>1, <1>2, <1>4 DEF GetExisting, GetCreated, CloseNothing, CloseDone
  <2> QED
    BY <2>1, <2>2 DEF Handing, Taking
<1>5. CASE SendChecked(p)
  <2>1. at[p] = "check" /\ Args(p).fn = "msgsnd"
    BY <1>5 DEF SendChecked, Back
  <2>2. Finish(p, FAIL) \/ Issue(p, WriteCall(p), "write")
    BY <1>5 DEF SendChecked
  <2>3. WriteCall(p) \in Call /\ WriteCall(p).op = "write"
    BY <1>0, <2>1, LibCallFields DEF Call, WriteCall
  <2> QED
    BY <1>2, <2>1, <2>2, <2>3 DEF Handing, Taking
<1>6. CASE ReceiveChecked(p)
  <2>1. at[p] = "check" /\ Args(p).fn = "msgrcv"
    BY <1>6 DEF ReceiveChecked, Back
  <2>2. Finish(p, FAIL) \/ Issue(p, ReadCall(p), "read")
    BY <1>6 DEF ReceiveChecked
  <2>3. ReadCall(p) \in Call /\ ReadCall(p).op = "read"
    BY <1>0, <2>1, LibCallFields DEF Call, ReadCall
  <2> QED
    BY <1>2, <2>1, <2>2, <2>3 DEF Handing, Taking
<1>7. CASE SendRetry(p)
  <2>1. at[p] = "write" /\ Args(p).fn = "msgsnd" /\ ~SendSettled(p)
    BY <1>7 DEF SendRetry, Back
  <2>2. WriteCall(p) \in Call /\ WriteCall(p).op = "write"
    BY <1>0, <2>1, LibCallFields DEF Call, WriteCall
  <2>3. ~Handing(p) /\ ~Taking(p)
    BY <1>1, <2>1 DEF Handing, Taking, SendSettled
  <2> QED
    BY <1>7, <2>2, <2>3 DEF SendRetry
<1>8. CASE SendDone(p)
  <2>1. at[p] = "write" /\ Args(p).fn = "msgsnd" /\ SendSettled(p)
    BY <1>8 DEF SendDone, Back
  <2> DEFINE r == IF Answer(p) = IPC_RES_NOMSQ /\ ~Args(p).nowait
                  THEN FAIL ELSE SUCCESS
  <2>2. Finish(p, r) /\ r \in Int
    BY <1>2, <1>8 DEF SendDone
  <2>3. r = SUCCESS <=> Handing(p)
    BY <1>0, <1>1, <1>2, <2>1 DEF Handing, SendSettled
  <2>4. ~Taking(p) /\ Args(p).fn # "msgrcv"
    BY <2>1 DEF Taking
  <2> QED
    BY <2>1, <2>2, <2>3, <2>4
<1>9. CASE ReceiveRetry(p)
  <2>1. at[p] = "read" /\ Args(p).fn = "msgrcv" /\ ~ReceiveSettled(p)
    BY <1>9 DEF ReceiveRetry, Back
  <2>2. ReadCall(p) \in Call /\ ReadCall(p).op = "read"
    BY <1>0, <2>1, LibCallFields DEF Call, ReadCall
  <2>3. ~Handing(p) /\ ~Taking(p)
    BY <1>1, <2>1 DEF Handing, Taking, ReceiveSettled
  <2> QED
    BY <1>9, <2>2, <2>3 DEF ReceiveRetry
<1>10. CASE ReceiveDone(p)
  <2>1. at[p] = "read" /\ Args(p).fn = "msgrcv"
    BY <1>10 DEF ReceiveDone, Back
  <2> DEFINE r == IF Answer(p) < 0 THEN FAIL ELSE Answer(p)
  <2>2. Finish(p, r) /\ r \in Int
    BY <1>1, <1>2, <1>10 DEF ReceiveDone
  <2>3. r \in Nat <=> ret[p] >= 0
    BY <1>1, <1>2
  <2>4. r \in Nat <=> Taking(p)
    BY <1>0, <1>1, <2>1, <2>3 DEF Taking
  <2>5. ~Handing(p) /\ Args(p).fn # "msgsnd"
    BY <2>1 DEF Handing
  <2> QED
    BY <2>1, <2>2, <2>4, <2>5
<1> QED
  BY <1>3, <1>4, <1>5, <1>6, <1>7, <1>8, <1>9, <1>10 DEF LibStep

(* The results of a process stay until it finishes a call ...              *)
LEMMA ResultsStay ==
    ASSUME NEW q \in Proc, log'[q] = log[q], program' = program
    PROVE  /\ \A fn, S : Results(q, fn, S)' = Results(q, fn, S)
           /\ Sent'[q] = Sent[q] /\ Received'[q] = Received[q]
           /\ Args(q)' = Args(q)
  BY DEF Results, Sent, Received, Args

(* ... and then one joins them.                                            *)
LEMMA ResultsGrow ==
    ASSUME LibInv, NEW p \in Proc, ~Ended(p), NEW r \in Int, Finish(p, r),
           NEW fn, NEW S
    PROVE  Results(p, fn, S)' =
             Results(p, fn, S)
                \cup {i \in {Len(log[p]) + 1} : Args(p).fn = fn /\ r \in S}
<1>1. log[p] \in Seq(Int) /\ Len(log[p]) \in Nat
  BY LenProperties DEF LibInv, LibTypeOK
<1>2. log'[p] = Append(log[p], r) /\ program' = program
  BY DEF Finish, LibInv, LibTypeOK
<1>3. /\ Len(log'[p]) = Len(log[p]) + 1
      /\ log'[p][Len(log[p]) + 1] = r
      /\ \A i \in 1..Len(log[p]) : log'[p][i] = log[p][i]
  BY <1>1, <1>2, AppendProperties
<1>4. 1..(Len(log[p]) + 1) = (1..Len(log[p])) \cup {Len(log[p]) + 1}
  BY <1>1
<1>5. Len(log[p]) + 1 \notin 1..Len(log[p])
  BY <1>1
<1>6. \A i : i \in Results(p, fn, S)' <=>
               \/ i \in Results(p, fn, S)
               \/ i = Len(log[p]) + 1 /\ Args(p).fn = fn /\ r \in S
  BY <1>2, <1>3, <1>4, <1>5 DEF Results, Args
<1> QED
  BY <1>6

(* No step of the library moves a message.                                 *)
LEMMA LibMovesNothing ==
    ASSUME LibInv, NEW p \in Proc, LibStep(p)
    PROVE  /\ \A q \in Proc : SentBy'[q] = SentBy[q] /\ TakenBy'[q] = TakenBy[q]
           /\ msq' = msq /\ program' = program
<1>0. ~Ended(p) /\ at \in [Proc -> {"out"} \cup Waits] /\ log \in [Proc -> Seq(Int)]
      /\ pc \in [Proc -> Labels] /\ ret \in [Proc -> Int] /\ SUCCESS \in {SUCCESS}
  BY StepForm DEF LibInv, LibTypeOK, Inv, TypeOK, Waits
<1>1. ASSUME NEW q \in Proc \ {p}, log'[q] = log[q], program' = program,
             at'[q] = at[q], pc'[q] = pc[q], ret'[q] = ret[q]
      PROVE  SentBy'[q] = SentBy[q] /\ TakenBy'[q] = TakenBy[q]
  <2>1. /\ Sent'[q] = Sent[q] /\ Received'[q] = Received[q]
        /\ Args(q)' = Args(q)
    BY <1>1, ResultsStay
  <2>2. (Handing(q)' <=> Handing(q)) /\ (Taking(q)' <=> Taking(q))
    BY <1>1, <2>1 DEF Handing, Taking
  <2> QED
    BY <1>1, <2>1, <2>2 DEF SentBy, TakenBy
<1>2. ASSUME NEW c \in Call, Issue(p, c, c.op), ~Handing(p), ~Taking(p)
      PROVE  /\ \A q \in Proc : SentBy'[q] = SentBy[q] /\ TakenBy'[q] = TakenBy[q]
             /\ msq' = msq /\ program' = program
  <2>1. /\ log' = log /\ program' = program /\ msq' = msq
        /\ pc'[p] \in {"alloc", "scan", "spin"}
        /\ \A q \in Proc \ {p} : at'[q] = at[q] /\ pc'[q] = pc[q] /\ ret'[q] = ret[q]
    BY <1>0, <1>2, CallFields DEF Issue, Syscall, Goto, Entry, Ops
  <2>2. ~Handing(p)' /\ ~Taking(p)'
    BY <2>1 DEF Handing, Taking
  <2>3. SentBy'[p] = SentBy[p] /\ TakenBy'[p] = TakenBy[p]
    <3>1. Sent'[p] = Sent[p] /\ Received'[p] = Received[p]
      BY <2>1, ResultsStay
    <3> QED
      BY <1>2, <2>1, <2>2, <3>1 DEF SentBy, TakenBy
  <2> QED
    BY <1>1, <2>1, <2>3
<1>3. ASSUME NEW r \in Int, Finish(p, r),
             Args(p).fn = "msgsnd" /\ r = SUCCESS <=> Handing(p),
             Args(p).fn = "msgrcv" /\ r \in Nat <=> Taking(p)
      PROVE  /\ \A q \in Proc : SentBy'[q] = SentBy[q] /\ TakenBy'[q] = TakenBy[q]
             /\ msq' = msq /\ program' = program
  <2>1. /\ program' = program /\ msq' = msq /\ at'[p] = "out"
        /\ \A q \in Proc \ {p} : at'[q] = at[q] /\ log'[q] = log[q]
                                 /\ pc'[q] = pc[q] /\ ret'[q] = ret[q]
    BY <1>0, <1>3 DEF Finish, vars
  <2>2. ~Handing(p)' /\ ~Taking(p)'
    BY <2>1 DEF Handing, Taking
  <2>3. Sent'[p] = Sent[p] \cup {i \in {Len(log[p]) + 1} : Handing(p)}
    <3>1. Results(p, "msgsnd", {SUCCESS})' =
            Results(p, "msgsnd", {SUCCESS})
              \cup {i \in {Len(log[p]) + 1} : Args(p).fn = "msgsnd" /\ r \in {SUCCESS}}
      BY <1>0, <1>3, ResultsGrow
    <3> QED
      BY <1>3, <3>1 DEF Sent, SUCCESS
  <2>4. Received'[p] = Received[p] \cup {i \in {Len(log[p]) + 1} : Taking(p)}
    <3>1. Results(p, "msgrcv", Nat)' =
            Results(p, "msgrcv", Nat)
              \cup {i \in {Len(log[p]) + 1} : Args(p).fn = "msgrcv" /\ r \in Nat}
      BY <1>0, <1>3, ResultsGrow
    <3> QED
      BY <1>3, <3>1 DEF Received
  <2>5. SentBy'[p] = SentBy[p] /\ TakenBy'[p] = TakenBy[p]
    BY <2>2, <2>3, <2>4 DEF SentBy, TakenBy
  <2> QED
    BY <1>1, <2>1, <2>5
<1> QED
  BY <1>2, <1>3, LibForm

-----------------------------------------------------------------------------
(* A step of the driver for one process leaves the others where they are.  *)
LEMMA OthersRest ==
    ASSUME Inv, NEW p \in Proc, Inside(p), pc[p] # "kfree"
    PROVE  \A q \in Proc \ {p} : cur'[q] = cur[q] /\ ret'[q] = ret[q]
<1> SUFFICES ASSUME NEW q \in Proc \ {p}
             PROVE  cur'[q] = cur[q] /\ ret'[q] = ret[q]
  OBVIOUS
<1>1. CASE Scan(p)
  <2>1. CASE nxt[cur[p]] = Root /\ NotFound(p)
    BY <2>1 DEF NotFound, Return, Leave, locals, Inv, TypeOK
  <2>2. CASE nxt[cur[p]] # Root
    BY <1>1, <2>2 DEF Scan, Inv, TypeOK
  <2> QED
    BY <1>1, <2>1, <2>2 DEF Scan
<1>2. CASE Ioctl(p)
  BY <1>2 DEF Ioctl, ReturnKey, CreateAlloc, CreateLinkBack, CreateLinkFront,
              CloseRead, CloseUnlinkBack, CloseUnlinkFront, CloseFree, At,
              Return, locals, Inv, TypeOK
<1>3. CASE ReadFind(p) \/ ReadCopy(p) \/ WriteCheck(p)
  BY <1>3 DEF ReadFind, ReadCopy, WriteCheck, Leave, locals, Inv, TypeOK
<1>4. CASE ReadRemove(p) \/ WriteAppend(p)
  BY <1>4 DEF ReadRemove, WriteAppend, Leave, locals, Inv, TypeOK
<1>5. CASE Unlock(p)
  BY <1>5 DEF Unlock, Return, Inv, TypeOK
<1>6. CASE Acquire(p) \/ Fault(p)
  BY <1>6 DEF Acquire, Fault, locals
<1> QED
  BY <1>1, <1>2, <1>3, <1>4, <1>5, <1>6 DEF Inside, Transfer

(* What a process has sent and taken stays, ...                            *)
LEMMA MovesSame ==
    ASSUME NEW q \in Proc, UNCHANGED libVars,
           Handing(q)' <=> Handing(q), Taking(q)' <=> Taking(q)
    PROVE  SentBy'[q] = SentBy[q] /\ TakenBy'[q] = TakenBy[q]
<1>1. /\ log'[q] = log[q] /\ Sent'[q] = Sent[q] /\ Received'[q] = Received[q]
  BY ResultsStay DEF libVars
<1> QED
  BY <1>1 DEF SentBy, TakenBy

(* ... also when the driver is at work for another process.                *)
LEMMA OthersSame ==
    ASSUME Inv, NEW p \in Proc, Inside(p), pc[p] # "kfree", UNCHANGED libVars
    PROVE  \A q \in Proc \ {p} :
             SentBy'[q] = SentBy[q] /\ TakenBy'[q] = TakenBy[q]
<1> SUFFICES ASSUME NEW q \in Proc \ {p}
             PROVE  SentBy'[q] = SentBy[q] /\ TakenBy'[q] = TakenBy[q]
  OBVIOUS
<1>1. pc'[q] = pc[q]
  BY InsideCalls
<1>2. ret'[q] = ret[q]
  BY OthersRest
<1>3. Args(q)' = Args(q) /\ at' = at
  BY DEF libVars, Args
<1>4. (Handing(q)' <=> Handing(q)) /\ (Taking(q)' <=> Taking(q))
  BY <1>1, <1>2, <1>3 DEF Handing, Taking
<1> QED
  BY <1>4, MovesSame

(* A process inside the driver that is not done yet has not moved its      *)
(* message, and its call is not counted yet.                               *)
LEMMA NotYet ==
    ASSUME LibInv, NEW p \in Proc, pc[p] \notin {"unlock", "user"}
    PROVE  /\ ~Handing(p) /\ ~Taking(p)
           /\ Len(log[p]) + 1 \notin SentBy[p]
           /\ Len(log[p]) + 1 \notin TakenBy[p]
<1>1. Len(log[p]) \in Nat
  BY LenProperties DEF LibInv, LibTypeOK
<1>2. Len(log[p]) + 1 \notin Sent[p] /\ Len(log[p]) + 1 \notin Received[p]
  BY <1>1 DEF Sent, Received, Results
<1>3. ~Handing(p) /\ ~Taking(p)
  BY DEF Handing, Taking
<1> QED
  BY <1>2, <1>3 DEF SentBy, TakenBy

(* A write or read that returns an error moves no message; but a send that *)
(* does not wait counts as sent.                                           *)
LEMMA LeaveMoves ==
    ASSUME LibInv, AllWait, NEW p \in Proc, UNCHANGED libVars,
           pc[p] \notin {"unlock", "user"}, pc'[p] = "unlock",
           NEW r \in Failures, ret'[p] = r
    PROVE  /\ TakenBy'[p] = TakenBy[p]
           /\ \/ SentBy'[p] = SentBy[p]
              \/ /\ at[p] = "write" /\ Args(p).nowait
                 /\ SentBy'[p] = SentBy[p] \cup {Len(log[p]) + 1}
<1>1. r # 0 /\ r \notin Nat
  BY SMT DEF Failures, IPC_RES_NOMSQ, IPC_RES_NOMSG, IPC_RES_NOVOL,
             IPC_RES_FULLMSG, IPC_RES_FULLVOL, IPC_RES_SHORT
<1>2. /\ log' = log /\ at' = at /\ Args(p)' = Args(p)
      /\ Sent'[p] = Sent[p] /\ Received'[p] = Received[p]
  BY ResultsStay DEF libVars, Args
<1>3. ~Handing(p) /\ ~Taking(p) /\ ~Taking(p)'
  BY <1>1, NotYet DEF Taking
<1>4. TakenBy'[p] = TakenBy[p]
  BY <1>2, <1>3 DEF TakenBy
<1>5. CASE Handing(p)'
  <2>1. at[p] = "write" /\ Args(p).nowait
    BY <1>1, <1>2, <1>5 DEF Handing
  <2>2. SentBy'[p] = SentBy[p] \cup {Len(log[p]) + 1}
    BY <1>2, <1>3, <1>5 DEF SentBy
  <2> QED
    BY <1>4, <2>1, <2>2
<1>6. CASE ~Handing(p)'
  BY <1>2, <1>3, <1>4, <1>6 DEF SentBy
<1> QED
  BY <1>5, <1>6

(* Nor does a call that goes on, or one of ioctl that returns.             *)
LEMMA GoesOn ==
    ASSUME LibInv, NEW p \in Proc, UNCHANGED libVars,
           pc[p] \notin {"unlock", "user"},
           pc'[p] \notin {"unlock", "user"} \/ at[p] \notin {"read", "write"}
    PROVE  SentBy'[p] = SentBy[p] /\ TakenBy'[p] = TakenBy[p]
<1>1. at' = at
  BY DEF libVars
<1>2. ~Handing(p) /\ ~Taking(p)
  BY NotYet
<1>3. ~Handing(p)' /\ ~Taking(p)'
  BY <1>1 DEF Handing, Taking
<1> QED
  BY <1>2, <1>3, MovesSame

(* A step that moves no message.                                           *)
Unmoved ==
    /\ \A q \in Proc : SentBy'[q] = SentBy[q] /\ TakenBy'[q] = TakenBy[q]
    /\ Pairs(Queued)' = Pairs(Queued)

(* The send that p does not wait for is refused: there is no queue of its  *)
(* key, or it is full.                                                     *)
Refused(p) ==
    /\ at[p] = "write" /\ Args(p).nowait
    /\ SentBy'[p] = SentBy[p] \cup {Len(log[p]) + 1}
    /\ \/ Scan(p) /\ pc[p] = "scan" /\ nxt[cur[p]] = Root
       \/ /\ pc[p] = "write" /\ WriteCheck(p)
          /\ Full(msq[cur[p]]) \/ TooBig(msq[cur[p]], call[p].len)

(* A scan.                                                                 *)
LEMMA ScanMoves ==
    ASSUME LibInv, AllWait, NEW p \in Proc, Scan(p), UNCHANGED libVars
    PROVE  /\ TakenBy'[p] = TakenBy[p]
           /\ SentBy'[p] = SentBy[p] \/ Refused(p)
<1>1. /\ pc[p] = "scan" /\ call[p].op = at[p]
      /\ call[p].op \in {"check", "close", "read", "write"}
  BY DEF Scan, At, AllWait, WaitInv, LibInv, Inv, CallInv
<1>2. CASE nxt[cur[p]] = Root /\ NotFound(p)
  <2>1. CASE at[p] \in {"check", "close"}
    BY <1>1, <2>1, GoesOn
  <2>2. CASE at[p] \in {"read", "write"}
    <3>1. pc'[p] = "unlock" /\ ret'[p] = IPC_RES_NOMSQ
      BY <1>1, <1>2, <2>2 DEF NotFound, Leave, Goto, LibInv, Inv, TypeOK
    <3>2. IPC_RES_NOMSQ \in Failures
      BY DEF Failures
    <3> QED
      BY <1>1, <1>2, <3>1, <3>2, LeaveMoves DEF Refused
  <2> QED
    BY <1>1, <2>1, <2>2
<1>3. CASE nxt[cur[p]] # Root
  <2>1. pc'[p] \notin {"unlock", "user"}
    BY <1>1, <1>3 DEF Scan, Found, Goto, LibInv, Inv, TypeOK
  <2> QED
    BY <1>1, <2>1, GoesOn
<1> QED
  BY <1>2, <1>3 DEF Scan

(* The test of the limits.                                                 *)
LEMMA WriteCheckMoves ==
    ASSUME LibInv, AllWait, NEW p \in Proc, WriteCheck(p), UNCHANGED libVars
    PROVE  /\ TakenBy'[p] = TakenBy[p]
           /\ SentBy'[p] = SentBy[p] \/ Refused(p)
<1>1. pc[p] = "write"
  BY DEF WriteCheck, At
<1>2. ASSUME NEW r \in Failures, Leave(p, r),
             Full(msq[cur[p]]) \/ TooBig(msq[cur[p]], call[p].len)
      PROVE  /\ TakenBy'[p] = TakenBy[p]
             /\ SentBy'[p] = SentBy[p] \/ Refused(p)
  <2>1. pc'[p] = "unlock" /\ ret'[p] = r
    BY <1>2 DEF Leave, Goto, LibInv, Inv, TypeOK
  <2> QED
    BY <1>1, <1>2, <2>1, LeaveMoves DEF Refused
<1>3. CASE Full(msq[cur[p]])
  <2>1. Leave(p, IPC_RES_FULLMSG) /\ IPC_RES_FULLMSG \in Failures
    BY <1>3 DEF WriteCheck, Failures
  <2> QED
    BY <1>2, <1>3, <2>1
<1>4. CASE ~Full(msq[cur[p]]) /\ TooBig(msq[cur[p]], call[p].len)
  <2>1. Leave(p, IPC_RES_FULLVOL) /\ IPC_RES_FULLVOL \in Failures
    BY <1>4 DEF WriteCheck, Failures
  <2> QED
    BY <1>2, <1>4, <2>1
<1>5. CASE ~Full(msq[cur[p]]) /\ ~TooBig(msq[cur[p]], call[p].len)
  <2>1. pc'[p] = "append"
    BY <1>5 DEF WriteCheck, Goto, LibInv, Inv, TypeOK
  <2> QED
    BY <1>1, <2>1, GoesOn
<1> QED
  BY <1>3, <1>4, <1>5

(* The search of read and the copy to the user.                            *)
LEMMA FindMoves ==
    ASSUME LibInv, AllWait, NEW p \in Proc, ReadFind(p) \/ ReadCopy(p),
           UNCHANGED libVars
    PROVE  SentBy'[p] = SentBy[p] /\ TakenBy'[p] = TakenBy[p]
<1>1. pc[p] \in {"read", "copy"} /\ call[p].op = "read"
  BY DEF ReadFind, ReadCopy, At, LibInv, Inv, CallInv
<1>2. at[p] = "read"
  BY <1>1 DEF AllWait, WaitInv
<1>3. ASSUME NEW r \in Failures, Leave(p, r)
      PROVE  SentBy'[p] = SentBy[p] /\ TakenBy'[p] = TakenBy[p]
  <2>1. pc'[p] = "unlock" /\ ret'[p] = r
    BY <1>3 DEF Leave, Goto, LibInv, Inv, TypeOK
  <2> QED
    BY <1>1, <1>2, <2>1, LeaveMoves
<1>4. ASSUME NEW l \in {"copy", "remove"}, Goto(p, l)
      PROVE  SentBy'[p] = SentBy[p] /\ TakenBy'[p] = TakenBy[p]
  <2>1. pc'[p] = l
    BY <1>4 DEF Goto, LibInv, Inv, TypeOK
  <2> QED
    BY <1>1, <2>1, GoesOn
<1>5. CASE ReadFind(p)
  <2>1. (\E r \in Failures : Leave(p, r)) \/ Goto(p, "copy")
    BY <1>5 DEF ReadFind, Failures
  <2> QED
    BY <1>3, <1>4, <2>1
<1>6. CASE ReadCopy(p)
  <2>1. (\E r \in Failures : Leave(p, r)) \/ Goto(p, "remove")
    BY <1>6 DEF ReadCopy, Failures
  <2> QED
    BY <1>3, <1>4, <2>1
<1> QED
  BY <1>5, <1>6

(* Unlock returns what has been done.                                      *)
LEMMA UnlockMoves ==
    ASSUME LibInv, NEW p \in Proc, Unlock(p), UNCHANGED libVars
    PROVE  SentBy'[p] = SentBy[p] /\ TakenBy'[p] = TakenBy[p]
<1>1. pc[p] = "unlock" /\ pc'[p] = "user" /\ ret'[p] = ret[p]
  BY DEF Unlock, At, Return, Goto, LibInv, Inv, TypeOK
<1>2. at' = at /\ Args(p)' = Args(p)
  BY DEF libVars, Args
<1>3. (Handing(p)' <=> Handing(p)) /\ (Taking(p)' <=> Taking(p))
  BY <1>1, <1>2 DEF Handing, Taking
<1> QED
  BY <1>3, MovesSame

(* The calls of ioctl.                                                     *)
LEMMA IoctlMoves ==
    ASSUME LibInv, AllWait, NEW p \in Proc, Ioctl(p), pc[p] # "kfree",
           UNCHANGED libVars
    PROVE  SentBy'[p] = SentBy[p] /\ TakenBy'[p] = TakenBy[p]
<1>1. /\ pc[p] \notin {"unlock", "user"}
      /\ call[p].op \in {"check", "create", "close"}
  BY DEF Ioctl, ReturnKey, CreateAlloc, CreateLinkBack, CreateLinkFront,
         CloseRead, CloseUnlinkBack, CloseUnlinkFront, CloseFree, At,
         LibInv, Inv, CallInv
<1>2. at[p] \notin {"read", "write"}
  BY <1>1 DEF AllWait, WaitInv
<1> QED
  BY <1>1, <1>2, GoesOn

LEMMA OneLonger ==
    ASSUME NEW n \in Nat
    PROVE  1..(n + 1) = (1..n) \cup {n + 1} /\ n + 1 \notin 1..n
  OBVIOUS

LEMMA OneShorter ==
    ASSUME NEW n \in Nat, n # 0
    PROVE  1..n = (1..(n - 1)) \cup {n} /\ n \notin 1..(n - 1)
  OBVIOUS

LEMMA QueuedType ==
    ASSUME TypeOK
    PROVE  /\ DOMAIN Queued = Used
           /\ \A n \in Used : /\ Queued[n] = DOMAIN msq[n].msgs
                              /\ Queued[n] = 1..Len(msq[n].msgs)
                              /\ Len(msq[n].msgs) \in Nat
<1>1. \A n \in Used : msq[n] \in Queue
  BY DEF Used, TypeOK
<1>2. \A n \in Used : msq[n].msgs \in Seq(Message)
  BY <1>1, QueueFields
<1> QED
  BY <1>2, LenProperties DEF Queued

(* A new queue is empty.                                                   *)
LEMMA AllocQueued ==
    ASSUME Inv, NEW p \in Proc, CreateAlloc(p)
    PROVE  Pairs(Queued)' = Pairs(Queued)
<1>1. PICK n \in Node :
        /\ msq[n] = NULL
        /\ msq' = [msq EXCEPT ![n] = [key |-> call[p].key, msgs |-> <<>>,
                                      size |-> 0, vol |-> 0]]
  BY DEF CreateAlloc
<1>2. call[p].key \in Key
  BY CallFields DEF CreateAlloc, At, Inv, TypeOK, CallInv
<1>3. [key |-> call[p].key, msgs |-> <<>>, size |-> 0, vol |-> 0] \in Queue
  BY <1>2, EmptySeq DEF Queue
<1>4. /\ msq'[n] # NULL /\ msq'[n].msgs = <<>>
      /\ \A x \in Node \ {n} : msq'[x] = msq[x]
  BY <1>1, <1>3, QueueAssumption DEF Inv, TypeOK
<1>5. Used' = Used \cup {n} /\ n \notin Used
  BY <1>1, <1>4 DEF Used
<1>6. DOMAIN Queued = Used /\ DOMAIN Queued' = Used'
  BY DEF Queued
<1>7. \A x \in Used : Queued'[x] = Queued[x]
  BY <1>4, <1>5 DEF Queued, Used
<1>8. Queued'[n] = {}
  <2>1. DOMAIN <<>> = {}
    OBVIOUS
  <2> QED
    BY <1>4, <1>5, <2>1 DEF Queued
<1>9. Pairs(Queued) \subseteq Pairs(Queued')
  BY <1>5, <1>6, <1>7, PairsLess
<1>10. ASSUME NEW e \in Pairs(Queued')
       PROVE  e \in Pairs(Queued)
  <2>1. PICK x \in Used' : \E y \in Queued'[x] : e = <<x, y>>
    BY <1>6, <1>10, PairsAre
  <2>2. x \in Used
    BY <1>5, <1>8, <2>1
  <2> QED
    BY <1>6, <1>7, <2>1, <2>2, PairsAre
<1>11. Pairs(Queued)' = Pairs(Queued')
  BY DEF Pairs
<1> QED
  BY <1>9, <1>10, <1>11

(* write adds a message to one queue ...                                   *)
LEMMA AppendQueued ==
    ASSUME Inv, NEW p \in Proc, WriteAppend(p)
    PROVE  \E e : e \notin Pairs(Queued) /\ Pairs(Queued') = Pairs(Queued) \cup {e}
<1>1. /\ cur[p] \in Used /\ cur[p] \in Node /\ msq[cur[p]] \in Queue
      /\ \A x \in Node \ {cur[p]} : msq'[x] = msq[x]
  BY TransferInRing
<1>2. Used' = Used
  BY SameKeys
<1>3. PICK m \in Message : msq'[cur[p]].msgs = Append(msq[cur[p]].msgs, m)
  <2>1. call[p].type \in Type /\ call[p].len \in Size
    BY CallFields DEF WriteAppend, At, Inv, TypeOK, CallInv
  <2>2. msq[cur[p]].size + 1 \in Int
    BY <1>1, QueueFields
  <2>3. [type |-> call[p].type, msgsz |-> call[p].len,
         index |-> msq[cur[p]].size + 1] \in Message
    BY <2>1, <2>2 DEF Message
  <2> QED
    BY <1>1, <2>3 DEF WriteAppend, Inv, TypeOK
<1>4. msq[cur[p]].msgs \in Seq(Message)
  BY <1>1, QueueFields
<1>5. Len(msq[cur[p]].msgs) \in Nat
  BY <1>4, LenProperties
<1>6. DOMAIN msq'[cur[p]].msgs = 1..(Len(msq[cur[p]].msgs) + 1)
  BY <1>3, <1>4, <1>5, AppendProperties, LenProperties
<1>7. DOMAIN Queued = Used /\ DOMAIN Queued' = Used
  BY <1>2 DEF Queued
<1>8. Queued[cur[p]] = 1..Len(msq[cur[p]].msgs)
  BY <1>1, <1>4, LenProperties DEF Queued
<1>9. /\ Queued'[cur[p]] = Queued[cur[p]] \cup {Len(msq[cur[p]].msgs) + 1}
      /\ Len(msq[cur[p]].msgs) + 1 \notin Queued[cur[p]]
  <2>1. Queued'[cur[p]] = 1..(Len(msq[cur[p]].msgs) + 1)
    BY <1>1, <1>2, <1>6 DEF Queued
  <2> QED
    BY <1>5, <1>8, <2>1, OneLonger
<1>10. \A x \in Used \ {cur[p]} : Queued'[x] = Queued[x]
  BY <1>1, <1>2 DEF Queued, Used
<1>11. PICK f, g, x, y : /\ f = Queued /\ g = Queued' /\ x = cur[p]
                         /\ y = Len(msq[cur[p]].msgs) + 1
  OBVIOUS
<1>12. /\ DOMAIN g = DOMAIN f /\ x \in DOMAIN f /\ y \notin f[x]
       /\ g[x] = f[x] \cup {y} /\ \A z \in DOMAIN f \ {x} : g[z] = f[z]
  BY <1>1, <1>7, <1>9, <1>10, <1>11
<1>13. Pairs(g) = Pairs(f) \cup {<<x, y>>} /\ <<x, y>> \notin Pairs(f)
  BY <1>12, PairsGrow
<1> QED
  BY <1>11, <1>13

(* ... and read takes one out of one.                                      *)
LEMMA RemoveQueued ==
    ASSUME Inv, NEW p \in Proc, ReadRemove(p)
    PROVE  \E e : e \notin Pairs(Queued') /\ Pairs(Queued) = Pairs(Queued') \cup {e}
<1>1. /\ cur[p] \in Used /\ cur[p] \in Node /\ msq[cur[p]] \in Queue
      /\ \A x \in Node \ {cur[p]} : msq'[x] = msq[x]
  BY TransferInRing
<1>2. Used' = Used
  BY SameKeys
<1>3. msq[cur[p]].msgs \in Seq(Message) /\ Len(msq[cur[p]].msgs) \in Nat
  BY <1>1, QueueFields, LenProperties
<1>4. pos[p] \in 1..Len(msq[cur[p]].msgs)
  <2>1. pos[p] # 0 /\ pc[p] = "remove" /\ PosInv(p)
    BY DEF ReadRemove, At, Sound, Inv
  <2> QED
    BY <2>1 DEF PosInv
<1>5. msq'[cur[p]].msgs = RemoveAt(msq[cur[p]].msgs, pos[p])
  BY <1>1 DEF ReadRemove, Inv, TypeOK
<1>6. /\ RemoveAt(msq[cur[p]].msgs, pos[p]) \in Seq(Message)
      /\ Len(RemoveAt(msq[cur[p]].msgs, pos[p])) = Len(msq[cur[p]].msgs) - 1
  BY <1>3, <1>4, RemoveAtProperties
<1>7. DOMAIN msq'[cur[p]].msgs = 1..(Len(msq[cur[p]].msgs) - 1)
  BY <1>5, <1>6, LenProperties
<1>8. DOMAIN Queued = Used /\ DOMAIN Queued' = Used
  BY <1>2 DEF Queued
<1>9. Queued[cur[p]] = 1..Len(msq[cur[p]].msgs)
  BY <1>1, <1>3, LenProperties DEF Queued
<1>10. Queued'[cur[p]] = 1..(Len(msq[cur[p]].msgs) - 1)
  BY <1>1, <1>2, <1>7 DEF Queued
<1>11. /\ Queued[cur[p]] = Queued'[cur[p]] \cup {Len(msq[cur[p]].msgs)}
       /\ Len(msq[cur[p]].msgs) \notin Queued'[cur[p]]
  <2>1. Len(msq[cur[p]].msgs) # 0
    BY <1>3, <1>4
  <2> QED
    BY <1>3, <1>9, <1>10, <2>1, OneShorter
<1>12. \A x \in Used \ {cur[p]} : Queued[x] = Queued'[x]
  BY <1>1, <1>2 DEF Queued, Used
<1>13. PICK f, g, x, y : /\ f = Queued' /\ g = Queued /\ x = cur[p]
                         /\ y = Len(msq[cur[p]].msgs)
  OBVIOUS
<1>14. /\ DOMAIN g = DOMAIN f /\ x \in DOMAIN f /\ y \notin f[x]
       /\ g[x] = f[x] \cup {y} /\ \A z \in DOMAIN f \ {x} : g[z] = f[z]
  BY <1>1, <1>8, <1>11, <1>12, <1>13
<1>15. Pairs(g) = Pairs(f) \cup {<<x, y>>} /\ <<x, y>> \notin Pairs(f)
  BY <1>14, PairsGrow
<1> QED
  BY <1>13, <1>15

(* What write and read do to what their caller has sent and taken.         *)
LEMMA AppendMoves ==
    ASSUME LibInv, AllWait, NEW p \in Proc, WriteAppend(p), UNCHANGED libVars
    PROVE  /\ TakenBy'[p] = TakenBy[p]
           /\ SentBy'[p] = SentBy[p] \cup {Len(log[p]) + 1}
<1>1. /\ pc[p] = "append" /\ call[p].op = "write"
      /\ pc'[p] = "unlock" /\ ret'[p] = 0
  BY DEF WriteAppend, At, Leave, Goto, LibInv, Inv, TypeOK, CallInv
<1>2. at[p] = "write"
  BY <1>1 DEF AllWait, WaitInv
<1>3. /\ log' = log /\ at' = at
      /\ Sent'[p] = Sent[p] /\ Received'[p] = Received[p]
  BY ResultsStay DEF libVars
<1>4. ~Handing(p) /\ ~Taking(p) /\ Handing(p)' /\ ~Taking(p)'
  BY <1>1, <1>2, <1>3 DEF Handing, Taking
<1> QED
  BY <1>3, <1>4 DEF SentBy, TakenBy

(* A read that removes a message returns its size.                         *)
RetInv == \A p \in Proc : pc[p] = "remove" => ret[p] \in Nat

LEMMA RemoveMoves ==
    ASSUME LibInv, AllWait, RetInv, NEW p \in Proc, ReadRemove(p),
           UNCHANGED libVars
    PROVE  /\ TakenBy'[p] = TakenBy[p] \cup {Len(log[p]) + 1}
           /\ SentBy'[p] = SentBy[p]
<1>1. /\ pc[p] = "remove" /\ call[p].op = "read"
      /\ pc'[p] = "unlock" /\ ret'[p] = ret[p] /\ ret[p] \in Nat
  BY DEF ReadRemove, At, Leave, Goto, LibInv, Inv, TypeOK, CallInv, RetInv
<1>2. at[p] = "read"
  BY <1>1 DEF AllWait, WaitInv
<1>3. /\ log' = log /\ at' = at
      /\ Sent'[p] = Sent[p] /\ Received'[p] = Received[p]
  BY ResultsStay DEF libVars
<1>4. ~Handing(p) /\ ~Taking(p) /\ ~Handing(p)' /\ Taking(p)'
  BY <1>1, <1>2, <1>3 DEF Handing, Taking
<1> QED
  BY <1>3, <1>4 DEF SentBy, TakenBy

LEMMA RetNext ==
    ASSUME Inv, RetInv, [Next]_vars
    PROVE  RetInv'
<1> SUFFICES ASSUME NEW q \in Proc, pc'[q] = "remove"
             PROVE  ret'[q] \in Nat
  BY DEF RetInv
<1>1. ASSUME pc[q] = "remove", ret'[q] = ret[q]
      PROVE  ret'[q] \in Nat
  BY <1>1 DEF RetInv
<1>2. CASE UNCHANGED vars
  BY <1>1, <1>2 DEF vars
<1>3. ASSUME NEW p \in Proc, NEW c \in Call, Syscall(p, c)
      PROVE  ret'[q] \in Nat
  BY <1>1, <1>3, CallFields DEF Syscall, Goto, Entry, Ops, Inv, TypeOK
<1>4. ASSUME NEW p \in Proc, Scan(p)
      PROVE  ret'[q] \in Nat
  <2>1. pc[p] = "scan" /\ call[p].op \in {"check", "close", "read", "write"}
    BY <1>4 DEF Scan, At, Inv, CallInv
  <2>2. CASE nxt[cur[p]] = Root /\ NotFound(p)
    BY <1>1, <2>1, <2>2 DEF NotFound, Return, Leave, Goto, locals, Inv, TypeOK
  <2>3. CASE nxt[cur[p]] # Root
    BY <1>1, <1>4, <2>1, <2>3 DEF Scan, Found, Goto, Inv, TypeOK
  <2> QED
    BY <1>4, <2>2, <2>3 DEF Scan
<1>5. ASSUME NEW p \in Proc, Acquire(p) \/ Ioctl(p) \/ Unlock(p) \/ Fault(p)
      PROVE  ret'[q] \in Nat
  <2>1. pc[q] = "remove" /\ ret'[q] = ret[q]
    BY <1>5
       DEF Ioctl, ReturnKey, CreateAlloc, CreateLinkBack, CreateLinkFront,
           CloseRead, CloseUnlinkBack, CloseUnlinkFront, CloseFree, Acquire,
           Unlock, Fault, At, Goto, Return, Inv, TypeOK
  <2> QED
    BY <1>1, <2>1
<1>6. ASSUME NEW p \in Proc,
             \/ ReadFind(p) \/ ReadRemove(p) \/ WriteCheck(p) \/ WriteAppend(p)
      PROVE  ret'[q] \in Nat
  <2>1. pc[q] = "remove" /\ ret'[q] = ret[q]
    BY <1>6 DEF ReadFind, ReadRemove, WriteCheck, WriteAppend, At, Goto, Leave,
                Inv, TypeOK
  <2> QED
    BY <1>1, <2>1
<1>7. ASSUME NEW p \in Proc, ReadCopy(p)
      PROVE  ret'[q] \in Nat
  <2>1. CASE q = p
    <3>1. /\ msq[cur[p]] \in Queue /\ call[p].len \in Size
          /\ pos[p] \in 1..Len(msq[cur[p]].msgs)
      <4>1. pc[p] = "copy" /\ Sound(p)
        BY <1>7 DEF ReadCopy, At
      <4>2. msq[cur[p]] \in Queue /\ pos[p] # 0 /\ PosInv(p) /\ CallInv(p)
        BY <4>1, SoundCur DEF Sound, Inv
      <4> QED
        BY <4>1, <4>2, CallFields DEF PosInv, CallInv, Inv, TypeOK
    <3>2. msq[cur[p]].msgs[pos[p]].msgsz \in Size
      <4>1. msq[cur[p]].msgs[pos[p]] \in Message
        BY <3>1, QueueFields, ElementOfSeq
      <4> QED
        BY <4>1, MessageSize
    <3>3. \/ ret'[p] \in {msq[cur[p]].msgs[pos[p]].msgsz, call[p].len}
          \/ pc'[p] = "unlock"
      BY <1>7 DEF ReadCopy, Leave, Goto, Inv, TypeOK
    <3> QED
      BY <2>1, <3>1, <3>2, <3>3, SizeIsNat
  <2>2. CASE q # p
    BY <1>1, <1>7, <2>2 DEF ReadCopy, Leave, Goto, Inv, TypeOK
  <2> QED
    BY <2>1, <2>2
<1> QED
  BY <1>2, <1>3, <1>4, <1>5, <1>6, <1>7 DEF Next, Inside, Transfer

-----------------------------------------------------------------------------
(* Nothing was closed and nobody is about to.                              *)
NoneClosed ==
    \A p \in Proc : at[p] # "close" /\ Results(p, "msgclose", {SUCCESS}) = {}

(* What has been closed was closed for ever.                               *)
LEMMA NoneClosedBefore ==
    ASSUME LibInv, [LibNext]_allVars, NoneClosed'
    PROVE  NoneClosed
<1> SUFFICES ASSUME NEW q \in Proc
             PROVE  at[q] # "close" /\ Results(q, "msgclose", {SUCCESS}) = {}
  BY DEF NoneClosed
<1>0. at'[q] # "close" /\ Results(q, "msgclose", {SUCCESS})' = {}
  BY DEF NoneClosed
<1>1. CASE at'[q] = at[q] /\ log'[q] = log[q] /\ program' = program
  BY <1>0, <1>1, ResultsStay
<1>2. CASE UNCHANGED libVars
  BY <1>1, <1>2 DEF libVars
<1>3. ASSUME NEW p \in Proc, LibStep(p)
      PROVE  at[q] # "close" /\ Results(q, "msgclose", {SUCCESS}) = {}
  <2>0. at \in [Proc -> {"out"} \cup Waits] /\ ~Ended(p)
    BY <1>3, StepForm DEF LibInv, LibTypeOK, Waits
  <2>1. ASSUME NEW c \in Call, NEW l \in Waits, Issue(p, c, l)
        PROVE  log' = log /\ program' = program /\ at' = [at EXCEPT ![p] = l]
    BY <2>1 DEF Issue
  <2>2. ASSUME NEW r \in Int, Finish(p, r)
        PROVE  /\ \A z \in Proc \ {p} : log'[z] = log[z] /\ at'[z] = at[z]
               /\ program' = program
    BY <2>2 DEF Finish, LibInv, LibTypeOK
  <2>3. CASE q # p
    BY <1>1, <1>3, <2>0, <2>1, <2>2, <2>3, StepForm
  <2>4. CASE q = p /\ at[p] = "close"
    <3>1. CloseDone(p)
      BY <1>3, <2>4
         DEF LibStep, Begin, GetExisting, GetCreate, GetCreated, CloseExisting,
             CloseNothing, SendChecked, SendRetry, SendDone, ReceiveChecked,
             ReceiveRetry, ReceiveDone, Back
    <3>2. Finish(p, SUCCESS) /\ Args(p).fn = "msgclose" /\ SUCCESS \in Int
      BY <3>1 DEF CloseDone, Back, SUCCESS
    <3>3. Len(log[p]) + 1 \in Results(p, "msgclose", {SUCCESS})'
      BY <2>0, <3>2, ResultsGrow
    <3> QED
      BY <1>0, <2>4, <3>3
  <2>5. CASE q = p /\ at[p] # "close"
    <3>1. CASE \E c \in Call, l \in Waits : Issue(p, c, l)
      BY <1>0, <2>1, <2>5, <3>1, ResultsStay
    <3>2. CASE \E r \in Int : Finish(p, r)
      <4>1. PICK r \in Int : Finish(p, r)
        BY <3>2
      <4>2. Results(p, "msgclose", {SUCCESS})
              \subseteq Results(p, "msgclose", {SUCCESS})'
        BY <2>0, <4>1, ResultsGrow
      <4> QED
        BY <1>0, <2>5, <4>2
    <3> QED
      BY <1>3, <3>1, <3>2, StepForm
  <2> QED
    BY <2>3, <2>4, <2>5
<1> QED
  BY <1>2, <1>3 DEF LibNext, ProcStep, allVars

(* Then no call of CLOSE is under way.                                     *)
LEMMA NoneFrees ==
    ASSUME LibInv, AllWait, NoneClosed
    PROVE  \A p \in Proc : call[p].op # "close" /\ pc[p] # "kfree"
<1> SUFFICES ASSUME NEW p \in Proc
             PROVE  call[p].op # "close" /\ pc[p] # "kfree"
  OBVIOUS
<1>1. CallInv(p) /\ WaitInv(p) /\ at[p] # "close"
  BY DEF LibInv, Inv, AllWait, NoneClosed
<1>2. NoCall.op # "close"
  BY DEF NoCall
<1> QED
  BY <1>1, <1>2 DEF CallInv, WaitInv

(* What one step of a process does to the messages: nothing, one sent and  *)
(* queued, one taken out of its queue, or one refused.                     *)
SendsOne(p) ==
    /\ \A q \in Proc : TakenBy'[q] = TakenBy[q]
    /\ \A q \in Proc \ {p} : SentBy'[q] = SentBy[q]
    /\ SentBy'[p] = SentBy[p] \cup {Len(log[p]) + 1}
    /\ Len(log[p]) + 1 \notin SentBy[p]

TakesOne(p) ==
    /\ \A q \in Proc : SentBy'[q] = SentBy[q]
    /\ \A q \in Proc \ {p} : TakenBy'[q] = TakenBy[q]
    /\ TakenBy'[p] = TakenBy[p] \cup {Len(log[p]) + 1}
    /\ Len(log[p]) + 1 \notin TakenBy[p]

QueueGrows ==
    \E e : e \notin Pairs(Queued) /\ Pairs(Queued') = Pairs(Queued) \cup {e}

QueueShrinks ==
    \E e : e \notin Pairs(Queued') /\ Pairs(Queued) = Pairs(Queued') \cup {e}

(* Every step is one of these, and programs do not change.                 *)
LEMMA StepMoves ==
    ASSUME LibInv, AllWait, RetInv, NoneClosed, [LibNext]_allVars
    PROVE  /\ program' = program
           /\ \/ Unmoved
              \/ \E p \in Proc : \/ SendsOne(p) /\ QueueGrows
                                 \/ TakesOne(p) /\ QueueShrinks
                                 \/ /\ SendsOne(p) /\ Refused(p)
                                    /\ Pairs(Queued)' = Pairs(Queued)
<1>0. program' = program
  BY ProgramsStay
<1>1. ASSUME msq' = msq
      PROVE  Pairs(Queued)' = Pairs(Queued)
  BY <1>1 DEF Queued, Used, Pairs
<1>2. CASE UNCHANGED allVars
  <2>1. UNCHANGED libVars /\ pc' = pc /\ ret' = ret /\ msq' = msq
    BY <1>2 DEF allVars, vars
  <2>2. \A q \in Proc : (Handing(q)' <=> Handing(q)) /\ (Taking(q)' <=> Taking(q))
    BY <2>1 DEF Handing, Taking, Args, libVars
  <2> QED
    BY <1>0, <1>1, <2>1, <2>2, MovesSame DEF Unmoved
<1>3. ASSUME NEW p \in Proc, LibStep(p)
      PROVE  Unmoved
  BY <1>1, <1>3, LibMovesNothing DEF Unmoved
<1>4. ASSUME NEW p \in Proc, Inside(p), UNCHANGED libVars
      PROVE  \/ Unmoved
             \/ SendsOne(p) /\ QueueGrows
             \/ TakesOne(p) /\ QueueShrinks
             \/ SendsOne(p) /\ Refused(p) /\ Pairs(Queued)' = Pairs(Queued)
  <2>0. /\ Inv /\ pc[p] # "kfree" /\ pc[p] # "user"
        /\ \A q \in Proc \ {p} : SentBy'[q] = SentBy[q] /\ TakenBy'[q] = TakenBy[q]
    BY <1>4, NoneFrees, OthersSame, InsideCalls DEF LibInv
  <2>1. pc[p] # "unlock" => /\ Len(log[p]) + 1 \notin SentBy[p]
                            /\ Len(log[p]) + 1 \notin TakenBy[p]
    BY <2>0, NotYet
  <2>2. ASSUME SentBy'[p] = SentBy[p] /\ TakenBy'[p] = TakenBy[p],
               Pairs(Queued)' = Pairs(Queued)
        PROVE  Unmoved
    BY <2>0, <2>2 DEF Unmoved
  <2>3. CASE Scan(p) \/ WriteCheck(p)
    <3>1. msq' = msq /\ pc[p] # "unlock"
      BY <2>3 DEF Scan, WriteCheck, At
    <3>2. /\ TakenBy'[p] = TakenBy[p]
          /\ SentBy'[p] = SentBy[p] \/ Refused(p)
      BY <1>4, <2>3, ScanMoves, WriteCheckMoves
    <3>3. CASE SentBy'[p] = SentBy[p]
      BY <1>1, <2>2, <3>1, <3>2, <3>3
    <3>4. CASE Refused(p)
      <4>1. SendsOne(p)
        BY <2>0, <2>1, <3>1, <3>2, <3>4 DEF SendsOne, Refused
      <4> QED
        BY <1>1, <3>1, <3>4, <4>1
    <3> QED
      BY <3>2, <3>3, <3>4
  <2>4. CASE ReadFind(p) \/ ReadCopy(p)
    <3>1. msq' = msq
      BY <2>4 DEF ReadFind, ReadCopy
    <3> QED
      BY <1>1, <1>4, <2>2, <2>4, <3>1, FindMoves
  <2>5. CASE Unlock(p)
    <3>1. msq' = msq
      BY <2>5 DEF Unlock
    <3> QED
      BY <1>1, <1>4, <2>2, <2>5, <3>1, UnlockMoves
  <2>6. CASE Ioctl(p)
    <3>1. SentBy'[p] = SentBy[p] /\ TakenBy'[p] = TakenBy[p]
      BY <1>4, <2>0, <2>6, IoctlMoves
    <3>2. CASE CreateAlloc(p)
      BY <2>0, <2>2, <3>1, <3>2, AllocQueued
    <3>3. CASE ~CreateAlloc(p)
      <4>1. msq' = msq
        BY <2>0, <2>6, <3>3
           DEF Ioctl, ReturnKey, CreateLinkBack, CreateLinkFront, CloseRead,
               CloseUnlinkBack, CloseUnlinkFront, CloseFree, At
      <4> QED
        BY <1>1, <2>2, <3>1, <4>1
    <3> QED
      BY <3>2, <3>3
  <2>7. CASE WriteAppend(p)
    <3>1. pc[p] # "unlock"
      BY <2>7 DEF WriteAppend, At
    <3>2. SendsOne(p)
      BY <1>4, <2>0, <2>1, <2>7, <3>1, AppendMoves DEF SendsOne
    <3> QED
      BY <2>0, <2>7, <3>2, AppendQueued DEF QueueGrows
  <2>8. CASE ReadRemove(p)
    <3>1. pc[p] # "unlock"
      BY <2>8 DEF ReadRemove, At
    <3>2. TakesOne(p)
      BY <1>4, <2>0, <2>1, <2>8, <3>1, RemoveMoves DEF TakesOne
    <3> QED
      BY <2>0, <2>8, <3>2, RemoveQueued DEF QueueShrinks
  <2>9. CASE Acquire(p)
    <3>1. pc[p] = "spin" /\ pc'[p] = "scan" /\ msq' = msq
      BY <2>9 DEF Acquire, At, Goto, LibInv, Inv, TypeOK
    <3> QED
      BY <1>1, <1>4, <2>2, <3>1, GoesOn
  <2>10. CASE Fault(p)
    <3>1. pc' = pc /\ ret' = ret /\ msq' = msq
      BY <2>10 DEF Fault
    <3>2. (Handing(p)' <=> Handing(p)) /\ (Taking(p)' <=> Taking(p))
      BY <1>4, <3>1 DEF Handing, Taking, Args, libVars
    <3> QED
      BY <1>1, <1>4, <2>2, <3>1, <3>2, MovesSame
  <2> QED
    BY <1>4, <2>3, <2>4, <2>5, <2>6, <2>7, <2>8, <2>9, <2>10
       DEF Inside, Transfer
<1> QED
  BY <1>0, <1>2, <1>3, <1>4 DEF LibNext, ProcStep

-----------------------------------------------------------------------------
(* The messages taken and those in the queues are no more than were sent,  *)
(* and no fewer than were sent by those who waited.                        *)
CountsInv ==
    /\ IsFiniteSet(Pairs(SentBy)) /\ IsFiniteSet(Pairs(TakenBy))
    /\ IsFiniteSet(Pairs(Queued))
    /\ Total(TakenBy) + Total(Queued) \in Total(WaitedBy)..Total(SentBy)

LEMMA MovesType ==
    /\ DOMAIN SentBy = Proc /\ DOMAIN TakenBy = Proc /\ DOMAIN WaitedBy = Proc
    /\ \A p \in Proc : WaitedBy[p] = {i \in SentBy[p] : ~program[p][i].nowait}
  BY DEF SentBy, TakenBy, WaitedBy

(* The numbers are natural ones.                                           *)
LEMMA TotalsType ==
    ASSUME CountsInv
    PROVE  /\ Total(SentBy) \in Nat /\ Total(TakenBy) \in Nat
           /\ Total(Queued) \in Nat
           /\ IsFiniteSet(Pairs(WaitedBy)) /\ Total(WaitedBy) \in Nat
<1>1. Pairs(WaitedBy) \subseteq Pairs(SentBy)
  BY MovesType, PairsLess
<1>2. IsFiniteSet(Pairs(WaitedBy)) /\ Total(WaitedBy) \in Nat
  BY <1>1, NotMore DEF CountsInv
<1> QED
  BY <1>2, FS_CardinalityType DEF CountsInv, Total

(* What changes when nothing is moved, ...                                 *)
LEMMA UnmovedTotals ==
    ASSUME Unmoved, program' = program
    PROVE  /\ Pairs(SentBy') = Pairs(SentBy) /\ Pairs(TakenBy') = Pairs(TakenBy)
           /\ Pairs(Queued') = Pairs(Queued) /\ Pairs(WaitedBy') = Pairs(WaitedBy)
<1>1. \A q \in Proc : SentBy'[q] = SentBy[q] /\ TakenBy'[q] = TakenBy[q]
  BY DEF Unmoved
<1>2. /\ DOMAIN SentBy' = Proc /\ DOMAIN TakenBy' = Proc /\ DOMAIN WaitedBy' = Proc
      /\ DOMAIN SentBy = Proc /\ DOMAIN TakenBy = Proc /\ DOMAIN WaitedBy = Proc
  BY DEF SentBy, TakenBy, WaitedBy
<1>3. \A q \in Proc : WaitedBy'[q] = WaitedBy[q]
  BY <1>1 DEF WaitedBy
<1>4. Pairs(Queued') = Pairs(Queued)
  BY DEF Unmoved, Pairs
<1>5. \A f, g : DOMAIN f = Proc /\ DOMAIN g = Proc /\ (\A q \in Proc : g[q] = f[q])
        => Pairs(g) = Pairs(f)
  BY PairsSame
<1> QED
  BY <1>1, <1>2, <1>3, <1>4, <1>5

(* ... when one is sent, ...                                               *)
LEMMA SendsTotals ==
    ASSUME NEW p \in Proc, SendsOne(p), program' = program
    PROVE  /\ Pairs(TakenBy') = Pairs(TakenBy)
           /\ \E e : e \notin Pairs(SentBy) /\ Pairs(SentBy') = Pairs(SentBy) \cup {e}
           /\ \/ /\ program[p][Len(log[p]) + 1].nowait
                 /\ Pairs(WaitedBy') = Pairs(WaitedBy)
              \/ /\ ~program[p][Len(log[p]) + 1].nowait
                 /\ \E e : /\ e \notin Pairs(WaitedBy)
                           /\ Pairs(WaitedBy') = Pairs(WaitedBy) \cup {e}
<1> DEFINE i == Len(log[p]) + 1
<1>1. /\ \A q \in Proc : TakenBy'[q] = TakenBy[q]
      /\ \A q \in Proc \ {p} : SentBy'[q] = SentBy[q]
      /\ SentBy'[p] = SentBy[p] \cup {i} /\ i \notin SentBy[p]
  BY DEF SendsOne
<1>2. /\ DOMAIN SentBy' = Proc /\ DOMAIN TakenBy' = Proc /\ DOMAIN WaitedBy' = Proc
      /\ DOMAIN SentBy = Proc /\ DOMAIN TakenBy = Proc /\ DOMAIN WaitedBy = Proc
  BY DEF SentBy, TakenBy, WaitedBy
<1>3. /\ \A q \in Proc \ {p} : WaitedBy'[q] = WaitedBy[q]
      /\ i \notin WaitedBy[p]
      /\ program[p][i].nowait => WaitedBy'[p] = WaitedBy[p]
      /\ ~program[p][i].nowait => WaitedBy'[p] = WaitedBy[p] \cup {i}
  BY <1>1 DEF WaitedBy
<1>4. \A f, g : DOMAIN f = Proc /\ DOMAIN g = Proc /\ (\A q \in Proc : g[q] = f[q])
        => Pairs(g) = Pairs(f)
  BY PairsSame
<1>5. \A f, g, y : /\ DOMAIN f = Proc /\ DOMAIN g = Proc
                   /\ \A q \in Proc \ {p} : g[q] = f[q]
                   /\ y \notin f[p] /\ g[p] = f[p] \cup {y}
        => \E e : e \notin Pairs(f) /\ Pairs(g) = Pairs(f) \cup {e}
  <2> SUFFICES ASSUME NEW f, NEW g, NEW y, DOMAIN f = Proc, DOMAIN g = Proc,
                      \A q \in Proc \ {p} : g[q] = f[q], y \notin f[p],
                      g[p] = f[p] \cup {y}
               PROVE  \E e : e \notin Pairs(f) /\ Pairs(g) = Pairs(f) \cup {e}
    OBVIOUS
  <2>1. Pairs(g) = Pairs(f) \cup {<<p, y>>} /\ <<p, y>> \notin Pairs(f)
    BY PairsGrow
  <2> QED
    BY <2>1
<1>6. Pairs(TakenBy') = Pairs(TakenBy)
  BY <1>1, <1>2, <1>4
<1>7. \E e : e \notin Pairs(SentBy) /\ Pairs(SentBy') = Pairs(SentBy) \cup {e}
  BY <1>1, <1>2, <1>5
<1>8. CASE program[p][i].nowait
  <2>1. Pairs(WaitedBy') = Pairs(WaitedBy)
    BY <1>2, <1>3, <1>4, <1>8
  <2> QED
    BY <1>6, <1>7, <1>8, <2>1
<1>9. CASE ~program[p][i].nowait
  <2>1. \E e : /\ e \notin Pairs(WaitedBy)
               /\ Pairs(WaitedBy') = Pairs(WaitedBy) \cup {e}
    BY <1>2, <1>3, <1>5, <1>9
  <2> QED
    BY <1>6, <1>7, <1>9, <2>1
<1> QED
  BY <1>8, <1>9

(* ... and when one is taken.                                              *)
LEMMA TakesTotals ==
    ASSUME NEW p \in Proc, TakesOne(p), program' = program
    PROVE  /\ Pairs(SentBy') = Pairs(SentBy) /\ Pairs(WaitedBy') = Pairs(WaitedBy)
           /\ \E e : e \notin Pairs(TakenBy) /\ Pairs(TakenBy') = Pairs(TakenBy) \cup {e}
<1> DEFINE i == Len(log[p]) + 1
<1>1. /\ \A q \in Proc : SentBy'[q] = SentBy[q]
      /\ \A q \in Proc \ {p} : TakenBy'[q] = TakenBy[q]
      /\ TakenBy'[p] = TakenBy[p] \cup {i} /\ i \notin TakenBy[p]
  BY DEF TakesOne
<1>2. /\ DOMAIN SentBy' = Proc /\ DOMAIN TakenBy' = Proc /\ DOMAIN WaitedBy' = Proc
      /\ DOMAIN SentBy = Proc /\ DOMAIN TakenBy = Proc /\ DOMAIN WaitedBy = Proc
  BY DEF SentBy, TakenBy, WaitedBy
<1>3. \A q \in Proc : WaitedBy'[q] = WaitedBy[q]
  BY <1>1 DEF WaitedBy
<1>4. \A f, g : DOMAIN f = Proc /\ DOMAIN g = Proc /\ (\A q \in Proc : g[q] = f[q])
        => Pairs(g) = Pairs(f)
  BY PairsSame
<1>5. \A f, g, y : /\ DOMAIN f = Proc /\ DOMAIN g = Proc
                   /\ \A q \in Proc \ {p} : g[q] = f[q]
                   /\ y \notin f[p] /\ g[p] = f[p] \cup {y}
        => \E e : e \notin Pairs(f) /\ Pairs(g) = Pairs(f) \cup {e}
  <2> SUFFICES ASSUME NEW f, NEW g, NEW y, DOMAIN f = Proc, DOMAIN g = Proc,
                      \A q \in Proc \ {p} : g[q] = f[q], y \notin f[p],
                      g[p] = f[p] \cup {y}
               PROVE  \E e : e \notin Pairs(f) /\ Pairs(g) = Pairs(f) \cup {e}
    OBVIOUS
  <2>1. Pairs(g) = Pairs(f) \cup {<<p, y>>} /\ <<p, y>> \notin Pairs(f)
    BY PairsGrow
  <2> QED
    BY <2>1
<1> QED
  BY <1>1, <1>2, <1>3, <1>4, <1>5

(* Every step keeps the balance.                                           *)
LEMMA CountsNext ==
    ASSUME LibInv, AllWait, RetInv, NoneClosed, CountsInv, [LibNext]_allVars
    PROVE  CountsInv'
<1> USE DEF CountsInv
<1>0. /\ Total(SentBy) \in Nat /\ Total(TakenBy) \in Nat
      /\ Total(Queued) \in Nat
      /\ IsFiniteSet(Pairs(WaitedBy)) /\ Total(WaitedBy) \in Nat
  BY TotalsType
<1>1. program' = program
  BY StepMoves
<1>2. SUFFICES /\ IsFiniteSet(Pairs(SentBy')) /\ IsFiniteSet(Pairs(TakenBy'))
               /\ IsFiniteSet(Pairs(Queued'))
               /\ Total(TakenBy') + Total(Queued') \in Total(WaitedBy')..Total(SentBy')
  BY DEF Pairs, Total
<1>3. ASSUME NEW f, NEW g, IsFiniteSet(Pairs(f)),
             \E e : e \notin Pairs(f) /\ Pairs(g) = Pairs(f) \cup {e}
      PROVE  IsFiniteSet(Pairs(g)) /\ Total(f) \in Nat /\ Total(g) = Total(f) + 1
  BY <1>3, OneMore
<1>4. CASE Unmoved
  BY <1>0, <1>1, <1>4, UnmovedTotals, AsMany
<1>5. ASSUME NEW p \in Proc, SendsOne(p)
      PROVE  /\ Total(TakenBy') = Total(TakenBy)
             /\ IsFiniteSet(Pairs(TakenBy')) /\ IsFiniteSet(Pairs(SentBy'))
             /\ Total(SentBy') = Total(SentBy) + 1
             /\ \/ /\ program[p][Len(log[p]) + 1].nowait
                   /\ Total(WaitedBy') = Total(WaitedBy)
                \/ /\ ~program[p][Len(log[p]) + 1].nowait
                   /\ Total(WaitedBy') = Total(WaitedBy) + 1
  <2>1. /\ Pairs(TakenBy') = Pairs(TakenBy)
        /\ \E e : e \notin Pairs(SentBy) /\ Pairs(SentBy') = Pairs(SentBy) \cup {e}
        /\ \/ /\ program[p][Len(log[p]) + 1].nowait
              /\ Pairs(WaitedBy') = Pairs(WaitedBy)
           \/ /\ ~program[p][Len(log[p]) + 1].nowait
              /\ \E e : /\ e \notin Pairs(WaitedBy)
                        /\ Pairs(WaitedBy') = Pairs(WaitedBy) \cup {e}
    BY <1>1, <1>5, SendsTotals
  <2>2. Total(TakenBy') = Total(TakenBy) /\ IsFiniteSet(Pairs(TakenBy'))
    BY <2>1, AsMany
  <2>3. IsFiniteSet(Pairs(SentBy')) /\ Total(SentBy') = Total(SentBy) + 1
    BY <1>3, <2>1
  <2>4. Pairs(WaitedBy') = Pairs(WaitedBy) => Total(WaitedBy') = Total(WaitedBy)
    BY AsMany
  <2>5. (\E e : /\ e \notin Pairs(WaitedBy)
               /\ Pairs(WaitedBy') = Pairs(WaitedBy) \cup {e})
          => Total(WaitedBy') = Total(WaitedBy) + 1
    BY <1>0, <1>3
  <2> QED
    BY <2>1, <2>2, <2>3, <2>4, <2>5, Zenon
<1>6. ASSUME NEW p \in Proc, SendsOne(p), QueueGrows
      PROVE  CountsInv'
  <2>1. IsFiniteSet(Pairs(Queued')) /\ Total(Queued') = Total(Queued) + 1
    BY <1>3, <1>6 DEF QueueGrows
  <2> QED
    BY <1>0, <1>2, <1>5, <1>6, <2>1
<1>7. ASSUME NEW p \in Proc, SendsOne(p), Refused(p),
             Pairs(Queued)' = Pairs(Queued)
      PROVE  CountsInv'
  <2>1. Pairs(Queued') = Pairs(Queued)
    BY <1>7 DEF Pairs
  <2>2. IsFiniteSet(Pairs(Queued')) /\ Total(Queued') = Total(Queued)
    BY <2>1, AsMany
  <2>3. program[p][Len(log[p]) + 1].nowait
    BY <1>7 DEF Refused, Args
  <2>4. Total(WaitedBy') = Total(WaitedBy)
    BY <1>5, <1>7, <2>3
  <2> QED
    BY <1>0, <1>2, <1>5, <1>7, <2>2, <2>4
<1>8. ASSUME NEW p \in Proc, TakesOne(p), QueueShrinks
      PROVE  CountsInv'
  <2>1. /\ Pairs(SentBy') = Pairs(SentBy) /\ Pairs(WaitedBy') = Pairs(WaitedBy)
        /\ \E e : e \notin Pairs(TakenBy) /\ Pairs(TakenBy') = Pairs(TakenBy) \cup {e}
    BY <1>1, <1>8, TakesTotals
  <2>2. Total(SentBy') = Total(SentBy) /\ Total(WaitedBy') = Total(WaitedBy)
    BY <2>1, AsMany
  <2>3. IsFiniteSet(Pairs(TakenBy')) /\ Total(TakenBy') = Total(TakenBy) + 1
    BY <1>3, <2>1
  <2>4. IsFiniteSet(Pairs(Queued'))
    BY <1>8, FS_Subset DEF QueueShrinks
  <2>5. Total(Queued') \in Nat /\ Total(Queued) = Total(Queued') + 1
    BY <1>3, <1>8, <2>4 DEF QueueShrinks
  <2> QED
    BY <1>0, <1>2, <2>1, <2>2, <2>3, <2>4, <2>5
<1> QED
  BY <1>4, <1>6, <1>7, <1>8, StepMoves

(* At first there is no message, sent, taken or queued.                    *)
LEMMA CountsInit ==
    ASSUME LibInit
    PROVE  /\ CountsInv /\ RetInv
           /\ Total(TakenBy) + Total(Queued) = Total(SentBy)
<1>1. /\ Used = {} /\ \A p \in Proc : /\ log[p] = <<>> /\ Len(log[p]) = 0
                                      /\ at[p] = "out" /\ pc[p] = "user"
  BY EmptySeq DEF LibInit, Init, Used
<1>2. \A p \in Proc : Sent[p] = {} /\ Received[p] = {}
  BY <1>1 DEF Sent, Received, Results
<1>3. \A p \in Proc : ~Handing(p) /\ ~Taking(p)
  BY <1>1 DEF Handing, Taking
<1>4. \A p \in Proc : SentBy[p] = {} /\ TakenBy[p] = {}
  BY <1>2, <1>3 DEF SentBy, TakenBy
<1>5. \A p \in Proc : WaitedBy[p] = {}
  BY <1>4 DEF WaitedBy
<1>6. DOMAIN Queued = {}
  BY <1>1 DEF Queued
<1>7. /\ IsFiniteSet(Pairs(SentBy)) /\ Total(SentBy) = 0
      /\ IsFiniteSet(Pairs(TakenBy)) /\ Total(TakenBy) = 0
      /\ IsFiniteSet(Pairs(Queued)) /\ Total(Queued) = 0
      /\ Total(WaitedBy) = 0
  BY <1>4, <1>5, <1>6, MovesType, NoneAtAll
<1>8. RetInv
  BY <1>1 DEF RetInv
<1> QED
  BY <1>7, <1>8 DEF CountsInv

(* At rest no call is about to return.                                     *)
LEMMA RestTotals ==
    ASSUME AtRest
    PROVE  /\ NoneClosed
           /\ Total(SentBy) = Total(Sent) /\ Total(TakenBy) = Total(Received)
           /\ Total(WaitedBy) = Total(Waited)
<1>1. \A p \in Proc : ~Handing(p) /\ ~Taking(p)
  BY DEF AtRest, Handing, Taking
<1>2. \A p \in Proc : SentBy[p] = Sent[p] /\ TakenBy[p] = Received[p]
  BY <1>1 DEF SentBy, TakenBy
<1>3. \A p \in Proc : WaitedBy[p] = Waited[p]
  BY <1>2 DEF WaitedBy, Waited
<1>4. DOMAIN Sent = Proc /\ DOMAIN Received = Proc /\ DOMAIN Waited = Proc
  BY DEF Sent, Received, Waited
<1>5. \A f, g : DOMAIN f = Proc /\ DOMAIN g = Proc /\ (\A q \in Proc : g[q] = f[q])
        => Pairs(g) = Pairs(f)
  BY PairsSame
<1>6. NoneClosed
  BY DEF AtRest, NoneClosed
<1> QED
  BY <1>2, <1>3, <1>4, <1>5, <1>6, MovesType, AsMany

(* Whatever the programs are, and whoever opens queues when: as long as    *)
(* nothing is closed no message is lost or duplicated but in a send that   *)
(* does not wait, which the driver may refuse while it returns SUCCESS.    *)
THEOREM SendsAccounted == LibSpec => []Accounted
<1> DEFINE Balance == NoneClosed => CountsInv
<1>1. LibInit => Balance /\ RetInv
  BY CountsInit
<1>2. LibInv /\ AllWait /\ RetInv /\ Balance /\ [LibNext]_allVars => Balance'
  BY NoneClosedBefore, CountsNext
<1>3. LibInv /\ RetInv /\ [LibNext]_allVars => RetInv'
  BY LibIsDriver, RetNext DEF LibInv
<1>4. Balance => Accounted
  BY RestTotals DEF CountsInv, Accounted
<1> QED
  BY <1>1, <1>2, <1>3, <1>4, LibInvInit, LibInvNext, WaitInit, WaitNext, PTL
     DEF LibSpec

-----------------------------------------------------------------------------
(* The queues of key k in the list.                                        *)
Here(o, k) == {y \in Ring(o) \ {Root} : msq[y].key = k}

(* list_add_tail puts the new node behind the last one.                    *)
LEMMA LinkFront ==
    ASSUME NEW o \in Proc, Inv, RingInv(o), OwnerInv(o), CreateLinkFront(o)
    PROVE  /\ Used' = Used /\ msq' = msq
           /\ cur[o] \notin Ring(o) /\ cur[o] # Root
           /\ Ring(o)' = Ring(o) \cup {cur[o]}
           /\ lp[o] \in Ring(o) /\ nxt[lp[o]] = Root
           /\ nxt'[lp[o]] = cur[o] /\ nxt'[cur[o]] = Root
           /\ \A x \in Ring(o) \ {lp[o]} : nxt'[x] = nxt[x]
<1> DEFINE n == cur[o]
           l == lp[o]
<1>1. /\ pc[o] = "front" /\ pc'[o] = "check"
      /\ nxt' = [nxt EXCEPT ![l] = n] /\ msq' = msq
      /\ cur' = cur /\ lp' = lp /\ Used' = Used
  BY DEF CreateLinkFront, At, Goto, locals, Used, Inv, TypeOK
<1>2. /\ n \in Used /\ n \in Node /\ n # Root /\ n \notin Ring(o)
      /\ nxt[n] = Root
  BY <1>1, KuIpcAssumption DEF OwnerInv, Used, Ring
<1>3. l \in Ring(o) /\ nxt[l] = Root
  BY <1>1, RingType DEF RingInv, Before
<1>4. Ring(o)' = Ring(o) \cup {n}
  BY <1>1, <1>2 DEF Ring
<1>5. l \in DOMAIN nxt /\ Ring(o) \subseteq DOMAIN nxt /\ n \in DOMAIN nxt
  BY <1>2, <1>3, RingType DEF Inv, TypeOK
<1>6. nxt'[l] = n /\ \A x \in DOMAIN nxt \ {l} : nxt'[x] = nxt[x]
  BY <1>1, <1>5
<1>7. n # l
  BY <1>2, <1>3
<1> QED
  BY <1>1, <1>2, <1>3, <1>4, <1>5, <1>6, <1>7

(* Without CLOSE the list keeps its queues and their order: it stays as it *)
(* is until a new queue is linked at its end.                              *)
LEMMA RingGrows ==
    ASSUME NEW o \in Proc, Inv, Alone(o), RingInv(o), OwnerInv(o),
           call[o].op # "close", [Next]_vars
    PROVE  /\ \A n \in Used : n \in Used' /\ msq'[n].key = msq[n].key
           /\ \/ /\ Ring(o)' = Ring(o)
                 /\ \A x \in Ring(o) : nxt'[x] = nxt[x]
              \/ CreateLinkFront(o)
<1>0. CallInv(o) /\ pc[o] \notin {"close", "unback", "unfront", "kfree"}
  BY DEF Inv, CallInv
<1>1. ASSUME UNCHANGED <<nxt, msq, cur>>,
             pc[o] \notin {"back", "front", "kfree"},
             pc'[o] \notin {"back", "front", "kfree"}
      PROVE  /\ \A n \in Used : n \in Used' /\ msq'[n].key = msq[n].key
             /\ Ring(o)' = Ring(o)
             /\ \A x \in Ring(o) : nxt'[x] = nxt[x]
  BY <1>1 DEF Ring, Used
<1>2. CASE UNCHANGED vars
  BY <1>2 DEF vars, list, locals, Ring, Used
<1>3. ASSUME NEW p \in Proc \ {o}, Inside(p) \/ \E c \in Call : Syscall(p, c)
      PROVE  /\ \A n \in Used : n \in Used' /\ msq'[n].key = msq[n].key
             /\ Ring(o)' = Ring(o)
             /\ \A x \in Ring(o) : nxt'[x] = nxt[x]
  BY <1>3, OthersKeep DEF Ring
<1>4. ASSUME NEW c \in Call, Syscall(o, c)
      PROVE  /\ \A n \in Used : n \in Used' /\ msq'[n].key = msq[n].key
             /\ Ring(o)' = Ring(o)
             /\ \A x \in Ring(o) : nxt'[x] = nxt[x]
  <2>1. pc[o] = "user" /\ pc'[o] \in {"alloc", "scan", "spin"}
    BY <1>4 DEF Syscall, Goto, Entry, Inv, TypeOK
  <2>2. UNCHANGED <<nxt, msq, cur>>
    BY <1>4 DEF Syscall, list, locals
  <2> QED
    BY <1>1, <2>1, <2>2
<1>5. CASE Acquire(o) \/ Unlock(o) \/ ReturnKey(o) \/ Fault(o)
  <2>1. UNCHANGED <<nxt, msq>>
    BY <1>5 DEF Acquire, Unlock, ReturnKey, Fault, list
  <2>2. CASE Acquire(o) \/ Unlock(o) \/ ReturnKey(o)
    <3>1. /\ pc[o] \notin {"back", "front", "kfree"}
          /\ pc'[o] \notin {"back", "front", "kfree"}
      BY <2>2 DEF Acquire, Unlock, ReturnKey, At, Return, Goto, Inv, TypeOK
    <3> QED
      BY <2>1, <3>1 DEF Ring, Used
  <2>3. CASE Fault(o)
    BY <2>3 DEF Fault, list, locals, Ring, Used
  <2> QED
    BY <1>5, <2>2, <2>3
<1>6. CASE Scan(o)
  <2>1. UNCHANGED <<nxt, msq>> /\ pc[o] = "scan"
    BY <1>6 DEF Scan, list, At
  <2>2. pc'[o] \notin {"back", "front", "kfree"}
    <3>1. CASE nxt[cur[o]] = Root /\ NotFound(o)
      BY <2>1, <3>1 DEF NotFound, Return, Leave, Goto, Inv, TypeOK
    <3>2. CASE nxt[cur[o]] # Root
      BY <1>0, <1>6, <2>1, <3>2 DEF Scan, Found, Goto, Inv, TypeOK, CallInv
    <3> QED
      BY <1>6, <3>1, <3>2 DEF Scan
  <2> QED
    BY <2>1, <2>2 DEF Ring, Used
<1>7. CASE CreateAlloc(o)
  <2>1. PICK n \in Node :
          /\ msq[n] = NULL
          /\ msq' = [msq EXCEPT ![n] = [key |-> call[o].key, msgs |-> <<>>,
                                        size |-> 0, vol |-> 0]]
          /\ cur' = [cur EXCEPT ![o] = n]
    BY <1>7 DEF CreateAlloc
  <2>2. /\ pc[o] = "alloc" /\ pc'[o] = "back" /\ nxt' = nxt /\ cur'[o] = n
    BY <1>7, <2>1 DEF CreateAlloc, At, Goto, list, Inv, TypeOK
  <2>3. call[o] \in Call /\ call[o].op = "create"
    BY <1>0, <2>2 DEF CallInv, Inv, TypeOK, NoCall
  <2>4. [key |-> call[o].key, msgs |-> <<>>, size |-> 0, vol |-> 0] # NULL
    <3>1. call[o].key \in Key
      BY <2>3, CallFields
    <3>2. [key |-> call[o].key, msgs |-> <<>>, size |-> 0, vol |-> 0] \in Queue
      BY <3>1, EmptySeq DEF Queue
    <3> QED
      BY <3>2, QueueAssumption
  <2>5. msq'[n] # NULL /\ \A m \in Node \ {n} : msq'[m] = msq[m]
    BY <2>1, <2>4 DEF Inv, TypeOK
  <2>6. Used' = Used \cup {n} /\ n \notin Used
    BY <2>1, <2>5 DEF Used
  <2>7. \A m \in Used : m \in Used' /\ msq'[m].key = msq[m].key
    BY <2>5, <2>6 DEF Used
  <2>8. Ring(o)' = Ring(o)
    BY <2>2, <2>6 DEF Ring
  <2> QED
    BY <2>2, <2>7, <2>8
<1>8. CASE CreateLinkBack(o)
  <2>1. /\ pc[o] = "back" /\ pc'[o] = "front" /\ cur' = cur /\ msq' = msq
        /\ nxt' = [nxt EXCEPT ![cur[o]] = Root]
    BY <1>8 DEF CreateLinkBack, At, Goto, locals, Inv, TypeOK
  <2>2. cur[o] \in Used /\ cur[o] \notin Ring(o)
    BY <2>1, KuIpcAssumption DEF OwnerInv, Ring, Used
  <2>3. \A x \in Ring(o) : nxt'[x] = nxt[x]
    BY <2>1, <2>2, RingType DEF Inv, TypeOK
  <2> QED
    BY <2>1, <2>3 DEF Ring, Used
<1>9. CASE CreateLinkFront(o)
  BY <1>9, LinkFront
<1>10. CASE ReadFind(o) \/ ReadCopy(o) \/ WriteCheck(o)
  <2>1. UNCHANGED <<nxt, msq, cur>>
    BY <1>10 DEF ReadFind, ReadCopy, WriteCheck, list, locals
  <2>2. pc[o] \in {"read", "copy", "write"}
    BY <1>10 DEF ReadFind, ReadCopy, WriteCheck, At
  <2>3. pc'[o] \in {"copy", "remove", "append", "unlock"}
    BY <1>10 DEF ReadFind, ReadCopy, WriteCheck, Leave, Goto, Inv, TypeOK
  <2> QED
    BY <1>1, <2>1, <2>2, <2>3
<1>11. CASE ReadRemove(o) \/ WriteAppend(o)
  <2>1. Used' = Used /\ \A n \in Used : msq'[n].key = msq[n].key
    BY <1>11, SameKeys
  <2>2. /\ nxt' = nxt /\ pc[o] \in {"remove", "append"} /\ pc'[o] = "unlock"
    BY <1>11 DEF ReadRemove, WriteAppend, At, Leave, Goto, list, Inv, TypeOK
  <2> QED
    BY <2>1, <2>2 DEF Ring
<1>12. ~CloseRead(o) /\ ~CloseUnlinkBack(o) /\ ~CloseUnlinkFront(o) /\ ~CloseFree(o)
  BY <1>0 DEF CloseRead, CloseUnlinkBack, CloseUnlinkFront, CloseFree, At
<1>13. CASE Inside(o)
  BY <1>5, <1>6, <1>7, <1>8, <1>9, <1>10, <1>11, <1>12, <1>13
     DEF Inside, Ioctl, Transfer
<1> QED
  BY <1>2, <1>3, <1>4, <1>13 DEF Next

(* So a queue that is there stays there, and one that is ahead of a        *)
(* traversal stays ahead of it.                                            *)
LEMMA HereStays ==
    ASSUME NEW o \in Proc, Inv, Alone(o), RingInv(o), OwnerInv(o),
           call[o].op # "close", [Next]_vars
    PROVE  /\ Ring(o) \subseteq Ring(o)'
           /\ \A k : Here(o, k) \subseteq Here(o, k)'
<1>1. Ring(o) \subseteq Ring(o)'
  BY RingGrows, LinkFront
<1>2. \A n \in Ring(o) \ {Root} : msq'[n].key = msq[n].key
  BY RingGrows, RingType
<1> QED
  BY <1>1, <1>2 DEF Here

LEMMA AheadStays ==
    ASSUME NEW o \in Proc, Inv, Alone(o), RingInv(o), OwnerInv(o),
           call[o].op # "close", [Next]_vars,
           NEW x \in Ring(o), NEW y, Ahead(Ring(o), x, y)
    PROVE  \A S \in SUBSET Ring(o)' :
             nxt'[x] \in S /\ (\A z \in S \ {Root} : nxt'[z] \in S) => y \in S
<1> SUFFICES ASSUME NEW S \in SUBSET Ring(o)', nxt'[x] \in S,
                    \A z \in S \ {Root} : nxt'[z] \in S
             PROVE  y \in S
  OBVIOUS
<1>1. CASE Ring(o)' = Ring(o) /\ \A z \in Ring(o) : nxt'[z] = nxt[z]
  BY <1>1 DEF Ahead
<1>2. CASE CreateLinkFront(o)
  <2> DEFINE T == S \cap Ring(o)
  <2>1. /\ cur[o] \notin Ring(o) /\ cur[o] # Root
        /\ lp[o] \in Ring(o) /\ nxt[lp[o]] = Root
        /\ nxt'[lp[o]] = cur[o] /\ nxt'[cur[o]] = Root
        /\ \A z \in Ring(o) \ {lp[o]} : nxt'[z] = nxt[z]
    BY <1>2, LinkFront
  <2>2. \A z \in Ring(o) : nxt[z] \in Ring(o)
    BY DEF RingInv, Circle
  <2>3. \A z \in Ring(o) : nxt'[z] \in S => nxt[z] \in T
    BY <2>1, <2>2
  <2>4. nxt[x] \in T /\ \A z \in T \ {Root} : nxt[z] \in T
    BY <2>3
  <2>5. T \in SUBSET Ring(o)
    OBVIOUS
  <2>6. y \in T
    BY <2>4, <2>5 DEF Ahead
  <2> QED
    BY <2>6
<1> QED
  BY <1>1, <1>2, RingGrows

-----------------------------------------------------------------------------
(* What a process knows of the queue it sends to: CHECK has found one, and *)
(* the traversal of write has one still ahead.                             *)
KeyInv(o, p) ==
    LET Q == Here(o, Args(p).key)
    IN  /\ pc[p] \in {"user", "spin"} => cur[p] = Root
        /\ at[p] = "check" /\ pc[p] = "check" => cur[p] \in Q
        /\ at[p] = "check" /\ pc[p] = "user" /\ ret[p] \in Nat => Q # {}
        /\ at[p] = "write" => Q # {}
        /\ at[p] = "write" /\ pc[p] = "scan" =>
              \E y \in Q : Ahead(Ring(o), cur[p], y)

(* Every traversal is at a queue of the list.                              *)
ScansInRing(o) == \A p \in Proc : pc[p] = "scan" => cur[p] \in Ring(o)

(* The state before a step while nothing is closed, and the step.          *)
KeyBase(o) ==
    /\ LibInv /\ AllWait /\ Alone(o) /\ RingInv(o) /\ OwnerInv(o)
    /\ ScansInRing(o) /\ [Next]_vars /\ program' = program
    /\ \A p \in Proc : call[p].op # "close"

(* What such a step leaves of the list.                                    *)
LEMMA KeysKnown ==
    ASSUME NEW o \in Proc, KeyBase(o)
    PROVE  /\ Inv
           /\ Ring(o) \subseteq Ring(o)'
           /\ \A k : Here(o, k) \subseteq Here(o, k)'
           /\ \A x \in Ring(o) : \A y : Ahead(Ring(o), x, y) =>
                 \A S \in SUBSET Ring(o)' :
                     nxt'[x] \in S /\ (\A z \in S \ {Root} : nxt'[z] \in S)
                       => y \in S
           /\ \A x \in Ring(o) : nxt[x] \in Ring(o)
<1>1. Inv /\ Alone(o) /\ RingInv(o) /\ OwnerInv(o) /\ [Next]_vars
      /\ call[o].op # "close"
  BY DEF KeyBase, LibInv
<1>2. \A x \in Ring(o) : nxt[x] \in Ring(o)
  BY <1>1 DEF RingInv, Circle
<1>3. ASSUME NEW x \in Ring(o), NEW y, Ahead(Ring(o), x, y)
      PROVE  \A S \in SUBSET Ring(o)' :
                     nxt'[x] \in S /\ (\A z \in S \ {Root} : nxt'[z] \in S)
                       => y \in S
  BY <1>1, <1>3, AheadStays
<1> QED
  BY <1>1, <1>2, <1>3, HereStays

(* It stays while the process waits.                                       *)
LEMMA KeyWaits ==
    ASSUME NEW o \in Proc, KeyBase(o), NEW q \in Proc, KeyInv(o, q),
           at'[q] = at[q], log'[q] = log[q], pc'[q] = pc[q],
           cur'[q] = cur[q], ret'[q] = ret[q]
    PROVE  KeyInv(o, q)'
<1>0. PICK k : k = Args(q).key
  OBVIOUS
<1>1. Args(q)' = Args(q)
  BY DEF KeyBase, Args
<1>2. Here(o, k) \subseteq Here(o, k)'
  BY KeysKnown
<1>3. Here(o, Args(q).key) = Here(o, k) /\ Here(o, Args(q).key)' = Here(o, k)'
  BY <1>0, <1>1 DEF Here
<1>4. ASSUME at[q] = "write", pc[q] = "scan"
      PROVE  \E y \in Here(o, k)' : Ahead(Ring(o), cur[q], y)'
  <2>1. PICK y \in Here(o, k) : Ahead(Ring(o), cur[q], y)
    BY <1>3, <1>4 DEF KeyInv
  <2>2. cur[q] \in Ring(o)
    BY <1>4 DEF KeyBase, ScansInRing
  <2>3. Ahead(Ring(o), cur[q], y)'
    BY <2>1, <2>2, KeysKnown DEF Ahead
  <2> QED
    BY <1>2, <2>1, <2>3
<1> QED
  BY <1>1, <1>2, <1>3, <1>4 DEF KeyInv

(* A step of the library: a write follows a CHECK that has found a queue.  *)
LEMMA WritesAfterCheck ==
    ASSUME LibInv, NEW p \in Proc, LibStep(p)
    PROVE  /\ pc[p] = "user"
           /\ \/ \E c \in Call :
                    /\ Issue(p, c, c.op)
                    /\ c.op = "write" => \/ at[p] = "write"
                                         \/ at[p] = "check" /\ ret[p] \in Nat
              \/ \E r \in Int : Finish(p, r)
<1>1. pc[p] = "user" /\ ~Ended(p) /\ Args(p) \in LibCall
  BY StepCalls, StepForm, ArgsType
<1>2. Answer(p) \in Int /\ ret[p] \in Int /\ (Answer(p) >= 0 <=> ret[p] >= 0)
  BY AnswerOf
<1>3. CASE SendChecked(p) \/ SendRetry(p)
  <2>1. Args(p).fn = "msgsnd" /\ at[p] \in {"check", "write"}
    BY <1>3 DEF SendChecked, SendRetry, Back
  <2>2. WriteCall(p) \in Call /\ WriteCall(p).op = "write"
    BY <1>1, <2>1, LibCallFields DEF Call, WriteCall
  <2>3. CASE SendRetry(p)
    <3>1. Issue(p, WriteCall(p), "write") /\ at[p] = "write"
      BY <2>3 DEF SendRetry, Back
    <3> QED
      BY <1>1, <2>2, <3>1
  <2>4. CASE SendChecked(p) /\ Answer(p) < 0
    <3>1. Finish(p, FAIL) /\ FAIL \in Int
      BY <2>4 DEF SendChecked, FAIL
    <3> QED
      BY <1>1, <3>1
  <2>5. CASE SendChecked(p) /\ ~(Answer(p) < 0)
    <3>1. Issue(p, WriteCall(p), "write") /\ at[p] = "check"
      BY <2>5 DEF SendChecked, Back
    <3>2. ret[p] \in Nat
      BY <1>2, <2>5
    <3> QED
      BY <1>1, <2>2, <3>1, <3>2
  <2> QED
    BY <1>3, <2>3, <2>4, <2>5
<1>4. CASE ~SendChecked(p) /\ ~SendRetry(p)
  <2>1. ASSUME NEW c \in Call, Issue(p, c, c.op), c.op = "write"
        PROVE  FALSE
    <3>1. at'[p] = "write"
      BY <2>1 DEF Issue, LibInv, LibTypeOK
    <3>2. ASSUME NEW d, NEW l \in {"check", "create", "close", "read"},
                 Issue(p, d, l)
          PROVE  at'[p] = l
      BY <3>2 DEF Issue, LibInv, LibTypeOK
    <3>3. ASSUME NEW r, Finish(p, r) PROVE at'[p] = "out"
      BY <3>3 DEF Finish, LibInv, LibTypeOK
    <3> QED
      BY <1>4, <3>1, <3>2, <3>3
         DEF LibStep, Begin, GetExisting, GetCreate, GetCreated, CloseExisting,
             CloseNothing, CloseDone, SendDone, ReceiveChecked, ReceiveRetry,
             ReceiveDone
  <2> QED
    BY <2>1, StepCalls
<1> QED
  BY <1>3, <1>4

(* So what is known survives a step of the library, ...                    *)
LEMMA KeyLib ==
    ASSUME NEW o \in Proc, KeyBase(o), NEW p \in Proc, KeyInv(o, p), LibStep(p)
    PROVE  KeyInv(o, p)'
<1>0. /\ at \in [Proc -> {"out"} \cup Waits] /\ pc \in [Proc -> Labels]
      /\ LibInv /\ pc[p] = "user" /\ cur[p] = Root
  BY WritesAfterCheck DEF KeyBase, LibInv, LibTypeOK, Inv, TypeOK, Waits, KeyInv
<1>1. ASSUME NEW c \in Call, Issue(p, c, c.op),
             c.op = "write" => \/ at[p] = "write"
                               \/ at[p] = "check" /\ ret[p] \in Nat
      PROVE  KeyInv(o, p)'
  <2>1. /\ at'[p] = c.op /\ cur'[p] = Root /\ Args(p)' = Args(p)
        /\ pc'[p] = Entry(c)
    BY <1>0, <1>1 DEF Issue, Syscall, Goto, locals, Args
  <2>2. /\ pc'[p] \notin {"user", "check"}
        /\ c.op = "write" => pc'[p] = "spin"
    BY <2>1, CallFields DEF Entry, Ops
  <2>3. c.op = "write" => Here(o, Args(p).key) # {}
    BY <1>0, <1>1 DEF KeyInv
  <2>4. Here(o, Args(p).key) \subseteq Here(o, Args(p).key)'
    <3>0. PICK k : k = Args(p).key
      OBVIOUS
    <3>1. Here(o, k) \subseteq Here(o, k)'
      BY KeysKnown
    <3> QED
      BY <2>1, <3>0, <3>1 DEF Here
  <2> QED
    BY <2>1, <2>2, <2>3, <2>4 DEF KeyInv
<1>2. ASSUME NEW r \in Int, Finish(p, r)
      PROVE  KeyInv(o, p)'
  <2>1. at'[p] = "out" /\ cur'[p] = Root
    BY <1>0, <1>2 DEF Finish, vars, locals
  <2> QED
    BY <2>1 DEF KeyInv
<1> QED
  BY <1>0, <1>1, <1>2, WritesAfterCheck

(* ... an iteration of the traversal, ...                                  *)
LEMMA KeyScan ==
    ASSUME NEW o \in Proc, KeyBase(o), NEW p \in Proc, KeyInv(o, p), Scan(p),
           UNCHANGED libVars
    PROVE  KeyInv(o, p)'
<1>0. /\ Inv /\ pc[p] = "scan" /\ cur[p] \in Ring(o) /\ nxt[cur[p]] \in Ring(o)
      /\ call[p].op = at[p] /\ call[p].key = Args(p).key
      /\ call[p].op \in {"check", "read", "write"}
  BY KeysKnown
     DEF Scan, At, KeyBase, ScansInRing, AllWait, WaitInv, LibInv, Inv, CallInv
<1>1. PICK k : k = Args(p).key
  OBVIOUS
<1>2. at'[p] = at[p] /\ Args(p)' = Args(p)
  BY DEF libVars, Args
<1>3. /\ Here(o, k) \subseteq Here(o, k)'
      /\ Here(o, Args(p).key) = Here(o, k) /\ Here(o, Args(p).key)' = Here(o, k)'
  BY <1>1, <1>2, KeysKnown DEF Here
<1>4. CASE nxt[cur[p]] = Root /\ NotFound(p)
  <2>1. CASE at[p] = "check"
    <3>1. pc'[p] = "user" /\ ret'[p] = IPC_RES_NOMSQ /\ cur'[p] = Root
      BY <1>0, <1>4, <2>1 DEF NotFound, Return, Goto, Inv, TypeOK
    <3>2. IPC_RES_NOMSQ \notin Nat
      BY SMT DEF IPC_RES_NOMSQ
    <3> QED
      BY <1>2, <2>1, <3>1, <3>2 DEF KeyInv
  <2>2. CASE at[p] # "check"
    <3>1. pc'[p] = "unlock"
      BY <1>0, <1>4, <2>2 DEF NotFound, Leave, Goto, Inv, TypeOK
    <3> QED
      BY <1>2, <1>3, <2>2, <3>1 DEF KeyInv
  <2> QED
    BY <2>1, <2>2
<1>5. CASE nxt[cur[p]] # Root
  <2> DEFINE n == nxt[cur[p]]
  <2>1. /\ cur'[p] = n /\ ret' = ret /\ msq' = msq
        /\ IF msq[n].key = call[p].key THEN pc'[p] = at[p] ELSE pc'[p] = "scan"
    BY <1>0, <1>5 DEF Scan, Found, Goto, Inv, TypeOK
  <2>2. CASE msq[n].key = k
    <3>1. n \in Here(o, k) /\ pc'[p] = at[p]
      BY <1>0, <1>1, <1>5, <2>1, <2>2 DEF Here
    <3>2. cur'[p] \in Here(o, k)'
      BY <1>3, <2>1, <3>1
    <3> QED
      BY <1>0, <1>2, <1>3, <3>1, <3>2 DEF KeyInv
  <2>3. CASE msq[n].key # k
    <3>1. pc'[p] = "scan"
      BY <1>0, <1>1, <2>1, <2>3
    <3>2. ASSUME at[p] = "write"
          PROVE  \E y \in Here(o, k)' : Ahead(Ring(o), cur[p], y)'
      <4>1. PICK y \in Here(o, k) : Ahead(Ring(o), cur[p], y)
        BY <1>0, <1>3, <3>2 DEF KeyInv
      <4>2. n # y
        BY <2>3, <4>1 DEF Here
      <4>3. Ahead(Ring(o), n, y)
        BY <1>0, <4>1, <4>2, AheadPass
      <4>4. PICK x : x = n
        OBVIOUS
      <4>5. \A S \in SUBSET Ring(o)' :
              nxt'[x] \in S /\ (\A z \in S \ {Root} : nxt'[z] \in S) => y \in S
        BY <1>0, <4>3, <4>4, KeysKnown
      <4>6. Ahead(Ring(o), cur[p], y)'
        BY <2>1, <4>4, <4>5 DEF Ahead
      <4> QED
        BY <1>3, <4>1, <4>6
    <3> QED
      BY <1>2, <1>3, <3>1, <3>2 DEF KeyInv
  <2> QED
    BY <2>2, <2>3
<1> QED
  BY <1>4, <1>5 DEF Scan

(* ... and the other steps inside the driver.                              *)
LEMMA KeyInside ==
    ASSUME NEW o \in Proc, KeyBase(o), NEW p \in Proc, KeyInv(o, p), Inside(p),
           UNCHANGED libVars
    PROVE  KeyInv(o, p)'
<1>0. /\ Inv /\ CallInv(p) /\ WaitInv(p) /\ call[p].op # "close"
      /\ RingInv(o)
  BY DEF KeyBase, AllWait, LibInv, Inv
<1>1. PICK k : k = Args(p).key
  OBVIOUS
<1>2. at'[p] = at[p] /\ log'[p] = log[p] /\ Args(p)' = Args(p)
  BY DEF libVars, Args
<1>3. /\ Here(o, k) \subseteq Here(o, k)'
      /\ Here(o, Args(p).key) = Here(o, k) /\ Here(o, Args(p).key)' = Here(o, k)'
  BY <1>1, <1>2, KeysKnown DEF Here
<1>4. CASE Acquire(p)
  <2>1. pc[p] = "spin" /\ pc'[p] = "scan" /\ cur'[p] = cur[p] /\ cur[p] = Root
    BY <1>0, <1>4 DEF Acquire, At, Goto, locals, Inv, TypeOK, KeyInv
  <2>2. ASSUME at[p] = "write"
        PROVE  \E y \in Here(o, k)' : Ahead(Ring(o), cur[p], y)'
    <3>1. PICK y : y \in Here(o, k)
      BY <1>3, <2>2 DEF KeyInv
    <3>2. y \in Used /\ y \in Ring(o) /\ Root \in Ring(o)
      BY <3>1, RingType DEF Here
    <3>3. Ahead(Ring(o), Root, y)
      BY <1>0, <3>2, AheadStart
    <3>4. \A S \in SUBSET Ring(o)' :
            nxt'[Root] \in S /\ (\A z \in S \ {Root} : nxt'[z] \in S) => y \in S
      BY <3>2, <3>3, KeysKnown
    <3>5. Ahead(Ring(o), cur[p], y)'
      BY <2>1, <3>4 DEF Ahead
    <3> QED
      BY <1>3, <3>1, <3>5
  <2> QED
    BY <1>2, <1>3, <2>1, <2>2 DEF KeyInv
<1>5. CASE ReturnKey(p)
  <2>1. pc[p] = "check" /\ pc'[p] = "user" /\ cur'[p] = Root
    BY <1>0, <1>5 DEF ReturnKey, At, Return, Goto, Inv, TypeOK
  <2>2. at[p] # "write" /\ (at[p] = "check" => cur[p] \in Here(o, k))
    BY <1>0, <1>3, <2>1 DEF CallInv, WaitInv, KeyInv
  <2> QED
    BY <1>2, <1>3, <2>1, <2>2 DEF KeyInv
<1>6. CASE Unlock(p)
  <2>1. pc[p] = "unlock" /\ pc'[p] = "user" /\ cur'[p] = Root
    BY <1>0, <1>6 DEF Unlock, At, Return, Goto, Inv, TypeOK
  <2>2. at[p] # "check"
    BY <1>0, <2>1 DEF CallInv, WaitInv
  <2> QED
    BY <1>2, <1>3, <2>1, <2>2 DEF KeyInv
<1>7. CASE CreateAlloc(p) \/ CreateLinkBack(p) \/ CreateLinkFront(p)
  <2>1. /\ pc[p] \in {"alloc", "back", "front"}
        /\ pc'[p] \in {"back", "front", "check"}
    BY <1>0, <1>7
       DEF CreateAlloc, CreateLinkBack, CreateLinkFront, At, Goto, Inv, TypeOK
  <2>2. at[p] = "create"
    BY <1>0, <2>1 DEF CallInv, WaitInv
  <2> QED
    BY <1>2, <2>1, <2>2 DEF KeyInv
<1>8. CASE CloseRead(p) \/ CloseUnlinkBack(p) \/ CloseUnlinkFront(p) \/ CloseFree(p)
  BY <1>0, <1>8
     DEF CloseRead, CloseUnlinkBack, CloseUnlinkFront, CloseFree, At, CallInv
<1>9. CASE ReadFind(p) \/ ReadCopy(p) \/ WriteCheck(p)
  <2>1. pc'[p] \in {"copy", "remove", "append", "unlock"}
    BY <1>0, <1>9 DEF ReadFind, ReadCopy, WriteCheck, Leave, Goto, Inv, TypeOK
  <2> QED
    BY <1>2, <1>3, <2>1 DEF KeyInv
<1>10. CASE ReadRemove(p) \/ WriteAppend(p)
  <2>1. pc'[p] = "unlock"
    BY <1>0, <1>10 DEF ReadRemove, WriteAppend, Leave, Goto, Inv, TypeOK
  <2> QED
    BY <1>2, <1>3, <2>1 DEF KeyInv
<1>11. CASE Fault(p)
  <2>1. pc' = pc /\ cur' = cur /\ ret' = ret
    BY <1>11 DEF Fault, locals
  <2> QED
    BY <1>2, <2>1, KeyWaits
<1>12. CASE Scan(p)
  BY <1>12, KeyScan
<1> QED
  BY <1>4, <1>5, <1>6, <1>7, <1>8, <1>9, <1>10, <1>11, <1>12
     DEF Inside, Ioctl, Transfer

(* What is known of every process stays known.                             *)
LEMMA KeyNext ==
    ASSUME NEW o \in Proc, KeyBase(o), \A p \in Proc : KeyInv(o, p),
           [LibNext]_allVars
    PROVE  \A p \in Proc : KeyInv(o, p)'
<1> SUFFICES ASSUME NEW q \in Proc
             PROVE  KeyInv(o, q)'
  OBVIOUS
<1>0. LibInv /\ Inv /\ CallInv(q) /\ \A p \in Proc : call[p].op # "close" /\ CallInv(p)
  BY DEF KeyBase, LibInv, Inv
<1>1. CASE UNCHANGED allVars
  BY <1>1, KeyWaits DEF allVars, vars, libVars, locals
<1>2. ASSUME NEW p \in Proc, LibStep(p)
      PROVE  KeyInv(o, q)'
  <2>1. CASE q = p
    BY <1>2, <2>1, KeyLib
  <2>2. CASE q # p
    <3>1. /\ at'[q] = at[q] /\ log'[q] = log[q] /\ pc'[q] = pc[q]
          /\ cur'[q] = cur[q] /\ ret'[q] = ret[q]
      <4>1. ASSUME NEW c \in Call, NEW l \in Waits, Issue(p, c, l)
            PROVE  /\ at'[q] = at[q] /\ log'[q] = log[q] /\ pc'[q] = pc[q]
                   /\ cur'[q] = cur[q] /\ ret'[q] = ret[q]
        BY <1>0, <2>2, <4>1
           DEF Issue, Syscall, Goto, locals, LibInv, LibTypeOK, Inv, TypeOK
      <4>2. ASSUME NEW r \in Int, Finish(p, r)
            PROVE  /\ at'[q] = at[q] /\ log'[q] = log[q] /\ pc'[q] = pc[q]
                   /\ cur'[q] = cur[q] /\ ret'[q] = ret[q]
        BY <1>0, <2>2, <4>2 DEF Finish, vars, locals, LibInv, LibTypeOK
      <4> QED
        BY <1>0, <1>2, <4>1, <4>2, StepForm
    <3> QED
      BY <3>1, KeyWaits
  <2> QED
    BY <2>1, <2>2
<1>3. ASSUME NEW p \in Proc, Inside(p), UNCHANGED libVars
      PROVE  KeyInv(o, q)'
  <2>1. CASE q = p
    BY <1>3, <2>1, KeyInside
  <2>2. CASE q # p
    <3>1. pc[p] # "kfree"
      BY <1>0 DEF CallInv
    <3>2. /\ pc'[q] = pc[q] /\ cur'[q] = cur[q] /\ ret'[q] = ret[q]
      BY <1>0, <1>3, <2>2, <3>1, InsideCalls, OthersRest
    <3>3. at'[q] = at[q] /\ log'[q] = log[q]
      BY <1>3 DEF libVars
    <3> QED
      BY <3>2, <3>3, KeyWaits
  <2> QED
    BY <2>1, <2>2
<1> QED
  BY <1>1, <1>2, <1>3 DEF LibNext, ProcStep

(* At first there is nothing to know.                                      *)
LEMMA KeyInit ==
    ASSUME NEW o \in Proc, LibInit
    PROVE  \A p \in Proc : KeyInv(o, p)
  BY DEF LibInit, Init, KeyInv

(* So a write always finds a queue.                                        *)
LEMMA WriteFinds ==
    ASSUME NEW o \in Proc, NEW p \in Proc, KeyInv(o, p), at[p] = "write",
           pc[p] = "scan"
    PROVE  nxt[cur[p]] # Root
<1>1. PICK y \in Here(o, Args(p).key) : Ahead(Ring(o), cur[p], y)
  BY DEF KeyInv
<1>2. y \in Used
  BY RingType DEF Here
<1> QED
  BY <1>1, <1>2, AheadEnd

-----------------------------------------------------------------------------
(* Multiplication of natural numbers, as the provers need it.              *)
LEMMA TimesNat == \A a, b \in Nat : a * b \in Nat
  OBVIOUS

LEMMA TimesNext == \A a, b \in Nat : (a + 1) * b = a * b + b
  OBVIOUS

LEMMA TimesSum == \A a, b, c \in Nat : a * (b + c) = a * b + a * c
  OBVIOUS

LEMMA TimesMore ==
    ASSUME NEW a \in Nat, NEW b \in Nat, NEW c \in Nat, a <= b
    PROVE  a * c <= b * c
<1>1. b - a \in Nat /\ b = a + (b - a)
  OBVIOUS
<1>2. PICK d \in Nat : b = a + d
  BY <1>1
<1>3. b * c = a * c + d * c
  BY <1>2
<1>4. a * c \in Nat /\ d * c \in Nat
  BY TimesNat
<1> QED
  BY <1>3, <1>4

LEMMA TimesLess ==
    ASSUME NEW a \in Nat, NEW b \in Nat, NEW c \in Nat, c # 0, c * a <= c * b
    PROVE  a <= b
<1>1. SUFFICES ASSUME b + 1 <= a PROVE FALSE
  OBVIOUS
<1>2. (b + 1) * c <= a * c
  BY <1>1, TimesMore
<1>3. (b + 1) * c = b * c + c /\ b * c = c * b /\ a * c = c * a
  BY TimesNext
<1>4. b * c \in Nat /\ a * c \in Nat
  BY TimesNat
<1> QED
  BY <1>2, <1>3, <1>4

(* Numbers that grow by no more than a K-th of V at each step stay below   *)
(* as many K-ths of V.                                                     *)
LEMMA ShareOfAll ==
    ASSUME NEW n \in Nat, NEW K \in Nat, NEW V \in Nat,
           NEW sum \in [0..n -> Nat], NEW part \in [1..n -> Nat], sum[0] = 0,
           \A i \in 1..n : sum[i] = sum[i - 1] + part[i] /\ K * part[i] <= V
    PROVE  \A i \in 0..n : K * sum[i] <= i * V
<1> DEFINE T == {i \in 0..n : ~(K * sum[i] <= i * V)}
<1>1. SUFFICES ASSUME T # {} PROVE FALSE
  OBVIOUS
<1>2. T \subseteq Nat
  OBVIOUS
<1>3. PICK i \in T : \A j \in T : ~(<<j, i>> \in OpToRel(<, Nat))
  BY <1>1, <1>2, WFMin, NatLessThanWellFounded, Zenon
<1>4. i \in 0..n /\ ~(K * sum[i] <= i * V)
  OBVIOUS
<1>5. \A j \in T : ~(j < i)
  BY <1>2, <1>3 DEF OpToRel
<1>6. CASE i = 0
  BY <1>4, <1>6
<1>7. CASE i # 0
  <2>1. PICK j \in 0..n : i = j + 1
    <3>1. i - 1 \in 0..n /\ i = (i - 1) + 1
      BY <1>4, <1>7
    <3> QED
      BY <3>1
  <2>2. K * sum[j] <= j * V
    BY <1>5, <2>1
  <2>3. /\ sum[j] \in Nat /\ part[i] \in Nat /\ i \in 1..n
        /\ sum[i] = sum[j] + part[i] /\ K * part[i] <= V
    <3>1. i \in 1..n /\ i - 1 = j
      BY <1>4, <2>1
    <3> QED
      BY <3>1
  <2>4. K * sum[i] = K * sum[j] + K * part[i]
    BY <2>3, TimesSum
  <2>5. i * V = j * V + V
    BY <2>1, TimesNext
  <2>6. K * sum[j] \in Nat /\ K * part[i] \in Nat /\ j * V \in Nat
    <3>1. j \in Nat
      OBVIOUS
    <3> QED
      BY <2>3, <3>1, TimesNat, Zenon
  <2>7. \A a, b, c \in Nat : a <= c /\ b <= V => a + b <= c + V
    OBVIOUS
  <2>8. K * sum[j] + K * part[i] <= j * V + V
    BY <2>2, <2>3, <2>6, <2>7, Zenon
  <2> QED
    BY <1>4, <2>4, <2>5, <2>8, Zenon
<1> QED
  BY <1>6, <1>7

-----------------------------------------------------------------------------
(* What does not fit stays so when there are more messages.                *)
LEMMA TooManyMore ==
    ASSUME NEW N \in Nat, TooMany(N)
    PROVE  TooMany(N + 1)
<1>1. CASE N > KUIPC_MAXMSG
  BY <1>1, KuIpcAssumption DEF TooMany
<1>2. ASSUME NEW s \in Size, N * s > KUIPC_MAXVOL
      PROVE  TooMany(N + 1)
  <2>1. s \in Nat /\ N \in Nat /\ N + 1 \in Nat /\ N <= N + 1
        /\ KUIPC_MAXVOL \in Nat
    BY KuIpcAssumption
  <2>2. N * s <= (N + 1) * s
    BY <2>1, TimesMore
  <2>3. N * s \in Nat /\ (N + 1) * s \in Nat
    BY <2>1, TimesNat, Zenon
  <2>4. \A a, b, c \in Nat : a > c /\ a <= b => b > c
    OBVIOUS
  <2>5. (N + 1) * s > KUIPC_MAXVOL
    BY <1>2, <2>1, <2>2, <2>3, <2>4, Zenon
  <2> QED
    BY <2>5 DEF TooMany
<1> QED
  BY <1>1, <1>2 DEF TooMany

(* A queue of up to N messages that has no room for one more: N + 1 are    *)
(* too many.                                                               *)
LEMMA NoRoom ==
    ASSUME StrayReads = {}, NEW q \in Queue, QueueInv(q), NEW len \in Size,
           NEW N \in Nat, Len(q.msgs) <= N, Full(q) \/ TooBig(q, len)
    PROVE  TooMany(N + 1)
<1> DEFINE n == Len(q.msgs)
           K == N + 1
           V == KUIPC_MAXVOL
<1>0. /\ n \in Nat /\ K \in Nat /\ K # 0 /\ V \in Nat /\ KUIPC_MAXMSG \in Nat
      /\ q.size = n /\ q.msgs \in Seq(Message) /\ n <= N /\ len \in Nat
      /\ n + 1 \in Nat /\ n + 1 <= K
  BY QueueFields, LenProperties, KuIpcAssumption, SizeIsNat DEF QueueInv
<1>1. CASE Full(q)
  BY <1>0, <1>1 DEF Full, TooMany
<1>2. CASE TooBig(q, len)
  <2>1. SUFFICES ASSUME \A s \in Size : ~(K * s > V)
                 PROVE  FALSE
    BY DEF TooMany
  <2>2. ASSUME NEW s \in Size
        PROVE  s \in Nat /\ K * s \in Nat /\ K * s <= V
    <3>1. s \in Nat
      BY SizeIsNat
    <3>2. K * s \in Nat
      BY <1>0, <3>1, TimesNat, Zenon
    <3>3. \A a, b \in Nat : ~(a > b) => a <= b
      OBVIOUS
    <3> QED
      BY <1>0, <2>1, <3>1, <3>2, <3>3, Zenon
  <2>3. PICK sum \in [0..n -> 0..V] : PrefixSums(q.msgs, sum) /\ q.vol = sum[n]
    BY DEF QueueInv, Adds
  <2> DEFINE part == [i \in 1..n |-> q.msgs[i].msgsz]
  <2>4. \A i \in 1..n : q.msgs[i].msgsz \in Size
    BY <1>0, ElementOfSeq, MessageSize
  <2>5. part \in [1..n -> Nat]
    BY <2>2, <2>4
  <2>6. sum \in [0..n -> Nat] /\ sum[0] = 0
    BY <1>0, <2>3 DEF PrefixSums
  <2>7. \A i \in 1..n : sum[i] = sum[i - 1] + part[i] /\ K * part[i] <= V
    <3> SUFFICES ASSUME NEW i \in 1..n
                 PROVE  sum[i] = sum[i - 1] + part[i] /\ K * part[i] <= V
      OBVIOUS
    <3>1. part[i] = q.msgs[i].msgsz
      OBVIOUS
    <3>2. sum[i] = sum[i - 1] + q.msgs[i].msgsz
      BY <2>3 DEF PrefixSums
    <3>3. K * q.msgs[i].msgsz <= V
      BY <2>2, <2>4
    <3> HIDE DEF part
    <3> QED
      BY <3>1, <3>2, <3>3
  <2> HIDE DEF n, K, V, part
  <2>8. \A i \in 0..n : K * sum[i] <= i * V
    BY <1>0, <2>5, <2>6, <2>7, ShareOfAll
  <2>9. n \in 0..n /\ sum[n] \in Nat
    BY <1>0, <2>6
  <2>10. K * sum[n] <= n * V /\ K * len <= V
    BY <2>2, <2>8, <2>9
  <2>11. /\ K * (sum[n] + len) = K * sum[n] + K * len
         /\ (n + 1) * V = n * V + V
    <3>1. K * (sum[n] + len) = K * sum[n] + K * len
      BY <1>0, <2>9, TimesSum
    <3>2. (n + 1) * V = n * V + V
      BY <1>0, TimesNext
    <3> QED
      BY <3>1, <3>2
  <2>12. (n + 1) * V <= K * V
    BY <1>0, TimesMore
  <2>13. /\ K * sum[n] \in Nat /\ K * len \in Nat /\ n * V \in Nat /\ K * V \in Nat
         /\ (n + 1) * V \in Nat
    BY <1>0, <2>9, TimesNat, Zenon
  <2>14. K * sum[n] + K * len <= n * V + V
    <3>1. \A a, b, c \in Nat : a <= c /\ b <= V => a + b <= c + V
      BY <1>0
    <3> QED
      BY <2>10, <2>13, <3>1, Zenon
  <2>15. K * (sum[n] + len) <= K * V
    <3>1. /\ \A a, b, c \in Nat : a <= b /\ b <= c => a <= c
          /\ \A a, b \in Nat : a + b \in Nat
      OBVIOUS
    <3>2. K * sum[n] + K * len \in Nat
      BY <2>13, <3>1, Zenon
    <3>3. K * sum[n] + K * len <= (n + 1) * V
      BY <2>11, <2>14, Zenon
    <3>4. K * sum[n] + K * len <= K * V
      BY <2>12, <2>13, <3>1, <3>2, <3>3, Zenon
    <3> QED
      BY <2>11, <3>4, Zenon
  <2>16. sum[n] + len \in Nat
    BY <1>0, <2>9
  <2>17. sum[n] + len <= V
    BY <1>0, <2>15, <2>16, TimesLess
  <2>18. sum[n] + len \in 0..V
    BY <1>0, <2>16, <2>17
  <2> QED
    BY <1>2, <2>3, <2>18 DEF TooBig, V
<1> QED
  BY <1>1, <1>2

-----------------------------------------------------------------------------
(* No message is missing unless so many were sent that a send may have     *)
(* been refused.                                                           *)
Exact ==
    \/ Total(TakenBy) + Total(Queued) = Total(SentBy)
    \/ TooMany(Total(SentBy))

(* A send is refused only when so many were sent.                          *)
LEMMA RefusedTooMany ==
    ASSUME StrayReads = {}, LibInv, CountInv, CountsInv,
           NEW o \in Proc, NEW p \in Proc, KeyInv(o, p), Refused(p)
    PROVE  TooMany(Total(SentBy) + 1)
<1>1. pc[p] = "write" /\ WriteCheck(p)
      /\ (Full(msq[cur[p]]) \/ TooBig(msq[cur[p]], call[p].len))
  BY WriteFinds DEF Refused
<1>2. /\ cur[p] \in Node /\ msq[cur[p]] \in Queue /\ msq[cur[p]] # NULL
  BY <1>1, SoundCur DEF WriteCheck, At, LibInv
<1>3. QueueInv(msq[cur[p]])
  BY <1>2 DEF CountInv
<1>4. call[p] \in Call /\ call[p].op = "write"
  BY <1>1 DEF LibInv, Inv, CallInv, TypeOK, NoCall
<1>5. call[p].len \in Size
  BY <1>4, CallFields
<1>6. /\ Total(SentBy) \in Nat /\ Total(TakenBy) \in Nat /\ Total(Queued) \in Nat
      /\ Total(WaitedBy) \in Nat
  BY TotalsType
<1>7. Total(Queued) <= Total(SentBy)
  BY <1>6 DEF CountsInv
<1>8. /\ Len(msq[cur[p]].msgs) \in Nat
      /\ cur[p] \in DOMAIN Queued
      /\ Queued[cur[p]] = 1..Len(msq[cur[p]].msgs)
  <2>1. msq[cur[p]].msgs \in Seq(Message)
    BY <1>2, QueueFields
  <2> QED
    BY <1>2, <2>1, LenProperties DEF Queued, Used
<1>9. Len(msq[cur[p]].msgs) <= Total(Queued)
  BY <1>8, PartOfAll DEF CountsInv
<1>10. Len(msq[cur[p]].msgs) <= Total(SentBy)
  BY <1>6, <1>7, <1>8, <1>9
<1> QED
  BY <1>1, <1>2, <1>3, <1>5, <1>6, <1>10, NoRoom

(* Every step keeps the numbers equal or the sends too many.               *)
LEMMA ExactNext ==
    ASSUME StrayReads = {}, NEW o \in Proc, LibInv, AllWait, RetInv, NoneClosed,
           CountInv, CountsInv, Exact, \A p \in Proc : KeyInv(o, p),
           [LibNext]_allVars
    PROVE  Exact'
<1>0. /\ Total(SentBy) \in Nat /\ Total(TakenBy) \in Nat
      /\ Total(Queued) \in Nat /\ IsFiniteSet(Pairs(SentBy))
      /\ IsFiniteSet(Pairs(TakenBy)) /\ IsFiniteSet(Pairs(Queued))
  BY TotalsType DEF CountsInv
<1>1. program' = program
  BY StepMoves
<1>2. SUFFICES \/ Total(TakenBy') + Total(Queued') = Total(SentBy')
               \/ TooMany(Total(SentBy'))
  BY DEF Exact, Pairs, Total, TooMany
<1>3. ASSUME NEW f, NEW g, IsFiniteSet(Pairs(f)),
             \E e : e \notin Pairs(f) /\ Pairs(g) = Pairs(f) \cup {e}
      PROVE  IsFiniteSet(Pairs(g)) /\ Total(f) \in Nat /\ Total(g) = Total(f) + 1
  BY <1>3, OneMore
<1>4. CASE Unmoved
  <2>1. /\ Total(SentBy') = Total(SentBy) /\ Total(TakenBy') = Total(TakenBy)
        /\ Total(Queued') = Total(Queued)
    BY <1>1, <1>4, UnmovedTotals, AsMany
  <2> QED
    BY <2>1 DEF Exact
<1>5. ASSUME NEW p \in Proc, SendsOne(p)
      PROVE  /\ Total(TakenBy') = Total(TakenBy)
             /\ Total(SentBy') = Total(SentBy) + 1
  <2>1. /\ Pairs(TakenBy') = Pairs(TakenBy)
        /\ \E e : e \notin Pairs(SentBy) /\ Pairs(SentBy') = Pairs(SentBy) \cup {e}
    BY <1>1, <1>5, SendsTotals
  <2> QED
    BY <1>0, <1>3, <2>1, AsMany
<1>6. ASSUME NEW p \in Proc, SendsOne(p), QueueGrows
      PROVE  \/ Total(TakenBy') + Total(Queued') = Total(SentBy')
             \/ TooMany(Total(SentBy'))
  <2>1. Total(Queued') = Total(Queued) + 1
    BY <1>0, <1>3, <1>6 DEF QueueGrows
  <2>2. CASE TooMany(Total(SentBy))
    BY <1>0, <1>5, <1>6, <2>2, TooManyMore
  <2>3. CASE Total(TakenBy) + Total(Queued) = Total(SentBy)
    BY <1>0, <1>5, <1>6, <2>1, <2>3
  <2> QED
    BY <2>2, <2>3 DEF Exact
<1>7. ASSUME NEW p \in Proc, SendsOne(p), Refused(p)
      PROVE  TooMany(Total(SentBy'))
  <2>1. TooMany(Total(SentBy) + 1)
    BY <1>7, RefusedTooMany
  <2> QED
    BY <1>5, <1>7, <2>1
<1>8. ASSUME NEW p \in Proc, TakesOne(p), QueueShrinks
      PROVE  \/ Total(TakenBy') + Total(Queued') = Total(SentBy')
             \/ TooMany(Total(SentBy'))
  <2>1. /\ Pairs(SentBy') = Pairs(SentBy)
        /\ \E e : e \notin Pairs(TakenBy) /\ Pairs(TakenBy') = Pairs(TakenBy) \cup {e}
    BY <1>1, <1>8, TakesTotals
  <2>2. Total(SentBy') = Total(SentBy) /\ Total(TakenBy') = Total(TakenBy) + 1
    BY <1>0, <1>3, <2>1, AsMany
  <2>3. IsFiniteSet(Pairs(Queued'))
    BY <1>0, <1>8, FS_Subset DEF QueueShrinks
  <2>4. Total(Queued') \in Nat /\ Total(Queued) = Total(Queued') + 1
    BY <1>3, <1>8, <2>3 DEF QueueShrinks
  <2> QED
    BY <1>0, <2>2, <2>4 DEF Exact
<1> QED
  BY <1>4, <1>6, <1>7, <1>8, StepMoves

(* All that is known as long as nothing is closed.                         *)
KeptBalance(o) ==
    NoneClosed => /\ SeenInv(o) /\ CountsInv /\ Exact
                  /\ \A p \in Proc : KeyInv(o, p)

(* Every step keeps what is known.                                         *)
LEMMA BalanceNext ==
    ASSUME StrayReads = {}, NEW o \in Proc, LibInv, AllWait, RetInv,
           OpensAlone(o), KeptBalance(o), [LibNext]_allVars
    PROVE  KeptBalance(o)'
<1> SUFFICES ASSUME NoneClosed'
             PROVE  /\ SeenInv(o)' /\ CountsInv' /\ Exact'
                    /\ \A p \in Proc : KeyInv(o, p)'
  BY DEF KeptBalance
<1>1. NoneClosed
  BY NoneClosedBefore
<1>2. /\ SeenInv(o) /\ CountsInv /\ Exact /\ \A p \in Proc : KeyInv(o, p)
      /\ CountInv /\ OpenInv(o) /\ RingInv(o) /\ OwnerInv(o) /\ HoldInv(o)
  BY <1>1 DEF KeptBalance, SeenInv, OpenInv
<1>3. LibInv' /\ AllWait' /\ [Next]_vars /\ program' = program /\ Alone(o)
  BY LibInvNext, WaitNext, LibIsDriver, ProgramsStay, OpensAloneIsAlone
<1>4. Unheld(o)'
  <2>1. CallInv(o)' /\ WaitInv(o)' /\ at'[o] # "close"
    BY <1>3 DEF LibInv, Inv, AllWait, NoneClosed
  <2>2. pc'[o] # "kfree"
    BY <2>1 DEF CallInv, WaitInv
  <2> QED
    BY <2>2 DEF Unheld
<1>5. SeenInv(o)'
  BY <1>2, <1>4, SeenNext
<1>6. CountsInv'
  BY <1>1, <1>2, CountsNext
<1>7. Exact'
  BY <1>1, <1>2, ExactNext
<1>8. ScansInRing(o)
  BY <1>2 DEF ScansInRing, HoldInv, OwnerInv
<1>9. KeyBase(o)
  BY <1>1, <1>2, <1>3, <1>8, NoneFrees DEF KeyBase
<1>10. \A p \in Proc : KeyInv(o, p)'
  BY <1>2, <1>9, KeyNext
<1> QED
  BY <1>5, <1>6, <1>7, <1>10

(* Whatever the programs send and receive at once: as long as one process  *)
(* opens the queues and nothing was closed, at rest the messages received  *)
(* and those queued are all that were sent, or so many were sent that they *)
(* do not fit into a queue; then sends with IPC_NOWAIT, which succeed also *)
(* when they are refused, may be missing, and no others.                   *)
THEOREM NothingIsLost ==
    ASSUME NEW o \in Proc, StrayReads = {}
    PROVE  LibSpec /\ OpensAlone(o) => []Conserved
<1>1. LibInv /\ OpensAlone(o) /\ [LibNext]_allVars => OpensAlone(o)'
  BY ProgramsStay DEF OpensAlone
<1>2. LibInit => KeptBalance(o) /\ RetInv
  <2> SUFFICES ASSUME LibInit PROVE KeptBalance(o) /\ RetInv
    OBVIOUS
  <2>1. SeenInv(o) /\ CountsInv /\ RetInv /\ \A p \in Proc : KeyInv(o, p)
    BY SeenInit, CountsInit, KeyInit
  <2>2. Exact
    BY CountsInit DEF Exact
  <2> QED
    BY <2>1, <2>2 DEF KeptBalance
<1>3. /\ LibInv /\ AllWait /\ RetInv /\ OpensAlone(o) /\ KeptBalance(o)
      /\ [LibNext]_allVars
      => KeptBalance(o)'
  BY BalanceNext
<1>4. LibInv /\ RetInv /\ [LibNext]_allVars => RetInv'
  BY LibIsDriver, RetNext DEF LibInv
<1>5. KeptBalance(o) => Conserved
  <2> SUFFICES ASSUME KeptBalance(o), AtRest
               PROVE  /\ Total(Received) + Total(Queued)
                           \in Total(Waited)..Total(Sent)
                      /\ ~TooMany(Total(Sent)) =>
                           Total(Received) + Total(Queued) = Total(Sent)
    BY DEF Conserved, Accounted
  <2> QED
    BY RestTotals DEF KeptBalance, CountsInv, Exact
<1> QED
  BY <1>1, <1>2, <1>3, <1>4, <1>5, LibInvInit, LibInvNext, WaitInit, WaitNext,
     PTL DEF LibSpec
=============================================================================
