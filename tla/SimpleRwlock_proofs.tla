------------------------- MODULE SimpleRwlock_proofs -------------------------
(***************************************************************************)
(* Proofs about simple_rwlock, for any number of reading and writing       *)
(* processes, iterations and cells, with and without an unload.            *)
(***************************************************************************)
EXTENDS SimpleRwlock, TLAPS

USE SimpleRwlockAssumption DEF Proc

(* The lock is held for reading between read_lock and read_unlock, for     *)
(* writing by one process between write_lock and write_unlock, and never   *)
(* for both.                                                               *)
Reading(p) == pc[p] \in {"load", "print", "again"}
Writing(p) == pc[p] \in {"alloc", "swap", "free", "unlock"}

LockInv ==
    /\ \A p \in Proc : Reading(p) <=> p \in sharing
    /\ \A p \in Proc : Writing(p) <=> writer = p
    /\ writer = NULL \/ sharing = {}

(* Readers are at the labels of IOCTL_READ, and writers at the others.     *)
RoleInv ==
    \A p \in Proc :
        /\ p \in Readers => pc[p] \in {"user", "rlock", "load", "print", "again"}
        /\ p \in Writers => pc[p] \notin {"rlock", "load", "print", "again"}
        /\ pc[p] # "user" => i[p] <= N

(* The number, a writer's new one and the one it has replaced are          *)
(* different cells in use, until exit frees the first.                     *)
CellInv ==
    /\ \A p \in Proc : pc[p] = "swap" => new[p] \in Cell
    /\ module = "live" =>
        /\ Live(my_data)
        /\ \A p \in Proc :
            /\ pc[p] = "swap" => Live(new[p]) /\ new[p] # my_data
            /\ pc[p] = "free" => Live(old[p]) /\ old[p] # my_data

RwInv ==
    /\ RwTypeOK /\ LockInv /\ RoleInv /\ CellInv
    /\ NeverStale /\ NoUseAfterFree

-----------------------------------------------------------------------------
LEMMA RwInit == Init => RwInv
<1> SUFFICES ASSUME Init
             PROVE  RwInv
  OBVIOUS
<1>1. PICK c \in Cell : /\ my_data = c
                        /\ heap = [x \in Cell |-> IF x = c THEN 0 ELSE NULL]
  BY DEF Init
<1>2. 0 \in Value /\ 1 \in 1..(N + 1) /\ 0 # NULL
  BY DEF Value
<1>3. RwTypeOK
  BY <1>1, <1>2 DEF Init, RwTypeOK, Labels
<1>4. LockInv /\ RoleInv /\ NeverStale /\ NoUseAfterFree
  BY DEF Init, LockInv, Reading, Writing, RoleInv, NeverStale, NoUseAfterFree
<1>5. CellInv
  BY <1>1, <1>2 DEF Init, CellInv, Live
<1> QED
  BY <1>3, <1>4, <1>5 DEF RwInv

(* Types.                                                                  *)
LEMMA TypeNext == RwInv /\ [Next]_vars => RwTypeOK'
<1> SUFFICES ASSUME RwInv, [Next]_vars
             PROVE  RwTypeOK'
  OBVIOUS
<1> USE DEF RwInv
<1>1. CASE UNCHANGED vars
  BY <1>1 DEF vars, RwTypeOK
<1>2. CASE ExitFree \/ ExitDone
  BY <1>2 DEF ExitFree, ExitDone, RwTypeOK, Freed
<1>3. ASSUME NEW p \in Proc, Ioctl(p) \/ ReadAcquire(p) \/ Load(p) \/ PrintFirst(p)
      PROVE  RwTypeOK'
  BY <1>3 DEF Ioctl, ReadAcquire, Load, PrintFirst, At, Goto, RwTypeOK, Labels
<1>4. ASSUME NEW p \in Proc, PrintAgain(p) \/ Unlock(p)
      PROVE  RwTypeOK'
  BY <1>4 DEF PrintAgain, Unlock, At, Return, Goto, RwTypeOK, Labels, RoleInv,
              Released
<1>5. ASSUME NEW p \in Proc, WriteAcquire(p) \/ Swap(p) \/ Free(p)
      PROVE  RwTypeOK'
  BY <1>5 DEF WriteAcquire, Swap, Free, At, Goto, RwTypeOK, Labels, CellInv,
              Freed
<1>6. ASSUME NEW p \in Proc, Alloc(p)
      PROVE  RwTypeOK'
  <2>1. i[p] \in Value
    BY <1>6 DEF Alloc, At, RwTypeOK, RoleInv, Value
  <2> QED
    BY <1>6, <2>1 DEF Alloc, At, Goto, RwTypeOK, Labels
<1>7. ASSUME NEW p \in Proc, Fault(p)
      PROVE  RwTypeOK'
  BY <1>7 DEF Fault, RwTypeOK
<1> QED
  BY <1>1, <1>2, <1>3, <1>4, <1>5, <1>6, <1>7 DEF Next, Step

(* The reader-writer lock.                                                 *)
LEMMA LockNext == RwInv /\ [Next]_vars => LockInv'
<1> SUFFICES ASSUME RwInv, [Next]_vars
             PROVE  LockInv'
  OBVIOUS
<1> USE DEF RwInv, LockInv, Reading, Writing
<1>1. CASE UNCHANGED vars \/ ExitFree \/ ExitDone
  BY <1>1 DEF vars, ExitFree, ExitDone
<1>2. ASSUME NEW p \in Proc, ReadAcquire(p) \/ PrintAgain(p)
      PROVE  LockInv'
  BY <1>2 DEF ReadAcquire, PrintAgain, NoWriter, At, Goto, Return, RwTypeOK
<1>3. ASSUME NEW p \in Proc, WriteAcquire(p) \/ Unlock(p)
      PROVE  LockInv'
  BY <1>3 DEF WriteAcquire, Unlock, Unlocked, Released, At, Goto, Return,
              RwTypeOK
<1>4. ASSUME NEW p \in Proc, Ioctl(p) \/ Load(p) \/ PrintFirst(p) \/ Fault(p)
                \/ Alloc(p) \/ Swap(p) \/ Free(p)
      PROVE  LockInv'
  BY <1>4 DEF Ioctl, Load, PrintFirst, Fault, Alloc, Swap, Free, At, Goto,
              RwTypeOK
<1> QED
  BY <1>1, <1>2, <1>3, <1>4 DEF Next, Step

(* The two kinds of processes, and their loops.                            *)
LEMMA RoleNext == RwInv /\ [Next]_vars => RoleInv'
<1> SUFFICES ASSUME RwInv, [Next]_vars
             PROVE  RoleInv'
  OBVIOUS
<1> USE DEF RwInv, RoleInv
<1>1. CASE UNCHANGED vars \/ ExitFree \/ ExitDone
  BY <1>1 DEF vars, ExitFree, ExitDone
<1>2. ASSUME NEW p \in Proc, Ioctl(p)
      PROVE  RoleInv'
  BY <1>2 DEF Ioctl, Continues, At, Goto, RwTypeOK
<1>3. ASSUME NEW p \in Proc, ReadAcquire(p) \/ Load(p) \/ PrintFirst(p)
                \/ PrintAgain(p) \/ Fault(p)
      PROVE  RoleInv'
  BY <1>3 DEF ReadAcquire, Load, PrintFirst, PrintAgain, Fault, At, Goto, Return,
              RwTypeOK
<1>4. ASSUME NEW p \in Proc, WriteAcquire(p) \/ Alloc(p) \/ Swap(p) \/ Free(p)
                \/ Unlock(p)
      PROVE  RoleInv'
  BY <1>4 DEF WriteAcquire, Alloc, Swap, Free, Unlock, At, Goto, Return, RwTypeOK
<1> QED
  BY <1>1, <1>2, <1>3, <1>4 DEF Next, Step

(* The pointer changes only under the write lock, when no reader is        *)
(* between its two looks.                                                  *)
LEMMA StaleNext == RwInv /\ [Next]_vars => NeverStale'
<1> SUFFICES ASSUME RwInv, [Next]_vars
             PROVE  NeverStale'
  OBVIOUS
<1> USE DEF RwInv, NeverStale
<1>1. CASE UNCHANGED vars \/ ExitFree \/ ExitDone
  BY <1>1 DEF vars, ExitFree, ExitDone
<1>2. ASSUME NEW p \in Proc, Load(p) \/ PrintFirst(p)
      PROVE  NeverStale'
  BY <1>2 DEF Load, PrintFirst, At, Goto, RwTypeOK
<1>3. ASSUME NEW p \in Proc, Ioctl(p) \/ ReadAcquire(p) \/ PrintAgain(p)
                \/ WriteAcquire(p) \/ Alloc(p) \/ Free(p) \/ Unlock(p) \/ Fault(p)
      PROVE  NeverStale'
  BY <1>3 DEF Ioctl, ReadAcquire, PrintAgain, WriteAcquire, Alloc, Free, Unlock,
              Fault, At, Goto, Return, RwTypeOK
<1>4. ASSUME NEW p \in Proc, Swap(p)
      PROVE  NeverStale'
  <2>1. pc[p] = "swap" /\ pc' = [pc EXCEPT ![p] = "free"]
    BY <1>4 DEF Swap, At, Goto
  <2>2. sharing = {}
    BY <2>1 DEF LockInv, Writing
  <2>3. \A q \in Proc : pc'[q] \notin {"print", "again"}
    BY <2>1, <2>2 DEF LockInv, Reading, RwTypeOK
  <2> QED
    BY <2>3
<1> QED
  BY <1>1, <1>2, <1>3, <1>4 DEF Next, Step

(* Until exit has freed the number no process meets a freed one.           *)
LEMMA SafeNext == RwInv /\ [Next]_vars => NoUseAfterFree'
<1> SUFFICES ASSUME RwInv, [Next]_vars
             PROVE  NoUseAfterFree'
  OBVIOUS
<1> USE DEF RwInv, NoUseAfterFree
<1>1. CASE UNCHANGED vars \/ ExitFree \/ ExitDone
  BY <1>1 DEF vars, ExitFree, ExitDone
<1>2. ASSUME NEW p \in Proc, Step(p), ~Fault(p)
      PROVE  NoUseAfterFree'
  BY <1>2 DEF Step, Ioctl, ReadAcquire, Load, PrintFirst, PrintAgain,
              WriteAcquire, Alloc, Swap, Free, Unlock
<1>3. ASSUME NEW p \in Proc, Fault(p)
      PROVE  NoUseAfterFree'
  <2>1. pc[p] \in {"print", "again"} => p \in Readers
    BY <1>3 DEF RoleInv
  <2>2. module # "live"
    BY <1>3, <2>1 DEF Fault, At, CellInv, NeverStale
  <2> QED
    BY <1>3, <2>2 DEF Fault
<1> QED
  BY <1>1, <1>2, <1>3 DEF Next

(* Cells are used, replaced and freed by the holder of the write lock      *)
(* only, as long as exit does not free one.                                *)
LEMMA CellNext == RwInv /\ [Next]_vars => CellInv'
<1> SUFFICES ASSUME RwInv, [Next]_vars
             PROVE  CellInv'
  OBVIOUS
<1> USE DEF RwInv
<1>1. CASE UNCHANGED vars
  BY <1>1 DEF vars, CellInv, Live
<1>2. CASE ExitFree \/ ExitDone
  BY <1>2 DEF ExitFree, ExitDone, CellInv
<1>3. ASSUME NEW p \in Proc, Ioctl(p) \/ ReadAcquire(p) \/ Load(p)
                \/ PrintFirst(p) \/ PrintAgain(p) \/ Fault(p)
                \/ WriteAcquire(p) \/ Unlock(p)
      PROVE  CellInv'
  <2>1. /\ UNCHANGED <<my_data, heap, new, module>>
        /\ \A q \in Proc : /\ pc'[q] \in {"swap", "free"} => pc[q] = pc'[q]
                           /\ pc'[q] = "free" => old'[q] = old[q]
    BY <1>3 DEF Ioctl, ReadAcquire, Load, PrintFirst, PrintAgain, Fault,
                WriteAcquire, Unlock, At, Goto, Return, RwTypeOK
  <2> QED
    BY <2>1 DEF CellInv, Live
<1>4. ASSUME NEW p \in Proc, Alloc(p) \/ Swap(p) \/ Free(p)
      PROVE  CellInv'
  <2>1. \A q \in Proc \ {p} : ~Writing(q) /\ pc'[q] = pc[q]
    BY <1>4 DEF Alloc, Swap, Free, At, Goto, LockInv, Writing, RwTypeOK
  <2>2. module' = module
    BY <1>4 DEF Alloc, Swap, Free
  <2>3. CASE Alloc(p)
    <3>1. PICK c \in Cell : /\ heap[c] = NULL
                            /\ heap' = [heap EXCEPT ![c] = i[p]]
                            /\ new' = [new EXCEPT ![p] = c]
      BY <2>3 DEF Alloc
    <3>2. heap'[c] # NULL /\ new'[p] = c /\ \A x \in Cell \ {c} : heap'[x] = heap[x]
      BY <3>1 DEF RwTypeOK
    <3>3. my_data' = my_data /\ pc'[p] = "swap" /\ my_data \in Cell
      BY <2>3 DEF Alloc, Goto, RwTypeOK
    <3>4. module = "live" => my_data # c
      BY <3>1 DEF CellInv, Live
    <3> QED
      BY <2>1, <2>2, <3>2, <3>3, <3>4 DEF CellInv, Live, Writing
  <2>4. CASE Swap(p)
    <3>1. /\ pc[p] = "swap" /\ pc'[p] = "free"
          /\ old'[p] = my_data /\ my_data' = new[p] /\ heap' = heap
      BY <2>4 DEF Swap, At, Goto, RwTypeOK
    <3> QED
      BY <2>1, <2>2, <3>1 DEF CellInv, Live, Writing
  <2>5. CASE Free(p)
    <3>1. /\ pc[p] = "free" /\ pc'[p] = "unlock"
          /\ my_data' = my_data /\ my_data \in Cell
          /\ \A x \in Cell : heap'[x] = IF x = old[p] THEN NULL ELSE heap[x]
      BY <2>5 DEF Free, Freed, At, Goto, RwTypeOK
    <3> QED
      BY <2>1, <2>2, <3>1 DEF CellInv, Live, Writing
  <2> QED
    BY <1>4, <2>3, <2>4, <2>5
<1> QED
  BY <1>1, <1>2, <1>3, <1>4 DEF Next, Step

-----------------------------------------------------------------------------
THEOREM RwInvariance == Spec => []RwInv
<1>1. RwInv /\ [Next]_vars => RwInv'
  BY TypeNext, LockNext, RoleNext, CellNext, StaleNext, SafeNext DEF RwInv
<1> QED
  BY <1>1, RwInit, PTL DEF Spec

(* The variables of simple_rwlock always have their types.                 *)
THEOREM RwTypeCorrect == Spec => []RwTypeOK
  BY RwInvariance, PTL DEF RwInv

(* What a reader prints is the number at that moment, also half a second   *)
(* after it took the pointer: no writer comes between.                     *)
THEOREM ReadsCurrent == Spec => []NeverStale
  BY RwInvariance, PTL DEF RwInv

(* The immediate kfree of the writer frees nothing a reader looks at and   *)
(* nothing twice, until simple_rcu_exit frees the number without the lock. *)
THEOREM LockProtects == Spec => []NoUseAfterFree
  BY RwInvariance, PTL DEF RwInv

-----------------------------------------------------------------------------
(* simple_rwlock implements SharedRegister.  While the number is there it  *)
(* is a value, and every reader under way shows it.                        *)
Looking(p) == pc[p] \in {"print", "again"}

OneNumber ==
    module = "live" =>
        /\ Number = heap[my_data] /\ Number \in Value /\ Number # Nothing
        /\ Shown = [p \in Proc |-> IF Looking(p) THEN Number ELSE Nothing]

LEMMA ReadersShowNumber == RwInv => OneNumber
<1> SUFFICES ASSUME RwInv, module = "live"
             PROVE  /\ Number = heap[my_data] /\ Number \in Value
                    /\ Number # Nothing
                    /\ Shown = [p \in Proc |->
                                   IF Looking(p) THEN Number ELSE Nothing]
  BY DEF OneNumber
<1>1. heap[my_data] \in Value
  BY DEF RwInv, CellInv, Live, RwTypeOK
<1>2. Number = heap[my_data] /\ Number \in Value /\ Number # Nothing
  BY <1>1 DEF Number, Value, Nothing
<1>3. \A p \in Proc : Looking(p) => old[p] = my_data
  BY DEF RwInv, RoleInv, NeverStale, Looking
<1> QED
  BY <1>2, <1>3 DEF Shown, Looking

LEMMA RegisterInit == Init => Register!Init
<1> SUFFICES ASSUME Init
             PROVE  Register!Init
  OBVIOUS
<1>1. Number = 0
  BY DEF Init, Number
<1>2. Shown = [p \in Proc |-> Nothing]
  BY DEF Init, Shown
<1> QED
  BY <1>1, <1>2 DEF Register!Init

LEMMA RegisterNext ==
    RwInv /\ OneNumber /\ OneNumber' /\ [Next]_vars
        => [Register!Next]_(Register!vars)
<1> SUFFICES ASSUME RwInv, OneNumber, OneNumber', [Next]_vars
             PROVE  Register!Next \/ UNCHANGED <<Number, Shown>>
  BY DEF Register!vars
<1>1. CASE UNCHANGED vars
  BY <1>1 DEF vars, Number, Shown
<1>2. CASE module # "live"
  <2>1. module' # "live"
    BY <1>2 DEF Next, ExitFree, ExitDone, Step, Ioctl, ReadAcquire, Load,
       PrintFirst, PrintAgain, WriteAcquire, Alloc, Swap, Free, Unlock, Fault, vars
  <2> QED
    BY <1>2, <2>1 DEF Number, Shown
<1>3. CASE ExitFree
  <2>1. module' # "live"
    BY <1>3 DEF ExitFree
  <2>2. Register!Remove
    BY <2>1 DEF Register!Remove, Number, Shown
  <2> QED
    BY <2>2 DEF Register!Next
<1>4. ASSUME NEW p \in Proc, Step(p), module = "live"
      PROVE  Register!Next \/ UNCHANGED <<Number, Shown>>
  <2>0. module' = "live"
    BY <1>4 DEF Step, Ioctl, ReadAcquire, Load, PrintFirst, PrintAgain,
                WriteAcquire, Alloc, Swap, Free, Unlock, Fault
  <2>1. /\ Number = heap[my_data] /\ Number \in Value /\ Number # Nothing
        /\ Shown = [q \in Proc |-> IF Looking(q) THEN Number ELSE Nothing]
    BY <1>4 DEF OneNumber
  <2>2. /\ Number' = heap'[my_data'] /\ Number' \in Value
        /\ Shown' = [q \in Proc |-> IF Looking(q)' THEN Number' ELSE Nothing]
    BY <2>0 DEF OneNumber
  <2>3. CASE Load(p)
    <3>1. /\ pc[p] = "load" /\ pc' = [pc EXCEPT ![p] = "print"]
          /\ UNCHANGED <<my_data, heap>>
      BY <2>3 DEF Load, At, Goto
    <3>2. Number' = Number
      BY <2>1, <2>2, <3>1
    <3>3. ~Looking(p) /\ Looking(p)' /\ \A q \in Proc \ {p} : Looking(q)' <=> Looking(q)
      BY <3>1 DEF Looking, RwInv, RwTypeOK
    <3>4. Shown[p] = Nothing /\ Shown' = [Shown EXCEPT ![p] = Number]
      BY <2>1, <2>2, <3>2, <3>3
    <3> QED
      BY <2>1, <3>2, <3>4 DEF Register!Next, Register!BeginRead
  <2>4. CASE PrintAgain(p)
    <3>1. /\ pc[p] = "again" /\ pc' = [pc EXCEPT ![p] = "user"]
          /\ UNCHANGED <<my_data, heap>>
      BY <2>4 DEF PrintAgain, At, Return, Goto
    <3>2. Number' = Number
      BY <2>1, <2>2, <3>1
    <3>3. Looking(p) /\ ~Looking(p)' /\ \A q \in Proc \ {p} : Looking(q)' <=> Looking(q)
      BY <3>1 DEF Looking, RwInv, RwTypeOK
    <3>4. Shown[p] # Nothing /\ Shown' = [Shown EXCEPT ![p] = Nothing]
      BY <2>1, <2>2, <3>2, <3>3
    <3> QED
      BY <2>1, <3>2, <3>4 DEF Register!Next, Register!EndRead
  <2>5. CASE Swap(p)
    <3>1. pc[p] = "swap" /\ pc' = [pc EXCEPT ![p] = "free"]
      BY <2>5 DEF Swap, At, Goto
    <3>2. sharing = {}
      BY <3>1 DEF RwInv, LockInv, Writing
    <3>3. \A q \in Proc : ~Looking(q) /\ ~Looking(q)'
      BY <3>1, <3>2 DEF Looking, RwInv, LockInv, Reading, RwTypeOK
    <3>4. Shown' = Shown
      BY <2>1, <2>2, <3>3
    <3>5. Register!Write(Number')
      BY <2>1, <3>4 DEF Register!Write
    <3> QED
      BY <2>2, <3>5 DEF Register!Next
  <2>6. CASE Alloc(p) \/ Free(p)
    <3>1. my_data' = my_data /\ heap'[my_data] = heap[my_data]
      BY <1>4, <2>6 DEF Alloc, Free, Freed, At, Live, RwInv, CellInv, RwTypeOK
    <3>2. \A q \in Proc : Looking(q)' <=> Looking(q)
      BY <2>6 DEF Alloc, Free, At, Goto, Looking, RwInv, RwTypeOK
    <3>3. Number' = Number
      BY <2>1, <2>2, <3>1
    <3> QED
      BY <2>1, <2>2, <3>2, <3>3
  <2>7. CASE Ioctl(p) \/ ReadAcquire(p) \/ PrintFirst(p) \/ WriteAcquire(p)
                \/ Unlock(p) \/ Fault(p)
    <3>1. UNCHANGED <<my_data, heap>>
      BY <2>7 DEF Ioctl, ReadAcquire, PrintFirst, WriteAcquire, Unlock, Fault
    <3>2. \A q \in Proc : Looking(q)' <=> Looking(q)
      BY <2>7 DEF Ioctl, ReadAcquire, PrintFirst, WriteAcquire, Unlock, Fault, At,
                  Goto, Return, Looking, RwInv, RwTypeOK
    <3>3. Number' = Number
      BY <2>1, <2>2, <3>1
    <3> QED
      BY <2>1, <2>2, <3>2, <3>3
  <2> QED
    BY <1>4, <2>3, <2>4, <2>5, <2>6, <2>7 DEF Step
<1> QED
  BY <1>1, <1>2, <1>3, <1>4 DEF Next, ExitDone

(* Reads and writes of simple_rwlock are atomic, for any number of readers *)
(* and writers.                                                            *)
THEOREM RwlockIsRegister == Spec => ImplementsRegister
<1>1. Init => Register!Init
  BY RegisterInit
<1>2. RwInv /\ OneNumber /\ OneNumber' /\ [Next]_vars
        => [Register!Next]_(Register!vars)
  BY RegisterNext
<1> QED
  BY <1>1, <1>2, RwInvariance, ReadersShowNumber, PTL DEF Spec, ImplementsRegister, Register!Spec
=============================================================================
