-------------------------- MODULE SimpleRcu_proofs --------------------------
(***************************************************************************)
(* Proofs about simple_rcu, for any number of reading and writing          *)
(* processes, iterations and cells, with and without an unload.            *)
(***************************************************************************)
EXTENDS SimpleRcu, TLAPS

USE SimpleRcuAssumption DEF Proc

(* my_lock is held by the one writer between spin_lock and spin_unlock, or *)
(* by rmmod.                                                               *)
Locked(p) == pc[p] \in {"alloc", "publish", "sync", "grace", "free", "unlock"}

LockInv ==
    /\ \A p \in Proc : Locked(p) <=> lock = p
    /\ lock = Rmmod <=> module \in {"locked", "freed"}

(* Readers are at the labels of IOCTL_READ, and writers at the others.     *)
Looking == {"print", "again"}

RoleInv ==
    \A p \in Proc :
        /\ p \in Readers => pc[p] \in {"user", "read"} \cup Looking
        /\ p \in Writers => pc[p] \notin {"read"} \cup Looking
        /\ pc[p] # "user" => i[p] <= N

(* The writer inside has replaced old[p] and not freed it yet.             *)
Replaced(p) == pc[p] \in {"sync", "grace", "free"}

(* The published number, a writer's new one and its old one are different  *)
(* cells in use, and there are no others in use.                           *)
CellInv ==
    /\ my_data # NULL => Live(my_data)
    /\ my_data = NULL => Removed
    /\ \A p \in Proc :
        /\ pc[p] = "publish" => Live(new[p]) /\ new[p] # my_data
        /\ Replaced(p) => /\ old[p] # my_data
                          /\ old[p] # NULL => Live(old[p])
    /\ \A c \in Cell :
        Live(c) => \/ c = my_data
                   \/ \E p \in Proc : pc[p] = "publish" /\ new[p] = c
                   \/ \E p \in Proc : Replaced(p) /\ old[p] = c

(* A reader between its two looks has a number in use; and if it is the    *)
(* one that a writer is about to free, then the writer's grace period has  *)
(* not seen the reader yet.                                                *)
ReaderInv ==
    ~Removed =>
        \A r \in Proc : pc[r] \in Looking =>
            /\ Live(old[r])
            /\ \A w \in Proc :
                /\ pc[w] = "grace" /\ old[w] = old[r] => r \in gp[w]
                /\ pc[w] = "free" => old[w] # old[r]

RcuInv ==
    /\ RcuTypeOK /\ LockInv /\ RoleInv /\ CellInv /\ ReaderInv
    /\ NoUseAfterFree

-----------------------------------------------------------------------------
LEMMA RcuInit == Init => RcuInv
<1> SUFFICES ASSUME Init
             PROVE  RcuInv
  OBVIOUS
<1>1. PICK c \in Cell : /\ my_data = c
                        /\ heap = [x \in Cell |-> IF x = c THEN 0 ELSE NULL]
  BY DEF Init
<1>2. 0 \in Value /\ 1 \in 1..(N + 1) /\ 0 # NULL
  BY DEF Value
<1>3. RcuTypeOK
  BY <1>1, <1>2 DEF Init, RcuTypeOK, Labels
<1>4. LockInv /\ RoleInv /\ NoUseAfterFree
  BY DEF Init, LockInv, Locked, RoleInv, Looking, NoUseAfterFree
<1>5. CellInv
  BY <1>1, <1>2 DEF Init, CellInv, Live, Removed, Replaced
<1>6. ReaderInv
  BY DEF Init, ReaderInv, Looking
<1> QED
  BY <1>3, <1>4, <1>5, <1>6 DEF RcuInv

(* Types.                                                                  *)
LEMMA TypeNext == RcuInv /\ [Next]_vars => RcuTypeOK'
<1> SUFFICES ASSUME RcuInv, [Next]_vars
             PROVE  RcuTypeOK'
  OBVIOUS
<1> USE DEF RcuInv
<1>1. CASE UNCHANGED vars
  BY <1>1 DEF vars, RcuTypeOK
<1>2. CASE Exit
  BY <1>2 DEF Exit, ExitStart, ExitLock, ExitFree, ExitUnlock, RcuTypeOK,
              Freed, Value
<1>3. ASSUME NEW p \in Proc, Ioctl(p) \/ Read(p)
      PROVE  RcuTypeOK'
  <2>1. CASE Ioctl(p)
    BY <2>1 DEF Ioctl, At, Goto, RcuTypeOK, Labels
  <2>2. CASE Dereference(p) \/ PrintFirst(p)
    BY <2>2 DEF Dereference, PrintFirst, At, Goto, RcuTypeOK, Labels
  <2>3. CASE PrintAgain(p)
    BY <2>3 DEF PrintAgain, At, Return, Goto, RcuTypeOK, Labels, RoleInv
  <2>4. CASE Fault(p)
    BY <2>4 DEF Fault, RcuTypeOK
  <2> QED
    BY <1>3, <2>1, <2>2, <2>3, <2>4 DEF Read
<1>4. ASSUME NEW p \in Proc, Acquire(p) \/ Publish(p) \/ StartGrace(p)
                \/ EndGrace(p) \/ Free(p) \/ Unlock(p)
      PROVE  RcuTypeOK'
  BY <1>4 DEF Acquire, Publish, StartGrace, EndGrace, Free, Unlock, At, Goto,
              Return, RcuTypeOK, Labels, RoleInv, Freed, Released, GraceOver
<1>5. ASSUME NEW p \in Proc, Alloc(p)
      PROVE  RcuTypeOK'
  <2>1. i[p] \in Value
    BY <1>5 DEF Alloc, At, RcuTypeOK, RoleInv, Value
  <2> QED
    BY <1>5, <2>1 DEF Alloc, At, Goto, RcuTypeOK, Labels
<1>6. ASSUME NEW p \in Proc, NEW q \in Proc \cup {Rmmod}, See(p, q)
      PROVE  RcuTypeOK'
  BY <1>6 DEF See, RcuTypeOK
<1> QED
  BY <1>1, <1>2, <1>3, <1>4, <1>5, <1>6 DEF Next, Step, Write

(* my_lock.                                                                *)
LEMMA LockNext == RcuInv /\ [Next]_vars => LockInv'
<1> SUFFICES ASSUME RcuInv, [Next]_vars
             PROVE  LockInv'
  OBVIOUS
<1> USE DEF RcuInv, LockInv, Locked
<1>1. CASE UNCHANGED vars
  BY <1>1 DEF vars
<1>2. CASE Exit
  BY <1>2 DEF Exit, ExitStart, ExitLock, ExitFree, ExitUnlock
<1>3. ASSUME NEW p \in Proc, Ioctl(p) \/ Read(p)
      PROVE  LockInv'
  BY <1>3 DEF Ioctl, Read, Dereference, PrintFirst, PrintAgain, Fault, At,
              Goto, Return, RcuTypeOK
<1>4. ASSUME NEW p \in Proc, Acquire(p) \/ Unlock(p)
      PROVE  LockInv'
  BY <1>4 DEF Acquire, Unlock, At, Goto, Return, RcuTypeOK, Released
<1>5. ASSUME NEW p \in Proc,
             Alloc(p) \/ Publish(p) \/ StartGrace(p) \/ EndGrace(p) \/ Free(p)
      PROVE  LockInv'
  BY <1>5 DEF Alloc, Publish, StartGrace, EndGrace, Free, At, Goto, RcuTypeOK
<1>6. ASSUME NEW p \in Proc, NEW q \in Proc \cup {Rmmod}, See(p, q)
      PROVE  LockInv'
  BY <1>6 DEF See
<1> QED
  BY <1>1, <1>2, <1>3, <1>4, <1>5, <1>6 DEF Next, Step, Write

(* The two kinds of processes, and their loops.                            *)
LEMMA RoleNext == RcuInv /\ [Next]_vars => RoleInv'
<1> SUFFICES ASSUME RcuInv, [Next]_vars
             PROVE  RoleInv'
  OBVIOUS
<1> USE DEF RcuInv, RoleInv, Looking
<1>1. CASE UNCHANGED vars
  BY <1>1 DEF vars
<1>2. CASE Exit
  BY <1>2 DEF Exit, ExitStart, ExitLock, ExitFree, ExitUnlock
<1>3. ASSUME NEW p \in Proc, Ioctl(p)
      PROVE  RoleInv'
  BY <1>3 DEF Ioctl, Continues, At, Goto, RcuTypeOK
<1>4. ASSUME NEW p \in Proc, Read(p)
      PROVE  RoleInv'
  BY <1>4 DEF Read, Dereference, PrintFirst, PrintAgain, Fault, At, Goto,
              Return, RcuTypeOK
<1>5. ASSUME NEW p \in Proc, Acquire(p) \/ Alloc(p) \/ Publish(p)
                \/ StartGrace(p) \/ EndGrace(p) \/ Free(p) \/ Unlock(p)
      PROVE  RoleInv'
  BY <1>5 DEF Acquire, Alloc, Publish, StartGrace, EndGrace, Free, Unlock, At,
              Goto, Return, RcuTypeOK
<1>6. ASSUME NEW p \in Proc, NEW q \in Proc \cup {Rmmod}, See(p, q)
      PROVE  RoleInv'
  BY <1>6 DEF See
<1> QED
  BY <1>1, <1>2, <1>3, <1>4, <1>5, <1>6 DEF Next, Step, Write

(* Use after free is the fault of a reader that holds a freed number.      *)
LEMMA SafeNext == RcuInv /\ [Next]_vars => NoUseAfterFree'
<1> SUFFICES ASSUME RcuInv, [Next]_vars
             PROVE  NoUseAfterFree'
  OBVIOUS
<1> USE DEF RcuInv, NoUseAfterFree, Removed
<1>1. CASE UNCHANGED vars
  BY <1>1 DEF vars
<1>2. CASE Exit
  BY <1>2 DEF Exit, ExitStart, ExitLock, ExitFree, ExitUnlock
<1>3. ASSUME NEW p \in Proc, Step(p), ~Fault(p)
      PROVE  NoUseAfterFree'
  BY <1>3 DEF Step, Ioctl, Read, Dereference, PrintFirst, PrintAgain, Write,
              Acquire, Alloc, Publish, StartGrace, See, EndGrace, Free, Unlock
<1>4. ASSUME NEW p \in Proc, Fault(p)
      PROVE  NoUseAfterFree'
  BY <1>4 DEF Fault, At, ReaderInv, Looking
<1> QED
  BY <1>1, <1>2, <1>3, <1>4 DEF Next

(* Cells are used, replaced and freed by the holder of my_lock only.       *)
LEMMA CellNext == RcuInv /\ [Next]_vars => CellInv'
<1> SUFFICES ASSUME RcuInv, [Next]_vars
             PROVE  CellInv'
  OBVIOUS
<1> USE DEF RcuInv
<1>1. CASE UNCHANGED vars
  BY <1>1 DEF vars, CellInv, Live, Removed, Replaced
<1>2. CASE ExitStart \/ ExitLock \/ ExitUnlock
  BY <1>2 DEF ExitStart, ExitLock, ExitUnlock, CellInv, Live, Removed, Replaced
<1>3. CASE ExitFree
  <2>1. lock = Rmmod /\ \A p \in Proc : ~Locked(p)
    BY <1>3 DEF ExitFree, LockInv
  <2>2. \A p \in Proc : pc'[p] # "publish" /\ ~Replaced(p)'
    BY <1>3, <2>1 DEF ExitFree, Locked, Replaced
  <2>3. \A c \in Cell : heap'[c] = IF c = my_data THEN NULL ELSE heap[c]
    BY <1>3 DEF ExitFree, Freed
  <2>4. my_data' = NULL /\ Removed'
    BY <1>3 DEF ExitFree, Removed
  <2>5. \A c \in Cell : ~Live(c)'
    BY <1>3, <2>1, <2>3 DEF CellInv, Live, Locked, Replaced
  <2> QED
    BY <2>2, <2>4, <2>5 DEF CellInv
<1>4. ASSUME NEW p \in Proc, Ioctl(p) \/ Read(p) \/ Acquire(p)
      PROVE  CellInv'
  <2>1. /\ UNCHANGED <<my_data, heap, new, module>>
        /\ pc[p] \notin {"publish", "sync", "grace", "free"}
        /\ pc' = pc \/ \E l \in {"read", "lock", "print", "again", "user", "alloc"} :
                            pc' = [pc EXCEPT ![p] = l]
        /\ old' = old \/ old' = [old EXCEPT ![p] = my_data]
    BY <1>4 DEF Ioctl, Read, Dereference, PrintFirst, PrintAgain, Fault, Acquire,
                At, Goto, Return
  <2> QED
    BY <2>1 DEF CellInv, Live, Removed, Replaced, RcuTypeOK
<1>5. ASSUME NEW p \in Proc, Alloc(p)
      PROVE  CellInv'
  <2>1. PICK c \in Cell : /\ heap[c] = NULL
                          /\ heap' = [heap EXCEPT ![c] = i[p]]
                          /\ new' = [new EXCEPT ![p] = c]
    BY <1>5 DEF Alloc
  <2>2. i[p] # NULL /\ c # NULL
    BY DEF RcuTypeOK
  <2>3. /\ pc' = [pc EXCEPT ![p] = "publish"] /\ pc[p] = "alloc"
        /\ UNCHANGED <<my_data, old, module>>
    BY <1>5 DEF Alloc, At, Goto
  <2>4. \A x \in Cell \ {c} : heap'[x] = heap[x]
    BY <2>1 DEF RcuTypeOK
  <2>5. heap'[c] = i[p] /\ new'[p] = c
    BY <2>1 DEF RcuTypeOK
  <2>6. \A q \in Proc \ {p} : ~Locked(q)
    BY <2>3 DEF LockInv, Locked
  <2>7. \A q \in Proc : /\ ~Replaced(q) /\ pc[q] # "publish"
                        /\ ~Replaced(q)'
                        /\ pc'[q] = "publish" => q = p
    BY <2>3, <2>6 DEF Locked, Replaced, RcuTypeOK
  <2>8. my_data # NULL => my_data \in Cell \ {c} /\ Live(my_data)
    BY <2>1 DEF CellInv, Live, RcuTypeOK
  <2>9. \A x \in Cell : Live(x) => x = my_data
    BY <2>7 DEF CellInv
  <2>10. pc'[p] = "publish"
    BY <2>3 DEF RcuTypeOK
  <2>11. Live(c)'
    BY <2>2, <2>5 DEF Live
  <2> QED
    BY <2>2, <2>3, <2>4, <2>5, <2>7, <2>8, <2>9, <2>10, <2>11
       DEF CellInv, Live, Removed
<1>6. ASSUME NEW p \in Proc, Publish(p)
      PROVE  CellInv'
  <2>1. /\ pc' = [pc EXCEPT ![p] = "sync"] /\ pc[p] = "publish"
        /\ old' = [old EXCEPT ![p] = my_data]
        /\ my_data' = new[p]
        /\ UNCHANGED <<heap, new, module>>
    BY <1>6 DEF Publish, At, Goto
  <2>2. \A q \in Proc \ {p} : ~Locked(q)
    BY <2>1 DEF LockInv, Locked
  <2>3. \A q \in Proc : /\ ~Replaced(q)
                        /\ pc[q] = "publish" => q = p
                        /\ pc'[q] # "publish"
                        /\ Replaced(q)' => q = p
    BY <2>1, <2>2 DEF Locked, Replaced, RcuTypeOK
  <2>4. Replaced(p)' /\ old'[p] = my_data
    BY <2>1 DEF Replaced, RcuTypeOK
  <2>5. Live(new[p]) /\ new[p] # my_data /\ (my_data # NULL => Live(my_data))
    BY <2>1 DEF CellInv
  <2>6. \A x \in Cell : Live(x) => x = my_data \/ x = new[p]
    BY <2>3 DEF CellInv
  <2> QED
    BY <2>1, <2>3, <2>4, <2>5, <2>6 DEF CellInv, Live, Removed
<1>7. ASSUME NEW p \in Proc, StartGrace(p) \/ EndGrace(p)
      PROVE  CellInv'
  BY <1>7 DEF StartGrace, EndGrace, At, Goto, CellInv, Live, Removed, Replaced,
              RcuTypeOK
<1>8. ASSUME NEW p \in Proc, NEW q \in Proc \cup {Rmmod}, See(p, q)
      PROVE  CellInv'
  BY <1>8 DEF See, CellInv, Live, Removed, Replaced
<1>9. ASSUME NEW p \in Proc, Free(p)
      PROVE  CellInv'
  <2>1. /\ pc' = [pc EXCEPT ![p] = "unlock"] /\ pc[p] = "free"
        /\ UNCHANGED <<my_data, new, old, module>>
    BY <1>9 DEF Free, At, Goto
  <2>2. \A x \in Cell : heap'[x] = IF x = old[p] THEN NULL ELSE heap[x]
    BY <1>9 DEF Free, Freed
  <2>3. \A q \in Proc \ {p} : ~Locked(q)
    BY <2>1 DEF LockInv, Locked
  <2>4. \A q \in Proc : /\ Replaced(q) => q = p
                        /\ pc[q] # "publish" /\ pc'[q] # "publish"
                        /\ ~Replaced(q)'
    BY <2>1, <2>3 DEF Locked, Replaced, RcuTypeOK
  <2>5. my_data # old[p] /\ (my_data # NULL => Live(my_data))
    BY <2>1 DEF CellInv, Replaced
  <2>6. \A x \in Cell : Live(x) => x = my_data \/ x = old[p]
    BY <2>4 DEF CellInv
  <2> QED
    BY <2>1, <2>2, <2>4, <2>5, <2>6 DEF CellInv, Live, Removed, RcuTypeOK
<1>10. ASSUME NEW p \in Proc, Unlock(p)
       PROVE  CellInv'
  BY <1>10 DEF Unlock, At, Goto, Return, CellInv, Live, Removed, Replaced,
               RcuTypeOK
<1> QED
  BY <1>1, <1>2, <1>3, <1>4, <1>5, <1>6, <1>7, <1>8, <1>9, <1>10
     DEF Next, Exit, Step, Write

(* The grace period: what a writer frees, no reader holds.                 *)
LEMMA ReaderNext == RcuInv /\ [Next]_vars => ReaderInv'
<1> SUFFICES ASSUME RcuInv, [Next]_vars, ~Removed',
                    NEW r \in Proc, pc'[r] \in Looking
             PROVE  /\ Live(old[r])'
                    /\ \A w \in Proc :
                        /\ pc'[w] = "grace" /\ old'[w] = old'[r] => r \in gp'[w]
                        /\ pc'[w] = "free" => old'[w] # old'[r]
  BY DEF ReaderInv
<1> USE DEF RcuInv
<1>0. ~Removed
  BY DEF Removed, Next, Exit, ExitStart, ExitLock, ExitFree, ExitUnlock, Step,
         Ioctl, Read, Dereference, PrintFirst, PrintAgain, Fault, Write,
         Acquire, Alloc, Publish, StartGrace, See, EndGrace, Free, Unlock, vars
<1> DEFINE Covered ==
        /\ Live(old[r])
        /\ \A w \in Proc :
            /\ pc[w] = "grace" /\ old[w] = old[r] => r \in gp[w]
            /\ pc[w] = "free" => old[w] # old[r]
<1>11. pc[r] \in Looking => Covered
  BY <1>0 DEF ReaderInv
<1>1. CASE UNCHANGED vars \/ ExitStart \/ ExitLock \/ ExitUnlock
  BY <1>1, <1>11 DEF vars, ExitStart, ExitLock, ExitUnlock, Live
<1>2. CASE ExitFree
  BY <1>2 DEF ExitFree, Removed
<1>3. ASSUME NEW p \in Proc, Ioctl(p) \/ PrintFirst(p) \/ PrintAgain(p)
                \/ Fault(p) \/ Acquire(p) \/ Unlock(p)
      PROVE  Covered'
  <2>1. /\ UNCHANGED <<heap, old, gp>>
        /\ pc[r] \in Looking
        /\ \A w \in Proc : pc'[w] \in {"grace", "free"} => pc[w] = pc'[w]
    BY <1>3 DEF Ioctl, PrintFirst, PrintAgain, Fault, Acquire, Unlock, At, Goto,
                Return, Looking, RcuTypeOK
  <2> QED
    BY <2>1, <1>11 DEF Live
<1>4. ASSUME NEW p \in Proc, Dereference(p)
      PROVE  Covered'
  <2>1. /\ pc' = [pc EXCEPT ![p] = "print"] /\ pc[p] = "read"
        /\ old' = [old EXCEPT ![p] = my_data]
        /\ UNCHANGED <<heap, gp>>
    BY <1>4 DEF Dereference, At, Goto
  <2>2. \A w \in Proc : pc'[w] \in {"grace", "free"} =>
            w # p /\ pc[w] = pc'[w] /\ old'[w] = old[w] /\ old[w] # my_data
    BY <2>1 DEF RcuTypeOK, CellInv, Replaced
  <2>3. CASE r = p
    BY <1>0, <2>1, <2>2, <2>3 DEF CellInv, Live, RcuTypeOK
  <2>4. CASE r # p
    BY <2>1, <2>2, <2>4, <1>11 DEF Live, RcuTypeOK
  <2> QED
    BY <2>3, <2>4
<1>5. ASSUME NEW p \in Proc, Alloc(p)
      PROVE  Covered'
  <2>1. PICK c \in Cell : heap[c] = NULL /\ heap' = [heap EXCEPT ![c] = i[p]]
    BY <1>5 DEF Alloc
  <2>2. pc[r] \in Looking /\ UNCHANGED <<old, gp>>
        /\ \A w \in Proc : pc'[w] \in {"grace", "free"} => pc[w] = pc'[w]
    BY <1>5 DEF Alloc, At, Goto, Looking, RcuTypeOK
  <2>3. heap'[old[r]] = heap[old[r]]
    BY <2>1, <2>2, <1>11 DEF Live, RcuTypeOK
  <2> QED
    BY <2>2, <2>3, <1>11 DEF Live
<1>6. ASSUME NEW p \in Proc, Publish(p)
      PROVE  Covered'
  <2>1. /\ pc' = [pc EXCEPT ![p] = "sync"] /\ pc[p] = "publish"
        /\ old' = [old EXCEPT ![p] = my_data]
        /\ UNCHANGED <<heap, gp>>
    BY <1>6 DEF Publish, At, Goto
  <2>2. r # p
    BY <2>1 DEF Looking, RcuTypeOK
  <2> QED
    BY <2>1, <2>2, <1>11 DEF Live, RcuTypeOK
<1>7. ASSUME NEW p \in Proc, StartGrace(p)
      PROVE  Covered'
  <2>1. /\ pc' = [pc EXCEPT ![p] = "grace"]
        /\ gp' = [gp EXCEPT ![p] = (Proc \cup {Rmmod}) \ {p}]
        /\ UNCHANGED <<heap, old>>
    BY <1>7 DEF StartGrace, Goto
  <2>2. r # p /\ pc[r] \in Looking
    BY <2>1 DEF Looking, RcuTypeOK
  <2> QED
    BY <2>1, <2>2, <1>11 DEF Live, RcuTypeOK
<1>8. ASSUME NEW p \in Proc, NEW q \in Proc \cup {Rmmod}, See(p, q)
      PROVE  Covered'
  <2>1. /\ gp' = [gp EXCEPT ![p] = @ \ {q}]
        /\ UNCHANGED <<heap, pc, old, module>>
    BY <1>8 DEF See
  <2>2. r # q
    BY <1>8, <2>1 DEF See, Quiescent, Looking
  <2> QED
    BY <2>1, <2>2, <1>11 DEF Live, RcuTypeOK
<1>9. ASSUME NEW p \in Proc, EndGrace(p)
      PROVE  Covered'
  <2>1. /\ pc' = [pc EXCEPT ![p] = "free"] /\ pc[p] = "grace"
        /\ gp[p] = {} /\ gp' = [gp EXCEPT ![p] = {}]
        /\ UNCHANGED <<heap, old>>
    BY <1>9 DEF EndGrace, GraceOver, At, Goto
  <2>2. r # p /\ pc[r] \in Looking
    BY <2>1 DEF Looking, RcuTypeOK
  <2> QED
    BY <2>1, <2>2, <1>11 DEF Live, RcuTypeOK
<1>10. ASSUME NEW p \in Proc, Free(p)
       PROVE  Covered'
  <2>1. /\ pc' = [pc EXCEPT ![p] = "unlock"] /\ pc[p] = "free"
        /\ UNCHANGED <<old, gp>>
    BY <1>10 DEF Free, At, Goto
  <2>2. \A x \in Cell : heap'[x] = IF x = old[p] THEN NULL ELSE heap[x]
    BY <1>10 DEF Free, Freed
  <2>3. pc[r] \in Looking
    BY <2>1 DEF Looking, RcuTypeOK
  <2>4. Covered /\ old[r] # old[p] /\ old[r] \in Cell
    BY <2>1, <2>3, <1>11 DEF Live, RcuTypeOK
  <2> QED
    BY <2>1, <2>2, <2>4 DEF Live, RcuTypeOK
<1> QED
  BY <1>1, <1>2, <1>3, <1>4, <1>5, <1>6, <1>7, <1>8, <1>9, <1>10
     DEF Next, Exit, Step, Read, Write

-----------------------------------------------------------------------------
THEOREM RcuInvariance == Spec => []RcuInv
<1>1. RcuInv /\ [Next]_vars => RcuInv'
  BY TypeNext, LockNext, RoleNext, CellNext, ReaderNext, SafeNext DEF RcuInv
<1> QED
  BY <1>1, RcuInit, PTL DEF Spec

(* The variables of simple_rcu always have their types.                    *)
THEOREM RcuTypeCorrect == Spec => []RcuTypeOK
  BY RcuInvariance, PTL DEF RcuInv

(* The grace period protects every reader, however long it takes between   *)
(* its two looks and however many writers come meanwhile, until            *)
(* simple_rcu_exit frees the number.                                       *)
THEOREM GraceProtects == Spec => []NoUseAfterFree
  BY RcuInvariance, PTL DEF RcuInv

(* No replaced number stays allocated, and none is freed twice.            *)
THEOREM NothingLeaks == Spec => []NoLeak
<1>1. RcuInv => NoLeak
  <2> SUFFICES ASSUME RcuInv, NEW c
               PROVE  c \in Cell /\ heap[c] # NULL <=>
                      /\ c # NULL
                      /\ \/ c = my_data
                         \/ \E p \in Proc : pc[p] = "publish" /\ c = new[p]
                         \/ \E p \in Proc : Replaced(p) /\ c = old[p]
    BY DEF NoLeak, Replaced
  <2>1. NULL \notin Cell
    OBVIOUS
  <2> QED
    BY <2>1 DEF RcuInv, CellInv, Live, RcuTypeOK
<1> QED
  BY <1>1, RcuInvariance, PTL

-----------------------------------------------------------------------------
(* simple_rcu implements SharedRegister.  While the number is there ...    *)
LEMMA NumberType ==
    ASSUME RcuInv, ~Removed
    PROVE  Number \in Value /\ Number # Nothing /\ my_data \in Cell
<1>1. my_data \in Cell /\ heap[my_data] \in Value
  BY DEF RcuInv, CellInv, Live, RcuTypeOK
<1> QED
  BY <1>1 DEF Number, Value, Nothing

(* ... what a reader shows is a value, and as long as its cell keeps it    *)
(* nobody sees a change.                                                   *)
LEMMA ShownType ==
    ASSUME RcuInv, ~Removed, NEW r \in Proc, pc[r] \in Looking
    PROVE  /\ Shown[r] = heap[old[r]] /\ Shown[r] # Nothing
           /\ old[r] \in Cell
<1>1. Shown[r] = heap[old[r]]
  BY DEF Shown, Looking
<1>2. old[r] \in Cell /\ heap[old[r]] \in Value
  BY DEF RcuInv, ReaderInv, Live, RcuTypeOK
<1> QED
  BY <1>1, <1>2 DEF Value, Nothing

LEMMA ShownSame ==
    ASSUME ~Removed, ~Removed',
           \A r \in Proc : /\ pc'[r] \in Looking <=> pc[r] \in Looking
                           /\ pc[r] \in Looking => heap'[old'[r]] = heap[old[r]]
    PROVE  Shown' = Shown
  BY DEF Shown, Looking

LEMMA RegisterInit == Init => Register!Init
<1> SUFFICES ASSUME Init
             PROVE  Register!Init
  OBVIOUS
<1>1. ~Removed
  BY DEF Init, Removed
<1>2. Number = 0
  BY <1>1 DEF Init, Number
<1>3. Shown = [p \in Proc |-> Nothing]
  BY DEF Init, Shown
<1> QED
  BY <1>2, <1>3 DEF Register!Init

LEMMA RegisterNext ==
    RcuInv /\ [Next]_vars => [Register!Next]_(Register!vars)
<1> SUFFICES ASSUME RcuInv, [Next]_vars
             PROVE  Register!Next \/ UNCHANGED <<Number, Shown>>
  BY DEF Register!vars
<1>1. CASE UNCHANGED vars
  BY <1>1 DEF vars, Number, Shown, Removed
<1>2. CASE Removed
  <2>1. Removed'
    BY <1>2 DEF Removed, Next, Exit, ExitStart, ExitLock, ExitFree, ExitUnlock,
           Step, Ioctl, Read, Dereference, PrintFirst, PrintAgain, Fault, Write,
           Acquire, Alloc, Publish, StartGrace, See, EndGrace, Free, Unlock, vars
  <2> QED
    BY <1>2, <2>1 DEF Number, Shown
<1>3. CASE ~Removed /\ (ExitStart \/ ExitLock \/ ExitUnlock)
  BY <1>3 DEF ExitStart, ExitLock, ExitUnlock, Number, Shown, Removed
<1>4. CASE ExitFree
  <2>1. Removed'
    BY <1>4 DEF ExitFree, Removed
  <2>2. Register!Remove
    BY <2>1 DEF Register!Remove, Number, Shown
  <2> QED
    BY <2>2 DEF Register!Next
<1>5. ASSUME NEW p \in Proc, Step(p), ~Removed
      PROVE  Register!Next \/ UNCHANGED <<Number, Shown>>
  <2>0. ~Removed'
    BY <1>5 DEF Removed, Step, Ioctl, Read, Dereference, PrintFirst, PrintAgain,
           Fault, Write, Acquire, Alloc, Publish, StartGrace, See, EndGrace,
           Free, Unlock
  <2>1. /\ Number \in Value /\ Number # Nothing /\ my_data \in Cell
        /\ Number = heap[my_data] /\ Number' = heap'[my_data']
    BY <1>5, <2>0, NumberType DEF Number
  <2>2. CASE Dereference(p)
    <3>1. /\ pc[p] = "read" /\ pc' = [pc EXCEPT ![p] = "print"]
          /\ old' = [old EXCEPT ![p] = my_data]
          /\ UNCHANGED <<my_data, heap>>
      BY <2>2 DEF Dereference, At, Goto
    <3>2. Shown' = [Shown EXCEPT ![p] = Number]
      BY <1>5, <2>0, <2>1, <3>1 DEF Shown, RcuInv, RcuTypeOK
    <3>3. Shown[p] = Nothing
      BY <3>1 DEF Shown
    <3>4. Register!BeginRead(p)
      BY <2>1, <3>1, <3>2, <3>3 DEF Register!BeginRead
    <3> QED
      BY <3>4 DEF Register!Next
  <2>3. CASE PrintAgain(p)
    <3>1. /\ pc[p] = "again" /\ pc' = [pc EXCEPT ![p] = "user"]
          /\ UNCHANGED <<my_data, heap, old>>
      BY <2>3 DEF PrintAgain, At, Return, Goto
    <3>2. Shown' = [Shown EXCEPT ![p] = Nothing]
      BY <1>5, <2>0, <3>1 DEF Shown, RcuInv, RcuTypeOK
    <3>3. Shown[p] # Nothing
      BY <1>5, <3>1, ShownType DEF Looking
    <3>4. Register!EndRead(p)
      BY <2>1, <3>1, <3>2, <3>3 DEF Register!EndRead
    <3> QED
      BY <3>4 DEF Register!Next
  <2>4. CASE Publish(p)
    <3>1. /\ pc[p] = "publish" /\ pc' = [pc EXCEPT ![p] = "sync"]
          /\ old' = [old EXCEPT ![p] = my_data]
          /\ my_data' = new[p] /\ UNCHANGED heap
      BY <2>4 DEF Publish, At, Goto
    <3>2. heap[new[p]] \in Value
      BY <3>1 DEF RcuInv, CellInv, Live, RcuTypeOK
    <3>3. Shown' = Shown
      BY <1>5, <2>0, <3>1, ShownSame DEF Looking, RcuInv, RcuTypeOK
    <3>4. Register!Write(heap[new[p]])
      BY <2>1, <3>1, <3>3 DEF Register!Write
    <3> QED
      BY <3>2, <3>4 DEF Register!Next
  <2>5. CASE Alloc(p)
    <3>1. PICK c \in Cell : heap[c] = NULL /\ heap' = [heap EXCEPT ![c] = i[p]]
      BY <2>5 DEF Alloc
    <3>2. /\ pc[p] = "alloc" /\ pc' = [pc EXCEPT ![p] = "publish"]
          /\ UNCHANGED <<my_data, old>>
      BY <2>5 DEF Alloc, At, Goto
    <3>3. my_data # c /\ \A r \in Proc : pc[r] \in Looking => old[r] # c
      BY <1>5, <3>1, <2>1 DEF RcuInv, CellInv, ReaderInv, Live
    <3>4. Number' = Number
      BY <2>1, <3>1, <3>2, <3>3 DEF RcuInv, RcuTypeOK
    <3>5. Shown' = Shown
      <4>1. \A r \in Proc : pc[r] \in Looking => heap'[old'[r]] = heap[old[r]]
        BY <1>5, <3>1, <3>2, <3>3, ShownType DEF RcuInv, RcuTypeOK
      <4> QED
        BY <1>5, <2>0, <3>2, <4>1, ShownSame DEF Looking, RcuInv, RcuTypeOK
    <3> QED
      BY <3>4, <3>5
  <2>6. CASE Free(p)
    <3>1. \A x \in Cell : heap'[x] = IF x = old[p] THEN NULL ELSE heap[x]
      BY <2>6 DEF Free, Freed
    <3>2. /\ pc[p] = "free" /\ pc' = [pc EXCEPT ![p] = "unlock"]
          /\ UNCHANGED <<my_data, old>>
      BY <2>6 DEF Free, At, Goto
    <3>3. /\ my_data # old[p]
          /\ \A r \in Proc : pc[r] \in Looking => old[r] # old[p]
      BY <1>5, <3>2 DEF RcuInv, CellInv, ReaderInv, Replaced
    <3>4. Number' = Number
      BY <2>1, <3>1, <3>2, <3>3
    <3>5. Shown' = Shown
      <4>1. \A r \in Proc : pc[r] \in Looking => heap'[old'[r]] = heap[old[r]]
        BY <1>5, <3>1, <3>2, <3>3, ShownType
      <4> QED
        BY <1>5, <2>0, <3>2, <4>1, ShownSame DEF Looking, RcuInv, RcuTypeOK
    <3> QED
      BY <3>4, <3>5
  <2>7. CASE Fault(p)
    BY <1>5, <2>7 DEF Fault, At, RcuInv, ReaderInv, Looking
  <2>8. CASE \/ Ioctl(p) \/ PrintFirst(p) \/ Acquire(p) \/ StartGrace(p)
             \/ EndGrace(p) \/ Unlock(p)
             \/ \E q \in Proc \cup {Rmmod} : See(p, q)
    <3>1. /\ UNCHANGED <<my_data, heap, old>>
          /\ \A r \in Proc : pc'[r] \in Looking <=> pc[r] \in Looking
      BY <2>8 DEF Ioctl, PrintFirst, Acquire, StartGrace, EndGrace, Unlock, See,
                  At, Goto, Return, Looking, RcuInv, RcuTypeOK
    <3>2. Shown' = Shown
      BY <1>5, <2>0, <3>1, ShownSame
    <3> QED
      BY <2>1, <3>1, <3>2
  <2> QED
    BY <1>5, <2>2, <2>3, <2>4, <2>5, <2>6, <2>7, <2>8 DEF Step, Read, Write
<1> QED
  BY <1>1, <1>2, <1>3, <1>4, <1>5 DEF Next, Exit

(* A read shows, at both its looks, the number that was there when it      *)
(* began, and writes are atomic, for any number of readers and writers.    *)
THEOREM RcuIsRegister == Spec => ImplementsRegister
<1>1. Init => Register!Init
  BY RegisterInit
<1>2. RcuInv /\ [Next]_vars => [Register!Next]_(Register!vars)
  BY RegisterNext
<1> QED
  BY <1>1, <1>2, RcuInvariance, PTL DEF Spec, ImplementsRegister, Register!Spec
=============================================================================
