---------------------------- MODULE SimpleRwlock ----------------------------
(***************************************************************************)
(* Lab11/simple_rwlock: the number of simple_rcu behind a reader-writer    *)
(* spinlock.  Each application of simple_rwlock_app has a processor of its *)
(* own.  simple_rcu_exit takes no lock, and since the file_operations have *)
(* no owner it can run while a process is inside ioctl.                    *)
(***************************************************************************)
EXTENDS Integers

CONSTANTS
    Readers, Writers,   \* processes running "app 1 N" and "app 2 N"
    N,                  \* their number of iterations
    Cell,               \* memory that kmalloc hands out
    CanUnload,          \* may rmmod run?
    NULL

Proc == Readers \cup Writers

ASSUME SimpleRwlockAssumption ==
    /\ Readers \cap Writers = {}
    /\ N \in Nat
    /\ CanUnload \in BOOLEAN
    /\ NULL \notin Proc \cup Cell \cup Nat

(* 0, and the loop counter i of the application. *)
Value == 0..N

VARIABLES
    sharing,    \* the holders of read_lock
    writer,     \* the holder of write_lock, or NULL
    my_data,
    heap,       \* the number in every cell, NULL when the cell is free
    pc,         \* where each process is; "user" is outside the driver
    new, old,   \* the locals of simple_ioctl
    i,          \* loop counter of each application
    module,     \* "live"; "freed" once exit has freed my_data; "gone"
    oops        \* a freed cell was dereferenced or freed again

vars == <<sharing, writer, my_data, heap, pc, new, old, i, module, oops>>

Labels == {"user", "rlock", "load", "print", "again",
           "wlock", "alloc", "swap", "free", "unlock"}

Init ==
    /\ sharing = {}
    /\ writer = NULL
    /\ \E c \in Cell :
        /\ my_data = c
        /\ heap = [x \in Cell |-> IF x = c THEN 0 ELSE NULL]
    /\ pc = [p \in Proc |-> "user"]
    /\ new = [p \in Proc |-> NULL]
    /\ old = [p \in Proc |-> NULL]
    /\ i = [p \in Proc |-> 1]
    /\ module = "live"
    /\ oops = FALSE

At(p, l) == pc[p] = l /\ ~oops

Goto(p, l) == pc' = [pc EXCEPT ![p] = l]

Live(c) == heap[c] # NULL

(* The application's loop goes on.                                         *)
Continues(p) == i[p] <= N

Ioctl(p) ==
    /\ At(p, "user")
    /\ Continues(p)
    /\ module # "gone"
    /\ Goto(p, IF p \in Readers THEN "rlock" ELSE "wlock")
    /\ UNCHANGED <<sharing, writer, my_data, heap, new, old, i, module, oops>>

(* Back in user mode, the application counts the iteration.                *)
Return(p) ==
    /\ Goto(p, "user")
    /\ i' = [i EXCEPT ![p] = @ + 1]

-----------------------------------------------------------------------------
(* Mutant: readers do not wait for the writer.                             *)
Anyway == TRUE

NoWriter == writer = NULL

(* read_lock_irqsave *)
ReadAcquire(p) ==
    /\ At(p, "rlock")
    /\ NoWriter
    /\ sharing' = sharing \cup {p}
    /\ Goto(p, "load")
    /\ UNCHANGED <<writer, my_data, heap, new, old, i, module, oops>>

Load(p) ==
    /\ At(p, "load")
    /\ old' = [old EXCEPT ![p] = my_data]
    /\ Goto(p, "print")
    /\ UNCHANGED <<sharing, writer, my_data, heap, new, i, module, oops>>

PrintFirst(p) ==
    /\ At(p, "print")
    /\ Live(old[p])
    /\ Goto(p, "again")
    /\ UNCHANGED <<sharing, writer, my_data, heap, new, old, i, module, oops>>

(* The second look at *old, after the delay, then read_unlock.             *)
PrintAgain(p) ==
    /\ At(p, "again")
    /\ Live(old[p])
    /\ sharing' = sharing \ {p}
    /\ Return(p)
    /\ UNCHANGED <<writer, my_data, heap, new, old, module, oops>>

-----------------------------------------------------------------------------
(* Mutant: the writer does not wait for the readers.                       *)
NoOtherWriter == writer = NULL

Unlocked == writer = NULL /\ sharing = {}

(* write_lock_irqsave *)
WriteAcquire(p) ==
    /\ At(p, "wlock")
    /\ Unlocked
    /\ writer' = p
    /\ Goto(p, "alloc")
    /\ UNCHANGED <<sharing, my_data, heap, new, old, i, module, oops>>

(* kmalloc and *new = arg. *)
Alloc(p) ==
    /\ At(p, "alloc")
    /\ \E c \in Cell :
        /\ heap[c] = NULL
        /\ heap' = [heap EXCEPT ![c] = i[p]]
        /\ new' = [new EXCEPT ![p] = c]
    /\ Goto(p, "swap")
    /\ UNCHANGED <<sharing, writer, my_data, old, i, module, oops>>

Swap(p) ==
    /\ At(p, "swap")
    /\ old' = [old EXCEPT ![p] = my_data]
    /\ my_data' = new[p]
    /\ Goto(p, "free")
    /\ UNCHANGED <<sharing, writer, heap, new, i, module, oops>>

(* The heap after kfree(c). *)
Freed(c) == [heap EXCEPT ![c] = NULL]

(* kfree(old), at once. *)
Free(p) ==
    /\ At(p, "free")
    /\ Live(old[p])
    /\ heap' = Freed(old[p])
    /\ Goto(p, "unlock")
    /\ UNCHANGED <<sharing, writer, my_data, new, old, i, module, oops>>

(* Mutant: the lock is not released.                                       *)
HeldOn == writer

Released == NULL

Unlock(p) ==
    /\ At(p, "unlock")
    /\ writer' = Released
    /\ Return(p)
    /\ UNCHANGED <<sharing, my_data, heap, new, old, module, oops>>

Fault(p) ==
    /\ At(p, "print") \/ At(p, "again") \/ At(p, "free")
    /\ ~Live(old[p])
    /\ oops' = TRUE
    /\ UNCHANGED <<sharing, writer, my_data, heap, pc, new, old, i, module>>

-----------------------------------------------------------------------------
(* simple_rcu_exit: kfree(my_data), which keeps its value.                 *)
ExitFree ==
    /\ CanUnload /\ ~oops
    /\ module = "live"
    /\ heap' = Freed(my_data)
    /\ module' = "freed"
    /\ UNCHANGED <<sharing, writer, my_data, pc, new, old, i, oops>>

(* cdev_del, and the code of the driver is given back.                     *)
ExitDone ==
    /\ module = "freed" /\ ~oops
    /\ module' = "gone"
    /\ UNCHANGED <<sharing, writer, my_data, heap, pc, new, old, i, oops>>

Step(p) ==
    \/ Ioctl(p)
    \/ ReadAcquire(p) \/ Load(p) \/ PrintFirst(p) \/ PrintAgain(p)
    \/ WriteAcquire(p) \/ Alloc(p) \/ Swap(p) \/ Free(p) \/ Unlock(p)
    \/ Fault(p)

Next == ExitFree \/ ExitDone \/ \E p \in Proc : Step(p)

Spec == Init /\ [][Next]_vars

(* The processors run.  The lock is not fair to writers, so nothing        *)
(* stronger is assumed of it; the applications' loops are finite.          *)
FairSpec == Spec /\ \A p \in Proc : WF_vars(Step(p))

-----------------------------------------------------------------------------
RwTypeOK ==
    /\ sharing \subseteq Proc
    /\ writer \in Proc \cup {NULL}
    /\ my_data \in Cell
    /\ heap \in [Cell -> Value \cup {NULL}]
    /\ pc \in [Proc -> Labels]
    /\ new \in [Proc -> Cell \cup {NULL}]
    /\ old \in [Proc -> Cell \cup {NULL}]
    /\ i \in [Proc -> 1..(N + 1)]
    /\ module \in {"live", "freed", "gone"}
    /\ oops \in BOOLEAN

(* Until exit frees the number no process looks at a freed one or frees it *)
(* twice, although the writer frees the old number without delay.          *)
NoUseAfterFree == oops => module # "live"

(* What a reader prints is the number at that moment, also at its second   *)
(* look: no write comes between the two (with simple_rcu one may).         *)
NeverStale ==
    \A p \in Readers : pc[p] \in {"print", "again"} => old[p] = my_data

Nothing == -1

(* The number, and what each reader that has loaded the pointer would      *)
(* print, until exit frees it.                                             *)
Number == IF module = "live" THEN heap[my_data] ELSE Nothing

Shown ==
    [p \in Proc |->
        IF module = "live" /\ pc[p] \in {"print", "again"}
        THEN heap[old[p]] ELSE Nothing]

Register ==
    INSTANCE SharedRegister WITH value <- Number, seen <- Shown, Initial <- 0

(* Both lines a read prints show one number, and writes are atomic, as     *)
(* long as the number is there.                                            *)
ImplementsRegister == Register!Spec

(* "Second argument = number of iterations": every application gets        *)
(* through its loop, unless the driver is unloaded.                        *)
IterationsDone == <>(module # "live" \/ \A p \in Proc : i[p] = N + 1)
=============================================================================
