------------------------------ MODULE SimpleRcu ------------------------------
(***************************************************************************)
(* Lab11/simple_rcu: a number behind an RCU pointer, read and replaced by  *)
(* the processes of simple_rcu_app, each on a processor of its own.        *)
(*                                                                         *)
(* The kernel is not preemptible, so rcu_read_lock and rcu_read_unlock     *)
(* compile to nothing: synchronize_rcu waits until every other processor   *)
(* has been seen in user mode or asleep.  gp[p] holds those that the       *)
(* synchronize_rcu of p has not seen yet.  A process that spins for        *)
(* my_lock, or delays inside mdelay, is not seen.                          *)
(*                                                                         *)
(* The file_operations have no owner, so the module can be unloaded while  *)
(* a process is inside ioctl.                                              *)
(***************************************************************************)
EXTENDS Integers

CONSTANTS
    Readers, Writers,   \* processes running "app 1 N" and "app 2 N"
    N,                  \* their number of iterations
    Cell,               \* memory that kmalloc hands out
    CanUnload,          \* may rmmod run?
    Rmmod,              \* the process that unloads the module
    NULL

Proc == Readers \cup Writers

ASSUME SimpleRcuAssumption ==
    /\ Readers \cap Writers = {}
    /\ N \in Nat
    /\ CanUnload \in BOOLEAN
    /\ Rmmod \notin Proc
    /\ NULL \notin Proc \cup Cell \cup {Rmmod} \cup Nat

(* 0, and the loop counter i of the application. *)
Value == 0..N

VARIABLES
    lock,       \* my_lock: its holder, or NULL
    my_data,    \* the RCU pointer
    heap,       \* the number in every cell, NULL when the cell is free
    pc,         \* where each process is; "user" is outside the driver
    new, old,   \* the locals of simple_ioctl
    gp,         \* the processors each synchronize_rcu still waits for
    i,          \* loop counter of each application
    module,     \* "live", then the steps of simple_rcu_exit, then "gone"
    oops        \* a freed cell or NULL was dereferenced

vars == <<lock, my_data, heap, pc, new, old, gp, i, module, oops>>

Labels == {"user", "read", "print", "again", "lock", "alloc", "publish",
           "sync", "grace", "free", "unlock"}

Init ==
    /\ lock = NULL
    /\ \E c \in Cell :
        /\ my_data = c
        /\ heap = [x \in Cell |-> IF x = c THEN 0 ELSE NULL]
    /\ pc = [p \in Proc |-> "user"]
    /\ new = [p \in Proc |-> NULL]
    /\ old = [p \in Proc |-> NULL]
    /\ gp = [p \in Proc |-> {}]
    /\ i = [p \in Proc |-> 1]
    /\ module = "live"
    /\ oops = FALSE

At(p, l) == pc[p] = l /\ ~oops

Goto(p, l) == pc' = [pc EXCEPT ![p] = l]

Live(c) == c # NULL /\ heap[c] # NULL

(* The application's loop goes on.                                         *)
Continues(p) == i[p] <= N

(* IOCTL_READ or IOCTL_WRITE enters the driver, as long as it is there.    *)
Ioctl(p) ==
    /\ At(p, "user")
    /\ Continues(p)
    /\ module # "gone"
    /\ Goto(p, IF p \in Readers THEN "read" ELSE "lock")
    /\ UNCHANGED <<lock, my_data, heap, new, old, gp, i, module, oops>>

(* Back in user mode, the application counts the iteration.                *)
Return(p) ==
    /\ Goto(p, "user")
    /\ i' = [i EXCEPT ![p] = @ + 1]

-----------------------------------------------------------------------------
(* IOCTL_READ *)
Dereference(p) ==
    /\ At(p, "read")
    /\ old' = [old EXCEPT ![p] = my_data]
    /\ Goto(p, "print")
    /\ UNCHANGED <<lock, my_data, heap, new, gp, i, module, oops>>

PrintFirst(p) ==
    /\ At(p, "print")
    /\ Live(old[p])
    /\ Goto(p, "again")
    /\ UNCHANGED <<lock, my_data, heap, new, old, gp, i, module, oops>>

(* The second look at *old, after the delay.                               *)
PrintAgain(p) ==
    /\ At(p, "again")
    /\ Live(old[p])
    /\ Return(p)
    /\ UNCHANGED <<lock, my_data, heap, new, old, gp, module, oops>>

Fault(p) ==
    /\ At(p, "print") \/ At(p, "again")
    /\ ~Live(old[p])
    /\ oops' = TRUE
    /\ UNCHANGED <<lock, my_data, heap, pc, new, old, gp, i, module>>

-----------------------------------------------------------------------------
(* IOCTL_WRITE *)
Acquire(p) ==
    /\ At(p, "lock")
    /\ lock = NULL
    /\ lock' = p
    /\ Goto(p, "alloc")
    /\ UNCHANGED <<my_data, heap, new, old, gp, i, module, oops>>

(* kmalloc and *new = arg. *)
Alloc(p) ==
    /\ At(p, "alloc")
    /\ \E c \in Cell :
        /\ heap[c] = NULL
        /\ heap' = [heap EXCEPT ![c] = i[p]]
        /\ new' = [new EXCEPT ![p] = c]
    /\ Goto(p, "publish")
    /\ UNCHANGED <<lock, my_data, old, gp, i, module, oops>>

(* Writers alone change my_data, so its read and its assignment are one.   *)
Publish(p) ==
    /\ At(p, "publish")
    /\ old' = [old EXCEPT ![p] = my_data]
    /\ my_data' = new[p]
    /\ Goto(p, "sync")
    /\ UNCHANGED <<lock, heap, new, gp, i, module, oops>>

(* synchronize_rcu starts a grace period and puts p to sleep.              *)
StartGrace(p) ==
    /\ At(p, "sync")
    /\ gp' = [gp EXCEPT ![p] = (Proc \cup {Rmmod}) \ {p}]
    /\ Goto(p, "grace")
    /\ UNCHANGED <<lock, my_data, heap, new, old, i, module, oops>>

(* q is in user mode or asleep; rmmod is neither while it spins.           *)
Quiescent(q) ==
    IF q = Rmmod THEN module \in {"live", "gone"}
    ELSE pc[q] \in {"user", "grace"}

(* The grace period of p sees q in a quiescent state.                      *)
See(p, q) ==
    /\ At(p, "grace")
    /\ q \in gp[p]
    /\ Quiescent(q)
    /\ gp' = [gp EXCEPT ![p] = @ \ {q}]
    /\ UNCHANGED <<lock, my_data, heap, pc, new, old, i, module, oops>>

(* Mutant: kfree does not wait for the readers.                            *)
GraceSkipped(p) == TRUE

GraceOver(p) == gp[p] = {}

EndGrace(p) ==
    /\ At(p, "grace")
    /\ GraceOver(p)
    /\ gp' = [gp EXCEPT ![p] = {}]
    /\ Goto(p, "free")
    /\ UNCHANGED <<lock, my_data, heap, new, old, i, module, oops>>

(* Mutant: nothing is freed.                                               *)
Kept(c) == heap

(* The heap after kfree(c); kfree(NULL) does nothing.                      *)
Freed(c) == [x \in Cell |-> IF x = c THEN NULL ELSE heap[x]]

Free(p) ==
    /\ At(p, "free")
    /\ heap' = Freed(old[p])
    /\ Goto(p, "unlock")
    /\ UNCHANGED <<lock, my_data, new, old, gp, i, module, oops>>

(* Mutant: the lock is not released.                                       *)
HeldOn == lock

Released == NULL

Unlock(p) ==
    /\ At(p, "unlock")
    /\ lock' = Released
    /\ Return(p)
    /\ UNCHANGED <<my_data, heap, new, old, gp, module, oops>>

-----------------------------------------------------------------------------
(* simple_rcu_exit *)
ExitStart ==
    /\ CanUnload /\ ~oops
    /\ module = "live"
    /\ module' = "exiting"
    /\ UNCHANGED <<lock, my_data, heap, pc, new, old, gp, i, oops>>

ExitLock ==
    /\ module = "exiting" /\ ~oops
    /\ lock = NULL
    /\ lock' = Rmmod
    /\ module' = "locked"
    /\ UNCHANGED <<my_data, heap, pc, new, old, gp, i, oops>>

(* No grace period between rcu_assign_pointer(my_data, NULL) and           *)
(* kfree(data); a reader that comes between them gets NULL, like a later   *)
(* one, so they are one step.                                              *)
ExitFree ==
    /\ module = "locked" /\ ~oops
    /\ heap' = Freed(my_data)
    /\ my_data' = NULL
    /\ module' = "freed"
    /\ UNCHANGED <<lock, pc, new, old, gp, i, oops>>

ExitUnlock ==
    /\ module = "freed" /\ ~oops
    /\ lock' = NULL
    /\ module' = "gone"
    /\ UNCHANGED <<my_data, heap, pc, new, old, gp, i, oops>>

-----------------------------------------------------------------------------
Read(p) == Dereference(p) \/ PrintFirst(p) \/ PrintAgain(p) \/ Fault(p)

Write(p) ==
    \/ Acquire(p) \/ Alloc(p) \/ Publish(p)
    \/ StartGrace(p) \/ (\E q \in Proc \cup {Rmmod} : See(p, q)) \/ EndGrace(p)
    \/ Free(p) \/ Unlock(p)

Step(p) == Ioctl(p) \/ Read(p) \/ Write(p)

Exit == ExitStart \/ ExitLock \/ ExitFree \/ ExitUnlock

Next == Exit \/ \E p \in Proc : Step(p)

Spec == Init /\ [][Next]_vars

(* The processors run; an RCU grace period sees whom it can see; nobody    *)
(* forces rmmod to be called.                                              *)
FairSpec == Spec /\ \A p \in Proc : WF_vars(Step(p))

-----------------------------------------------------------------------------
RcuTypeOK ==
    /\ lock \in Proc \cup {Rmmod, NULL}
    /\ my_data \in Cell \cup {NULL}
    /\ heap \in [Cell -> Value \cup {NULL}]
    /\ pc \in [Proc -> Labels]
    /\ new \in [Proc -> Cell \cup {NULL}]
    /\ old \in [Proc -> Cell \cup {NULL}]
    /\ gp \in [Proc -> SUBSET (Proc \cup {Rmmod})]
    /\ i \in [Proc -> 1..(N + 1)]
    /\ module \in {"live", "exiting", "locked", "freed", "gone"}
    /\ oops \in BOOLEAN

(* simple_rcu_exit has freed the number. *)
Removed == module \in {"freed", "gone"}

(* Until simple_rcu_exit frees the number no reader looks at a freed one,  *)
(* in spite of the delay between its two looks: the grace period of the    *)
(* writer covers it.                                                       *)
NoUseAfterFree == oops => Removed

(* Every cell in use is the published one or in the hands of the writer    *)
(* that holds the lock: replaced numbers are freed, and only once.         *)
NoLeak ==
    {c \in Cell : heap[c] # NULL} =
        ({my_data}
            \cup {new[p] : p \in {q \in Proc : pc[q] = "publish"}}
            \cup {old[p] : p \in {q \in Proc : pc[q] \in
                                        {"sync", "grace", "free"}}}) \ {NULL}

Nothing == -1

(* The number, and what each reader that holds a pointer would print.      *)
Number == IF Removed THEN Nothing ELSE heap[my_data]

Shown ==
    [p \in Proc |->
        IF ~Removed /\ pc[p] \in {"print", "again"}
        THEN heap[old[p]] ELSE Nothing]

Register ==
    INSTANCE SharedRegister WITH value <- Number, seen <- Shown, Initial <- 0

(* Both lines a read prints show the number the pointer had when the read  *)
(* took it, and writes are atomic, as long as the number is there.         *)
ImplementsRegister == Register!Spec

(* "Second argument = number of iterations": every application gets        *)
(* through its loop, unless the driver is unloaded.                        *)
IterationsDone == <>(module # "live" \/ \A p \in Proc : i[p] = N + 1)
=============================================================================
