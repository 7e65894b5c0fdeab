---------------------------- MODULE SimpleRcuList ----------------------------
(***************************************************************************)
(* Lab11/simple_rculist: a list of numbered records that readers walk      *)
(* without a lock.  An update replaces the record by a changed copy and    *)
(* frees the old one after a grace period, all under my_lock.  Every run   *)
(* of simple_rculist_app is a process on a processor of its own; rmmod is  *)
(* one more.  Grace periods are those of SimpleRcu.                        *)
(***************************************************************************)
EXTENDS Integers, FiniteSets

CONSTANTS
    Readers, Updaters,  \* processes that run "app 1 id" and "app 2 id"
    N,                  \* how often each of them does
    LEN,                \* records in the list, 5
    Node,               \* memory for struct test_list
    CanUnload,          \* may rmmod run?
    Rmmod, Head, NULL

Apps == Readers \cup Updaters
Proc == Apps \cup {Rmmod}

ASSUME SimpleRcuListAssumption ==
    /\ Readers \cap Updaters = {}
    /\ N \in Nat /\ LEN \in Nat
    /\ CanUnload \in BOOLEAN
    /\ Rmmod \notin Apps
    /\ Head \notin Node /\ NULL \notin Proc \cup Node \cup {Head} \cup Nat
    /\ NULL \notin [id : 1..LEN, data : Nat]

(* The second argument of the application: an id of the list, or another.  *)
Arg == 0..LEN

VARIABLES
    lock,       \* my_lock: its holder, or NULL
    nxt, prv,   \* the links of every node and of the head
    record,     \* id and data of a node, NULL when it is free
    pc,         \* where each process is
    arg, pos, new,  \* the argument and the locals of simple_ioctl
    gp,         \* the processors each synchronize_rcu still waits for
    runs,       \* how often each application has run
    shown,      \* data its last read has printed, NULL for "Not Found"
    since       \* auxiliary: data of arg when the last read began

list == <<nxt, prv, record>>
locals == <<arg, pos, new>>
results == <<runs, shown, since>>
vars == <<lock, list, pc, locals, gp, results>>

Labels == {"user", "read", "lock", "seek", "copy", "replace", "sync",
           "grace", "free", "unlock", "exit", "unlink", "gone"}

Used == {n \in Node : record[n] # NULL}

(* The list that simple_rcu_init builds of any nodes: at[k] is the k-th.   *)
ListOf(at) ==
    /\ nxt = [n \in Node \cup {Head} |->
                CASE n = at[LEN] -> Head
                  [] \E k \in 0..(LEN - 1) : n = at[k] ->
                        at[1 + CHOOSE k \in 0..(LEN - 1) : n = at[k]]
                  [] OTHER -> NULL]
    /\ prv = [n \in Node \cup {Head} |->
                CASE n = Head -> at[LEN]
                  [] \E k \in 1..LEN : n = at[k] ->
                        at[(CHOOSE k \in 1..LEN : n = at[k]) - 1]
                  [] OTHER -> NULL]
    /\ record = [n \in Node |->
                IF \E k \in 1..LEN : n = at[k]
                THEN [id |-> CHOOSE k \in 1..LEN : n = at[k], data |-> 100]
                ELSE NULL]

Init ==
    /\ \E at \in [0..LEN -> Node \cup {Head}] :
        /\ at[0] = Head
        /\ \A j, k \in 0..LEN : at[j] = at[k] => j = k
        /\ ListOf(at)
    /\ lock = NULL
    /\ pc = [p \in Proc |-> "user"]
    /\ arg = [p \in Proc |-> 0]
    /\ pos = [p \in Proc |-> Head]
    /\ new = [p \in Proc |-> NULL]
    /\ gp = [p \in Proc |-> {}]
    /\ runs = [p \in Proc |-> 0]
    /\ shown = [p \in Proc |-> 0]
    /\ since = [p \in Proc |-> NULL]

At(p, l) == pc[p] = l

Goto(p, l) == pc' = [pc EXCEPT ![p] = l]

Good(n) == n = Head \/ n \in Used

(* The nodes with this id that their predecessor leads to. *)
Records(id) ==
    {n \in Used : record[n].id = id /\ prv[n] # NULL /\ nxt[prv[n]] = n}

(* The application is started with an id, opens the device and calls.      *)
Ioctl(p, id) ==
    /\ At(p, "user") /\ runs[p] < N
    /\ pc[Rmmod] # "gone"
    /\ arg' = [arg EXCEPT ![p] = id]
    /\ pos' = [pos EXCEPT ![p] = Head]
    /\ since' = [since EXCEPT ![p] =
            IF Records(id) = {} THEN NULL
            ELSE record[CHOOSE n \in Records(id) : TRUE].data]
    /\ Goto(p, IF p \in Readers THEN "read" ELSE "lock")
    /\ UNCHANGED <<lock, list, new, gp, runs, shown>>

Return(p) ==
    /\ Goto(p, "user")
    /\ runs' = [runs EXCEPT ![p] = @ + 1]

-----------------------------------------------------------------------------
(* The nodes that the next step of p looks into are not freed ones; what   *)
(* a step does that looks into one is left out.                            *)
Sound(p) ==
    pc[p] \in {"read", "seek", "copy", "replace"} =>
        Good(pos[p]) /\ Good(nxt[pos[p]])

(* IOCTL_READ, one pass of list_for_each_entry_rcu.                        *)
Read(p) ==
    /\ At(p, "read") /\ Sound(p)
    /\ LET n == nxt[pos[p]] IN
        /\ pos' = [pos EXCEPT ![p] = n]
        /\ IF n = Head \/ record[n].id = arg[p]
           THEN /\ shown' = [shown EXCEPT ![p] =
                        IF n = Head THEN NULL ELSE record[n].data]
                /\ Return(p)
           ELSE UNCHANGED <<pc, runs, shown>>
    /\ UNCHANGED <<lock, list, arg, new, gp, since>>

-----------------------------------------------------------------------------
(* IOCTL_UPDATE *)
Acquire(p) ==
    /\ At(p, "lock") /\ lock = NULL
    /\ lock' = p
    /\ Goto(p, "seek")
    /\ UNCHANGED <<list, locals, gp, results>>

Seek(p) ==
    /\ At(p, "seek") /\ Sound(p)
    /\ LET n == nxt[pos[p]] IN
        /\ pos' = [pos EXCEPT ![p] = n]
        /\ CASE n = Head -> Goto(p, "unlock")
             [] n # Head /\ record[n].id = arg[p] -> Goto(p, "copy")
             [] OTHER -> pc' = pc
    /\ UNCHANGED <<lock, list, arg, new, gp, results>>

More(d) == d + 1

(* Mutant: the copy is the last node of the list.                          *)
EndsList(n) == Head

(* memcpy copies the links as well. *)
CopiedNext(n) == nxt[n]

(* kmalloc, memcpy, data++. *)
Copy(p) ==
    /\ At(p, "copy") /\ Sound(p)
    /\ \E c \in Node \ Used :
        /\ new' = [new EXCEPT ![p] = c]
        /\ record' = [record EXCEPT ![c] =
                [id |-> arg[p], data |-> More(record[pos[p]].data)]]
        /\ nxt' = [nxt EXCEPT ![c] = CopiedNext(pos[p])]
        /\ prv' = [prv EXCEPT ![c] = prv[pos[p]]]
    /\ Goto(p, "replace")
    /\ UNCHANGED <<lock, arg, pos, gp, results>>

(* Mutant: the predecessor link of the next node is forgotten.             *)
KeepBack(p) == prv

NewBack(p) == [prv EXCEPT ![nxt[pos[p]]] = new[p], ![pos[p]] = NULL]

(* list_replace_rcu; readers see the one store to the predecessor's next.  *)
Replace(p) ==
    /\ At(p, "replace") /\ Sound(p)
    /\ nxt' = [nxt EXCEPT ![prv[pos[p]]] = new[p]]
    /\ prv' = NewBack(p)
    /\ Goto(p, "sync")
    /\ UNCHANGED <<lock, record, locals, gp, results>>

-----------------------------------------------------------------------------
(* synchronize_rcu, of an update or of exit.                               *)
StartGrace(p) ==
    /\ At(p, "sync")
    /\ gp' = [gp EXCEPT ![p] = Proc \ {p}]
    /\ Goto(p, "grace")
    /\ UNCHANGED <<lock, list, locals, results>>

Quiescent(q) == pc[q] \in {"user", "grace", "gone"}

See(p, q) ==
    /\ At(p, "grace")
    /\ q \in gp[p] /\ Quiescent(q)
    /\ gp' = [gp EXCEPT ![p] = @ \ {q}]
    /\ UNCHANGED <<lock, list, pc, locals, results>>

(* Mutant: kfree does not wait for the readers.                            *)
GraceSkipped(p) == TRUE

GraceOver(p) == gp[p] = {}

EndGrace(p) ==
    /\ At(p, "grace") /\ GraceOver(p)
    /\ gp' = [gp EXCEPT ![p] = {}]
    /\ Goto(p, "free")
    /\ UNCHANGED <<lock, list, locals, results>>

(* kfree; exit goes on with the next node, an update is done.              *)
Free(p) ==
    /\ At(p, "free")
    /\ record' = [record EXCEPT ![pos[p]] = NULL]
    /\ nxt' = [nxt EXCEPT ![pos[p]] = NULL]
    /\ prv' = [prv EXCEPT ![pos[p]] = NULL]
    /\ Goto(p, IF p = Rmmod THEN "unlink" ELSE "unlock")
    /\ UNCHANGED <<lock, locals, gp, results>>

(* Mutant: the lock is not released.                                       *)
HeldOn == lock

Released == NULL

Unlock(p) ==
    /\ At(p, "unlock")
    /\ lock' = Released
    /\ Return(p)
    /\ UNCHANGED <<list, locals, gp, shown, since>>

-----------------------------------------------------------------------------
(* simple_rcu_exit *)
ExitStart ==
    /\ CanUnload /\ At(Rmmod, "user")
    /\ Goto(Rmmod, "exit")
    /\ UNCHANGED <<lock, list, locals, gp, results>>

ExitLock ==
    /\ At(Rmmod, "exit") /\ lock = NULL
    /\ lock' = Rmmod
    /\ Goto(Rmmod, "unlink")
    /\ UNCHANGED <<list, locals, gp, results>>

(* list_del_rcu of the first node, whose next stays for the readers on it. *)
ExitUnlink ==
    /\ At(Rmmod, "unlink") /\ nxt[Head] # Head
    /\ LET n == nxt[Head] IN
        /\ pos' = [pos EXCEPT ![Rmmod] = n]
        /\ nxt' = [nxt EXCEPT ![Head] = nxt[n]]
        /\ prv' = [prv EXCEPT ![nxt[n]] = Head, ![n] = NULL]
    /\ Goto(Rmmod, "sync")
    /\ UNCHANGED <<lock, record, arg, new, gp, results>>

ExitDone ==
    /\ At(Rmmod, "unlink") /\ nxt[Head] = Head
    /\ lock' = NULL
    /\ Goto(Rmmod, "gone")
    /\ UNCHANGED <<list, locals, gp, results>>

-----------------------------------------------------------------------------
Update(p) ==
    \/ Acquire(p) \/ Seek(p) \/ Copy(p) \/ Replace(p)
    \/ Unlock(p)

Sync(p) ==
    \/ StartGrace(p) \/ (\E q \in Proc : See(p, q)) \/ EndGrace(p) \/ Free(p)

Exit == ExitLock \/ ExitUnlink \/ ExitDone

Step(p) == Read(p) \/ Update(p) \/ Sync(p) \/ (p = Rmmod /\ Exit)

Start(p) == p \in Apps /\ \E id \in Arg : Ioctl(p, id)

Next ==
    \/ ExitStart
    \/ \E p \in Proc : Start(p) \/ Step(p)

Spec == Init /\ [][Next]_vars

(* The processors run; nobody is forced to start an application or rmmod.  *)
FairSpec == Spec /\ \A p \in Proc : WF_vars(Step(p))

-----------------------------------------------------------------------------
ListTypeOK ==
    /\ lock \in Proc \cup {NULL}
    /\ nxt \in [Node \cup {Head} -> Node \cup {Head, NULL}]
    /\ prv \in [Node \cup {Head} -> Node \cup {Head, NULL}]
    /\ record \in [Node -> [id : 1..LEN, data : Nat] \cup {NULL}]
    /\ pc \in [Proc -> Labels]
    /\ arg \in [Proc -> Arg]
    /\ pos \in [Proc -> Node \cup {Head}]
    /\ new \in [Proc -> Node \cup {NULL}]
    /\ gp \in [Proc -> SUBSET Proc]
    /\ runs \in [Proc -> 0..N]
    /\ shown \in [Proc -> Nat \cup {NULL}]
    /\ since \in [Proc -> Nat \cup {NULL}]

(* No reader, updater or rmmod looks into a freed node, not even while the *)
(* module is being unloaded: exit, too, waits before every kfree.          *)
NoUseAfterFree == \A p \in Proc : Sound(p)

Live == pc[Rmmod] \in {"user", "exit"}

(* As long as nobody unloads the module a read of an id of the list finds  *)
(* it, although updates replace nodes in front of it and under it; what it *)
(* shows is not older than the read and not newer than the list.           *)
ReadsAreFresh ==
    \A p \in Readers :
        Live /\ pc[p] = "user" /\ runs[p] > 0 /\ arg[p] # 0 =>
            /\ shown[p] # NULL
            /\ since[p] <= shown[p]
            /\ \E n \in Records(arg[p]) : shown[p] <= record[n].data

(* Each id has one record in the list, the links go both ways, and a node  *)
(* outside it is in the hands of the holder of my_lock.                    *)
ListWhole ==
    Live =>
        /\ \A id \in 1..LEN : Cardinality(Records(id)) = 1
        /\ \A n \in (UNION {Records(id) : id \in 1..LEN}) \cup {Head} :
                prv[nxt[n]] = n
        /\ \A n \in Used \ UNION {Records(id) : id \in 1..LEN} :
                \E p \in Updaters :
                    \/ pc[p] = "replace" /\ n = new[p]
                    \/ pc[p] \in {"sync", "grace", "free"} /\ n = pos[p]

(* Every ioctl returns while nobody unloads the module, with one updater.  *)
CallsReturn ==
    \A p \in Apps :
        pc[p] # "user" ~> (pc[p] = "user" \/ pc[Rmmod] # "user")
=============================================================================
