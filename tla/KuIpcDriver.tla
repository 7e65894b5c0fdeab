---------------------------- MODULE KuIpcDriver ----------------------------
(***************************************************************************)
(* The KU_IPC message-queue character device, ku_ipc.c.txt.                *)
(*                                                                         *)
(* Every process that opened the device runs ioctl, read and write calls.  *)
(* read and write hold ku_ipc_lock; ioctl (CHECK, CREATE, CLOSE) takes no  *)
(* lock, so its accesses to the circular list of queues interleave with    *)
(* everything else.  The list is therefore kept at pointer level (nxt and  *)
(* prv are the next and prev fields of q_list) and a step is one iteration *)
(* of the list traversal or one store to another node's pointers.          *)
(*                                                                         *)
(* kfree makes a node "free"; kmalloc may give it out again.  A step that  *)
(* touches a free node, or follows NULL, is undefined in C: it sets oops   *)
(* and nothing moves afterwards.                                           *)
(***************************************************************************)
EXTENDS Integers, Sequences, FiniteSets, SequencesExt

CONSTANTS
    Proc,           \* processes with the device open
    Key,            \* queue keys (int)
    Type,           \* message types (long)
    Size,           \* text sizes, msgsz (int)
    Node,           \* memory for struct ku_ipc_msq: at most this many queues
    KUIPC_MAXMSG,
    KUIPC_MAXVOL,
    StrayReads,     \* what line 243 may read, besides msgsz, from freed memory
    MayCall,        \* MayCall[p]: the operations process p issues
    Root,           \* my_msq, the head of the list
    NULL

Ops == {"check", "create", "close", "read", "write"}

ASSUME KuIpcAssumption ==
    /\ Key \subseteq Int
    /\ Size \subseteq Nat
    /\ StrayReads \subseteq Int
    /\ KUIPC_MAXMSG \in Nat
    /\ KUIPC_MAXVOL \in Nat
    /\ MayCall \in [Proc -> SUBSET Ops]
    /\ Root \notin Node
    /\ NULL \notin Node \cup {Root} \cup Proc

(***************************************************************************)
(* Return codes of ku_ipc.h as the ints they become.                       *)
(***************************************************************************)
IPC_RES_NOMSQ   == -34615807
IPC_RES_NOMSG   == -34615806
IPC_RES_NOVOL   == -34615805
IPC_RES_FULLMSG == -34615804
IPC_RES_FULLVOL == -34615803
IPC_RES_SHORT   == -34615802

Failures == {IPC_RES_NOMSQ, IPC_RES_NOMSG, IPC_RES_NOVOL,
             IPC_RES_FULLMSG, IPC_RES_FULLVOL, IPC_RES_SHORT}

Message == [type : Type, msgsz : Size, index : Int]

Queue == [key : Key, msgs : Seq(Message), size : Int, vol : Int]

ASSUME QueueAssumption == NULL \notin Queue

Ptr == Node \cup {Root, NULL}

Call ==
    [op : {"check", "create", "close"}, key : Key]
        \cup [op : {"write"}, key : Key, type : Type, len : Size]
        \cup [op : {"read"}, key : Key, type : Type, len : Size,
              noerror : BOOLEAN]

NoCall == [op |-> "none"]

Labels == {"user", "scan", "check", "alloc", "back", "front", "close",
           "unback", "unfront", "kfree", "spin", "read", "copy", "remove",
           "write", "append", "unlock"}

VARIABLES
    lock,       \* ku_ipc_lock: its holder, or NULL
    nxt, prv,   \* q_list.next and q_list.prev of every node and of the root
    msq,        \* the queue a node holds, or NULL when the node is free
    pc,         \* where each process is; "user" is outside the driver
    call,       \* the call it is executing
    cur,        \* list cursor; the queue found, or NULL, after the scan
    lp, ln,     \* prev and next read by list_add_tail and list_del
    pos,        \* position of the message read has found
    ret,        \* what its last call returned
    oops        \* undefined behaviour has happened

list == <<nxt, prv>>
locals == <<cur, lp, ln, pos>>
vars == <<lock, list, msq, pc, call, locals, ret, oops>>

(* Dereferencing x is undefined: NULL, or memory already given back. *)
Bad(x) == x = NULL \/ (x \in Node /\ msq[x] = NULL)

(* The structures the next step of p dereferences. *)
Deref(p) ==
    CASE pc[p] = "scan" -> {cur[p], nxt[cur[p]]}
      [] pc[p] = "front" -> {lp[p]}
      [] pc[p] = "unback" -> {ln[p]}
      [] pc[p] = "unfront" -> {lp[p]}
      [] pc[p] \in {"check", "back", "close", "kfree", "read", "copy", "remove",
                    "write", "append"} -> {cur[p]}
      [] OTHER -> {}

(* All of them are live, and so is the message read has found.             *)
Sound(p) ==
    /\ \A x \in Deref(p) : ~Bad(x)
    /\ pc[p] \in {"copy", "remove"} => pos[p] # 0

(* Between spin_lock and spin_unlock. *)
Locked(p) ==
    \/ pc[p] \in {"read", "copy", "remove", "write", "append", "unlock"}
    \/ pc[p] = "scan" /\ call[p].op \in {"read", "write"}

-----------------------------------------------------------------------------
Init ==
    /\ lock = NULL
    /\ nxt = [x \in Node \cup {Root} |-> IF x = Root THEN Root ELSE NULL]
    /\ prv = nxt
    /\ msq = [n \in Node |-> NULL]
    /\ pc = [p \in Proc |-> "user"]
    /\ call = [p \in Proc |-> NoCall]
    /\ cur = [p \in Proc |-> Root]
    /\ lp = [p \in Proc |-> NULL]
    /\ ln = [p \in Proc |-> NULL]
    /\ pos = [p \in Proc |-> 0]
    /\ ret = [p \in Proc |-> 0]
    /\ oops = FALSE

(* p executes the code at label l, whose accesses are all defined. *)
At(p, l) == pc[p] = l /\ ~oops /\ Sound(p)

Goto(p, l) == pc' = [pc EXCEPT ![p] = l]

(* A call of p returns r to user space and its locals go out of scope. *)
Return(p, r) ==
    /\ Goto(p, "user")
    /\ ret' = [ret EXCEPT ![p] = r]
    /\ call' = [call EXCEPT ![p] = NoCall]
    /\ cur' = [cur EXCEPT ![p] = Root]
    /\ lp' = [lp EXCEPT ![p] = NULL]
    /\ ln' = [ln EXCEPT ![p] = NULL]

(* Mutant: the error paths return without spin_unlock.                     *)
LeaveLocked(p, r) ==
    /\ Goto(p, IF r < 0 THEN "user" ELSE "unlock")
    /\ ret' = [ret EXCEPT ![p] = r]

(* read or write of p has decided to return r and goes to spin_unlock. *)
Leave(p, r) ==
    /\ Goto(p, "unlock")
    /\ ret' = [ret EXCEPT ![p] = r]

-----------------------------------------------------------------------------
Entry(c) == CASE c.op = "create" -> "alloc"
              [] c.op \in {"check", "close"} -> "scan"
              [] OTHER -> "spin"

(* The call p makes: ioctl starts with the scan or, for CREATE, with       *)
(* kmalloc; read and write start with spin_lock.                           *)
Syscall(p, c) ==
    /\ pc[p] = "user" /\ ~oops
    /\ call' = [call EXCEPT ![p] = c]
    /\ Goto(p, Entry(c))
    /\ ret' = [ret EXCEPT ![p] = 0]
    /\ UNCHANGED <<lock, list, msq, locals, oops>>

(* spin_lock: the lock is free. *)
Acquire(p) ==
    /\ At(p, "spin")
    /\ lock = NULL
    /\ lock' = p
    /\ Goto(p, "scan")
    /\ UNCHANGED <<list, msq, call, locals, ret, oops>>

(* Where a call goes once ku_ipc_msq_get has returned a queue.             *)
Found(p) == Goto(p, call[p].op)

(* ... and when it has returned NULL.  CLOSE does not look at the result.  *)
NotFound(p) ==
    CASE call[p].op = "check" -> Return(p, IPC_RES_NOMSQ) /\ pos' = pos
      [] call[p].op = "close" ->
            /\ Goto(p, "close")
            /\ cur' = [cur EXCEPT ![p] = NULL]
            /\ UNCHANGED <<call, lp, ln, pos, ret>>
      [] OTHER -> Leave(p, IPC_RES_NOMSQ) /\ UNCHANGED <<call, locals>>

(* ku_ipc_msq_get, one iteration of list_for_each_entry.                   *)
Scan(p) ==
    /\ At(p, "scan")
    /\ LET n == nxt[cur[p]] IN
        IF n = Root THEN NotFound(p)
        ELSE /\ cur' = [cur EXCEPT ![p] = n]
             /\ IF msq[n].key = call[p].key THEN Found(p) ELSE pc' = pc
             /\ UNCHANGED <<call, lp, ln, pos, ret>>
    /\ UNCHANGED <<lock, list, msq, oops>>

(* rtn = msq->key of CHECK and CREATE.                                     *)
ReturnKey(p) ==
    /\ At(p, "check")
    /\ Return(p, msq[cur[p]].key)
    /\ UNCHANGED <<lock, list, msq, pos, oops>>

(* Mutant: list_add_tail takes the head itself for the last node.          *)
LastIsRoot == Root

LastNode == prv[Root]

(* CREATE: ku_ipc_msq_create, then list_add_tail reads the last node.      *)
CreateAlloc(p) ==
    /\ At(p, "alloc")
    /\ \E n \in Node :
        /\ msq[n] = NULL
        /\ msq' = [msq EXCEPT ![n] = [key |-> call[p].key, msgs |-> <<>>,
                                      size |-> 0, vol |-> 0]]
        /\ cur' = [cur EXCEPT ![p] = n]
    /\ lp' = [lp EXCEPT ![p] = LastNode]
    /\ Goto(p, "back")
    /\ UNCHANGED <<lock, list, call, ln, pos, ret, oops>>

(* list_add_tail: head->prev = new, and the links of the new node.         *)
CreateLinkBack(p) ==
    /\ At(p, "back")
    /\ prv' = [prv EXCEPT ![Root] = cur[p], ![cur[p]] = lp[p]]
    /\ nxt' = [nxt EXCEPT ![cur[p]] = Root]
    /\ Goto(p, "front")
    /\ UNCHANGED <<lock, msq, call, locals, ret, oops>>

(* list_add_tail: prev->next = new, then rtn = msq->key.                   *)
CreateLinkFront(p) ==
    /\ At(p, "front")
    /\ nxt' = [nxt EXCEPT ![lp[p]] = cur[p]]
    /\ Goto(p, "check")
    /\ UNCHANGED <<lock, prv, msq, call, locals, ret, oops>>

(* CLOSE: rtn = msq->key; list_del reads both neighbours.                  *)
CloseRead(p) ==
    /\ At(p, "close")
    /\ ret' = [ret EXCEPT ![p] = msq[cur[p]].key]
    /\ lp' = [lp EXCEPT ![p] = prv[cur[p]]]
    /\ ln' = [ln EXCEPT ![p] = nxt[cur[p]]]
    /\ Goto(p, "unback")
    /\ UNCHANGED <<lock, list, msq, call, cur, pos, oops>>

(* list_del: next->prev = prev.                                            *)
CloseUnlinkBack(p) ==
    /\ At(p, "unback")
    /\ prv' = [prv EXCEPT ![ln[p]] = lp[p]]
    /\ Goto(p, "unfront")
    /\ UNCHANGED <<lock, nxt, msq, call, locals, ret, oops>>

(* list_del: prev->next = next.                                            *)
CloseUnlinkFront(p) ==
    /\ At(p, "unfront")
    /\ nxt' = [nxt EXCEPT ![lp[p]] = ln[p]]
    /\ Goto(p, "kfree")
    /\ UNCHANGED <<lock, prv, msq, call, locals, ret, oops>>

(* list_del poisons the node; ku_ipc_msq_delete frees the node and all its *)
(* messages, also one that a read has just found.                          *)
CloseFree(p) ==
    /\ At(p, "kfree")
    /\ msq' = [msq EXCEPT ![cur[p]] = NULL]
    /\ nxt' = [nxt EXCEPT ![cur[p]] = NULL]
    /\ prv' = [prv EXCEPT ![cur[p]] = NULL]
    /\ pos' = [q \in Proc |-> IF cur[q] = cur[p] THEN 0 ELSE pos[q]]
    /\ Return(p, ret[p])
    /\ UNCHANGED <<lock, oops>>

-----------------------------------------------------------------------------
(* Mutant: any message of the type, not the oldest.                        *)
AnyOfType(msgs, i, t) == msgs[i].type = t

(* The search stops at message i, the first of type t.                     *)
FirstOfType(msgs, i, t) ==
    /\ msgs[i].type = t
    /\ \A j \in 1..(i - 1) : msgs[j].type # t

(* ku_ipc_read: the early returns, then the first message of the type.     *)
ReadFind(p) ==
    /\ At(p, "read")
    /\ LET q == msq[cur[p]] IN
        CASE q.size - 1 < 0 -> Leave(p, IPC_RES_NOMSG) /\ pos' = pos
          [] q.size - 1 >= 0 /\ q.vol <= 0 ->
                Leave(p, IPC_RES_NOVOL) /\ pos' = pos
          [] OTHER ->
              \/ /\ \A i \in DOMAIN q.msgs : q.msgs[i].type # call[p].type
                 /\ Leave(p, IPC_RES_NOMSG) /\ pos' = pos
              \/ \E i \in DOMAIN q.msgs :
                    /\ FirstOfType(q.msgs, i, call[p].type)
                    /\ pos' = [pos EXCEPT ![p] = i]
                    /\ Goto(p, "copy") /\ ret' = ret
    /\ UNCHANGED <<lock, list, msq, call, cur, lp, ln, oops>>

(* copy_to_user of the whole text, of its head with MSG_NOERROR, or not.   *)
ReadCopy(p) ==
    /\ At(p, "copy")
    /\ LET msgsz == msq[cur[p]].msgs[pos[p]].msgsz IN
        IF call[p].len < msgsz /\ ~call[p].noerror
        THEN Leave(p, IPC_RES_SHORT)
        ELSE /\ Goto(p, "remove")
             /\ ret' = [ret EXCEPT ![p] =
                    IF call[p].len >= msgsz THEN msgsz ELSE call[p].len]
    /\ UNCHANGED <<lock, list, msq, call, locals, oops>>

(* list_del, ku_ipc_msg_delete, size--, and vol -= kernel_buf->msgsz, which *)
(* is read after kernel_buf has been freed.                                *)
ReadRemove(p) ==
    /\ At(p, "remove")
    /\ LET q == msq[cur[p]] IN
        \E sz \in {q.msgs[pos[p]].msgsz} \cup StrayReads :
            msq' = [msq EXCEPT ![cur[p]] =
                [key |-> q.key, msgs |-> RemoveAt(q.msgs, pos[p]),
                 size |-> q.size - 1, vol |-> q.vol - sz]]
    /\ Leave(p, ret[p])
    /\ UNCHANGED <<lock, list, call, locals, oops>>

(* Mutant: one message more.                                               *)
FullLate(q) == q.size > KUIPC_MAXMSG

Full(q) == q.size + 1 > KUIPC_MAXMSG

(* Mutant: the new text is not counted.                                    *)
TooBigLate(q, len) == q.vol \notin 0..KUIPC_MAXVOL

(* vol + len is unsigned: a negative sum is a huge one.                    *)
TooBig(q, len) == q.vol + len \notin 0..KUIPC_MAXVOL

(* ku_ipc_write: the limits.                                               *)
WriteCheck(p) ==
    /\ At(p, "write")
    /\ LET q == msq[cur[p]] IN
        CASE Full(q) -> Leave(p, IPC_RES_FULLMSG)
          [] ~Full(q) /\ TooBig(q, call[p].len) -> Leave(p, IPC_RES_FULLVOL)
          [] OTHER -> Goto(p, "append") /\ ret' = ret
    /\ UNCHANGED <<lock, list, msq, call, locals, oops>>

(* ku_ipc_msg_create, list_add_tail, size++ and vol += len.                *)
WriteAppend(p) ==
    /\ At(p, "append")
    /\ LET q == msq[cur[p]]
           m == [type |-> call[p].type, msgsz |-> call[p].len,
                 index |-> q.size + 1] IN
        msq' = [msq EXCEPT ![cur[p]] =
            [key |-> q.key, msgs |-> Append(q.msgs, m),
             size |-> q.size + 1, vol |-> q.vol + call[p].len]]
    /\ Leave(p, 0)
    /\ UNCHANGED <<lock, list, call, locals, oops>>

(* spin_unlock and return.                                                 *)
Unlock(p) ==
    /\ At(p, "unlock")
    /\ lock' = NULL
    /\ pos' = [pos EXCEPT ![p] = 0]
    /\ Return(p, ret[p])
    /\ UNCHANGED <<list, msq, oops>>

(* The next access of p is to memory it may not touch.                     *)
Fault(p) ==
    /\ ~oops
    /\ ~Sound(p)
    /\ oops' = TRUE
    /\ UNCHANGED <<lock, list, msq, pc, call, locals, ret>>

-----------------------------------------------------------------------------
Ioctl(p) ==
    \/ ReturnKey(p)
    \/ CreateAlloc(p) \/ CreateLinkBack(p) \/ CreateLinkFront(p)
    \/ CloseRead(p) \/ CloseUnlinkBack(p) \/ CloseUnlinkFront(p)
    \/ CloseFree(p)

Transfer(p) ==
    \/ ReadFind(p) \/ ReadCopy(p) \/ ReadRemove(p)
    \/ WriteCheck(p) \/ WriteAppend(p)
    \/ Unlock(p)

(* A step of p inside the driver. *)
Inside(p) == Acquire(p) \/ Scan(p) \/ Ioctl(p) \/ Transfer(p) \/ Fault(p)

Next ==
    \E p \in Proc :
        \/ \E c \in Call : c.op \in MayCall[p] /\ Syscall(p, c)
        \/ Inside(p)

Spec == Init /\ [][Next]_vars

-----------------------------------------------------------------------------
(* Every variable has its type.                                            *)
TypeOK ==
    /\ lock \in Proc \cup {NULL}
    /\ nxt \in [Node \cup {Root} -> Ptr]
    /\ prv \in [Node \cup {Root} -> Ptr]
    /\ msq \in [Node -> Queue \cup {NULL}]
    /\ pc \in [Proc -> Labels]
    /\ call \in [Proc -> Call \cup {NoCall}]
    /\ cur \in [Proc -> Ptr]
    /\ lp \in [Proc -> Ptr]
    /\ ln \in [Proc -> Ptr]
    /\ pos \in [Proc -> Nat]
    /\ ret \in [Proc -> Int]
    /\ oops \in BOOLEAN

(* A process holds ku_ipc_lock exactly while it is between spin_lock and   *)
(* spin_unlock of read or write: no return path keeps the lock, none       *)
(* releases a lock it does not hold, and no two calls are inside.          *)
LockOwned == \A p \in Proc : lock = p <=> Locked(p)

Used == {n \in Node : msq[n] # NULL}

(* size counts the messages of a queue, and no interleaving of writers     *)
(* gets past KUIPC_MAXMSG between the test and the append.                 *)
SizeCounts ==
    \A n \in Used : /\ msq[n].size = Len(msq[n].msgs)
                    /\ msq[n].size <= KUIPC_MAXMSG

(* sum[i] is the total text size of the first i messages.                  *)
PrefixSums(msgs, sum) ==
    /\ sum[0] = 0
    /\ \A i \in 1..Len(msgs) : sum[i] = sum[i - 1] + msgs[i].msgsz
    /\ \A i, j \in 0..Len(msgs) : i <= j => sum[i] <= sum[j]

Adds(q) ==
    \E sum \in [0..Len(q.msgs) -> 0..KUIPC_MAXVOL] :
        PrefixSums(q.msgs, sum) /\ q.vol = sum[Len(q.msgs)]

(* vol is the total text size of the queue and stays within KUIPC_MAXVOL,  *)
(* as long as the freed mybuf still holds its msgsz at line 243.           *)
VolumeCounts == StrayReads = {} => \A n \in Used : Adds(msq[n])

(* The comment of line 35: vol is the total size of the message queue, so  *)
(* it is 0 for a queue without messages.                                   *)
EmptyHasNoVolume ==
    \A n \in Used : msq[n].msgs = <<>> => msq[n].vol = 0

(* No call dereferences NULL or a queue or message that was freed.         *)
NoOops == ~oops

Changing == \E p \in Proc : pc[p] \in {"back", "front", "unback", "unfront",
                                       "kfree"}

(* next leads once round all of R.                                         *)
Circle(R) ==
    /\ \A x \in R : nxt[x] \in R
    /\ \A S \in SUBSET R : S # {} /\ (\A x \in S : nxt[x] \in S) => S = R

(* The list of queues is whole: at every moment a traversal along next     *)
(* comes back to the root over used nodes only, and when no CREATE or      *)
(* CLOSE is under way it passes every queue and prev mirrors next.         *)
ListIntact ==
    \E R \in SUBSET (Used \cup {Root}) :
        /\ Root \in R /\ Circle(R)
        /\ ~Changing => /\ R = Used \cup {Root}
                        /\ \A x \in R : prv[nxt[x]] = x
=============================================================================
