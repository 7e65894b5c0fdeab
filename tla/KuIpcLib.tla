------------------------------ MODULE KuIpcLib ------------------------------
(***************************************************************************)
(* The user library ku_ipc_lib.c.txt on top of the driver: every function  *)
(* is a sequence of system calls, so the driver may change between its     *)
(* CHECK and what it does next.  A process is a program that makes a given *)
(* list of library calls; log[p] holds the results of those it has made.   *)
(***************************************************************************)
EXTENDS KuIpcDriver

CONSTANTS
    Programs,       \* the programs: functions from Proc to sequences of calls
    After           \* After[p]: the processes that end before p is started

SUCCESS == 0
FAIL == -1

LibCall ==
    [fn : {"msgget"}, key : Key, excl : BOOLEAN]
        \cup [fn : {"msgclose"}, key : Key]
        \cup [fn : {"msgsnd"}, key : Key, type : Type, len : Size,
              nowait : BOOLEAN]
        \cup [fn : {"msgrcv"}, key : Key, type : Type, len : Size,
              nowait : BOOLEAN, noerror : BOOLEAN]

ASSUME KuIpcLibAssumption ==
    /\ Programs \subseteq [Proc -> Seq(LibCall)]
    /\ After \in [Proc -> SUBSET Proc]
    /\ MayCall = [p \in Proc |-> Ops]

(* NULL is not the content of a queue. *)
ASSUME ContentAssumption ==
    \A n \in 0..KUIPC_MAXMSG : NULL \notin [1..n -> [type : Type, msgsz : Size]]

VARIABLES
    program,        \* the calls each process makes
    log,            \* the results of the calls that have returned
    at              \* the system call each process waits for, or "out"

libVars == <<program, log, at>>
allVars == <<vars, libVars>>

Ended(p) == Len(log[p]) = Len(program[p])

(* The library call p executes. *)
Args(p) == program[p][Len(log[p]) + 1]

(* What libc makes of the value a system call returned: an error code of   *)
(* the kernel's becomes -1.                                                *)
MAX_ERRNO == 4095

Answer(p) == IF ret[p] \in -MAX_ERRNO..-1 THEN -1 ELSE ret[p]

LibInit ==
    /\ Init
    /\ program \in Programs
    /\ log = [p \in Proc |-> <<>>]
    /\ at = [p \in Proc |-> "out"]

-----------------------------------------------------------------------------
(* Issue system call c and wait for it at label l. *)
Issue(p, c, l) ==
    /\ Syscall(p, c)
    /\ at' = [at EXCEPT ![p] = l]
    /\ UNCHANGED <<program, log>>

(* The library function returns r. *)
Finish(p, r) ==
    /\ at' = [at EXCEPT ![p] = "out"]
    /\ log' = [log EXCEPT ![p] = Append(@, r)]
    /\ UNCHANGED <<vars, program>>

(* System call l of a function fn of p has returned. *)
Back(p, fn, l) ==
    /\ pc[p] = "user" /\ ~oops
    /\ at[p] = l
    /\ Args(p).fn = fn

(* Mutants: key 1 is missed; an error code, not 0, counts as existing.     *)
ExistsAboveOne(p) == Answer(p) > 1
ExistsUnlessZero(p) == Answer(p) # 0

(* msgget and msgclose take a positive answer of CHECK for "it exists".    *)
Exists(p) == Answer(p) > 0

Begin(p) ==
    /\ ~Ended(p)
    /\ at[p] = "out"
    /\ \A q \in After[p] : Ended(q)
    /\ Issue(p, [op |-> "check", key |-> Args(p).key], "check")

(* ku_ipc_msgget *)
GetExisting(p) ==
    /\ Back(p, "msgget", "check")
    /\ Exists(p)
    /\ Finish(p, IF Args(p).excl THEN FAIL ELSE Answer(p))

GetCreate(p) ==
    /\ Back(p, "msgget", "check")
    /\ ~Exists(p)
    /\ Issue(p, [op |-> "create", key |-> Args(p).key], "create")

GetCreated(p) ==
    /\ Back(p, "msgget", "create")
    /\ Finish(p, Answer(p))

(* ku_msgclose *)
CloseExisting(p) ==
    /\ Back(p, "msgclose", "check")
    /\ Exists(p)
    /\ Issue(p, [op |-> "close", key |-> Args(p).key], "close")

CloseNothing(p) ==
    /\ Back(p, "msgclose", "check")
    /\ ~Exists(p)
    /\ Finish(p, IF Answer(p) < 0 THEN FAIL ELSE SUCCESS)

CloseDone(p) ==
    /\ Back(p, "msgclose", "close")
    /\ Finish(p, SUCCESS)

(* The write and the read that msgsnd and msgrcv issue, again and again. *)
WriteCall(p) ==
    [op |-> "write", key |-> Args(p).key, type |-> Args(p).type,
     len |-> Args(p).len]

ReadCall(p) ==
    [op |-> "read", key |-> Args(p).key, type |-> Args(p).type,
     len |-> Args(p).len, noerror |-> Args(p).noerror]

(* Mutant: a blocking send gives up like a send with IPC_NOWAIT.           *)
SendNeverWaits(p) == TRUE

(* No further write: it was accepted, the queue is gone, or IPC_NOWAIT.    *)
SendSettled(p) == Answer(p) \in {0, IPC_RES_NOMSQ} \/ Args(p).nowait

(* Mutant: a missing queue is waited for.                                  *)
WaitForQueue(p) == Answer(p) \in Nat \cup {IPC_RES_SHORT} \/ Args(p).nowait

(* No further read: a message, no hope for one, or IPC_NOWAIT.             *)
ReceiveSettled(p) ==
    \/ Answer(p) >= 0 \/ Args(p).nowait
    \/ Answer(p) \in {IPC_RES_NOMSQ, IPC_RES_SHORT}

(* ku_msgsnd *)
SendChecked(p) ==
    /\ Back(p, "msgsnd", "check")
    /\ IF Answer(p) < 0 THEN Finish(p, FAIL)
       ELSE Issue(p, WriteCall(p), "write")

SendRetry(p) ==
    /\ Back(p, "msgsnd", "write")
    /\ ~SendSettled(p)
    /\ Issue(p, WriteCall(p), "write")

(* With IPC_NOWAIT whatever write answered is SUCCESS. *)
SendDone(p) ==
    /\ Back(p, "msgsnd", "write")
    /\ SendSettled(p)
    /\ Finish(p, IF Answer(p) = IPC_RES_NOMSQ /\ ~Args(p).nowait
                 THEN FAIL ELSE SUCCESS)

(* ku_msgrcv *)
ReceiveChecked(p) ==
    /\ Back(p, "msgrcv", "check")
    /\ IF Answer(p) < 0 THEN Finish(p, FAIL)
       ELSE Issue(p, ReadCall(p), "read")

ReceiveRetry(p) ==
    /\ Back(p, "msgrcv", "read")
    /\ ~ReceiveSettled(p)
    /\ Issue(p, ReadCall(p), "read")

ReceiveDone(p) ==
    /\ Back(p, "msgrcv", "read")
    /\ ReceiveSettled(p)
    /\ Finish(p, IF Answer(p) < 0 THEN FAIL ELSE Answer(p))

LibStep(p) ==
    \/ Begin(p)
    \/ GetExisting(p) \/ GetCreate(p) \/ GetCreated(p)
    \/ CloseExisting(p) \/ CloseNothing(p) \/ CloseDone(p)
    \/ SendChecked(p) \/ SendRetry(p) \/ SendDone(p)
    \/ ReceiveChecked(p) \/ ReceiveRetry(p) \/ ReceiveDone(p)

(* Everything p does, in the library or in the driver. *)
ProcStep(p) == LibStep(p) \/ (Inside(p) /\ UNCHANGED libVars)

LibNext == \E p \in Proc : ProcStep(p)

(* The scheduler runs every process; the ticket lock of the ARM kernel     *)
(* serves its waiters in order, so none of them spins for ever while the   *)
(* lock is free again and again.                                           *)
Fairness ==
    \A p \in Proc :
        /\ WF_allVars(ProcStep(p))
        /\ SF_allVars(Acquire(p) /\ UNCHANGED libVars)

LibSpec == LibInit /\ [][LibNext]_allVars

FairSpec == LibSpec /\ Fairness

-----------------------------------------------------------------------------
LibTypeOK ==
    /\ TypeOK
    /\ program \in Programs
    /\ log \in [Proc -> Seq(Int)]
    /\ at \in [Proc -> {"out", "check", "create", "close", "write", "read"}]

(* The library makes only calls the driver's specification allows for, so  *)
(* every property of the driver holds under it.                            *)
UsesDriver == Spec

Has(n, k) == n \in Used /\ msq[n].key = k

(* S holds what a traversal for key k meets on its way along next, up to   *)
(* the first queue of the key.                                             *)
OnTheWay(k, S) ==
    \A x \in S \cup {Root} : Has(x, k) \/ nxt[x] \in S \cup {Root, NULL}

(* The queue a traversal finds for key k.                                  *)
Finds(k, n) == Has(n, k) /\ \A S \in SUBSET Node : OnTheWay(k, S) => n \in S

Content(n) ==
    [i \in DOMAIN msq[n].msgs |->
        [type |-> msq[n].msgs[i].type, msgsz |-> msq[n].msgs[i].msgsz]]

Contents ==
    [k \in Key |->
        IF \E n \in Used : Finds(k, n)
        THEN Content(CHOOSE n \in Used : Finds(k, n)) ELSE NULL]

Abstract == INSTANCE MsgQueue WITH queue <- Contents, Closed <- NULL

(* What the users of the library see are queues that open, close, take and *)
(* hand out messages atomically: no message is lost, duplicated or         *)
(* overtaken by a younger one of its type, and no limit is exceeded.       *)
ImplementsMsgQueue == Abstract!Spec

(* A positive key names one queue: msgget creates a queue only for a key   *)
(* without one.  0 is not recognised as existing, so that every msgget of  *)
(* key 0 creates another queue, of which only the first is ever found.     *)
OneQueuePerKey ==
    \A m, n \in Used : msq[m].key = msq[n].key /\ msq[n].key > 0 => m = n

(* The calls of function fn that process p has made with result in S.      *)
Results(p, fn, S) ==
    {i \in 1..Len(log[p]) : program[p][i].fn = fn /\ log[p][i] \in S}

(* The members of all the sets f[x], each with the x it is from.           *)
Pairs(f) == UNION {{x} \X f[x] : x \in DOMAIN f}

(* ... and how many they are.                                              *)
Total(f) == Cardinality(Pairs(f))

Sent == [p \in Proc |-> Results(p, "msgsnd", {SUCCESS})]

Received == [p \in Proc |-> Results(p, "msgrcv", Nat)]

(* The sends so far that waited until the queue took their message.        *)
Waited == [p \in Proc |-> {i \in Sent[p] : ~program[p][i].nowait}]

Queued == [n \in Used |-> DOMAIN msq[n].msgs]

(* No call is under way, and nothing was closed.                           *)
AtRest ==
    \A p \in Proc : at[p] = "out" /\ Results(p, "msgclose", {SUCCESS}) = {}

(* The messages received and those still queued are what was sent.  Only   *)
(* sends with IPC_NOWAIT, which succeed also when the message was refused, *)
(* may be missing.                                                         *)
Accounted ==
    AtRest => Total(Received) + Total(Queued) \in Total(Waited)..Total(Sent)

(* So many messages, of some size, do not fit into a queue.                *)
TooMany(k) == k > KUIPC_MAXMSG \/ \E s \in Size : k * s > KUIPC_MAXVOL

(* None is missing as long as all that was sent fits into a queue.         *)
Conserved ==
    /\ Accounted
    /\ AtRest /\ ~TooMany(Total(Sent)) =>
          Total(Received) + Total(Queued) = Total(Sent)

(* What the call of p waits for is not there: room for its message, a      *)
(* message of its type, or any text at all, without which read finds no    *)
(* message of any type.                                                    *)
Hopeless(p) ==
    LET msgs == Contents[Args(p).key]
    IN  /\ ~Ended(p) /\ msgs # NULL
        /\ \/ /\ Args(p).fn = "msgsnd"
              /\ ~Abstract!Fits(Append(msgs, [type |-> Args(p).type,
                                              msgsz |-> Args(p).len]))
           \/ /\ Args(p).fn = "msgrcv"
              /\ \/ \A i \in DOMAIN msgs : msgs[i].msgsz = 0
                 \/ \A i \in DOMAIN msgs : msgs[i].type # Args(p).type

(* In the end every program has come to its end or waits for something     *)
(* that is not there: no call blocks for ever on the lock, on a message    *)
(* that it could take or on room that there is.                            *)
WaitsOnlyForCause == <>[](\A p \in Proc : Ended(p) \/ Hopeless(p))

(* Every program comes to its end unless the kernel faults first.          *)
TerminatesOrFaults == <>(oops \/ \A p \in Proc : Ended(p))
=============================================================================
