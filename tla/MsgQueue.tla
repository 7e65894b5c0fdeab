------------------------------ MODULE MsgQueue ------------------------------
(***************************************************************************)
(* What KU_IPC promises its users: at most one queue per key, a bounded    *)
(* sequence of typed messages in it, and send and receive that take effect *)
(* at one instant.  There is no lock, list or process here.                *)
(***************************************************************************)
EXTENDS Integers, Sequences, SequencesExt

CONSTANTS Key, Type, Size, KUIPC_MAXMSG, KUIPC_MAXVOL,
          Closed        \* the content of a key that has no queue

VARIABLE queue          \* the messages of every key

Text == [type : Type, msgsz : Size]

(* s is within both limits: sum[i] is the text size of its first i         *)
(* messages.                                                               *)
Fits(s) ==
    /\ Len(s) <= KUIPC_MAXMSG
    /\ \E sum \in [0..Len(s) -> 0..KUIPC_MAXVOL] :
        /\ sum[0] = 0
        /\ \A i \in 1..Len(s) : sum[i] = sum[i - 1] + s[i].msgsz

Init == queue = [k \in Key |-> Closed]

Open(k) == queue[k] = Closed /\ queue' = [queue EXCEPT ![k] = <<>>]

Close(k) == queue[k] # Closed /\ queue' = [queue EXCEPT ![k] = Closed]

(* A message goes to the end of a queue that has room for it.              *)
Send(k, m) ==
    /\ queue[k] # Closed
    /\ Fits(Append(queue[k], m))
    /\ queue' = [queue EXCEPT ![k] = Append(@, m)]

(* The oldest message of its type leaves the queue.                        *)
Receive(k) ==
    /\ queue[k] # Closed
    /\ \E i \in DOMAIN queue[k] :
        /\ \A j \in 1..(i - 1) : queue[k][j].type # queue[k][i].type
        /\ queue' = [queue EXCEPT ![k] = RemoveAt(@, i)]

Next ==
    \E k \in Key :
        \/ Open(k) \/ Close(k) \/ Receive(k)
        \/ \E m \in Text : Send(k, m)

Spec == Init /\ [][Next]_queue
=============================================================================
