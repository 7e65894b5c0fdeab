------------------------- MODULE KuIpcDriver_proofs -------------------------
(***************************************************************************)
(* Proofs about the KU_IPC driver, for any number of processes, queues,    *)
(* keys and sizes, and with every system call allowed to every process.    *)
(* The invariants hold up to the first undefined access (oops), after      *)
(* which the specification allows no further step.                         *)
(***************************************************************************)
EXTENDS KuIpcDriver, SequenceTheorems, TLAPS

-----------------------------------------------------------------------------
(* A message taken out of a sequence: what is left, and where.             *)
LEMMA RemoveAtProperties ==
    ASSUME NEW S, NEW s \in Seq(S), NEW k \in 1..Len(s)
    PROVE  /\ RemoveAt(s, k) \in Seq(S)
           /\ Len(RemoveAt(s, k)) = Len(s) - 1
           /\ \A i \in 1..(Len(s) - 1) :
                RemoveAt(s, k)[i] = IF i < k THEN s[i] ELSE s[i + 1]
<1> DEFINE a == SubSeq(s, 1, k - 1)
           b == SubSeq(s, k + 1, Len(s))
<1>0. Len(s) \in Nat /\ k \in Int
  BY LenProperties
<1>1. /\ a \in Seq(S) /\ Len(a) = k - 1
      /\ \A i \in 1..(k - 1) : a[i] = s[i]
  <2>1. \A i \in 1..(k - 1) : s[i] \in S
    BY <1>0, ElementOfSeq
  <2> QED
    BY <1>0, <2>1, SubSeqProperties
<1>2. /\ b \in Seq(S) /\ Len(b) = Len(s) - k
      /\ \A i \in 1..(Len(s) - k) : b[i] = s[k + i]
  <2>1. \A i \in (k + 1)..Len(s) : s[i] \in S
    BY <1>0, ElementOfSeq
  <2> QED
    BY <1>0, <2>1, SubSeqProperties
<1>3. /\ a \o b \in Seq(S)
      /\ Len(a \o b) = Len(a) + Len(b)
      /\ \A i \in 1..(Len(a) + Len(b)) :
            (a \o b)[i] = IF i <= Len(a) THEN a[i] ELSE b[i - Len(a)]
  BY <1>1, <1>2, ConcatProperties
<1>4. RemoveAt(s, k) = a \o b
  BY DEF RemoveAt
<1> HIDE DEF a, b
<1>5. \A i \in 1..(Len(s) - 1) :
        (a \o b)[i] = IF i < k THEN s[i] ELSE s[i + 1]
  <2> SUFFICES ASSUME NEW i \in 1..(Len(s) - 1)
               PROVE  (a \o b)[i] = IF i < k THEN s[i] ELSE s[i + 1]
    OBVIOUS
  <2>1. CASE i < k
    BY <1>0, <1>1, <1>2, <1>3, <2>1
  <2>2. CASE i >= k
    <3>1. (a \o b)[i] = b[i - (k - 1)]
      BY <1>0, <1>1, <1>2, <1>3, <2>2
    <3>2. i - (k - 1) \in 1..(Len(s) - k) /\ k + (i - (k - 1)) = i + 1
      BY <1>0, <2>2
    <3>3. b[i - (k - 1)] = s[k + (i - (k - 1))]
      BY <1>2, <3>2
    <3> QED
      BY <1>0, <2>2, <3>1, <3>2, <3>3
  <2>3. i < k \/ i >= k
    BY <1>0
  <2> QED
    BY <2>1, <2>2, <2>3, Zenon
<1> QED
  BY <1>0, <1>1, <1>2, <1>3, <1>4, <1>5

(* The prefix sums of a queue after one more message.                      *)
LEMMA AppendSums ==
    ASSUME NEW V \in Nat, NEW s \in Seq(Message), NEW m \in Message,
           Size \subseteq Nat,
           NEW sum \in [0..Len(s) -> 0..V], PrefixSums(s, sum),
           sum[Len(s)] + m.msgsz <= V
    PROVE  \E new \in [0..Len(Append(s, m)) -> 0..V] :
                /\ PrefixSums(Append(s, m), new)
                /\ new[Len(Append(s, m))] = sum[Len(s)] + m.msgsz
<1> DEFINE n == Len(s)
           t == Append(s, m)
           new == [i \in 0..(n + 1) |-> IF i <= n THEN sum[i]
                                        ELSE sum[n] + m.msgsz]
<1>1. n \in Nat /\ Len(t) = n + 1
  BY AppendProperties, LenProperties
<1>2. /\ \A i \in 1..n : t[i] = s[i]
      /\ t[n + 1] = m
  BY AppendProperties
<1>3. m.msgsz \in Nat
  BY DEF Message
<1>4. \A i \in 0..n : sum[i] \in 0..V
  OBVIOUS
<1> HIDE DEF n, t
<1>5. new \in [0..Len(t) -> 0..V]
  <2>1. sum[n] + m.msgsz \in 0..V
    BY <1>1, <1>3, <1>4 DEF n
  <2> QED
    BY <1>1, <1>4, <2>1
<1>6. PrefixSums(t, new)
  <2>1. new[0] = 0
    BY <1>1 DEF PrefixSums
  <2>2. \A i \in 1..Len(t) : new[i] = new[i - 1] + t[i].msgsz
    <3> SUFFICES ASSUME NEW i \in 1..(n + 1)
                 PROVE  new[i] = new[i - 1] + t[i].msgsz
      BY <1>1
    <3>1. CASE i <= n
      BY <1>1, <1>2, <3>1 DEF PrefixSums, n
    <3>2. CASE i = n + 1
      BY <1>1, <1>2, <3>2
    <3> QED
      BY <1>1, <3>1, <3>2
  <2>3. \A i, j \in 0..Len(t) : i <= j => new[i] <= new[j]
    <3> SUFFICES ASSUME NEW i \in 0..(n + 1), NEW j \in 0..(n + 1), i <= j
                 PROVE  new[i] <= new[j]
      BY <1>1
    <3>1. CASE j <= n
      BY <1>1, <3>1 DEF PrefixSums, n
    <3>2. CASE j = n + 1 /\ i <= n
      <4>1. sum[i] <= sum[n]
        BY <1>1, <3>2 DEF PrefixSums, n
      <4>2. sum[i] \in Int /\ sum[n] \in Int
        BY <1>1, <1>4, <3>2
      <4> QED
        BY <1>1, <1>3, <3>2, <4>1, <4>2
    <3>3. CASE i = n + 1 /\ j = n + 1
      BY <1>1, <1>3, <1>4, <3>3
    <3> QED
      BY <1>1, <3>1, <3>2, <3>3
  <2> QED
    BY <2>1, <2>2, <2>3 DEF PrefixSums
<1>7. new[Len(t)] = sum[Len(s)] + m.msgsz
  BY <1>1 DEF n
<1> QED
  BY <1>5, <1>6, <1>7 DEF t

(* The prefix sums of a queue after message k has been taken out.          *)
LEMMA RemoveSums ==
    ASSUME NEW V \in Nat, NEW s \in Seq(Message), NEW k \in 1..Len(s),
           Size \subseteq Nat,
           NEW sum \in [0..Len(s) -> 0..V], PrefixSums(s, sum)
    PROVE  \E new \in [0..Len(RemoveAt(s, k)) -> 0..V] :
                /\ PrefixSums(RemoveAt(s, k), new)
                /\ new[Len(RemoveAt(s, k))] = sum[Len(s)] - s[k].msgsz
<1> DEFINE n == Len(s)
           t == RemoveAt(s, k)
           new == [i \in 0..(n - 1) |-> IF i < k THEN sum[i]
                                        ELSE sum[i + 1] - s[k].msgsz]
<1>1. n \in Nat /\ n >= 1 /\ k \in 1..n /\ Len(t) = n - 1
  BY RemoveAtProperties, LenProperties
<1>2. \A i \in 1..(n - 1) : t[i] = IF i < k THEN s[i] ELSE s[i + 1]
  BY RemoveAtProperties
<1>3. \A i \in 1..n : s[i].msgsz \in Nat
  <2>1. \A i \in 1..n : s[i] \in Message
    BY ElementOfSeq
  <2> QED
    BY <2>1 DEF Message
<1>4. \A i \in 0..n : sum[i] \in 0..V
  OBVIOUS
<1>5. /\ sum[0] = 0
      /\ \A i \in 1..n : sum[i] = sum[i - 1] + s[i].msgsz
      /\ \A i, j \in 0..n : i <= j => sum[i] <= sum[j]
  BY DEF PrefixSums
<1> HIDE DEF n, t
<1>6. \A i \in k..n : sum[i] - s[k].msgsz \in 0..V /\ sum[k - 1] <= sum[i] - s[k].msgsz
  <2> SUFFICES ASSUME NEW i \in k..n
               PROVE  sum[i] - s[k].msgsz \in 0..V
                        /\ sum[k - 1] <= sum[i] - s[k].msgsz
    OBVIOUS
  <2>1. sum[k] <= sum[i] /\ sum[k] = sum[k - 1] + s[k].msgsz
    BY <1>1, <1>5
  <2>2. sum[k - 1] \in 0..V /\ sum[k] \in 0..V /\ sum[i] \in 0..V
    BY <1>1, <1>4
  <2>3. s[k].msgsz \in Nat
    BY <1>1, <1>3
  <2> QED
    BY <2>1, <2>2, <2>3
<1>7. new \in [0..Len(t) -> 0..V]
  <2> SUFFICES ASSUME NEW i \in 0..(n - 1)
               PROVE  (IF i < k THEN sum[i] ELSE sum[i + 1] - s[k].msgsz) \in 0..V
    BY <1>1
  <2>1. CASE i < k
    BY <1>1, <1>4, <2>1
  <2>2. CASE i >= k
    <3>1. i + 1 \in k..n
      BY <1>1, <2>2
    <3> QED
      BY <1>1, <1>6, <2>2, <3>1
  <2> QED
    BY <1>1, <2>1, <2>2
<1>10. \A i \in 0..(n - 1) : i < k => new[i] = sum[i]
  OBVIOUS
<1>11. \A i \in 0..(n - 1) : i >= k => new[i] = sum[i + 1] - s[k].msgsz
  BY <1>1
<1> HIDE DEF new
<1>8. PrefixSums(t, new)
  <2>1. new[0] = 0
    <3>1. 0 \in 0..(n - 1) /\ 0 < k
      BY <1>1
    <3> QED
      BY <1>5, <1>10, <3>1
  <2>2. \A i \in 1..Len(t) : new[i] = new[i - 1] + t[i].msgsz
    <3> SUFFICES ASSUME NEW i \in 1..(n - 1)
                 PROVE  new[i] = new[i - 1] + t[i].msgsz
      BY <1>1
    <3>1. CASE i < k
      <4>1. new[i] = sum[i] /\ new[i - 1] = sum[i - 1] /\ t[i] = s[i]
        BY <1>1, <1>2, <1>10, <3>1
      <4> QED
        BY <1>1, <1>5, <4>1
    <3>2. CASE i = k
      <4>1. sum[k + 1] = sum[k] + s[k + 1].msgsz
        BY <1>1, <1>5, <3>2
      <4>2. sum[k] = sum[k - 1] + s[k].msgsz
        BY <1>1, <1>5
      <4>3. new[i] = sum[k + 1] - s[k].msgsz /\ new[i - 1] = sum[k - 1]
        <5>1. k \in 0..(n - 1) /\ k >= k /\ k - 1 \in 0..(n - 1) /\ k - 1 < k
          BY <1>1, <3>2
        <5> QED
          BY <1>10, <1>11, <3>2, <5>1
      <4>4. t[i] = s[k + 1]
        BY <1>1, <1>2, <3>2
      <4>5. sum[k - 1] \in 0..V /\ s[k].msgsz \in Nat /\ s[k + 1].msgsz \in Nat
        <5>1. k - 1 \in 0..n /\ k \in 1..n /\ k + 1 \in 1..n
          BY <1>1, <3>2
        <5> QED
          BY <1>3, <1>4, <5>1
      <4> QED
        BY <4>1, <4>2, <4>3, <4>4, <4>5
    <3>3. CASE i > k
      <4>1. sum[i + 1] = sum[i] + s[i + 1].msgsz
        BY <1>1, <1>5, <3>3
      <4>2. new[i] = sum[i + 1] - s[k].msgsz /\ new[i - 1] = sum[i] - s[k].msgsz
        <5>1. i - 1 \in 0..(n - 1) /\ i - 1 >= k /\ (i - 1) + 1 = i
          BY <1>1, <3>3
        <5> QED
          BY <1>1, <1>11, <3>3, <5>1
      <4>3. t[i] = s[i + 1]
        BY <1>1, <1>2, <3>3
      <4>4. sum[i] \in 0..V /\ s[k].msgsz \in Nat /\ s[i + 1].msgsz \in Nat
        BY <1>1, <1>3, <1>4, <3>3
      <4> QED
        BY <4>1, <4>2, <4>3, <4>4
    <3> QED
      BY <1>1, <3>1, <3>2, <3>3
  <2>3. \A i, j \in 0..Len(t) : i <= j => new[i] <= new[j]
    <3> SUFFICES ASSUME NEW i \in 0..(n - 1), NEW j \in 0..(n - 1), i <= j
                 PROVE  new[i] <= new[j]
      BY <1>1
    <3>1. CASE j < k
      BY <1>1, <1>5, <1>10, <3>1
    <3>2. CASE i < k /\ j >= k
      <4>1. sum[i] <= sum[k - 1]
        BY <1>1, <1>5, <3>2
      <4>2. sum[k - 1] <= sum[j + 1] - s[k].msgsz
        BY <1>1, <1>6, <3>2
      <4>3. new[i] = sum[i] /\ new[j] = sum[j + 1] - s[k].msgsz
        BY <1>1, <1>10, <1>11, <3>2
      <4>4. sum[i] \in Int /\ sum[k - 1] \in Int /\ sum[j + 1] - s[k].msgsz \in Int
        <5>1. i \in 0..n /\ k - 1 \in 0..n /\ j + 1 \in k..n
          BY <1>1, <3>2
        <5>2. sum[i] \in 0..V /\ sum[k - 1] \in 0..V
          BY <1>4, <5>1
        <5>3. sum[j + 1] - s[k].msgsz \in 0..V
          BY <1>6, <5>1
        <5> QED
          BY <5>2, <5>3
      <4> QED
        BY <4>1, <4>2, <4>3, <4>4
    <3>3. CASE i >= k
      <4>1. sum[i + 1] <= sum[j + 1]
        BY <1>1, <1>5, <3>3
      <4>2. sum[i + 1] \in Int /\ sum[j + 1] \in Int /\ s[k].msgsz \in Int
        BY <1>1, <1>3, <1>4, <3>3
      <4>3. new[i] = sum[i + 1] - s[k].msgsz /\ new[j] = sum[j + 1] - s[k].msgsz
        BY <1>1, <1>11, <3>3
      <4> QED
        BY <4>1, <4>2, <4>3
    <3> QED
      BY <1>1, <3>1, <3>2, <3>3
  <2> QED
    BY <2>1, <2>2, <2>3 DEF PrefixSums
<1>9. new[Len(t)] = sum[Len(s)] - s[k].msgsz
  <2>1. CASE k = n
    <3>1. new[n - 1] = sum[n - 1]
      BY <1>1, <1>10, <2>1
    <3>2. sum[n] = sum[n - 1] + s[n].msgsz
      BY <1>1, <1>5, <2>1
    <3>3. sum[n - 1] \in Int /\ s[n].msgsz \in Int
      BY <1>1, <1>3, <1>4
    <3> QED
      BY <1>1, <2>1, <3>1, <3>2, <3>3 DEF n
  <2>2. CASE k < n
    <3>1. n - 1 \in 0..(n - 1) /\ n - 1 >= k /\ (n - 1) + 1 = n
      BY <1>1, <2>2
    <3>2. new[n - 1] = sum[n] - s[k].msgsz
      BY <1>11, <3>1
    <3> QED
      BY <1>1, <3>2 DEF n
  <2> QED
    BY <1>1, <2>1, <2>2
<1> QED
  BY <1>7, <1>8, <1>9 DEF t

-----------------------------------------------------------------------------
(* What the place of a process says about the call it executes.            *)
CallInv(p) ==
    /\ pc[p] = "spin" => call[p].op \in {"read", "write"}
    /\ pc[p] = "scan" => call[p].op \in {"check", "close", "read", "write"}
    /\ pc[p] \in {"read", "copy", "remove"} => call[p].op = "read"
    /\ pc[p] \in {"write", "append"} => call[p].op = "write"
    /\ pc[p] = "check" => call[p].op \in {"check", "create"}
    /\ pc[p] = "unlock" => call[p].op \in {"read", "write"}
    /\ pc[p] \in {"alloc", "back", "front"} => call[p].op = "create"
    /\ pc[p] \in {"close", "unback", "unfront", "kfree"} => call[p].op = "close"
    /\ pc[p] = "user" => call[p] = NoCall

(* Once the scan is over, cur is a queue; only CLOSE goes on with NULL.    *)
CurInv(p) ==
    /\ pc[p] \in {"check", "back", "front", "unback", "unfront", "kfree",
                  "read", "copy", "remove", "write", "append"} =>
            cur[p] \in Node
    /\ pc[p] = "close" => cur[p] \in Node \cup {NULL}

(* The message read has found stays where it is, unless CLOSE freed it.    *)
PosInv(p) ==
    pc[p] \in {"copy", "remove"} /\ pos[p] # 0 =>
        /\ msq[cur[p]] # NULL
        /\ pos[p] \in 1..Len(msq[cur[p]].msgs)

Inv ==
    /\ TypeOK
    /\ LockOwned
    /\ \A p \in Proc : CallInv(p) /\ CurInv(p) /\ PosInv(p)

(* The fields of a call, as its operation tells.                           *)
LEMMA CallFields ==
    ASSUME NEW c \in Call \cup {NoCall}
    PROVE  /\ c.op \in Ops => c.key \in Key
           /\ c.op \in {"read", "write"} => c.type \in Type /\ c.len \in Size
           /\ c.op = "read" => c.noerror \in BOOLEAN
           /\ c \in Call => c.op \in Ops
           /\ c \notin Call => c = NoCall /\ c.op = "none"
  BY DEF Call, NoCall, Ops

(* The return codes are integers; their values matter only here.           *)
LEMMA Codes ==
    /\ Failures \subseteq Int
    /\ IPC_RES_NOMSQ \in Int /\ IPC_RES_SHORT \in Int
  BY SMT DEF Failures, IPC_RES_NOMSQ, IPC_RES_NOMSG, IPC_RES_NOVOL,
             IPC_RES_FULLMSG, IPC_RES_FULLVOL, IPC_RES_SHORT

LEMMA SizeIsNat == \A x \in Size : x \in Nat /\ x \in Int
  BY KuIpcAssumption

LEMMA MessageSize == \A x \in Message : x.msgsz \in Size
  BY DEF Message

LEMMA QueueFields ==
    ASSUME NEW q \in Queue
    PROVE  /\ q.key \in Key /\ q.msgs \in Seq(Message)
           /\ q.size \in Int /\ q.vol \in Int
  BY DEF Queue

(* The queue after a change of its messages and counters.                  *)
LEMMA QueueWith ==
    ASSUME NEW q \in Queue, NEW s \in Seq(Message), NEW a \in Int, NEW b \in Int
    PROVE  [key |-> q.key, msgs |-> s, size |-> a, vol |-> b] \in Queue
  BY DEF Queue

(* A dereference the driver makes is of a used queue.                      *)
LEMMA SoundCur ==
    ASSUME NEW p \in Proc, Inv, Sound(p),
           pc[p] \in {"check", "back", "close", "kfree", "read", "copy",
                      "remove", "write", "append"}
    PROVE  cur[p] \in Node /\ msq[cur[p]] \in Queue /\ msq[cur[p]] # NULL
  BY KuIpcAssumption DEF Inv, TypeOK, CurInv, Sound, Deref, Bad

LEMMA SoundScan ==
    ASSUME NEW p \in Proc, Inv, Sound(p), pc[p] = "scan",
           nxt[cur[p]] # Root
    PROVE  nxt[cur[p]] \in Node /\ msq[nxt[cur[p]]] \in Queue
<1>0. Deref(p) = {cur[p], nxt[cur[p]]}
  BY DEF Deref
<1>5. ~Bad(cur[p]) /\ ~Bad(nxt[cur[p]])
  BY <1>0 DEF Sound
<1>6. cur[p] \in Ptr
  BY DEF Inv, TypeOK
<1>1. cur[p] \in Node \cup {Root} /\ nxt[cur[p]] # NULL
  BY <1>5, <1>6 DEF Bad, Ptr
<1>2. nxt[cur[p]] \in Ptr
  BY <1>1 DEF Inv, TypeOK
<1>3. nxt[cur[p]] \in Node
  BY <1>1, <1>2 DEF Ptr
<1> QED
  BY <1>3, <1>5 DEF Bad, Inv, TypeOK

(* What read and write store is a queue.                                   *)
LEMMA RemoveStores ==
    ASSUME Inv, NEW p \in Proc, ReadRemove(p)
    PROVE  \E q \in Queue : msq' = [msq EXCEPT ![cur[p]] = q]
<1>1. /\ cur[p] \in Node /\ msq[cur[p]] \in Queue
      /\ pos[p] \in 1..Len(msq[cur[p]].msgs)
  BY SoundCur DEF ReadRemove, At, Inv, PosInv, Sound
<1>2. msq[cur[p]].msgs \in Seq(Message)
  BY <1>1 DEF Queue
<1>3. RemoveAt(msq[cur[p]].msgs, pos[p]) \in Seq(Message)
  BY <1>1, <1>2, RemoveAtProperties
<1>4. msq[cur[p]].msgs[pos[p]].msgsz \in Int
  <2>1. msq[cur[p]].msgs[pos[p]] \in Message
    BY <1>1, <1>2, ElementOfSeq
  <2> QED
    BY <2>1, MessageSize, SizeIsNat
<1>5. PICK sz \in {msq[cur[p]].msgs[pos[p]].msgsz} \cup StrayReads :
        msq' = [msq EXCEPT ![cur[p]] =
                  [key |-> msq[cur[p]].key,
                   msgs |-> RemoveAt(msq[cur[p]].msgs, pos[p]),
                   size |-> msq[cur[p]].size - 1,
                   vol |-> msq[cur[p]].vol - sz]]
  BY DEF ReadRemove
<1>6. sz \in Int
  BY <1>4, KuIpcAssumption
<1>7. [key |-> msq[cur[p]].key,
       msgs |-> RemoveAt(msq[cur[p]].msgs, pos[p]),
       size |-> msq[cur[p]].size - 1,
       vol |-> msq[cur[p]].vol - sz] \in Queue
  <2>1. msq[cur[p]].size - 1 \in Int /\ msq[cur[p]].vol - sz \in Int
    BY <1>1, <1>6, QueueFields
  <2> QED
    BY <1>1, <1>3, <2>1, QueueWith
<1> QED
  BY <1>5, <1>7

LEMMA AppendStores ==
    ASSUME Inv, NEW p \in Proc, WriteAppend(p)
    PROVE  \E q \in Queue : msq' = [msq EXCEPT ![cur[p]] = q]
<1> DEFINE q == msq[cur[p]]
           m == [type |-> call[p].type, msgsz |-> call[p].len,
                 index |-> q.size + 1]
<1>1. cur[p] \in Node /\ q \in Queue
  BY SoundCur DEF WriteAppend, At
<1>2. call[p].type \in Type /\ call[p].len \in Size
  BY CallFields DEF WriteAppend, At, Inv, TypeOK, CallInv
<1>3. m \in Message
  BY <1>1, <1>2 DEF Message, Queue
<1>4. Append(q.msgs, m) \in Seq(Message)
  BY <1>1, <1>3, AppendProperties DEF Queue
<1>5. q.vol + call[p].len \in Int /\ q.size + 1 \in Int
  BY <1>1, <1>2, SizeIsNat, QueueFields
<1>6. [key |-> q.key, msgs |-> Append(q.msgs, m), size |-> q.size + 1,
       vol |-> q.vol + call[p].len] \in Queue
  BY <1>1, <1>4, <1>5, QueueWith
<1> QED
  BY <1>6 DEF WriteAppend

THEOREM InvInit == Init => Inv
<1> SUFFICES ASSUME Init PROVE Inv
  OBVIOUS
<1>1. TypeOK
  <2>1. nxt \in [Node \cup {Root} -> Ptr]
    BY DEF Init, Ptr
  <2>2. prv \in [Node \cup {Root} -> Ptr]
    BY <2>1 DEF Init
  <2>3. msq \in [Node -> Queue \cup {NULL}]
    BY DEF Init
  <2>4. cur \in [Proc -> Ptr] /\ lp \in [Proc -> Ptr] /\ ln \in [Proc -> Ptr]
    BY DEF Init, Ptr
  <2>5. pc \in [Proc -> Labels] /\ call \in [Proc -> Call \cup {NoCall}]
    BY DEF Init, Labels
  <2>6. lock \in Proc \cup {NULL} /\ pos \in [Proc -> Nat] /\ ret \in [Proc -> Int]
    BY DEF Init
  <2>7. oops \in BOOLEAN
    BY Zenon DEF Init
  <2> QED
    BY <2>1, <2>2, <2>3, <2>4, <2>5, <2>6, <2>7 DEF TypeOK
<1>2. LockOwned
  BY KuIpcAssumption DEF Init, LockOwned, Locked
<1>3. \A p \in Proc : CallInv(p) /\ CurInv(p) /\ PosInv(p)
  BY DEF Init, CallInv, CurInv, PosInv
<1> QED
  BY <1>1, <1>2, <1>3 DEF Inv

THEOREM InvNext == Inv /\ [Next]_vars => Inv'
<1> SUFFICES ASSUME Inv, [Next]_vars PROVE Inv'
  OBVIOUS
<1> USE DEF Inv
<1>1. CASE UNCHANGED vars
  BY <1>1 DEF vars, list, locals, TypeOK, LockOwned, Locked, CallInv, CurInv, PosInv
<1>2. ASSUME NEW p \in Proc, NEW c \in Call, Syscall(p, c)
      PROVE  Inv'
  <2> USE DEF Syscall, list, locals, Goto, Entry
  <2>1. TypeOK'
    BY <1>2 DEF TypeOK, Labels
  <2>2. LockOwned'
    BY <1>2 DEF TypeOK, LockOwned, Locked
  <2>3. \A q \in Proc : CallInv(q)' /\ CurInv(q)'
    BY <1>2, CallFields DEF TypeOK, CallInv, CurInv, Ops
  <2>4. \A q \in Proc : PosInv(q)'
    BY <1>2 DEF TypeOK, PosInv
  <2> QED
    BY <2>1, <2>2, <2>3, <2>4
<1>3. ASSUME NEW p \in Proc, ReturnKey(p)
      PROVE  Inv'
  <2> USE DEF ReturnKey, At, list, locals, Goto, Return, Leave, Found, NotFound
  <2>1. TypeOK'
    BY <1>3, SoundCur, CallFields, KuIpcAssumption DEF TypeOK, Labels, Ptr, Queue
  <2>2. LockOwned'
    BY <1>3, KuIpcAssumption DEF TypeOK, LockOwned, Locked, CallInv
  <2>3. \A q \in Proc : CallInv(q)' /\ CurInv(q)'
    BY <1>3, SoundCur DEF TypeOK, CallInv, CurInv
  <2>4. \A q \in Proc : PosInv(q)'
    BY <1>3, SoundCur DEF TypeOK, PosInv, LockOwned, Locked
  <2> QED
    BY <2>1, <2>2, <2>3, <2>4
<1>4. ASSUME NEW p \in Proc, CreateAlloc(p)
      PROVE  Inv'
  <2> USE DEF CreateAlloc, At, list, locals, Goto, Return, Leave, Found, NotFound
  <2>1. TypeOK'
    <3>1. call[p].key \in Key
      BY <1>4, CallFields DEF TypeOK, CallInv, Ops
    <3>2. [key |-> call[p].key, msgs |-> <<>>, size |-> 0, vol |-> 0] \in Queue
      BY <3>1, EmptySeq DEF Queue
    <3>3. msq' \in [Node -> Queue \cup {NULL}] /\ cur' \in [Proc -> Ptr]
      BY <1>4, <3>2 DEF TypeOK, Ptr
    <3>4. lp' \in [Proc -> Ptr]
      BY <1>4 DEF TypeOK, LastNode
    <3> QED
      BY <1>4, <3>3, <3>4 DEF TypeOK, Labels
  <2>2. LockOwned'
    BY <1>4, KuIpcAssumption DEF TypeOK, LockOwned, Locked, CallInv
  <2>3. \A q \in Proc : CallInv(q)' /\ CurInv(q)'
    BY <1>4, SoundCur DEF TypeOK, CallInv, CurInv
  <2>4. \A q \in Proc : PosInv(q)'
    BY <1>4, SoundCur DEF TypeOK, PosInv, LockOwned, Locked
  <2> QED
    BY <2>1, <2>2, <2>3, <2>4
<1>5. ASSUME NEW p \in Proc, CreateLinkBack(p)
      PROVE  Inv'
  <2> USE DEF CreateLinkBack, At, list, locals, Goto, Return, Leave, Found, NotFound
  <2>1. TypeOK'
    BY <1>5, SoundCur, CallFields, KuIpcAssumption DEF TypeOK, Labels, Ptr, Queue
  <2>2. LockOwned'
    BY <1>5, KuIpcAssumption DEF TypeOK, LockOwned, Locked, CallInv
  <2>3. \A q \in Proc : CallInv(q)' /\ CurInv(q)'
    BY <1>5, SoundCur DEF TypeOK, CallInv, CurInv
  <2>4. \A q \in Proc : PosInv(q)'
    BY <1>5, SoundCur DEF TypeOK, PosInv, LockOwned, Locked
  <2> QED
    BY <2>1, <2>2, <2>3, <2>4
<1>6. ASSUME NEW p \in Proc, CreateLinkFront(p)
      PROVE  Inv'
  <2> USE DEF CreateLinkFront, At, list, locals, Goto, Return, Leave, Found, NotFound
  <2>1. TypeOK'
    BY <1>6, SoundCur, CallFields, KuIpcAssumption DEF TypeOK, Labels, Ptr, Queue
  <2>2. LockOwned'
    BY <1>6, KuIpcAssumption DEF TypeOK, LockOwned, Locked, CallInv
  <2>3. \A q \in Proc : CallInv(q)' /\ CurInv(q)'
    BY <1>6, SoundCur DEF TypeOK, CallInv, CurInv
  <2>4. \A q \in Proc : PosInv(q)'
    BY <1>6, SoundCur DEF TypeOK, PosInv, LockOwned, Locked
  <2> QED
    BY <2>1, <2>2, <2>3, <2>4
<1>7. ASSUME NEW p \in Proc, CloseRead(p)
      PROVE  Inv'
  <2> USE DEF CloseRead, At, list, locals, Goto, Return, Leave, Found, NotFound
  <2>1. TypeOK'
    BY <1>7, SoundCur, CallFields, KuIpcAssumption DEF TypeOK, Labels, Ptr, Queue
  <2>2. LockOwned'
    BY <1>7, KuIpcAssumption DEF TypeOK, LockOwned, Locked, CallInv
  <2>3. \A q \in Proc : CallInv(q)' /\ CurInv(q)'
    BY <1>7, SoundCur DEF TypeOK, CallInv, CurInv
  <2>4. \A q \in Proc : PosInv(q)'
    BY <1>7, SoundCur DEF TypeOK, PosInv, LockOwned, Locked
  <2> QED
    BY <2>1, <2>2, <2>3, <2>4
<1>8. ASSUME NEW p \in Proc, CloseUnlinkBack(p)
      PROVE  Inv'
  <2> USE DEF CloseUnlinkBack, At, list, locals, Goto, Return, Leave, Found, NotFound
  <2>1. TypeOK'
    BY <1>8, SoundCur, CallFields, KuIpcAssumption DEF TypeOK, Labels, Ptr, Queue
  <2>2. LockOwned'
    BY <1>8, KuIpcAssumption DEF TypeOK, LockOwned, Locked, CallInv
  <2>3. \A q \in Proc : CallInv(q)' /\ CurInv(q)'
    BY <1>8, SoundCur DEF TypeOK, CallInv, CurInv
  <2>4. \A q \in Proc : PosInv(q)'
    BY <1>8, SoundCur DEF TypeOK, PosInv, LockOwned, Locked
  <2> QED
    BY <2>1, <2>2, <2>3, <2>4
<1>9. ASSUME NEW p \in Proc, CloseUnlinkFront(p)
      PROVE  Inv'
  <2> USE DEF CloseUnlinkFront, At, list, locals, Goto, Return, Leave, Found, NotFound
  <2>1. TypeOK'
    BY <1>9, SoundCur, CallFields, KuIpcAssumption DEF TypeOK, Labels, Ptr, Queue
  <2>2. LockOwned'
    BY <1>9, KuIpcAssumption DEF TypeOK, LockOwned, Locked, CallInv
  <2>3. \A q \in Proc : CallInv(q)' /\ CurInv(q)'
    BY <1>9, SoundCur DEF TypeOK, CallInv, CurInv
  <2>4. \A q \in Proc : PosInv(q)'
    BY <1>9, SoundCur DEF TypeOK, PosInv, LockOwned, Locked
  <2> QED
    BY <2>1, <2>2, <2>3, <2>4
<1>10. ASSUME NEW p \in Proc, CloseFree(p)
      PROVE  Inv'
  <2> USE DEF CloseFree, At, list, locals, Goto, Return, Leave, Found, NotFound
  <2>1. TypeOK'
    BY <1>10, SoundCur, CallFields, KuIpcAssumption DEF TypeOK, Labels, Ptr, Queue
  <2>2. LockOwned'
    BY <1>10, KuIpcAssumption DEF TypeOK, LockOwned, Locked, CallInv
  <2>3. \A q \in Proc : CallInv(q)' /\ CurInv(q)'
    BY <1>10, SoundCur DEF TypeOK, CallInv, CurInv
  <2>4. \A q \in Proc : PosInv(q)'
    BY <1>10, SoundCur DEF TypeOK, PosInv, LockOwned, Locked
  <2> QED
    BY <2>1, <2>2, <2>3, <2>4
<1>11. ASSUME NEW p \in Proc, ReadFind(p)
      PROVE  Inv'
  <2> USE DEF ReadFind, At, list, locals, Goto, Return, Leave, Found, NotFound
  <2>5. /\ cur[p] \in Node /\ msq[cur[p]] \in Queue
        /\ msq[cur[p]] # NULL
        /\ DOMAIN msq[cur[p]].msgs = 1..Len(msq[cur[p]].msgs)
        /\ Len(msq[cur[p]].msgs) \in Nat
    <3>1. cur[p] \in Node /\ msq[cur[p]] \in Queue /\ msq[cur[p]] # NULL
      BY <1>11, SoundCur
    <3>2. msq[cur[p]].msgs \in Seq(Message)
      BY <3>1 DEF Queue
    <3> QED
      BY <3>1, <3>2, LenProperties
  <2>0. \/ (\E x \in Failures : Leave(p, x)) /\ pos' = pos
        \/ \E i \in 1..Len(msq[cur[p]].msgs) :
                /\ pos' = [pos EXCEPT ![p] = i]
                /\ pc' = [pc EXCEPT ![p] = "copy"]
                /\ ret' = ret
    BY <1>11, <2>5 DEF Failures
  <2>1. TypeOK'
    <3>1. pos' \in [Proc -> Nat]
      <4>1. \A i \in 1..Len(msq[cur[p]].msgs) : i \in Nat
        BY <2>5
      <4> QED
        BY <2>0, <4>1 DEF TypeOK
    <3>2. ret' \in [Proc -> Int] /\ pc' \in [Proc -> Labels]
      BY <2>0, Codes DEF TypeOK, Labels
    <3> QED
      BY <1>11, <3>1, <3>2 DEF TypeOK
  <2>2. LockOwned'
    BY <1>11, KuIpcAssumption DEF TypeOK, LockOwned, Locked, CallInv
  <2>3. \A q \in Proc : CallInv(q)' /\ CurInv(q)'
    BY <1>11, SoundCur DEF TypeOK, CallInv, CurInv
  <2>4. \A q \in Proc : PosInv(q)'
    <3> SUFFICES ASSUME NEW q \in Proc PROVE PosInv(q)'
      OBVIOUS
    <3>1. msq' = msq /\ cur' = cur
      BY <1>11
    <3>2. CASE q # p
      <4>1. pc'[q] = pc[q] /\ pos'[q] = pos[q]
        BY <2>0, <3>2 DEF TypeOK
      <4> QED
        BY <3>1, <4>1 DEF PosInv
    <3>3. CASE q = p
      <4>1. CASE pc'[p] = "unlock"
        BY <3>3, <4>1 DEF PosInv
      <4>2. CASE pos'[p] \in 1..Len(msq[cur[p]].msgs)
        BY <2>5, <3>1, <3>3, <4>2 DEF PosInv
      <4> QED
        BY <2>0, <2>5, <4>1, <4>2 DEF TypeOK
    <3> QED
      BY <3>2, <3>3
  <2> QED
    BY <2>1, <2>2, <2>3, <2>4
<1>12. ASSUME NEW p \in Proc, ReadCopy(p)
      PROVE  Inv'
  <2> USE DEF ReadCopy, At, list, locals, Goto, Return, Leave, Found, NotFound
  <2>1. TypeOK'
    <3>1. /\ cur[p] \in Node /\ msq[cur[p]].msgs \in Seq(Message)
          /\ pos[p] \in 1..Len(msq[cur[p]].msgs)
      BY <1>12, SoundCur DEF PosInv, Sound, Queue
    <3>2. msq[cur[p]].msgs[pos[p]] \in Message
      BY <3>1, ElementOfSeq
    <3>3. msq[cur[p]].msgs[pos[p]].msgsz \in Int /\ call[p].len \in Int
      <4>1. call[p].len \in Size
        BY <1>12, CallFields DEF TypeOK, CallInv
      <4> QED
        BY <3>2, <4>1, MessageSize, SizeIsNat
    <3>4. ret' \in [Proc -> Int] /\ pc' \in [Proc -> Labels]
      BY <1>12, <3>3, Codes DEF TypeOK, Labels
    <3> QED
      BY <1>12, <3>4 DEF TypeOK
  <2>2. LockOwned'
    BY <1>12, KuIpcAssumption DEF TypeOK, LockOwned, Locked, CallInv
  <2>3. \A q \in Proc : CallInv(q)' /\ CurInv(q)'
    BY <1>12, SoundCur DEF TypeOK, CallInv, CurInv
  <2>4. \A q \in Proc : PosInv(q)'
    BY <1>12, SoundCur DEF TypeOK, PosInv, LockOwned, Locked
  <2> QED
    BY <2>1, <2>2, <2>3, <2>4
<1>13. ASSUME NEW p \in Proc, ReadRemove(p)
      PROVE  Inv'
  <2> USE DEF ReadRemove, At, list, locals, Goto, Return, Leave, Found, NotFound
  <2>1. TypeOK'
    <3>1. msq' \in [Node -> Queue \cup {NULL}]
      BY <1>13, RemoveStores DEF TypeOK
    <3> QED
      BY <1>13, <3>1 DEF TypeOK, Labels
  <2>2. LockOwned'
    BY <1>13, KuIpcAssumption DEF TypeOK, LockOwned, Locked, CallInv
  <2>3. \A q \in Proc : CallInv(q)' /\ CurInv(q)'
    BY <1>13, SoundCur DEF TypeOK, CallInv, CurInv
  <2>4. \A q \in Proc : PosInv(q)'
    BY <1>13, SoundCur DEF TypeOK, PosInv, LockOwned, Locked
  <2> QED
    BY <2>1, <2>2, <2>3, <2>4
<1>14. ASSUME NEW p \in Proc, WriteCheck(p)
      PROVE  Inv'
  <2> USE DEF WriteCheck, At, list, locals, Goto, Return, Leave, Found, NotFound
  <2>1. TypeOK'
    <3>1. \/ \E x \in Failures : Leave(p, x)
          \/ pc' = [pc EXCEPT ![p] = "append"] /\ ret' = ret
      BY <1>14 DEF Failures
    <3>2. ret' \in [Proc -> Int] /\ pc' \in [Proc -> Labels]
      BY <3>1, Codes DEF TypeOK, Labels
    <3> QED
      BY <1>14, <3>2 DEF TypeOK
  <2>2. LockOwned'
    BY <1>14, KuIpcAssumption DEF TypeOK, LockOwned, Locked, CallInv
  <2>3. \A q \in Proc : CallInv(q)' /\ CurInv(q)'
    BY <1>14, SoundCur DEF TypeOK, CallInv, CurInv
  <2>4. \A q \in Proc : PosInv(q)'
    BY <1>14, SoundCur DEF TypeOK, PosInv, LockOwned, Locked
  <2> QED
    BY <2>1, <2>2, <2>3, <2>4
<1>15. ASSUME NEW p \in Proc, WriteAppend(p)
      PROVE  Inv'
  <2> USE DEF WriteAppend, At, list, locals, Goto, Return, Leave, Found, NotFound
  <2>1. TypeOK'
    <3>1. msq' \in [Node -> Queue \cup {NULL}]
      BY <1>15, AppendStores DEF TypeOK
    <3> QED
      BY <1>15, <3>1 DEF TypeOK, Labels
  <2>2. LockOwned'
    BY <1>15, KuIpcAssumption DEF TypeOK, LockOwned, Locked, CallInv
  <2>3. \A q \in Proc : CallInv(q)' /\ CurInv(q)'
    BY <1>15, SoundCur DEF TypeOK, CallInv, CurInv
  <2>4. \A q \in Proc : PosInv(q)'
    BY <1>15, SoundCur DEF TypeOK, PosInv, LockOwned, Locked
  <2> QED
    BY <2>1, <2>2, <2>3, <2>4
<1>16. ASSUME NEW p \in Proc, Unlock(p)
      PROVE  Inv'
  <2> USE DEF Unlock, At, list, locals, Goto, Return, Leave, Found, NotFound
  <2>1. TypeOK'
    BY <1>16, SoundCur, CallFields, KuIpcAssumption DEF TypeOK, Labels, Ptr, Queue
  <2>2. LockOwned'
    BY <1>16, KuIpcAssumption DEF TypeOK, LockOwned, Locked, CallInv
  <2>3. \A q \in Proc : CallInv(q)' /\ CurInv(q)'
    BY <1>16, SoundCur DEF TypeOK, CallInv, CurInv
  <2>4. \A q \in Proc : PosInv(q)'
    BY <1>16, SoundCur DEF TypeOK, PosInv, LockOwned, Locked
  <2> QED
    BY <2>1, <2>2, <2>3, <2>4
<1>17. ASSUME NEW p \in Proc, Acquire(p)
      PROVE  Inv'
  <2> USE DEF Acquire, At, list, locals, Goto, Return, Leave, Found, NotFound
  <2>1. TypeOK'
    BY <1>17, SoundCur, CallFields, KuIpcAssumption DEF TypeOK, Labels, Ptr, Queue
  <2>2. LockOwned'
    BY <1>17, KuIpcAssumption DEF TypeOK, LockOwned, Locked, CallInv
  <2>3. \A q \in Proc : CallInv(q)' /\ CurInv(q)'
    BY <1>17, SoundCur DEF TypeOK, CallInv, CurInv
  <2>4. \A q \in Proc : PosInv(q)'
    BY <1>17, SoundCur DEF TypeOK, PosInv, LockOwned, Locked
  <2> QED
    BY <2>1, <2>2, <2>3, <2>4
<1>18. ASSUME NEW p \in Proc, Scan(p)
      PROVE  Inv'
  <2> USE DEF Scan, At, list, locals, Goto, Return, Leave, Found, NotFound
  <2>1. TypeOK'
    <3>1. CASE nxt[cur[p]] = Root
      <4>1. CASE call[p].op = "check"
        BY <1>18, <3>1, <4>1, Codes DEF TypeOK, Labels, Ptr
      <4>2. CASE call[p].op = "close"
        BY <1>18, <3>1, <4>2 DEF TypeOK, Labels, Ptr
      <4>3. CASE call[p].op \notin {"check", "close"}
        BY <1>18, <3>1, <4>3, Codes DEF TypeOK, Labels
      <4> QED
        BY <4>1, <4>2, <4>3
    <3>2. CASE nxt[cur[p]] # Root
      <4>1. nxt[cur[p]] \in Ptr
        BY <1>18, <3>2, SoundScan DEF Ptr
      <4>2. call[p].op \in Labels
        BY <1>18 DEF CallInv, Labels
      <4> QED
        BY <1>18, <3>2, <4>1, <4>2 DEF TypeOK
    <3> QED
      BY <3>1, <3>2
  <2>2. LockOwned'
    BY <1>18, KuIpcAssumption DEF TypeOK, LockOwned, Locked, CallInv
  <2>3. \A q \in Proc : CallInv(q)' /\ CurInv(q)'
    <3>1. CASE nxt[cur[p]] = Root
      <4>1. CASE call[p].op = "check"
        BY <1>18, <3>1, <4>1 DEF TypeOK, CallInv, CurInv
      <4>2. CASE call[p].op = "close"
        BY <1>18, <3>1, <4>2 DEF TypeOK, CallInv, CurInv
      <4>3. CASE call[p].op \notin {"check", "close"}
        BY <1>18, <3>1, <4>3 DEF TypeOK, CallInv, CurInv
      <4> QED
        BY <4>1, <4>2, <4>3
    <3>2. CASE nxt[cur[p]] # Root
      <4>1. nxt[cur[p]] \in Node
        BY <1>18, <3>2, SoundScan
      <4> QED
        BY <1>18, <3>2, <4>1 DEF TypeOK, CallInv, CurInv
    <3> QED
      BY <3>1, <3>2
  <2>4. \A q \in Proc : PosInv(q)'
    <3>1. /\ msq' = msq
          /\ \A q \in Proc \ {p} : /\ pc'[q] = pc[q] /\ pos'[q] = pos[q]
                                   /\ cur'[q] = cur[q]
          /\ pc'[p] \notin {"copy", "remove"}
      BY <1>18 DEF TypeOK, CallInv
    <3> QED
      BY <3>1 DEF PosInv
  <2> QED
    BY <2>1, <2>2, <2>3, <2>4
<1>19. ASSUME NEW p \in Proc, Fault(p)
      PROVE  Inv'
  <2> USE DEF Fault, At, list, locals, Goto, Return, Leave, Found, NotFound
  <2>1. TypeOK'
    BY <1>19, SoundCur, CallFields, KuIpcAssumption DEF TypeOK, Labels, Ptr, Queue
  <2>2. LockOwned'
    BY <1>19, KuIpcAssumption DEF TypeOK, LockOwned, Locked, CallInv
  <2>3. \A q \in Proc : CallInv(q)' /\ CurInv(q)'
    BY <1>19, SoundCur DEF TypeOK, CallInv, CurInv
  <2>4. \A q \in Proc : PosInv(q)'
    BY <1>19, SoundCur DEF TypeOK, PosInv, LockOwned, Locked
  <2> QED
    BY <2>1, <2>2, <2>3, <2>4
<1> QED
  BY <1>1, <1>2, <1>3, <1>4, <1>5, <1>6, <1>7, <1>8, <1>9, <1>10, <1>11, <1>12, <1>13, <1>14, <1>15, <1>16, <1>17, <1>18, <1>19 DEF Next, Inside, Ioctl, Transfer

-----------------------------------------------------------------------------
(* One queue has its counters right.                                       *)
QueueInv(q) ==
    /\ q.size = Len(q.msgs)
    /\ q.size <= KUIPC_MAXMSG
    /\ StrayReads = {} => Adds(q)

(* A message of size len still fits into q.                                *)
Room(q, len) ==
    /\ q.size + 1 <= KUIPC_MAXMSG
    /\ StrayReads = {} => q.vol + len <= KUIPC_MAXVOL

(* What write has tested still holds when it appends: under the lock no    *)
(* other call changes the counters.  A CLOSE may have freed the queue and  *)
(* a CREATE reused its memory; then the message fits the new, empty queue. *)
RoomInv(p) ==
    pc[p] = "append" =>
        /\ 1 <= KUIPC_MAXMSG
        /\ StrayReads = {} => call[p].len <= KUIPC_MAXVOL
        /\ msq[cur[p]] # NULL => Room(msq[cur[p]], call[p].len)

CountInv ==
    /\ \A n \in Node : msq[n] # NULL => QueueInv(msq[n])
    /\ \A p \in Proc : RoomInv(p)

(* The counters of an empty queue.                                         *)
LEMMA EmptyCounts ==
    ASSUME NEW k
    PROVE  QueueInv([key |-> k, msgs |-> <<>>, size |-> 0, vol |-> 0])
<1> DEFINE q == [key |-> k, msgs |-> <<>>, size |-> 0, vol |-> 0]
           sum == [i \in 0..0 |-> 0]
<1>1. q.msgs = <<>> /\ q.size = 0 /\ q.vol = 0 /\ Len(<<>>) = 0
  BY EmptySeq
<1>2. sum \in [0..Len(<<>>) -> 0..KUIPC_MAXVOL]
  BY <1>1, KuIpcAssumption
<1>3. PrefixSums(<<>>, sum)
  BY <1>1 DEF PrefixSums
<1>4. sum[Len(<<>>)] = 0
  BY <1>1
<1> HIDE DEF sum
<1>5. Adds(q)
  BY <1>1, <1>2, <1>3, <1>4 DEF Adds
<1> QED
  BY <1>1, <1>5, KuIpcAssumption DEF QueueInv

(* ... of a queue that takes one more message.                             *)
LEMMA AppendCounts ==
    ASSUME NEW q \in Queue, QueueInv(q), NEW m \in Message, Room(q, m.msgsz)
    PROVE  QueueInv([key |-> q.key, msgs |-> Append(q.msgs, m),
                     size |-> q.size + 1, vol |-> q.vol + m.msgsz])
<1> DEFINE new == [key |-> q.key, msgs |-> Append(q.msgs, m),
                   size |-> q.size + 1, vol |-> q.vol + m.msgsz]
<1>1. q.msgs \in Seq(Message)
  BY QueueFields
<1>2. new.msgs = Append(q.msgs, m) /\ new.size = q.size + 1
      /\ new.vol = q.vol + m.msgsz
  OBVIOUS
<1>3. Len(Append(q.msgs, m)) = Len(q.msgs) + 1
  BY <1>1, AppendProperties
<1> HIDE DEF new
<1>4. ASSUME StrayReads = {} PROVE Adds(new)
  <2>1. PICK sum \in [0..Len(q.msgs) -> 0..KUIPC_MAXVOL] :
            PrefixSums(q.msgs, sum) /\ q.vol = sum[Len(q.msgs)]
    BY <1>4 DEF QueueInv, Adds
  <2>2. sum[Len(q.msgs)] + m.msgsz <= KUIPC_MAXVOL
    BY <1>4, <2>1 DEF Room
  <2>3. Size \subseteq Nat /\ KUIPC_MAXVOL \in Nat
    BY KuIpcAssumption
  <2>4. \E t \in [0..Len(Append(q.msgs, m)) -> 0..KUIPC_MAXVOL] :
            /\ PrefixSums(Append(q.msgs, m), t)
            /\ t[Len(Append(q.msgs, m))] = sum[Len(q.msgs)] + m.msgsz
    BY <1>1, <2>1, <2>2, <2>3, AppendSums
  <2> QED
    BY <1>2, <2>1, <2>4 DEF Adds
<1>5. new.size = Len(new.msgs) /\ new.size <= KUIPC_MAXMSG
  BY <1>2, <1>3 DEF QueueInv, Room
<1> QED
  BY <1>4, <1>5 DEF QueueInv, new

(* ... and of a queue that gives message k away.                           *)
LEMMA RemoveCounts ==
    ASSUME NEW q \in Queue, QueueInv(q), NEW k \in 1..Len(q.msgs),
           NEW sz \in {q.msgs[k].msgsz} \cup StrayReads
    PROVE  QueueInv([key |-> q.key, msgs |-> RemoveAt(q.msgs, k),
                     size |-> q.size - 1, vol |-> q.vol - sz])
<1> DEFINE new == [key |-> q.key, msgs |-> RemoveAt(q.msgs, k),
                   size |-> q.size - 1, vol |-> q.vol - sz]
<1>1. q.msgs \in Seq(Message) /\ q.size \in Int
  BY QueueFields
<1>2. new.msgs = RemoveAt(q.msgs, k) /\ new.size = q.size - 1
      /\ new.vol = q.vol - sz
  OBVIOUS
<1>3. Len(RemoveAt(q.msgs, k)) = Len(q.msgs) - 1
  BY <1>1, RemoveAtProperties
<1> HIDE DEF new
<1>4. ASSUME StrayReads = {} PROVE Adds(new)
  <2>1. PICK sum \in [0..Len(q.msgs) -> 0..KUIPC_MAXVOL] :
            PrefixSums(q.msgs, sum) /\ q.vol = sum[Len(q.msgs)]
    BY <1>4 DEF QueueInv, Adds
  <2>2. sz = q.msgs[k].msgsz
    BY <1>4
  <2>3. Size \subseteq Nat /\ KUIPC_MAXVOL \in Nat
    BY KuIpcAssumption
  <2>4. \E t \in [0..Len(RemoveAt(q.msgs, k)) -> 0..KUIPC_MAXVOL] :
            /\ PrefixSums(RemoveAt(q.msgs, k), t)
            /\ t[Len(RemoveAt(q.msgs, k))] = sum[Len(q.msgs)] - q.msgs[k].msgsz
    BY <1>1, <2>1, <2>3, RemoveSums
  <2> QED
    BY <1>2, <2>1, <2>2, <2>4 DEF Adds
<1>5. new.size = Len(new.msgs) /\ new.size <= KUIPC_MAXMSG
  BY <1>1, <1>2, <1>3, KuIpcAssumption DEF QueueInv
<1> QED
  BY <1>4, <1>5 DEF QueueInv, new

(* The volume of a queue with right counters is never negative.            *)
LEMMA VolumeNat ==
    ASSUME NEW q \in Queue, Adds(q)
    PROVE  q.vol \in 0..KUIPC_MAXVOL
<1>1. Len(q.msgs) \in Nat
  BY QueueFields, LenProperties
<1> QED
  BY <1>1 DEF Adds

THEOREM CountInit == Init => CountInv
  BY DEF Init, CountInv, RoomInv

THEOREM CountNext == Inv /\ CountInv /\ [Next]_vars => CountInv'
<1> SUFFICES ASSUME Inv, CountInv, [Next]_vars PROVE CountInv'
  OBVIOUS
(* A step that leaves the queues alone and makes nobody append.            *)
<1>1. ASSUME msq' = msq,
             \A q \in Proc : pc'[q] = "append" =>
                /\ pc[q] = "append" /\ cur'[q] = cur[q] /\ call'[q] = call[q]
      PROVE  CountInv'
  BY <1>1 DEF CountInv, RoomInv
<1>2. CASE UNCHANGED vars
  BY <1>1, <1>2 DEF vars, locals
<1>3. ASSUME NEW p \in Proc, NEW c \in Call, Syscall(p, c)
      PROVE  CountInv'
  BY <1>1, <1>3 DEF Syscall, Goto, Entry, locals, Inv, TypeOK
<1>4. ASSUME NEW p \in Proc,
             \/ Acquire(p) \/ ReturnKey(p) \/ CreateLinkBack(p)
             \/ CreateLinkFront(p) \/ CloseRead(p) \/ CloseUnlinkBack(p)
             \/ CloseUnlinkFront(p) \/ ReadCopy(p) \/ Unlock(p) \/ Fault(p)
      PROVE  CountInv'
  BY <1>1, <1>4
     DEF Acquire, ReturnKey, CreateLinkBack, CreateLinkFront, CloseRead,
         CloseUnlinkBack, CloseUnlinkFront, ReadCopy, Unlock, Fault, Goto,
         Return, Leave, locals, Inv, TypeOK
<1>5. ASSUME NEW p \in Proc, Scan(p)
      PROVE  CountInv'
  <2>1. /\ msq' = msq /\ pc'[p] # "append"
        /\ \A q \in Proc \ {p} :
            pc'[q] = pc[q] /\ cur'[q] = cur[q] /\ call'[q] = call[q]
    BY <1>5 DEF Scan, At, Found, NotFound, Goto, Return, Leave, locals, Inv,
                TypeOK, CallInv
  <2> QED
    BY <1>1, <2>1
<1>6. ASSUME NEW p \in Proc, ReadFind(p)
      PROVE  CountInv'
  <2>1. /\ msq' = msq /\ cur' = cur /\ call' = call /\ pc'[p] # "append"
        /\ \A q \in Proc \ {p} : pc'[q] = pc[q]
    BY <1>6 DEF ReadFind, Goto, Leave, Inv, TypeOK
  <2> QED
    BY <1>1, <2>1
<1>7. ASSUME NEW p \in Proc, CreateAlloc(p)
      PROVE  CountInv'
  <2> DEFINE new == [key |-> call[p].key, msgs |-> <<>>, size |-> 0, vol |-> 0]
  <2>1. PICK n \in Node : msq[n] = NULL /\ msq' = [msq EXCEPT ![n] = new]
    BY <1>7 DEF CreateAlloc
  <2>2. QueueInv(new) /\ new.size = 0 /\ new.vol = 0
    BY EmptyCounts
  <2> HIDE DEF new
  <2>3. \A x \in Node : msq'[x] # NULL => QueueInv(msq'[x])
    BY <2>1, <2>2 DEF CountInv, Inv, TypeOK
  <2>4. ASSUME NEW q \in Proc PROVE RoomInv(q)'
    <3>1. CASE pc'[q] # "append"
      BY <3>1 DEF RoomInv
    <3>2. CASE pc'[q] = "append"
      <4>1. pc[q] = "append" /\ q # p /\ cur'[q] = cur[q] /\ call'[q] = call[q]
        BY <1>7, <3>2 DEF CreateAlloc, At, Goto, Inv, TypeOK
      <4>2. cur[q] \in Node
        BY <4>1 DEF Inv, CurInv
      <4>3. CASE cur[q] # n
        BY <2>1, <4>1, <4>2, <4>3 DEF RoomInv, CountInv, Inv, TypeOK
      <4>4. CASE cur[q] = n
        <5>1. msq'[n] = new
          BY <2>1 DEF Inv, TypeOK
        <5>2. call[q].len \in Int
          BY <4>1, CallFields, SizeIsNat DEF Inv, TypeOK, CallInv
        <5>3. Room(new, call[q].len)
          BY <2>2, <4>1, <5>2 DEF RoomInv, CountInv, Room
        <5> QED
          BY <4>1, <4>4, <5>1, <5>3 DEF RoomInv, CountInv
      <4> QED
        BY <4>3, <4>4
    <3> QED
      BY <3>1, <3>2
  <2> QED
    BY <2>3, <2>4 DEF CountInv
<1>8. ASSUME NEW p \in Proc, CloseFree(p)
      PROVE  CountInv'
  <2>1. cur[p] \in Node /\ msq' = [msq EXCEPT ![cur[p]] = NULL]
    BY <1>8 DEF CloseFree, At, Inv, CurInv
  <2>2. \A q \in Proc : pc'[q] = "append" =>
            /\ pc[q] = "append" /\ cur'[q] = cur[q] /\ call'[q] = call[q]
    BY <1>8 DEF CloseFree, At, Return, Goto, Inv, TypeOK
  <2>3. \A q \in Proc : pc[q] = "append" => cur[q] \in Node
    BY DEF Inv, CurInv
  <2> QED
    BY <2>1, <2>2, <2>3 DEF CountInv, RoomInv, Inv, TypeOK
<1>9. ASSUME NEW p \in Proc, WriteCheck(p)
      PROVE  CountInv'
  <2> DEFINE q == msq[cur[p]]
  <2>1. cur[p] \in Node /\ q \in Queue /\ q # NULL
    BY <1>9, SoundCur DEF WriteCheck, At
  <2>2. call[p].len \in Nat
    BY <1>9, CallFields, SizeIsNat DEF WriteCheck, At, Inv, TypeOK, CallInv
  <2>3. /\ msq' = msq /\ cur' = cur /\ call' = call
        /\ \A x \in Proc \ {p} : pc'[x] = pc[x]
        /\ pc'[p] = "append" => ~Full(q) /\ ~TooBig(q, call[p].len)
    BY <1>9 DEF WriteCheck, At, Goto, Leave, locals, Inv, TypeOK
  <2>4. QueueInv(q)
    BY <2>1 DEF CountInv
  <2>5. pc'[p] = "append" => RoomInv(p)'
    <3> SUFFICES ASSUME pc'[p] = "append" PROVE RoomInv(p)'
      OBVIOUS
    <3>1. Room(q, call[p].len) /\ q.size \in Nat
      BY <2>1, <2>2, <2>3, <2>4, QueueFields, LenProperties, KuIpcAssumption
         DEF Full, TooBig, Room, QueueInv
    <3>2. StrayReads = {} => q.vol >= 0 /\ q.vol \in Int
      BY <2>1, <2>4, VolumeNat DEF QueueInv
    <3>3. 1 <= KUIPC_MAXMSG
      BY <3>1, KuIpcAssumption DEF Room
    <3>4. StrayReads = {} => call[p].len <= KUIPC_MAXVOL
      BY <2>2, <3>1, <3>2, KuIpcAssumption DEF Room
    <3> QED
      BY <2>3, <3>1, <3>3, <3>4 DEF RoomInv
  <2> QED
    BY <2>3, <2>5 DEF CountInv, RoomInv
<1>10. ASSUME NEW p \in Proc, ReadRemove(p)
      PROVE  CountInv'
  <2> DEFINE q == msq[cur[p]]
  <2>1. cur[p] \in Node /\ q \in Queue /\ q # NULL
    BY <1>10, SoundCur DEF ReadRemove, At
  <2>2. pos[p] \in 1..Len(q.msgs)
    BY <1>10 DEF ReadRemove, At, Sound, Inv, PosInv
  <2>3. PICK sz \in {q.msgs[pos[p]].msgsz} \cup StrayReads :
            msq' = [msq EXCEPT ![cur[p]] =
                [key |-> q.key, msgs |-> RemoveAt(q.msgs, pos[p]),
                 size |-> q.size - 1, vol |-> q.vol - sz]]
    BY <1>10 DEF ReadRemove
  <2>4. QueueInv([key |-> q.key, msgs |-> RemoveAt(q.msgs, pos[p]),
                  size |-> q.size - 1, vol |-> q.vol - sz])
    BY <2>1, <2>2, RemoveCounts DEF CountInv
  <2>5. \A x \in Proc : pc'[x] # "append"
    BY <1>10 DEF ReadRemove, At, Leave, Goto, Inv, TypeOK, LockOwned, Locked
  <2> QED
    BY <2>1, <2>3, <2>4, <2>5 DEF CountInv, RoomInv, Inv, TypeOK
<1>11. ASSUME NEW p \in Proc, WriteAppend(p)
      PROVE  CountInv'
  <2> DEFINE q == msq[cur[p]]
             m == [type |-> call[p].type, msgsz |-> call[p].len,
                   index |-> q.size + 1]
  <2>1. cur[p] \in Node /\ q \in Queue /\ q # NULL
    BY <1>11, SoundCur DEF WriteAppend, At
  <2>2. call[p].type \in Type /\ call[p].len \in Size
    BY <1>11, CallFields DEF WriteAppend, At, Inv, TypeOK, CallInv
  <2>3. m \in Message /\ m.msgsz = call[p].len
    BY <2>1, <2>2 DEF Message, Queue
  <2>4. msq' = [msq EXCEPT ![cur[p]] =
                [key |-> q.key, msgs |-> Append(q.msgs, m),
                 size |-> q.size + 1, vol |-> q.vol + m.msgsz]]
    BY <1>11 DEF WriteAppend
  <2>5. Room(q, m.msgsz)
    BY <1>11, <2>1, <2>3 DEF WriteAppend, At, CountInv, RoomInv
  <2>6. QueueInv(q)
    BY <2>1 DEF CountInv
  <2> HIDE DEF m
  <2>7. QueueInv([key |-> q.key, msgs |-> Append(q.msgs, m),
                  size |-> q.size + 1, vol |-> q.vol + m.msgsz])
    BY <2>1, <2>3, <2>5, <2>6, AppendCounts
  <2>8. \A x \in Proc : pc'[x] # "append"
    BY <1>11 DEF WriteAppend, At, Leave, Goto, Inv, TypeOK, LockOwned, Locked
  <2> QED
    BY <2>1, <2>4, <2>7, <2>8 DEF CountInv, RoomInv, Inv, TypeOK
<1> QED
  BY <1>2, <1>3, <1>4, <1>5, <1>6, <1>7, <1>8, <1>9, <1>10, <1>11
     DEF Next, Inside, Ioctl, Transfer

-----------------------------------------------------------------------------
(* Every reachable state satisfies both invariants.                        *)
THEOREM Invariance == Spec => [](Inv /\ CountInv)
<1>1. Init => Inv /\ CountInv
  BY InvInit, CountInit
<1>2. Inv /\ CountInv /\ [Next]_vars => Inv' /\ CountInv'
  BY InvNext, CountNext
<1> QED
  BY <1>1, <1>2, PTL DEF Spec

(* The driver's variables always have their types, whoever calls it.       *)
THEOREM TypeCorrect == Spec => []TypeOK
  BY Invariance, PTL DEF Inv

(* No call of any process leaves ku_ipc_lock taken, releases it for        *)
(* another, or enters while another is inside.                             *)
THEOREM LockDiscipline == Spec => []LockOwned
  BY Invariance, PTL DEF Inv

(* However many writers race with the unlocked CREATE and CLOSE, size is   *)
(* the number of messages and never above KUIPC_MAXMSG.                    *)
THEOREM SizeBounded == Spec => []SizeCounts
<1>1. CountInv => SizeCounts
  BY DEF CountInv, QueueInv, SizeCounts, Used
<1> QED
  BY <1>1, Invariance, PTL

(* Likewise vol is the sum of the sizes and never above KUIPC_MAXVOL, if   *)
(* line 243 reads what line 241 freed before it is reused.                 *)
THEOREM VolumeBounded == Spec => []VolumeCounts
<1>1. CountInv => VolumeCounts
  BY DEF CountInv, QueueInv, VolumeCounts, Used
<1> QED
  BY <1>1, Invariance, PTL

-----------------------------------------------------------------------------
(* Nobody calls CLOSE.                                                     *)
NoClose == \A p \in Proc : call[p].op # "close"

(* The queues that CREATE has not linked yet, and the structures a call    *)
(* may come across: the root and all other queues.                         *)
Fresh == {cur[p] : p \in {q \in Proc : pc[q] = "back"}}

Settled == (Used \ Fresh) \cup {Root}

(* Without CLOSE a call holds only such pointers, and CREATE its own queue. *)
ProcKept(p) ==
    /\ pc[p] \notin {"close", "unback", "unfront", "kfree"}
    /\ pc[p] \in {"user", "alloc", "spin"} => cur[p] = Root
    /\ pc[p] \in {"scan", "check", "front", "read", "copy", "remove", "write",
                  "append"} => cur[p] \in Settled
    /\ pc[p] = "back" => cur[p] \in Used
    /\ pc[p] \in {"back", "front"} => lp[p] \in Settled
    /\ pc[p] \in {"copy", "remove"} => pos[p] # 0

(* Whatever CREATEs race, next leads from settled to settled structures,   *)
(* though it may pass queues by; and each CREATE has a queue of its own.   *)
ListKept ==
    /\ \A x \in Settled : nxt[x] \in Settled
    /\ prv[Root] \in Settled
    /\ \A p, q \in Proc :
          pc[p] = "back" /\ pc[q] = "back" /\ cur[p] = cur[q] => p = q

KeptInv == ~oops /\ ListKept /\ \A p \in Proc : ProcKept(p)

(* A call dereferences used structures only.                               *)
LEMMA KeptSound ==
    ASSUME Inv, KeptInv, NEW p \in Proc
    PROVE  Sound(p)
<1>1. \A x \in Settled \cup Used : ~Bad(x)
  BY KuIpcAssumption DEF Settled, Used, Bad
<1>2. ProcKept(p) /\ pc[p] \in Labels
  BY DEF KeptInv, Inv, TypeOK
<1>3. pc[p] = "scan" => cur[p] \in Settled /\ nxt[cur[p]] \in Settled
  BY <1>2 DEF ProcKept, KeptInv, ListKept
<1>4. Deref(p) \subseteq Settled \cup Used
  <2>1. CASE pc[p] = "scan"
    BY <1>3, <2>1 DEF Deref
  <2>2. CASE pc[p] = "front"
    BY <1>2, <2>2 DEF Deref, ProcKept
  <2>3. CASE pc[p] \in {"check", "back", "read", "copy", "remove", "write",
                        "append"}
    BY <1>2, <2>3 DEF Deref, ProcKept
  <2>4. CASE pc[p] \in {"user", "alloc", "spin", "unlock"}
    BY <2>4 DEF Deref
  <2> QED
    BY <1>2, <2>1, <2>2, <2>3, <2>4 DEF Labels, ProcKept
<1> QED
  BY <1>1, <1>2, <1>4 DEF Sound, ProcKept

LEMMA KeptInit == Init => KeptInv
<1> SUFFICES ASSUME Init
             PROVE  KeptInv
  OBVIOUS
<1>1. Used = {} /\ Fresh = {} /\ Settled = {Root}
  BY DEF Init, Used, Fresh, Settled
<1>2. nxt[Root] = Root /\ prv[Root] = Root
  BY DEF Init
<1>3. ListKept /\ \A p \in Proc : ProcKept(p)
  BY <1>1, <1>2 DEF Init, ListKept, ProcKept
<1> QED
  BY <1>3 DEF Init, KeptInv

(* What stays of one process when the structures only grow.                *)
LEMMA KeptOther ==
    ASSUME NEW q \in Proc, ProcKept(q), Settled \subseteq Settled',
           Used \subseteq Used', pc'[q] = pc[q], cur'[q] = cur[q],
           lp'[q] = lp[q], pos'[q] = pos[q]
    PROVE  ProcKept(q)'
  BY DEF ProcKept

(* A step that leaves the links alone and starts or ends no CREATE.        *)
LEMMA KeptList ==
    ASSUME Inv, KeptInv, NEW p \in Proc, UNCHANGED <<nxt, prv>>,
           pc[p] # "back", pc'[p] # "back",
           \A q \in Proc : q # p => pc'[q] = pc[q] /\ cur'[q] = cur[q],
           \A n \in Node : (msq'[n] = NULL) <=> (msq[n] = NULL)
    PROVE  ListKept' /\ Settled' = Settled /\ Used' = Used
<1>1. Used' = Used
  BY DEF Used
<1>2. Fresh' = Fresh
  BY DEF Fresh
<1> QED
  BY <1>1, <1>2 DEF Settled, KeptInv, ListKept

LEMMA KeptNext ==
    ASSUME Inv, KeptInv, NoClose, NoClose', [Next]_vars
    PROVE  KeptInv'
<1> USE KuIpcAssumption
<1>0. \A p \in Proc : ProcKept(p) /\ Sound(p) /\ call[p].op # "close"
  BY KeptSound DEF KeptInv, NoClose
<1>1. CASE UNCHANGED vars
  BY <1>1 DEF vars, list, locals, KeptInv, ListKept, ProcKept, Settled, Fresh,
              Used
<1>2. ASSUME NEW p \in Proc, UNCHANGED <<nxt, prv, oops>>,
             pc[p] # "back", pc'[p] # "back",
             \A q \in Proc : q # p => /\ pc'[q] = pc[q] /\ cur'[q] = cur[q]
                                      /\ lp'[q] = lp[q] /\ pos'[q] = pos[q],
             \A n \in Node : (msq'[n] = NULL) <=> (msq[n] = NULL),
             Settled' = Settled => ProcKept(p)'
      PROVE  KeptInv'
  <2>1. ListKept' /\ Settled' = Settled /\ Used' = Used
    BY <1>2, KeptList
  <2>2. \A q \in Proc : q # p => ProcKept(q)'
    BY <1>0, <1>2, <2>1, KeptOther
  <2> QED
    BY <1>2, <2>1, <2>2 DEF KeptInv
<1>3. ASSUME NEW p \in Proc, NEW c \in Call, Syscall(p, c)
      PROVE  KeptInv'
  <2>1. c.op \in Ops /\ c.op # "close"
    BY <1>3, CallFields DEF Syscall, NoClose, Inv, TypeOK
  <2>2. pc[p] = "user" /\ pc'[p] \in {"alloc", "scan", "spin"} /\ cur[p] = Root
    BY <1>0, <1>3, <2>1 DEF Syscall, Goto, Entry, Ops, Inv, TypeOK, ProcKept
  <2>3. ProcKept(p)'
    BY <1>3, <2>2 DEF Syscall, locals, ProcKept, Settled
  <2>4. \A q \in Proc : q # p => pc'[q] = pc[q]
    BY <1>3 DEF Syscall, Goto, Inv, TypeOK
  <2> QED
    BY <1>2, <1>3, <2>2, <2>3, <2>4 DEF Syscall, list, locals
<1>4. ASSUME NEW p \in Proc, Acquire(p)
      PROVE  KeptInv'
  <2>1. pc[p] = "spin" /\ pc'[p] = "scan" /\ cur[p] = Root
    BY <1>0, <1>4 DEF Acquire, At, Goto, Inv, TypeOK, ProcKept
  <2>2. ProcKept(p)'
    BY <1>4, <2>1 DEF Acquire, locals, ProcKept, Settled
  <2>3. \A q \in Proc : q # p => pc'[q] = pc[q]
    BY <1>4 DEF Acquire, Goto, Inv, TypeOK
  <2> QED
    BY <1>2, <1>4, <2>1, <2>2, <2>3 DEF Acquire, list, locals
<1>5. ASSUME NEW p \in Proc, Scan(p)
      PROVE  KeptInv'
  <2>1. pc[p] = "scan" /\ call[p].op \in {"check", "read", "write"}
    BY <1>0, <1>5 DEF Scan, At, Inv, CallInv
  <2>2. nxt[cur[p]] \in Settled /\ cur[p] \in Settled
    BY <1>0, <2>1 DEF KeptInv, ListKept, ProcKept
  <2>3. CASE nxt[cur[p]] = Root
    <3>1. /\ pc'[p] \in {"user", "unlock"}
          /\ pc'[p] = "user" => cur'[p] = Root
      BY <1>5, <2>1, <2>3 DEF Scan, NotFound, Leave, Return, Goto, Inv, TypeOK
    <3>2. \A q \in Proc : q # p => /\ pc'[q] = pc[q] /\ cur'[q] = cur[q]
                                   /\ lp'[q] = lp[q] /\ pos'[q] = pos[q]
      BY <1>5, <2>1, <2>3 DEF Scan, NotFound, Leave, Return, Goto, locals, Inv,
                              TypeOK
    <3>3. ProcKept(p)'
      BY <3>1 DEF ProcKept
    <3> QED
      BY <1>2, <1>5, <2>1, <3>1, <3>2, <3>3 DEF Scan, list
  <2>4. CASE nxt[cur[p]] # Root
    <3>1. /\ pc'[p] \in {"check", "read", "write", "scan"}
          /\ cur'[p] = nxt[cur[p]]
      BY <1>5, <2>1, <2>4 DEF Scan, Found, Goto, Inv, TypeOK
    <3>2. \A q \in Proc : q # p => /\ pc'[q] = pc[q] /\ cur'[q] = cur[q]
                                   /\ lp'[q] = lp[q] /\ pos'[q] = pos[q]
      BY <1>5, <2>4 DEF Scan, Found, Goto, Inv, TypeOK
    <3>3. Settled' = Settled => ProcKept(p)'
      BY <2>2, <3>1 DEF ProcKept
    <3> QED
      BY <1>2, <1>5, <2>1, <3>1, <3>2, <3>3 DEF Scan, list
  <2> QED
    BY <2>3, <2>4
<1>6. ASSUME NEW p \in Proc, ReturnKey(p) \/ Unlock(p)
      PROVE  KeptInv'
  <2>1. /\ pc[p] \in {"check", "unlock"} /\ pc'[p] = "user" /\ cur'[p] = Root
        /\ \A q \in Proc : q # p => /\ pc'[q] = pc[q] /\ cur'[q] = cur[q]
                                    /\ lp'[q] = lp[q] /\ pos'[q] = pos[q]
    BY <1>6 DEF ReturnKey, Unlock, At, Return, Goto, Inv, TypeOK
  <2>2. ProcKept(p)'
    BY <2>1 DEF ProcKept
  <2> QED
    BY <1>2, <1>6, <2>1, <2>2 DEF ReturnKey, Unlock, list
<1>7. ASSUME NEW p \in Proc, ReadFind(p)
      PROVE  KeptInv'
  <2>1. pc[p] = "read" /\ cur[p] \in Settled
    BY <1>0, <1>7 DEF ReadFind, At, ProcKept
  <2>2. \/ pc'[p] = "unlock"
        \/ pc'[p] = "copy" /\ \E i \in DOMAIN msq[cur[p]].msgs : pos'[p] = i
    BY <1>7 DEF ReadFind, Leave, Goto, Inv, TypeOK
  <2>3. \A q \in Proc : q # p => /\ pc'[q] = pc[q] /\ pos'[q] = pos[q]
    BY <1>7 DEF ReadFind, Leave, Goto, Inv, TypeOK
  <2>4. DOMAIN msq[cur[p]].msgs = 1..Len(msq[cur[p]].msgs)
    <3>1. msq[cur[p]] \in Queue
      BY <1>0, <2>1, SoundCur
    <3> QED
      BY <3>1, QueueFields, LenProperties
  <2>5. pc'[p] = "copy" => pos'[p] # 0
    BY <2>2, <2>4
  <2>6. Settled' = Settled => ProcKept(p)'
    BY <1>7, <2>1, <2>2, <2>5 DEF ReadFind, ProcKept
  <2> QED
    BY <1>2, <1>7, <2>1, <2>2, <2>3, <2>6 DEF ReadFind, list
<1>8. ASSUME NEW p \in Proc, ReadCopy(p) \/ WriteCheck(p)
      PROVE  KeptInv'
  <2>1. pc[p] \in {"copy", "write"} /\ cur[p] \in Settled
        /\ (pc[p] = "copy" => pos[p] # 0)
    BY <1>0, <1>8 DEF ReadCopy, WriteCheck, At, ProcKept
  <2>2. \/ pc'[p] = "unlock"
        \/ pc[p] = "copy" /\ pc'[p] = "remove"
        \/ pc'[p] = "append"
    BY <1>8 DEF ReadCopy, WriteCheck, At, Leave, Goto, Inv, TypeOK
  <2>3. \A q \in Proc : q # p => pc'[q] = pc[q]
    BY <1>8 DEF ReadCopy, WriteCheck, Leave, Goto, Inv, TypeOK
  <2>4. Settled' = Settled => ProcKept(p)'
    BY <1>8, <2>1, <2>2 DEF ReadCopy, WriteCheck, locals, ProcKept
  <2> QED
    BY <1>2, <1>8, <2>1, <2>2, <2>3, <2>4 DEF ReadCopy, WriteCheck, list, locals
<1>9. ASSUME NEW p \in Proc, ReadRemove(p) \/ WriteAppend(p)
      PROVE  KeptInv'
  <2>1. pc[p] \in {"remove", "append"} /\ pc'[p] = "unlock"
    BY <1>9 DEF ReadRemove, WriteAppend, At, Leave, Goto, Inv, TypeOK
  <2>2. \A q \in Proc : q # p => pc'[q] = pc[q]
    BY <1>9 DEF ReadRemove, WriteAppend, Leave, Goto, Inv, TypeOK
  <2>3. ProcKept(p)'
    BY <2>1 DEF ProcKept
  <2>4. \A n \in Node : (msq'[n] = NULL) <=> (msq[n] = NULL)
    <3>1. \E q \in Queue : msq' = [msq EXCEPT ![cur[p]] = q]
      BY <1>9, RemoveStores, AppendStores
    <3>2. msq[cur[p]] # NULL
      BY <1>0, <2>1, SoundCur
    <3> QED
      BY <3>1, <3>2, QueueAssumption DEF Inv, TypeOK
  <2> QED
    BY <1>2, <1>9, <2>1, <2>2, <2>3, <2>4 DEF ReadRemove, WriteAppend, list, locals
<1>10. ASSUME NEW p \in Proc, CreateAlloc(p)
       PROVE  KeptInv'
  <2>1. PICK n \in Node :
          /\ msq[n] = NULL
          /\ msq' = [msq EXCEPT ![n] = [key |-> call[p].key, msgs |-> <<>>,
                                        size |-> 0, vol |-> 0]]
          /\ cur' = [cur EXCEPT ![p] = n]
    BY <1>10 DEF CreateAlloc
  <2>2. /\ pc[p] = "alloc" /\ pc'[p] = "back" /\ cur'[p] = n
        /\ lp'[p] = prv[Root]
        /\ \A q \in Proc : q # p => /\ pc'[q] = pc[q] /\ cur'[q] = cur[q]
                                    /\ lp'[q] = lp[q] /\ pos'[q] = pos[q]
    BY <1>10, <2>1 DEF CreateAlloc, LastNode, At, Goto, Inv, TypeOK
  <2>3. [key |-> call[p].key, msgs |-> <<>>, size |-> 0, vol |-> 0] \in Queue
    <3>1. call[p].key \in Key
      BY <2>2, CallFields DEF Inv, TypeOK, CallInv, Ops
    <3> QED
      BY <3>1, EmptySeq DEF Queue
  <2>4. Used' = Used \cup {n} /\ n \notin Used
    BY <2>1, <2>3, QueueAssumption DEF Used, Inv, TypeOK
  <2>5. Fresh' = Fresh \cup {n}
    BY <2>2 DEF Fresh
  <2>6. Settled' = Settled
    BY <2>4, <2>5 DEF Settled
  <2>7. \A q \in Proc : pc[q] = "back" => cur[q] # n
    BY <1>0, <2>4 DEF ProcKept
  <2>8. ListKept'
    BY <1>10, <2>2, <2>6, <2>7 DEF CreateAlloc, list, KeptInv, ListKept
  <2>9. ProcKept(p)'
    BY <2>2, <2>4, <2>6 DEF ProcKept, KeptInv, ListKept
  <2>10. \A q \in Proc : q # p => ProcKept(q)'
    BY <1>0, <2>2, <2>4, <2>6, KeptOther
  <2> QED
    BY <1>10, <2>8, <2>9, <2>10 DEF CreateAlloc, KeptInv
<1>11. ASSUME NEW p \in Proc, CreateLinkBack(p)
       PROVE  KeptInv'
  <2> DEFINE n == cur[p]
  <2>1. /\ pc[p] = "back" /\ pc'[p] = "front" /\ UNCHANGED <<msq, cur, lp, pos>>
        /\ \A q \in Proc : q # p => pc'[q] = pc[q]
    BY <1>11 DEF CreateLinkBack, At, Goto, locals, Inv, TypeOK
  <2>2. n \in Used /\ n \in Node /\ lp[p] \in Settled
    BY <1>0, <2>1 DEF ProcKept, Used
  <2>3. Used' = Used
    BY <2>1 DEF Used
  <2>4. Fresh = Fresh' \cup {n} /\ n \notin Fresh'
    BY <2>1 DEF Fresh, KeptInv, ListKept
  <2>5. Settled' = Settled \cup {n} /\ n \notin Settled
    BY <2>2, <2>3, <2>4 DEF Settled
  <2>6. /\ nxt'[n] = Root /\ prv'[Root] = n
        /\ \A x \in Settled : nxt'[x] = nxt[x]
    BY <1>11, <2>2, <2>5 DEF CreateLinkBack, Settled, Used, Inv, TypeOK
  <2>7. ListKept'
    <3>1. Root \in Settled
      BY DEF Settled
    <3> QED
      BY <2>1, <2>5, <2>6, <3>1 DEF KeptInv, ListKept
  <2>8. ProcKept(p)'
    BY <2>1, <2>2, <2>5 DEF ProcKept
  <2>9. \A q \in Proc : q # p => ProcKept(q)'
    BY <1>0, <2>1, <2>3, <2>5, KeptOther
  <2> QED
    BY <1>11, <2>7, <2>8, <2>9 DEF CreateLinkBack, KeptInv
<1>12. ASSUME NEW p \in Proc, CreateLinkFront(p)
       PROVE  KeptInv'
  <2>1. /\ pc[p] = "front" /\ pc'[p] = "check"
        /\ UNCHANGED <<prv, msq, cur, lp, pos, oops>>
        /\ \A q \in Proc : q # p => pc'[q] = pc[q]
    BY <1>12 DEF CreateLinkFront, At, Goto, locals, Inv, TypeOK
  <2>2. cur[p] \in Settled /\ lp[p] \in Settled
    BY <1>0, <2>1 DEF ProcKept
  <2>3. Used' = Used /\ Fresh' = Fresh /\ Settled' = Settled
    <3>1. Used' = Used /\ Fresh' = Fresh
      BY <2>1 DEF Used, Fresh
    <3> QED
      BY <3>1 DEF Settled
  <2>4. \A x \in Settled : nxt'[x] = nxt[x] \/ nxt'[x] = cur[p]
    BY <1>12 DEF CreateLinkFront, Settled, Used, Inv, TypeOK
  <2>5. ListKept'
    BY <2>1, <2>2, <2>3, <2>4 DEF KeptInv, ListKept
  <2>6. ProcKept(p)'
    BY <2>1, <2>2, <2>3 DEF ProcKept
  <2>7. \A q \in Proc : q # p => ProcKept(q)'
    BY <1>0, <2>1, <2>3, KeptOther
  <2> QED
    BY <2>1, <2>5, <2>6, <2>7 DEF KeptInv
<1>13. ASSUME NEW p \in Proc, \/ CloseRead(p) \/ CloseUnlinkBack(p)
                              \/ CloseUnlinkFront(p) \/ CloseFree(p)
       PROVE  FALSE
  BY <1>0, <1>13 DEF CloseRead, CloseUnlinkBack, CloseUnlinkFront, CloseFree,
                     At, ProcKept
<1>14. ASSUME NEW p \in Proc, Fault(p)
       PROVE  FALSE
  BY <1>0, <1>14 DEF Fault
<1> QED
  BY <1>1, <1>3, <1>4, <1>5, <1>6, <1>7, <1>8, <1>9, <1>10, <1>11, <1>12,
     <1>13, <1>14 DEF Next, Inside, Ioctl, Transfer

(* Memory is never touched after it was freed, nor NULL followed, in a     *)
(* behaviour in which nobody calls CLOSE: racing CREATEs, which take no    *)
(* lock, may lose a queue of one another but not break the list.           *)
THEOREM OopsNeedsClose == Spec /\ []NoClose => []NoOops
<1>1. Init /\ NoClose => KeptInv
  BY KeptInit
<1>2. Inv /\ KeptInv /\ NoClose /\ NoClose' /\ [Next]_vars => KeptInv'
  BY KeptNext
<1>3. KeptInv => NoOops
  BY DEF KeptInv, NoOops
<1> QED
  BY <1>1, <1>2, <1>3, Invariance, PTL DEF Spec
-----------------------------------------------------------------------------
(* Nobody but process o executes CREATE or CLOSE.                          *)
Alone(o) == \A p \in Proc \ {o} : call[p].op \notin {"create", "close"}

(* The structures that o has in the list.                                  *)
Ring(o) ==
    (IF pc[o] \in {"back", "front", "kfree"} THEN Used \ {cur[o]} ELSE Used)
        \cup {Root}

(* The structure before x: list_add_tail and list_del write the two links  *)
(* of a pair one after the other, and in between the second tells.         *)
Before(o, x) ==
    IF pc[o] = "front" /\ x = Root THEN lp[o]
    ELSE IF pc[o] = "unfront" /\ x = ln[o] THEN cur[o] ELSE prv[x]

RingInv(o) ==
    /\ Circle(Ring(o))
    /\ \A x \in Ring(o) : /\ Before(o, nxt[x]) = x
                          /\ Before(o, x) \in Ring(o) /\ nxt[Before(o, x)] = x

(* A traversal that is at x, and ends at the root, still meets y: every    *)
(* set that it cannot leave contains y.                                    *)
Ahead(R, x, y) ==
    \A S \in SUBSET R :
        nxt[x] \in S /\ (\A z \in S \ {Root} : nxt[z] \in S) => y \in S

(* What o holds in its hands at each of its steps; a scan has the queues   *)
(* of its key still ahead.                                                 *)
OwnerInv(o) ==
    /\ pc[o] \in {"user", "spin", "alloc"} => cur[o] = Root
    /\ pc[o] \in {"back", "front", "unback", "unfront", "kfree"} =>
          cur[o] \in Used
    /\ pc[o] = "back" => lp[o] = prv[Root]
    /\ pc[o] = "front" => /\ nxt[cur[o]] = Root /\ prv[Root] = cur[o]
                          /\ prv[cur[o]] = lp[o]
    /\ pc[o] \in {"unback", "unfront"} => /\ lp[o] = prv[cur[o]]
                                          /\ ln[o] = nxt[cur[o]]
    /\ pc[o] = "unfront" => prv[ln[o]] = lp[o]
    /\ pc[o] = "scan" =>
          /\ cur[o] \in Ring(o)
          /\ \A y \in Used : msq[y].key = call[o].key =>
                                 Ahead(Ring(o), cur[o], y)

(* What read and write store has the same key as before.                   *)
LEMMA SameKeys ==
    ASSUME Inv, NEW p \in Proc, ReadRemove(p) \/ WriteAppend(p)
    PROVE  Used' = Used /\ \A n \in Used : msq'[n].key = msq[n].key
<1>1. cur[p] \in Node /\ msq[cur[p]] \in Queue
  BY SoundCur DEF ReadRemove, WriteAppend, At
<1>2. PICK q \in Queue : msq' = [msq EXCEPT ![cur[p]] = q]
  BY RemoveStores, AppendStores
<1>3. msq'[cur[p]] = q /\ \A n \in Node : n # cur[p] => msq'[n] = msq[n]
  BY <1>1, <1>2 DEF Inv, TypeOK
<1>4. msq'[cur[p]].key = msq[cur[p]].key
  BY <1>1 DEF ReadRemove, WriteAppend, Inv, TypeOK
<1>5. \A n \in Node : (msq'[n] = NULL) <=> (msq[n] = NULL)
  BY <1>1, <1>3, QueueAssumption
<1> QED
  BY <1>3, <1>4, <1>5 DEF Used

(* A step of another process leaves the owner and the list alone.          *)
LEMMA OthersKeep ==
    ASSUME Inv, NEW o \in Proc, Alone(o), NEW p \in Proc \ {o},
           Inside(p) \/ \E c \in Call : Syscall(p, c)
    PROVE  /\ nxt' = nxt /\ prv' = prv
           /\ Used' = Used /\ \A n \in Used : msq'[n].key = msq[n].key
           /\ pc'[o] = pc[o] /\ call'[o] = call[o] /\ cur'[o] = cur[o]
           /\ lp'[o] = lp[o] /\ ln'[o] = ln[o] /\ ret'[o] = ret[o]
<1>1. pc[p] \notin {"alloc", "back", "front", "close", "unback", "unfront",
                    "kfree"}
  BY DEF Alone, Inv, CallInv
<1>2. CASE \E c \in Call : Syscall(p, c)
  BY <1>2 DEF Syscall, Goto, list, locals, Used, Inv, TypeOK
<1>3. CASE Acquire(p) \/ Fault(p)
  BY <1>3 DEF Acquire, Fault, Goto, list, locals, Used, Inv, TypeOK
<1>4. CASE Scan(p)
  <2>1. UNCHANGED <<lock, list, msq, oops>>
    BY <1>4 DEF Scan
  <2>2. /\ pc'[o] = pc[o] /\ call'[o] = call[o] /\ cur'[o] = cur[o]
        /\ lp'[o] = lp[o] /\ ln'[o] = ln[o] /\ ret'[o] = ret[o]
    <3>1. CASE nxt[cur[p]] = Root /\ NotFound(p)
      BY <3>1 DEF NotFound, Return, Leave, Goto, locals, Inv, TypeOK
    <3>2. CASE nxt[cur[p]] # Root
      BY <1>4, <3>2 DEF Scan, Found, Goto, Inv, TypeOK
    <3> QED
      BY <1>4, <3>1, <3>2 DEF Scan
  <2> QED
    BY <2>1, <2>2 DEF list, Used
<1>5. CASE ReturnKey(p)
  BY <1>5 DEF ReturnKey, Return, Goto, list, Used, Inv, TypeOK
<1>6. CASE ReadFind(p)
  <2>1. UNCHANGED <<lock, list, msq, call, cur, lp, ln, oops>>
    BY <1>6 DEF ReadFind
  <2>2. pc'[o] = pc[o] /\ ret'[o] = ret[o]
    BY <1>6 DEF ReadFind, Leave, Goto, Inv, TypeOK
  <2> QED
    BY <2>1, <2>2 DEF list, Used
<1>7. CASE ReadCopy(p) \/ WriteCheck(p)
  <2>1. UNCHANGED <<lock, list, msq, call, locals, oops>>
    BY <1>7 DEF ReadCopy, WriteCheck
  <2>2. pc'[o] = pc[o] /\ ret'[o] = ret[o]
    BY <1>7 DEF ReadCopy, WriteCheck, Leave, Goto, Inv, TypeOK
  <2> QED
    BY <2>1, <2>2 DEF list, locals, Used
<1>8. CASE ReadRemove(p) \/ WriteAppend(p)
  <2>1. UNCHANGED <<lock, list, call, locals, oops>>
    BY <1>8 DEF ReadRemove, WriteAppend
  <2>2. pc'[o] = pc[o] /\ ret'[o] = ret[o]
    BY <1>8 DEF ReadRemove, WriteAppend, Leave, Goto, Inv, TypeOK
  <2> QED
    BY <1>8, <2>1, <2>2, SameKeys DEF list, locals
<1>9. CASE Unlock(p)
  BY <1>9 DEF Unlock, Return, Goto, list, Used, Inv, TypeOK
<1> QED
  BY <1>1, <1>2, <1>3, <1>4, <1>5, <1>6, <1>7, <1>8, <1>9
     DEF Inside, Ioctl, Transfer, At, CreateAlloc, CreateLinkBack,
         CreateLinkFront, CloseRead, CloseUnlinkBack, CloseUnlinkFront,
         CloseFree

(* What the ring is made of.                                               *)
LEMMA RingType ==
    ASSUME NEW o
    PROVE  /\ Ring(o) \subseteq Node \cup {Root}
           /\ Root \in Ring(o) /\ Root \notin Node
           /\ Ring(o) \subseteq Used \cup {Root}
  BY KuIpcAssumption DEF Ring, Used

(* The ring stays when none of its links changes.                          *)
LEMMA RingKept ==
    ASSUME NEW o \in Proc, RingInv(o), Ring(o)' = Ring(o),
           \A x \in Ring(o) : nxt'[x] = nxt[x],
           \A x \in Ring(o) : Before(o, x)' = Before(o, x)
    PROVE  RingInv(o)'
<1> DEFINE R == Ring(o)
<1>1. \A x \in R : nxt[x] \in R
  BY DEF RingInv, Circle
<1>2. \A x \in R : nxt'[x] \in R
  BY <1>1
<1>3. ASSUME NEW S \in SUBSET R, S # {}, \A x \in S : nxt'[x] \in S
      PROVE  S = R
  BY <1>3 DEF RingInv, Circle
<1>4. Circle(R)'
  BY <1>2, <1>3 DEF Circle
<1>5. ASSUME NEW x \in R
      PROVE  /\ Before(o, nxt[x])' = x
             /\ Before(o, x)' \in R /\ nxt'[Before(o, x)'] = x
  <2>1. Before(o, nxt[x]) = x /\ Before(o, x) \in R /\ nxt[Before(o, x)] = x
    BY DEF RingInv
  <2>2. Before(o, x)' = Before(o, x)
    OBVIOUS
  <2>3. Before(o, nxt[x])' = Before(o, nxt[x])
    BY <1>1 DEF Before
  <2> QED
    BY <2>1, <2>2, <2>3
<1> QED
  BY <1>4, <1>5 DEF RingInv

LEMMA Quiet ==
    ASSUME NEW o \in Proc, RingInv(o), nxt' = nxt, prv' = prv, Used' = Used,
           {pc[o], pc'[o]} \cap {"back", "front", "unfront", "kfree"} = {}
    PROVE  RingInv(o)' /\ Ring(o)' = Ring(o)
<1>1. Ring(o)' = Ring(o)
  BY DEF Ring
<1>2. \A x \in Ring(o) : Before(o, x)' = Before(o, x)
  BY DEF Before
<1> QED
  BY <1>1, <1>2, RingKept

(* A queue of the list is not its own neighbour.                           *)
LEMMA Apart ==
    ASSUME NEW o \in Proc, RingInv(o), NEW x \in Ring(o), x # Root
    PROVE  nxt[x] # x
<1>1. SUFFICES ASSUME nxt[x] = x
               PROVE  FALSE
  OBVIOUS
<1>2. {x} \in SUBSET Ring(o) /\ {x} # {} /\ \A z \in {x} : nxt[z] \in {x}
  BY <1>1
<1>3. {x} = Ring(o)
  BY <1>2 DEF RingInv, Circle
<1> QED
  BY <1>3, RingType

(* list_add_tail closes the circle over the new queue.                     *)
LEMMA Linked ==
    ASSUME NEW o \in Proc, Inv, RingInv(o), OwnerInv(o), CreateLinkFront(o)
    PROVE  RingInv(o)'
<1> DEFINE R == Ring(o)
           n == cur[o]
           l == lp[o]
           T == Ring(o)'
<1>1. /\ pc[o] = "front" /\ pc'[o] = "check"
      /\ nxt' = [nxt EXCEPT ![l] = n] /\ prv' = prv
      /\ cur' = cur /\ lp' = lp /\ Used' = Used
  BY DEF CreateLinkFront, At, Goto, locals, Used, Inv, TypeOK
<1>2. /\ n \in Used /\ n \in Node /\ n # Root /\ n \notin R
      /\ nxt[n] = Root /\ prv[Root] = n /\ prv[n] = l
  BY <1>1, KuIpcAssumption DEF OwnerInv, Used, Ring
<1>3. l \in R /\ nxt[l] = Root
  BY <1>1, RingType DEF RingInv, Before
<1>4. T = R \cup {n}
  BY <1>1, <1>2 DEF Ring
<1>5. /\ nxt'[l] = n /\ nxt'[n] = Root
      /\ \A x \in R : x # l => nxt'[x] = nxt[x] /\ nxt[x] \in R /\ nxt[x] # Root
  <2>1. l \in DOMAIN nxt /\ R \subseteq DOMAIN nxt /\ n \in DOMAIN nxt
    BY <1>2, <1>3, RingType DEF Inv, TypeOK
  <2>2. \A x \in R : x # l => nxt'[x] = nxt[x]
    BY <1>1, <2>1
  <2>3. \A x \in R : nxt[x] \in R
    BY DEF RingInv, Circle
  <2>4. \A x \in R : nxt[x] = Root => x = l
    BY <1>1 DEF RingInv, Before
  <2> QED
    BY <1>1, <1>2, <1>3, <2>1, <2>2, <2>3, <2>4
<1>6. \A x \in T : nxt'[x] \in T
  BY <1>4, <1>5, RingType
<1>7. ASSUME NEW S \in SUBSET T, S # {}, \A x \in S : nxt'[x] \in S
      PROVE  S = T
  <2> DEFINE V == S \ {n}
  <2>1. V \in SUBSET R
    BY <1>4
  <2>2. n \in S => Root \in S
    BY <1>5, <1>7
  <2>3. V # {}
    BY <1>2, <1>7, <2>2
  <2>4. \A x \in V : nxt[x] \in V
    <3>1. ASSUME NEW x \in V, x # l
          PROVE  nxt[x] \in V
      BY <1>2, <1>5, <1>7, <2>1, <3>1
    <3>2. ASSUME l \in V
          PROVE  nxt[l] \in V
      BY <1>2, <1>3, <1>5, <1>7, <2>2, <3>2
    <3> QED
      BY <3>1, <3>2
  <2>5. V = R
    BY <2>1, <2>3, <2>4 DEF RingInv, Circle
  <2>6. n \in S
    BY <1>3, <1>5, <1>7, <2>5
  <2> QED
    BY <1>4, <2>5, <2>6
<1>8. Circle(Ring(o))'
  BY <1>6, <1>7 DEF Circle
<1>9. ASSUME NEW x \in T
      PROVE  /\ Before(o, nxt[x])' = x
             /\ Before(o, x)' \in T /\ nxt'[Before(o, x)'] = x
  <2>1. \A y : Before(o, y)' = prv[y]
    BY <1>1 DEF Before
  <2>2. \A y \in R : y # Root => Before(o, y) = prv[y]
    BY <1>1 DEF Before
  <2>3. CASE x = n
    BY <1>2, <1>3, <1>4, <1>5, <2>1, <2>3
  <2>4. CASE x = Root
    <3>1. prv[nxt'[Root]] = Root
      <4>1. CASE l = Root
        BY <1>2, <1>5, <4>1
      <4>2. CASE l # Root
        <5>1. Root \in R /\ nxt[Root] \in R
          BY RingType DEF RingInv, Circle
        <5>2. Before(o, nxt[Root]) = Root
          BY <5>1 DEF RingInv
        <5>3. nxt[Root] # Root
          BY <1>1, <4>2, <5>2 DEF Before
        <5>4. nxt'[Root] = nxt[Root]
          BY <1>5, <4>2, <5>1
        <5> QED
          BY <2>2, <5>1, <5>2, <5>3, <5>4
      <4> QED
        BY <4>1, <4>2
    <3>2. Before(o, nxt[Root])' = prv[nxt'[Root]]
      BY <1>1 DEF Before
    <3> QED
      BY <1>2, <1>4, <1>5, <2>1, <2>4, <3>1, <3>2
  <2>5. CASE x \in R /\ x # Root
    <3>1. prv[x] \in R /\ nxt[prv[x]] = x
      BY <2>2, <2>5 DEF RingInv
    <3>2. prv[x] # l
      BY <1>3, <2>5, <3>1
    <3>3. nxt'[prv[x]] = x
      BY <1>5, <3>1, <3>2
    <3>4. prv[nxt'[x]] = x
      <4>1. CASE x = l
        BY <1>2, <1>5, <4>1
      <4>2. CASE x # l
        BY <1>5, <2>2, <2>5, <4>2 DEF RingInv
      <4> QED
        BY <4>1, <4>2
    <3>5. Before(o, nxt[x])' = prv[nxt'[x]]
      BY <1>1 DEF Before
    <3> QED
      BY <1>4, <2>1, <3>1, <3>3, <3>4, <3>5
  <2> QED
    BY <1>4, <2>3, <2>4, <2>5
<1> QED
  BY <1>8, <1>9 DEF RingInv

(* list_del closes the circle without the queue.                           *)
LEMMA Unlinked ==
    ASSUME NEW o \in Proc, Inv, RingInv(o), OwnerInv(o), CloseUnlinkFront(o)
    PROVE  RingInv(o)'
<1> DEFINE R == Ring(o)
           n == cur[o]
           l == lp[o]
           m == ln[o]
           T == Ring(o)'
<1>1. /\ pc[o] = "unfront" /\ pc'[o] = "kfree"
      /\ nxt' = [nxt EXCEPT ![l] = m] /\ prv' = prv
      /\ cur' = cur /\ lp' = lp /\ ln' = ln /\ Used' = Used
  BY DEF CloseUnlinkFront, At, Goto, locals, Used, Inv, TypeOK
<1>2. /\ n \in R /\ n \in Node /\ n # Root
      /\ nxt[n] = m /\ prv[n] = l /\ prv[m] = l
  BY <1>1, KuIpcAssumption DEF OwnerInv, Used, Ring
<1>3. m # n
  BY <1>2, Apart
<1>4. Before(o, n) = l /\ Before(o, m) = n
  BY <1>1, <1>2, <1>3 DEF Before
<1>5. l \in R /\ nxt[l] = n /\ l # n /\ m \in R
  BY <1>2, <1>3, <1>4 DEF RingInv, Circle
<1>6. T = R \ {n} /\ l \in T /\ m \in T
  BY <1>1, <1>2, <1>3, <1>5 DEF Ring
<1>7. /\ nxt'[l] = m /\ nxt'[n] = m
      /\ \A x \in T : x # l => nxt'[x] = nxt[x] /\ nxt[x] \in T
  <2>1. l \in DOMAIN nxt /\ R \subseteq DOMAIN nxt
    BY <1>5, RingType DEF Inv, TypeOK
  <2>2. \A x \in R : x # l => nxt'[x] = nxt[x]
    BY <1>1, <2>1
  <2>3. \A x \in R : nxt[x] \in R
    BY DEF RingInv, Circle
  <2>4. \A x \in R : nxt[x] = n => x = l
    BY <1>4 DEF RingInv
  <2> QED
    BY <1>1, <1>2, <1>5, <1>6, <2>1, <2>2, <2>3, <2>4
<1>8. \A x \in T : nxt'[x] \in T
  BY <1>6, <1>7
<1>9. ASSUME NEW S \in SUBSET T, S # {}, \A x \in S : nxt'[x] \in S
      PROVE  S = T
  <2>1. \A x \in S : x # l => nxt[x] \in S
    BY <1>7, <1>9
  <2>2. CASE l \in S
    <3>1. S \cup {n} \in SUBSET R /\ S \cup {n} # {}
      BY <1>2, <1>6
    <3>2. m \in S
      BY <1>7, <1>9, <2>2
    <3>3. \A x \in S \cup {n} : nxt[x] \in S \cup {n}
      BY <1>2, <1>5, <2>1, <3>2
    <3>4. S \cup {n} = R
      BY <3>1, <3>3 DEF RingInv, Circle
    <3> QED
      BY <1>6, <1>9, <3>4
  <2>3. CASE l \notin S
    <3>1. S \in SUBSET R /\ \A x \in S : nxt[x] \in S
      BY <1>6, <2>1, <2>3
    <3>2. S = R
      BY <1>9, <3>1 DEF RingInv, Circle
    <3> QED
      BY <1>5, <2>3, <3>2
  <2> QED
    BY <2>2, <2>3
<1>10. Circle(Ring(o))'
  BY <1>8, <1>9 DEF Circle
<1>11. ASSUME NEW x \in T
       PROVE  /\ Before(o, nxt[x])' = x
              /\ Before(o, x)' \in T /\ nxt'[Before(o, x)'] = x
  <2>1. Before(o, x)' = prv[x] /\ Before(o, nxt[x])' = prv[nxt'[x]]
    BY <1>1 DEF Before
  <2>2. \A y : y # m => Before(o, y) = prv[y]
    BY <1>1 DEF Before
  <2>3. prv[x] \in T /\ nxt'[prv[x]] = x
    <3>1. CASE x = m
      BY <1>2, <1>6, <1>7, <3>1
    <3>2. CASE x # m
      <4>1. prv[x] \in R /\ nxt[prv[x]] = x
        BY <1>6, <2>2, <3>2 DEF RingInv
      <4>2. prv[x] # n /\ prv[x] # l
        BY <1>2, <1>5, <1>6, <3>2, <4>1
      <4> QED
        BY <1>6, <1>7, <4>1, <4>2
    <3> QED
      BY <3>1, <3>2
  <2>4. prv[nxt'[x]] = x
    <3>1. CASE x = l
      BY <1>2, <1>7, <3>1
    <3>2. CASE x # l
      <4>1. Before(o, nxt[x]) = x /\ nxt'[x] = nxt[x]
        BY <1>6, <1>7, <3>2 DEF RingInv
      <4>2. nxt[x] # m
        BY <1>4, <1>6, <4>1
      <4> QED
        BY <2>2, <4>1, <4>2
    <3> QED
      BY <3>1, <3>2
  <2> QED
    BY <2>1, <2>3, <2>4
<1> QED
  BY <1>10, <1>11 DEF RingInv

(* A scan begins with every queue ahead, passes those of other keys, and   *)
(* has none ahead where it meets the root.                                 *)
LEMMA AheadStart ==
    ASSUME NEW o \in Proc, RingInv(o), NEW y \in Used
    PROVE  Ahead(Ring(o), Root, y) \/ y \notin Ring(o)
<1> SUFFICES ASSUME NEW S \in SUBSET Ring(o), y \in Ring(o), nxt[Root] \in S,
                    \A z \in S \ {Root} : nxt[z] \in S
             PROVE  y \in S
  BY DEF Ahead
<1>1. /\ S \cup {Root} \in SUBSET Ring(o) /\ S \cup {Root} # {}
      /\ \A z \in S \cup {Root} : nxt[z] \in S \cup {Root}
  BY RingType
<1>2. S \cup {Root} = Ring(o)
  BY <1>1 DEF RingInv, Circle
<1>3. y # Root
  BY RingType DEF Used
<1> QED
  BY <1>2, <1>3

LEMMA AheadPass ==
    ASSUME NEW R, NEW x, NEW y, Ahead(R, x, y), nxt[x] \in R, nxt[x] # y
    PROVE  Ahead(R, nxt[x], y)
<1> SUFFICES ASSUME NEW S \in SUBSET R, nxt[nxt[x]] \in S,
                    \A z \in S \ {Root} : nxt[z] \in S
             PROVE  y \in S
  BY DEF Ahead
<1>1. S \cup {nxt[x]} \in SUBSET R /\ nxt[x] \in S \cup {nxt[x]}
  OBVIOUS
<1>2. \A z \in (S \cup {nxt[x]}) \ {Root} : nxt[z] \in S \cup {nxt[x]}
  OBVIOUS
<1> QED
  BY <1>1, <1>2 DEF Ahead

LEMMA AheadEnd ==
    ASSUME NEW o, NEW x, nxt[x] = Root, NEW y \in Used
    PROVE  ~Ahead(Ring(o), x, y)
<1>1. {Root} \in SUBSET Ring(o) /\ y \notin {Root}
  BY RingType DEF Used
<1> QED
  BY <1>1 DEF Ahead

LEMMA OwnerInit == ASSUME NEW o \in Proc, Init
                   PROVE  RingInv(o) /\ OwnerInv(o)
<1>1. Used = {} /\ Ring(o) = {Root}
  BY DEF Init, Used, Ring
<1>2. nxt[Root] = Root /\ prv[Root] = Root /\ pc[o] = "user" /\ cur[o] = Root
  BY DEF Init
<1>3. \A x : Before(o, x) = prv[x]
  BY <1>2 DEF Before
<1>4. Circle(Ring(o))
  BY <1>1, <1>2 DEF Circle
<1>5. RingInv(o)
  BY <1>1, <1>2, <1>3, <1>4 DEF RingInv
<1> QED
  BY <1>2, <1>5 DEF OwnerInv

(* While nobody else opens or closes queues, the list of the owner is      *)
(* whole and its scans miss no queue.                                      *)
LEMMA OwnerNext ==
    ASSUME NEW o \in Proc, Inv, Alone(o), RingInv(o), OwnerInv(o), [Next]_vars
    PROVE  RingInv(o)' /\ OwnerInv(o)'
<1> USE KuIpcAssumption
<1>1. ASSUME /\ nxt' = nxt /\ prv' = prv /\ Used' = Used
             /\ \A n \in Used : msq'[n].key = msq[n].key
             /\ pc'[o] = pc[o] /\ call'[o] = call[o] /\ cur'[o] = cur[o]
             /\ lp'[o] = lp[o] /\ ln'[o] = ln[o]
      PROVE  RingInv(o)' /\ OwnerInv(o)'
  <2>1. Ring(o)' = Ring(o)
    BY <1>1 DEF Ring
  <2>2. RingInv(o)'
    BY <1>1, <2>1, RingKept DEF Before
  <2>3. \A y : Ahead(Ring(o), cur[o], y)' <=> Ahead(Ring(o), cur[o], y)
    BY <1>1, <2>1 DEF Ahead
  <2> QED
    BY <1>1, <2>1, <2>2, <2>3 DEF OwnerInv
<1>2. CASE UNCHANGED vars
  BY <1>1, <1>2 DEF vars, list, locals, Used
<1>3. ASSUME NEW p \in Proc \ {o}, Inside(p) \/ \E c \in Call : Syscall(p, c)
      PROVE  RingInv(o)' /\ OwnerInv(o)'
  BY <1>1, <1>3, OthersKeep
<1>4. ASSUME nxt' = nxt, prv' = prv, Used' = Used,
             {pc[o], pc'[o]} \cap {"back", "front", "unback", "unfront",
                                   "kfree", "scan"} = {},
             pc'[o] \in {"user", "spin", "alloc"} => cur'[o] = Root
      PROVE  RingInv(o)' /\ OwnerInv(o)'
  <2>1. RingInv(o)'
    BY <1>4, Quiet
  <2> QED
    BY <1>4, <2>1 DEF OwnerInv
(* The scan starts. *)
<1>5. ASSUME nxt' = nxt, prv' = prv, Used' = Used,
             pc[o] \in {"user", "spin"}, cur'[o] = cur[o],
             pc'[o] \in {"alloc", "spin", "scan"}
      PROVE  RingInv(o)' /\ OwnerInv(o)'
  <2>1. RingInv(o)' /\ Ring(o)' = Ring(o) /\ cur'[o] = Root
    BY <1>5, Quiet DEF OwnerInv
  <2>2. \A y \in Used : y \in Ring(o)
    BY <1>5 DEF Ring
  <2>3. \A y \in Used : Ahead(Ring(o), Root, y)
    BY <2>2, AheadStart
  <2>4. \A y : Ahead(Ring(o), cur[o], y)' <=> Ahead(Ring(o), Root, y)
    BY <1>5, <2>1 DEF Ahead
  <2> QED
    BY <1>5, <2>1, <2>3, <2>4, RingType DEF OwnerInv
<1>6. ASSUME NEW c \in Call, Syscall(o, c)
      PROVE  RingInv(o)' /\ OwnerInv(o)'
  <2>1. c.op \in Ops
    BY CallFields
  <2>2. pc[o] = "user" /\ pc'[o] \in {"alloc", "spin", "scan"}
    BY <1>6, <2>1 DEF Syscall, Goto, Entry, Ops, Inv, TypeOK
  <2> QED
    BY <1>5, <1>6, <2>2 DEF Syscall, list, locals, Used
<1>7. CASE Acquire(o)
  <2>1. pc[o] = "spin" /\ pc'[o] = "scan"
    BY <1>7 DEF Acquire, At, Goto, Inv, TypeOK
  <2> QED
    BY <1>5, <1>7, <2>1 DEF Acquire, list, locals, Used
<1>8. CASE Scan(o)
  <2> DEFINE n == nxt[cur[o]]
  <2>1. pc[o] = "scan" /\ Sound(o) /\ UNCHANGED <<lock, list, msq, oops>>
    BY <1>8 DEF Scan, At
  <2>2. nxt' = nxt /\ prv' = prv /\ Used' = Used
    BY <2>1 DEF list, Used
  <2>3. CASE n = Root /\ NotFound(o)
    <3>1. CASE call[o].op = "check"
      <4>1. pc'[o] = "user" /\ cur'[o] = Root
        BY <2>3, <3>1 DEF NotFound, Return, Goto, Inv, TypeOK
      <4>2. RingInv(o)'
        BY <2>1, <2>2, <4>1, Quiet
      <4> QED
        BY <4>1, <4>2 DEF OwnerInv
    <3>2. CASE call[o].op # "check"
      <4>1. pc'[o] \in {"close", "unlock"}
        BY <2>3, <3>2 DEF NotFound, Leave, Goto, Inv, TypeOK
      <4>2. RingInv(o)'
        BY <2>1, <2>2, <4>1, Quiet
      <4> QED
        BY <4>1, <4>2 DEF OwnerInv
    <3> QED
      BY <3>1, <3>2
  <2>4. CASE n # Root
    <3>1. /\ cur' = [cur EXCEPT ![o] = n] /\ cur'[o] = n
          /\ UNCHANGED <<call, lp, ln, pos, ret>>
      BY <1>8, <2>4 DEF Scan, Inv, TypeOK
    <3>2. n \in Ring(o) /\ n \in Used
      BY <2>1, <2>4, RingType DEF OwnerInv, RingInv, Circle
    <3>3. CASE msq[n].key = call[o].key /\ Found(o)
      <4>1. pc'[o] \in {"check", "close", "read", "write"}
        BY <2>1, <3>3 DEF Found, Goto, Inv, TypeOK, CallInv
      <4>2. RingInv(o)'
        BY <2>1, <2>2, <4>1, Quiet
      <4> QED
        BY <4>1, <4>2 DEF OwnerInv
    <3>4. CASE msq[n].key # call[o].key /\ pc' = pc
      <4>1. RingInv(o)' /\ Ring(o)' = Ring(o)
        BY <2>1, <2>2, <3>4, Quiet
      <4>2. ASSUME NEW y \in Used, msq[y].key = call[o].key
            PROVE  Ahead(Ring(o), n, y)
        BY <2>1, <3>2, <3>4, <4>2, AheadPass DEF OwnerInv
      <4>3. \A y : Ahead(Ring(o), cur[o], y)' <=> Ahead(Ring(o), n, y)
        BY <2>2, <3>1, <4>1 DEF Ahead
      <4>4. /\ pc'[o] = "scan" /\ cur'[o] \in Ring(o)' /\ call' = call
            /\ msq' = msq
        BY <2>1, <3>1, <3>2, <3>4, <4>1
      <4> QED
        BY <2>2, <4>1, <4>2, <4>3, <4>4 DEF OwnerInv
    <3> QED
      BY <1>8, <2>4, <3>3, <3>4 DEF Scan
  <2> QED
    BY <1>8, <2>3, <2>4 DEF Scan
<1>9. CASE ReturnKey(o)
  <2>1. pc[o] = "check" /\ pc'[o] = "user" /\ cur'[o] = Root
    BY <1>9 DEF ReturnKey, At, Return, Goto, Inv, TypeOK
  <2> QED
    BY <1>4, <1>9, <2>1 DEF ReturnKey, list, Used
<1>10. CASE Transfer(o)
  <2>1. nxt' = nxt /\ prv' = prv /\ Used' = Used
    BY <1>10, SameKeys DEF Transfer, ReadFind, ReadCopy, ReadRemove, WriteCheck,
       WriteAppend, Unlock, list, Used
  <2>2. pc[o] \in {"read", "copy", "remove", "write", "append", "unlock"}
    BY <1>10 DEF Transfer, ReadFind, ReadCopy, ReadRemove, WriteCheck,
       WriteAppend, Unlock, At
  <2>3. CASE Unlock(o)
    <3>1. pc'[o] = "user" /\ cur'[o] = Root
      BY <2>3 DEF Unlock, Return, Goto, Inv, TypeOK
    <3> QED
      BY <1>4, <2>1, <2>2, <3>1
  <2>4. CASE ~Unlock(o)
    <3>1. pc'[o] \in {"copy", "remove", "append", "unlock"}
      BY <1>10, <2>4 DEF Transfer, ReadFind, ReadCopy, ReadRemove, WriteCheck,
         WriteAppend, Leave, Goto, Inv, TypeOK
    <3> QED
      BY <1>4, <2>1, <2>2, <3>1
  <2> QED
    BY <2>3, <2>4
<1>11. CASE CreateAlloc(o)
  <2>1. PICK n \in Node :
          /\ msq[n] = NULL
          /\ msq' = [msq EXCEPT ![n] = [key |-> call[o].key, msgs |-> <<>>,
                                        size |-> 0, vol |-> 0]]
          /\ cur' = [cur EXCEPT ![o] = n]
    BY <1>11 DEF CreateAlloc
  <2>2. /\ pc[o] = "alloc" /\ pc'[o] = "back" /\ cur'[o] = n
        /\ lp'[o] = prv[Root] /\ nxt' = nxt /\ prv' = prv
    BY <1>11, <2>1 DEF CreateAlloc, At, Goto, LastNode, list, Inv, TypeOK
  <2>3. Used' = Used \cup {n} /\ n \notin Used
    <3>1. [key |-> call[o].key, msgs |-> <<>>, size |-> 0, vol |-> 0] \in Queue
      <4>1. call[o].key \in Key
        BY <1>11, CallFields DEF CreateAlloc, At, Inv, TypeOK, CallInv, Ops
      <4> QED
        BY <4>1, EmptySeq DEF Queue
    <3>2. msq'[n] # NULL /\ \A x \in Node : x # n => msq'[x] = msq[x]
      BY <2>1, <3>1, QueueAssumption DEF Inv, TypeOK
    <3> QED
      BY <2>1, <3>2 DEF Used
  <2>4. Ring(o)' = Ring(o)
    BY <2>1, <2>2, <2>3 DEF Ring
  <2>5. RingInv(o)'
    BY <2>2, <2>4, RingKept DEF Before
  <2> QED
    BY <2>2, <2>3, <2>5 DEF OwnerInv
<1>12. CASE CreateLinkBack(o)
  <2>1. /\ pc[o] = "back" /\ pc'[o] = "front" /\ Used' = Used
        /\ cur' = cur /\ lp' = lp
        /\ prv' = [prv EXCEPT ![Root] = cur[o], ![cur[o]] = lp[o]]
        /\ nxt' = [nxt EXCEPT ![cur[o]] = Root]
    BY <1>12 DEF CreateLinkBack, At, Goto, locals, Used, Inv, TypeOK
  <2>2. /\ cur[o] \in Used /\ cur[o] \in Node /\ cur[o] # Root
        /\ cur[o] \notin Ring(o) /\ lp[o] = prv[Root]
    BY <2>1 DEF OwnerInv, Used, Ring
  <2>3. /\ nxt'[cur[o]] = Root /\ prv'[Root] = cur[o] /\ prv'[cur[o]] = lp[o]
        /\ \A x \in Ring(o) : nxt'[x] = nxt[x] /\ (x # Root => prv'[x] = prv[x])
    BY <2>1, <2>2, RingType DEF Inv, TypeOK
  <2>4. Ring(o)' = Ring(o)
    BY <2>1 DEF Ring
  <2>5. \A x \in Ring(o) : Before(o, x)' = Before(o, x)
    BY <2>1, <2>2, <2>3 DEF Before
  <2>6. RingInv(o)'
    BY <2>3, <2>4, <2>5, RingKept
  <2> QED
    BY <2>1, <2>2, <2>3, <2>6 DEF OwnerInv
<1>13. CASE CreateLinkFront(o)
  <2>1. pc'[o] = "check"
    BY <1>13 DEF CreateLinkFront, Goto, Inv, TypeOK
  <2> QED
    BY <1>13, <2>1, Linked DEF OwnerInv
<1>14. CASE CloseRead(o)
  <2>1. /\ pc[o] = "close" /\ pc'[o] = "unback"
        /\ nxt' = nxt /\ prv' = prv /\ Used' = Used /\ cur' = cur
        /\ lp'[o] = prv[cur[o]] /\ ln'[o] = nxt[cur[o]]
    BY <1>14 DEF CloseRead, At, Goto, list, Used, Inv, TypeOK
  <2>2. cur[o] \in Used
    BY <1>14, <2>1, SoundCur DEF CloseRead, At, Used
  <2>3. RingInv(o)'
    BY <2>1, Quiet
  <2> QED
    BY <2>1, <2>2, <2>3 DEF OwnerInv
<1>15. CASE CloseUnlinkBack(o)
  <2>1. /\ pc[o] = "unback" /\ pc'[o] = "unfront" /\ Used' = Used
        /\ cur' = cur /\ lp' = lp /\ ln' = ln /\ nxt' = nxt
        /\ prv' = [prv EXCEPT ![ln[o]] = lp[o]]
    BY <1>15 DEF CloseUnlinkBack, At, Goto, locals, Used, Inv, TypeOK
  <2>2. /\ cur[o] \in Used /\ cur[o] # Root /\ cur[o] \in Ring(o)
        /\ lp[o] = prv[cur[o]] /\ ln[o] = nxt[cur[o]]
    BY <2>1 DEF OwnerInv, Used, Ring
  <2>3. ln[o] # cur[o] /\ ln[o] \in Ring(o) /\ ln[o] \in DOMAIN prv
    BY <2>2, Apart, RingType DEF RingInv, Circle, Inv, TypeOK
  <2>4. /\ prv'[ln[o]] = lp[o]
        /\ \A x : x # ln[o] => prv'[x] = prv[x]
    BY <2>1, <2>3
  <2>5. Before(o, ln[o]) = cur[o]
    BY <2>2 DEF RingInv
  <2>6. Ring(o)' = Ring(o)
    BY <2>1 DEF Ring
  <2>7. \A x \in Ring(o) : Before(o, x)' = Before(o, x)
    BY <2>1, <2>4, <2>5 DEF Before
  <2>8. RingInv(o)'
    BY <2>1, <2>6, <2>7, RingKept
  <2> QED
    BY <2>1, <2>2, <2>3, <2>4, <2>8 DEF OwnerInv
<1>16. CASE CloseUnlinkFront(o)
  <2>1. pc[o] = "unfront" /\ pc'[o] = "kfree" /\ cur' = cur /\ Used' = Used
    BY <1>16 DEF CloseUnlinkFront, At, Goto, locals, Used, Inv, TypeOK
  <2> QED
    BY <1>16, <2>1, Unlinked DEF OwnerInv
<1>17. CASE CloseFree(o)
  <2>1. /\ pc[o] = "kfree" /\ pc'[o] = "user" /\ cur'[o] = Root
        /\ msq' = [msq EXCEPT ![cur[o]] = NULL]
        /\ nxt' = [nxt EXCEPT ![cur[o]] = NULL]
        /\ prv' = [prv EXCEPT ![cur[o]] = NULL]
    BY <1>17 DEF CloseFree, At, Return, Goto, Inv, TypeOK
  <2>2. cur[o] \in Used /\ cur[o] \notin Ring(o)
    BY <2>1 DEF OwnerInv, Ring, Used
  <2>3. /\ Used' = Used \ {cur[o]}
        /\ \A x \in Ring(o) : nxt'[x] = nxt[x] /\ prv'[x] = prv[x]
    BY <2>1, <2>2 DEF Used, Inv, TypeOK
  <2>4. Ring(o)' = Ring(o)
    BY <2>1, <2>3 DEF Ring
  <2>5. \A x \in Ring(o) : Before(o, x)' = Before(o, x)
    BY <2>1, <2>3 DEF Before
  <2>6. RingInv(o)'
    BY <2>3, <2>4, <2>5, RingKept
  <2> QED
    BY <2>1, <2>6 DEF OwnerInv
<1>18. CASE Fault(o)
  BY <1>1, <1>18 DEF Fault, list, locals, Used
<1>19. ASSUME Inside(o)
       PROVE  RingInv(o)' /\ OwnerInv(o)'
  BY <1>7, <1>8, <1>9, <1>10, <1>11, <1>12, <1>13, <1>14, <1>15, <1>16, <1>17,
     <1>18, <1>19 DEF Inside, Ioctl
<1> QED
  BY <1>2, <1>3, <1>6, <1>19 DEF Next

(* While only one process opens and closes queues, the list is whole:      *)
(* every traversal comes back to the root over queues that are there, and  *)
(* between two calls it passes all of them.                                *)
THEOREM ListStaysIntact ==
    ASSUME NEW o \in Proc
    PROVE  Spec /\ []Alone(o) => []ListIntact
<1>1. Init => RingInv(o) /\ OwnerInv(o)
  BY OwnerInit
<1>2. Inv /\ Alone(o) /\ RingInv(o) /\ OwnerInv(o) /\ [Next]_vars
        => RingInv(o)' /\ OwnerInv(o)'
  BY OwnerNext
<1>3. Inv /\ Alone(o) /\ RingInv(o) /\ OwnerInv(o) => ListIntact
  <2> SUFFICES ASSUME RingInv(o), OwnerInv(o)
               PROVE  ListIntact
    OBVIOUS
  <2>1. /\ Ring(o) \in SUBSET (Used \cup {Root}) /\ Root \in Ring(o)
        /\ Circle(Ring(o))
    BY RingType DEF RingInv
  <2>2. ASSUME ~Changing
        PROVE  /\ Ring(o) = Used \cup {Root}
               /\ \A x \in Ring(o) : prv[nxt[x]] = x
    <3>1. pc[o] \notin {"back", "front", "unback", "unfront", "kfree"}
      BY <2>2 DEF Changing
    <3> QED
      BY <3>1 DEF Ring, RingInv, Before
  <2> QED
    BY <2>1, <2>2 DEF ListIntact
<1> QED
  BY <1>1, <1>2, <1>3, Invariance, PTL DEF Spec
=============================================================================
