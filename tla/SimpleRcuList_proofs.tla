------------------------ MODULE SimpleRcuList_proofs ------------------------
(***************************************************************************)
(* Proofs about simple_rculist, for any number of readers, updaters and    *)
(* records, with and without an unload.                                    *)
(***************************************************************************)
EXTENDS SimpleRcuList, FiniteSetTheorems, TLAPS

USE SimpleRcuListAssumption DEF Apps, Proc

(* The nodes of the list: those that their predecessor leads to.           *)
Linked == {n \in Used : prv[n] # NULL /\ nxt[prv[n]] = n}

(* The number of a place in the list.                                      *)
Place(n) == IF n = Head THEN 0 ELSE record[n].id

(* n leads to the next place of the list, or from the last one to its head. *)
LeadsOn(n) ==
    \/ nxt[n] \in Linked /\ Place(nxt[n]) = Place(n) + 1
    \/ nxt[n] = Head /\ Place(n) = LEN

(* my_lock.                                                                *)
Holding == {"seek", "copy", "replace", "sync", "grace", "free", "unlock",
            "unlink"}

LockInv == \A p \in Proc : pc[p] \in Holding <=> lock = p

(* The labels of readers, updaters and rmmod.                              *)
RoleInv ==
    /\ \A p \in Readers : pc[p] \in {"user", "read"}
    /\ \A p \in Updaters : pc[p] \in {"user", "lock", "unlock", "seek", "copy",
                                    "replace", "sync", "grace", "free"}
    /\ pc[Rmmod] \in {"user", "exit", "unlink", "sync", "grace", "free", "gone"}
    /\ \A p \in Apps : pc[p] # "user" => runs[p] < N

(* The list: its links go both ways, its records are numbered without a    *)
(* gap, and no number occurs twice.                                        *)
LinkInv ==
    /\ \A n \in Linked \cup {Head} :
        /\ nxt[n] \in Linked \cup {Head} /\ prv[nxt[n]] = n
        /\ prv[n] \in Linked \cup {Head} /\ nxt[prv[n]] = n
    /\ \A n \in Linked : LeadsOn(n)
    /\ \A m, n \in Linked : record[m].id = record[n].id => m = n
    /\ Live => LeadsOn(Head)
    /\ Live => \A id \in 1..LEN : \E n \in Linked : record[n].id = id

(* The node that p has taken out of the list and not freed yet.            *)
Removing(p) == pc[p] \in {"sync", "grace", "free"}

(* What the holder of my_lock has in its hands: the node it looks for, its *)
(* copy, or the node it has taken out, which still leads back into the     *)
(* list.  No other node is in use outside the list.                        *)
InHand(p) ==
    /\ pc[p] = "lock" => pos[p] = Head
    /\ pc[p] = "seek" => pos[p] \in Linked \cup {Head}
    /\ pc[p] \in {"copy", "replace"} =>
          pos[p] \in Linked /\ record[pos[p]].id = arg[p]
    /\ pc[p] = "replace" =>
          /\ new[p] \in Used \ Linked
          /\ record[new[p]] = [id |-> arg[p],
                               data |-> More(record[pos[p]].data)]
          /\ nxt[new[p]] = nxt[pos[p]] /\ prv[new[p]] = prv[pos[p]]
    /\ Removing(p) => /\ pos[p] \in Used \ Linked
                      /\ prv[pos[p]] = NULL
                      /\ LeadsOn(pos[p])

Carries(p, n) ==
    \/ pc[p] = "replace" /\ n = new[p]
    \/ Removing(p) /\ n = pos[p]

HandsInv ==
    /\ \A p \in Proc : InHand(p)
    /\ \A n \in Used \ Linked : \E p \in Proc : Carries(p, n)

(* A reader is on a node of the list, or on one that has been taken out    *)
(* and whose grace period has not seen the reader yet.                     *)
Covered(r) ==
    \/ pos[r] \in Linked \cup {Head}
    \/ \E p \in Proc : /\ pos[r] = pos[p]
                       /\ pc[p] = "sync" \/ (pc[p] = "grace" /\ r \in gp[p])

ReaderInv == \A r \in Readers : pc[r] = "read" => Covered(r)

(* A reader has not passed the number it looks for, whose data are only    *)
(* replaced by newer ones; and what it has found stays older.              *)
Searching(r) ==
    /\ Place(pos[r]) < arg[r]
    /\ since[r] \in Nat
    /\ \A n \in Linked : record[n].id = arg[r] => since[r] <= record[n].data

Found(r) ==
    /\ shown[r] \in Nat /\ since[r] <= shown[r]
    /\ \A n \in Linked : record[n].id = arg[r] => shown[r] <= record[n].data

FreshInv ==
    Live => \A r \in Readers : arg[r] # 0 =>
        /\ pc[r] = "read" => Searching(r)
        /\ pc[r] = "user" /\ runs[r] > 0 => Found(r)

ListInv ==
    /\ ListTypeOK /\ LockInv /\ RoleInv /\ LinkInv /\ HandsInv
    /\ ReaderInv /\ FreshInv

-----------------------------------------------------------------------------
(* Facts that the proofs below keep using: the types of the fields,        *)
LEMMA UsedRecord ==
    ASSUME ListTypeOK, NEW n \in Used
    PROVE  /\ n \in Node /\ n # Head /\ n # NULL
           /\ record[n] \in [id : 1..LEN, data : Nat]
           /\ record[n].id \in 1..LEN /\ record[n].data \in Nat
           /\ Place(n) = record[n].id
  BY DEF ListTypeOK, Used, Place

(* that the holder of my_lock is alone,                                    *)
LEMMA OneHolder ==
    ASSUME LockInv, NEW p \in Proc, NEW q \in Proc,
           pc[p] \in Holding, pc[q] \in Holding
    PROVE  p = q
  BY DEF LockInv

(* that a holder without a node of its own leaves none outside the list,   *)
LEMMA AllLinked ==
    ASSUME ListInv, NEW p \in Proc, pc[p] \in {"seek", "copy", "unlock", "unlink"}
    PROVE  Used = Linked
<1>1. \A q \in Proc : pc[q] # "replace" /\ ~Removing(q)
  BY OneHolder DEF ListInv, Holding, Removing
<1> QED
  BY <1>1 DEF ListInv, HandsInv, InHand, Carries, Linked

(* and what the Records of an id are.                                      *)
LEMMA RecordsLinked ==
    ASSUME NEW id
    PROVE  Records(id) = {n \in Linked : record[n].id = id}
  BY DEF Records, Linked

-----------------------------------------------------------------------------
(* The steps that change the list.  Copy adds a node outside it.           *)
LEMMA CopyList ==
    ASSUME ListInv, NEW p \in Proc, Copy(p)
    PROVE  \E c \in Node \ Used :
              /\ Linked' = Linked /\ Used' = Used \cup {c} /\ Used = Linked
              /\ \A n \in Linked \cup {Head} :
                    nxt'[n] = nxt[n] /\ prv'[n] = prv[n]
              /\ \A n \in Linked : record'[n] = record[n]
              /\ record'[c] = [id |-> arg[p], data |-> More(record[pos[p]].data)]
              /\ new' = [new EXCEPT ![p] = c]
              /\ nxt'[c] = nxt[pos[p]] /\ prv'[c] = prv[pos[p]]
<1>1. PICK c \in Node \ Used :
          /\ new' = [new EXCEPT ![p] = c]
          /\ record' = [record EXCEPT ![c] =
                  [id |-> arg[p], data |-> More(record[pos[p]].data)]]
          /\ nxt' = [nxt EXCEPT ![c] = nxt[pos[p]]]
          /\ prv' = [prv EXCEPT ![c] = prv[pos[p]]]
  BY DEF Copy, CopiedNext
<1>2. pc[p] = "copy" /\ Used = Linked
  BY AllLinked DEF Copy, At
<1>3. /\ pos[p] \in Linked /\ record[pos[p]].id = arg[p]
      /\ nxt[pos[p]] \in Linked \cup {Head}
      /\ prv[pos[p]] \in Linked \cup {Head} /\ nxt[prv[pos[p]]] = pos[p]
  BY <1>2 DEF ListInv, HandsInv, InHand, Carries, LinkInv
<1>4. c \in Node /\ c # Head /\ c \notin Linked /\ Linked \subseteq Node
  BY <1>1, <1>2 DEF Linked, Used
<1>5. /\ \A n \in Node \cup {Head} : n # c => nxt'[n] = nxt[n] /\ prv'[n] = prv[n]
      /\ nxt'[c] = nxt[pos[p]] /\ prv'[c] = prv[pos[p]]
  BY <1>1, <1>4 DEF ListInv, ListTypeOK
<1>6. /\ \A n \in Node : n # c => record'[n] = record[n]
      /\ record'[c] = [id |-> arg[p], data |-> More(record[pos[p]].data)]
  BY <1>1, <1>4 DEF ListInv, ListTypeOK
<1>7. record'[c] # NULL
  <2>1. record[pos[p]].id \in 1..LEN /\ record[pos[p]].data \in Nat
    BY <1>3, UsedRecord DEF ListInv, Linked
  <2>2. [id |-> arg[p], data |-> More(record[pos[p]].data)]
            \in [id : 1..LEN, data : Nat]
    BY <1>3, <2>1 DEF More
  <2> QED
    BY <1>6, <2>2
<1>8. Used' = Used \cup {c}
  BY <1>4, <1>6, <1>7 DEF Used
<1>9. Linked' = Linked
  <2>1. c \notin Linked'
    BY <1>3, <1>4, <1>5 DEF Linked
  <2>2. ASSUME NEW n \in Linked
        PROVE  n \in Linked'
    BY <1>2, <1>4, <1>5, <1>8, <2>2 DEF Linked, ListInv, LinkInv
  <2> QED
    BY <1>2, <1>8, <2>1, <2>2 DEF Linked
<1> QED
  BY <1>1, <1>2, <1>4, <1>5, <1>6, <1>8, <1>9

(* Replace puts it where the old node was, between a and b.                *)
LEMMA ReplaceList ==
    ASSUME ListInv, NEW p \in Proc, Replace(p)
    PROVE  \E o \in Linked, c \in Used \ Linked, a, b \in (Linked \cup {Head}) :
              /\ o = pos[p] /\ c = new[p] /\ a = prv[o] /\ b = nxt[o]
              /\ o # a /\ o # b /\ o # c /\ nxt[a] = o /\ prv[b] = o
              /\ Used = Linked \cup {c} /\ Used' = Used
              /\ Linked' = (Linked \ {o}) \cup {c}
              /\ nxt'[a] = c /\ nxt'[c] = b
              /\ \A n \in (Node \cup {Head}) \ {a, c} : nxt'[n] = nxt[n]
              /\ prv'[b] = c /\ prv'[c] = a /\ prv'[o] = NULL
              /\ \A n \in (Node \cup {Head}) \ {b, c, o} : prv'[n] = prv[n]
              /\ record[c] = [id |-> record[o].id, data |-> More(record[o].data)]
<1> DEFINE o == pos[p]
           c == new[p]
           a == prv[o]
           b == nxt[o]
<1>1. pc[p] = "replace"
  BY DEF Replace, At
<1>2. /\ o \in Linked /\ c \in Used \ Linked
      /\ record[c] = [id |-> record[o].id, data |-> More(record[o].data)]
      /\ nxt[c] = b /\ prv[c] = a
  <2>1. /\ o \in Linked /\ c \in Used \ Linked /\ record[o].id = arg[p]
        /\ record[c] = [id |-> arg[p], data |-> More(record[o].data)]
        /\ nxt[c] = b /\ prv[c] = a
    BY <1>1 DEF ListInv, HandsInv, InHand, Carries
  <2> QED
    BY <2>1, Zenon
<1>3. /\ a \in Linked \cup {Head} /\ b \in Linked \cup {Head}
      /\ nxt[a] = o /\ prv[b] = o
  BY <1>2 DEF ListInv, LinkInv
<1>4. Linked \subseteq Node /\ c \in Node /\ Head \notin Node
  BY <1>2 DEF Linked, Used
<1>5. o # b
  <2>1. record[o].id \in 1..LEN
    BY <1>2, UsedRecord DEF ListInv, Linked
  <2>2. LeadsOn(o) /\ o # Head
    BY <1>2, <1>4 DEF ListInv, LinkInv
  <2> QED
    BY <2>1, <2>2, <1>4 DEF LeadsOn, Place
<1>6. o # a /\ o # c /\ a # c /\ b # c
  BY <1>2, <1>3, <1>4, <1>5
<1>7. /\ nxt'[a] = c
      /\ \A n \in Node \cup {Head} : n # a => nxt'[n] = nxt[n]
  BY <1>3, <1>4 DEF Replace, ListInv, ListTypeOK
<1>8. /\ prv'[b] = c /\ prv'[o] = NULL
      /\ \A n \in Node \cup {Head} : n # b /\ n # o => prv'[n] = prv[n]
  BY <1>2, <1>3, <1>4, <1>5 DEF Replace, NewBack, ListInv, ListTypeOK
<1>9. record' = record /\ Used' = Used
  BY DEF Replace, Used
<1>10. Used = Linked \cup {c}
  <2>1. \A q \in Proc : q # p => pc[q] # "replace" /\ ~Removing(q)
    BY <1>1, OneHolder DEF ListInv, Holding, Removing
  <2>2. \A n \in Used \ Linked : n = c
    BY <1>1, <2>1 DEF ListInv, HandsInv, InHand, Carries, Removing
  <2> QED
    BY <1>2, <2>2 DEF Linked
<1>11. Linked' = (Linked \ {o}) \cup {c}
  <2>1. c \in Linked'
    BY <1>2, <1>3, <1>4, <1>6, <1>7, <1>8, <1>9 DEF Linked
  <2>2. o \notin Linked'
    BY <1>8 DEF Linked
  <2>3. ASSUME NEW n \in Linked, n # o
        PROVE  n \in Linked'
    <3>1. CASE n = b
      BY <1>2, <1>4, <1>6, <1>7, <1>8, <1>9, <2>3, <3>1 DEF Linked
    <3>2. CASE n # b
      <4>1. prv'[n] = prv[n] /\ nxt[prv[n]] = n
        BY <1>4, <1>8, <2>3, <3>2 DEF ListInv, LinkInv
      <4>2. prv[n] # a /\ prv[n] \in Linked \cup {Head}
        BY <1>3, <2>3, <4>1 DEF ListInv, LinkInv
      <4> QED
        BY <1>4, <1>7, <1>9, <4>1, <4>2 DEF Linked
    <3> QED
      BY <3>1, <3>2
  <2> QED
    BY <1>2, <1>9, <1>10, <2>1, <2>2, <2>3 DEF Linked
<1> QED
  BY <1>2, <1>3, <1>4, <1>5, <1>6, <1>7, <1>8, <1>9, <1>10, <1>11

LEMMA ReplaceLinked ==
    ASSUME ListInv, NEW p \in Proc, Replace(p)
    PROVE  Linked' = (Linked \ {pos[p]}) \cup {new[p]}
<1>1. PICK o \in Linked, c \in Used \ Linked, a, b \in (Linked \cup {Head}) :
          /\ o = pos[p] /\ c = new[p] /\ a = prv[o] /\ b = nxt[o]
          /\ o # a /\ o # b /\ o # c /\ nxt[a] = o /\ prv[b] = o
          /\ Used = Linked \cup {c} /\ Used' = Used
          /\ Linked' = (Linked \ {o}) \cup {c}
          /\ nxt'[a] = c /\ nxt'[c] = b
          /\ \A n \in (Node \cup {Head}) \ {a, c} : nxt'[n] = nxt[n]
          /\ prv'[b] = c /\ prv'[c] = a /\ prv'[o] = NULL
          /\ \A n \in (Node \cup {Head}) \ {b, c, o} : prv'[n] = prv[n]
          /\ record[c] = [id |-> record[o].id, data |-> More(record[o].data)]
  BY ReplaceList
<1> QED
  BY <1>1

(* Free frees the node that was taken out.                                 *)
LEMMA FreeList ==
    ASSUME ListInv, NEW p \in Proc, Free(p)
    PROVE  \E o \in Used \ Linked :
              /\ o = pos[p] /\ Used' = Used \ {o}
              /\ Used = Linked \cup {o} /\ Linked' = Linked
              /\ \A n \in Linked \cup {Head} :
                    nxt'[n] = nxt[n] /\ prv'[n] = prv[n]
              /\ \A n \in Linked : record'[n] = record[n]
<1> DEFINE o == pos[p]
<1>1. pc[p] = "free"
  BY DEF Free, At
<1>2. o \in Used \ Linked
  BY <1>1 DEF ListInv, HandsInv, InHand, Carries, Removing
<1>3. Linked \subseteq Node /\ o \in Node /\ Head \notin Node
  BY <1>2 DEF Linked, Used
<1>4. /\ nxt'[o] = NULL /\ prv'[o] = NULL /\ record'[o] = NULL
      /\ \A n \in Node \cup {Head} :
            n # o => nxt'[n] = nxt[n] /\ prv'[n] = prv[n]
      /\ \A n \in Node : n # o => record'[n] = record[n]
  BY <1>3 DEF Free, ListInv, ListTypeOK
<1>5. Used' = Used \ {o}
  BY <1>2, <1>3, <1>4 DEF Used
<1>6. Used = Linked \cup {o}
  <2>1. \A q \in Proc : pc[q] # "replace" /\ (Removing(q) => q = p)
    BY <1>1, OneHolder DEF ListInv, Holding, Removing
  <2>2. \A n \in Used \ Linked : n = o
    BY <2>1 DEF ListInv, HandsInv, InHand, Carries
  <2> QED
    BY <1>2, <2>2 DEF Linked
<1>7. Linked' = Linked
  <2>1. ASSUME NEW n \in Linked
        PROVE  n \in Linked'
    <3>1. n # o /\ n \in Used'
      BY <1>2, <1>5, <2>1 DEF Linked
    <3>2. prv[n] \in Linked \cup {Head} /\ nxt[prv[n]] = n /\ prv[n] # NULL
      BY <2>1, <1>3 DEF ListInv, LinkInv, Linked
    <3> QED
      BY <1>2, <1>3, <1>4, <3>1, <3>2 DEF Linked
  <2>2. Linked' \subseteq Used'
    BY DEF Linked
  <2> QED
    BY <1>5, <1>6, <2>1, <2>2
<1> QED
  BY <1>2, <1>3, <1>4, <1>5, <1>6, <1>7

(* rmmod takes out the first node, before b.                               *)
LEMMA UnlinkList ==
    ASSUME ListInv, ExitUnlink
    PROVE  \E o \in Linked, b \in Linked \cup {Head} :
              /\ o = nxt[Head] /\ b = nxt[o] /\ o # b
              /\ prv[o] = Head /\ prv[b] = o
              /\ Used = Linked /\ Used' = Used /\ Linked' = Linked \ {o}
              /\ pos' = [pos EXCEPT ![Rmmod] = o]
              /\ nxt'[Head] = b /\ \A n \in Node : nxt'[n] = nxt[n]
              /\ prv'[b] = Head /\ prv'[o] = NULL
              /\ \A n \in (Node \cup {Head}) \ {b, o} : prv'[n] = prv[n]
<1> DEFINE o == nxt[Head]
           b == nxt[o]
<1>1. pc[Rmmod] = "unlink" /\ o # Head
  BY DEF ExitUnlink, At
<1>2. Used = Linked
  BY <1>1, AllLinked
<1>3. /\ o \in Linked /\ prv[o] = Head /\ b \in Linked \cup {Head}
      /\ prv[b] = o
  BY <1>1 DEF ListInv, LinkInv
<1>4. Linked \subseteq Node /\ Head \notin Node
  BY DEF Linked, Used
<1>5. o # b
  BY <1>3, <1>4
<1>6. /\ nxt'[Head] = b /\ \A n \in Node : nxt'[n] = nxt[n]
      /\ prv'[b] = Head /\ prv'[o] = NULL
      /\ \A n \in (Node \cup {Head}) \ {b, o} : prv'[n] = prv[n]
      /\ pos' = [pos EXCEPT ![Rmmod] = o]
  BY <1>3, <1>4, <1>5 DEF ExitUnlink, ListInv, ListTypeOK
<1>7. record' = record /\ Used' = Used
  BY DEF ExitUnlink, Used
<1>8. Linked' = Linked \ {o}
  <2>1. o \notin Linked'
    BY <1>6 DEF Linked
  <2>2. ASSUME NEW n \in Linked, n # o
        PROVE  n \in Linked'
    <3>1. CASE n = b
      BY <1>2, <1>4, <1>6, <1>7, <2>2, <3>1 DEF Linked
    <3>2. CASE n # b
      <4>1. prv'[n] = prv[n] /\ nxt[prv[n]] = n
        BY <1>4, <1>6, <2>2, <3>2 DEF ListInv, LinkInv
      <4>2. prv[n] # Head /\ prv[n] \in Linked
        BY <2>2, <4>1 DEF ListInv, LinkInv
      <4> QED
        BY <1>2, <1>4, <1>6, <1>7, <4>1, <4>2 DEF Linked
    <3> QED
      BY <3>1, <3>2
  <2> QED
    BY <1>2, <1>7, <2>1, <2>2 DEF Linked
<1> QED
  BY <1>2, <1>3, <1>5, <1>6, <1>7, <1>8

-----------------------------------------------------------------------------
(* The list that simple_rcu_init builds.                                   *)
LEMMA ListInit == Init => ListInv
<1> SUFFICES ASSUME Init
             PROVE  ListInv
  OBVIOUS
<1>1. PICK at \in [0..LEN -> Node \cup {Head}] :
          /\ at[0] = Head
          /\ \A j, k \in 0..LEN : at[j] = at[k] => j = k
          /\ ListOf(at)
  BY DEF Init
<1>2. \A k \in 1..LEN : at[k] \in Node
  BY <1>1
<1>3. /\ \A k \in 0..(LEN - 1) : nxt[at[k]] = at[k + 1]
      /\ nxt[at[LEN]] = Head
      /\ nxt \in [Node \cup {Head} -> Node \cup {Head, NULL}]
  <2> DEFINE f(n) == CASE n = at[LEN] -> Head
                       [] \E k \in 0..(LEN - 1) : n = at[k] ->
                            at[1 + CHOOSE k \in 0..(LEN - 1) : n = at[k]]
                       [] OTHER -> NULL
  <2>1. nxt = [n \in Node \cup {Head} |-> f(n)]
    BY <1>1 DEF ListOf
  <2>2. ASSUME NEW n \in Node \cup {Head}
        PROVE  f(n) \in Node \cup {Head, NULL}
    <3>1. CASE \E k \in 0..(LEN - 1) : n = at[k]
      <4>1. (CHOOSE k \in 0..(LEN - 1) : n = at[k]) \in 0..(LEN - 1)
        BY <3>1
      <4>2. at[1 + CHOOSE k \in 0..(LEN - 1) : n = at[k]] \in Node \cup {Head}
        BY <4>1, <1>1
      <4> QED
        BY <4>2
    <3> QED
      BY <3>1
  <2>3. ASSUME NEW k \in 0..(LEN - 1)
        PROVE  f(at[k]) = at[k + 1]
    <3>1. at[k] # at[LEN] /\ k \in 0..LEN
      BY <1>1
    <3>2. (CHOOSE j \in 0..(LEN - 1) : at[k] = at[j]) = k
      BY <1>1
    <3>3. f(at[k]) = at[1 + CHOOSE j \in 0..(LEN - 1) : at[k] = at[j]]
      BY <3>1
    <3>4. 1 + k = k + 1
      OBVIOUS
    <3> QED
      BY <3>2, <3>3, <3>4
  <2>4. f(at[LEN]) = Head
    BY <1>1
  <2>5. \A k \in 0..LEN : at[k] \in Node \cup {Head}
    BY <1>1
  <2> HIDE DEF f
  <2> QED
    BY <2>1, <2>2, <2>3, <2>4, <2>5
<1>4. /\ \A k \in 1..LEN : prv[at[k]] = at[k - 1]
      /\ prv[Head] = at[LEN]
      /\ prv \in [Node \cup {Head} -> Node \cup {Head, NULL}]
  <2> DEFINE f(n) == CASE n = Head -> at[LEN]
                       [] \E k \in 1..LEN : n = at[k] ->
                            at[(CHOOSE k \in 1..LEN : n = at[k]) - 1]
                       [] OTHER -> NULL
  <2>1. prv = [n \in Node \cup {Head} |-> f(n)]
    BY <1>1 DEF ListOf
  <2>2. ASSUME NEW n \in Node \cup {Head}
        PROVE  f(n) \in Node \cup {Head, NULL}
    <3>1. CASE \E k \in 1..LEN : n = at[k]
      <4>1. (CHOOSE k \in 1..LEN : n = at[k]) \in 1..LEN
        BY <3>1
      <4>2. at[(CHOOSE k \in 1..LEN : n = at[k]) - 1] \in Node \cup {Head}
        BY <4>1, <1>1
      <4> QED
        BY <4>2, <1>1
    <3> QED
      BY <3>1, <1>1
  <2>3. ASSUME NEW k \in 1..LEN
        PROVE  f(at[k]) = at[k - 1]
    <3>1. at[k] # Head
      BY <1>2
    <3>2. (CHOOSE j \in 1..LEN : at[k] = at[j]) = k
      BY <1>1
    <3> QED
      BY <3>1, <3>2
  <2>4. f(Head) = at[LEN]
    BY <1>2
  <2> HIDE DEF f
  <2> QED
    BY <1>2, <2>1, <2>2, <2>3, <2>4
<1>5. /\ \A k \in 1..LEN : record[at[k]] = [id |-> k, data |-> 100]
      /\ \A n \in Node : (\A k \in 1..LEN : n # at[k]) => record[n] = NULL
      /\ record \in [Node -> [id : 1..LEN, data : Nat] \cup {NULL}]
  <2> DEFINE f(n) == IF \E k \in 1..LEN : n = at[k]
                     THEN [id |-> CHOOSE k \in 1..LEN : n = at[k], data |-> 100]
                     ELSE NULL
  <2>1. record = [n \in Node |-> f(n)]
    BY <1>1 DEF ListOf
  <2>2. ASSUME NEW k \in 1..LEN
        PROVE  f(at[k]) = [id |-> k, data |-> 100]
    <3>1. (CHOOSE j \in 1..LEN : at[k] = at[j]) = k
      BY <1>1
    <3> QED
      BY <3>1
  <2>3. ASSUME NEW n \in Node
        PROVE  f(n) \in [id : 1..LEN, data : Nat] \cup {NULL}
    <3>1. CASE \E k \in 1..LEN : n = at[k]
      <4>1. (CHOOSE k \in 1..LEN : n = at[k]) \in 1..LEN
        BY <3>1
      <4> QED
        BY <3>1, <4>1
    <3> QED
      BY <3>1
  <2>4. ASSUME NEW n \in Node, \A k \in 1..LEN : n # at[k]
        PROVE  f(n) = NULL
    BY <2>4
  <2> HIDE DEF f
  <2> QED
    BY <1>2, <2>1, <2>2, <2>3, <2>4
<1>6. \A k \in 1..LEN : record[at[k]].id = k /\ record[at[k]] # NULL
  <2> TAKE k \in 1..LEN
  <2>1. record[at[k]] = [id |-> k, data |-> 100]
    BY <1>5
  <2>2. record[at[k]] \in [id : 1..LEN, data : Nat]
    BY <2>1
  <2> QED
    BY <2>1, <2>2
<1>7. Used = {at[k] : k \in 1..LEN}
  BY <1>2, <1>5, <1>6 DEF Used
<1>8. Linked = {at[k] : k \in 1..LEN}
  <2>1. ASSUME NEW k \in 1..LEN
        PROVE  prv[at[k]] # NULL /\ nxt[prv[at[k]]] = at[k]
    <3>1. prv[at[k]] = at[k - 1] /\ k - 1 \in 0..(LEN - 1) /\ (k - 1) + 1 = k
      BY <1>4
    <3>2. nxt[at[k - 1]] = at[k] /\ at[k - 1] \in Node \cup {Head}
      BY <1>1, <1>3, <3>1
    <3> QED
      BY <3>1, <3>2
  <2> QED
    BY <1>7, <2>1 DEF Linked
<1>9. ListTypeOK
  BY <1>3, <1>4, <1>5 DEF Init, ListTypeOK, Labels, Arg
<1>10. LockInv /\ RoleInv /\ HandsInv /\ ReaderInv /\ FreshInv
  BY <1>7, <1>8 DEF Init, LockInv, Holding, RoleInv, HandsInv, InHand, Carries, Removing,
                    ReaderInv, FreshInv
<1>11. LinkInv
  <2>1. ASSUME NEW k \in 0..LEN
        PROVE  /\ nxt[at[k]] \in Linked \cup {Head} /\ prv[nxt[at[k]]] = at[k]
               /\ LeadsOn(at[k])
    <3>1. Place(at[k]) = k
      BY <1>1, <1>2, <1>6 DEF Place
    <3>2. CASE k = LEN
      BY <1>3, <1>4, <3>1, <3>2 DEF LeadsOn
    <3>3. CASE k # LEN
      <4>1. nxt[at[k]] = at[k + 1] /\ k + 1 \in 1..LEN /\ (k + 1) - 1 = k
        BY <1>3, <3>3
      <4>2. Place(at[k + 1]) = k + 1
        BY <1>2, <1>6, <4>1 DEF Place
      <4>3. at[k + 1] \in Linked
        BY <1>8, <4>1
      <4>4. prv[at[k + 1]] = at[k]
        BY <1>4, <4>1
      <4> QED
        BY <3>1, <4>1, <4>2, <4>3, <4>4 DEF LeadsOn
    <3> QED
      BY <3>2, <3>3
  <2>2. ASSUME NEW k \in 1..LEN
        PROVE  prv[at[k]] \in Linked \cup {Head} /\ nxt[prv[at[k]]] = at[k]
    <3>1. prv[at[k]] = at[k - 1] /\ k - 1 \in 0..(LEN - 1) /\ (k - 1) + 1 = k
      BY <1>4
    <3>2. nxt[at[k - 1]] = at[k]
      BY <1>3, <3>1
    <3>3. at[k - 1] \in Linked \cup {Head}
      BY <1>1, <1>8, <3>1
    <3> QED
      BY <3>1, <3>2, <3>3
  <2>3. prv[Head] \in Linked \cup {Head} /\ nxt[prv[Head]] = Head
    BY <1>1, <1>3, <1>4, <1>8
  <2>4. \A n \in Linked : \E k \in 1..LEN : n = at[k] /\ record[n].id = k
    BY <1>6, <1>8
  <2>5. \A m, n \in Linked : record[m].id = record[n].id => m = n
    BY <2>4
  <2>6. \A id \in 1..LEN : \E n \in Linked : record[n].id = id
    BY <1>6, <1>8
  <2>7. \A n \in Linked \cup {Head} :
          /\ nxt[n] \in Linked \cup {Head} /\ prv[nxt[n]] = n
          /\ prv[n] \in Linked \cup {Head} /\ nxt[prv[n]] = n
          /\ LeadsOn(n)
    BY <1>1, <2>1, <2>2, <2>3, <2>4
  <2> QED
    BY <2>5, <2>6, <2>7 DEF LinkInv
<1> QED
  BY <1>9, <1>10, <1>11 DEF ListInv

-----------------------------------------------------------------------------
(* The steps of the specification, as the proofs below group them: those   *)
(* that read the list or leave it alone, and those that change it.         *)
Looks(p) ==
    \/ p \in Apps /\ \E id \in Arg : Ioctl(p, id)
    \/ Read(p) \/ Acquire(p) \/ Seek(p) \/ Unlock(p) \/ StartGrace(p)
    \/ (\E q \in Proc : See(p, q)) \/ EndGrace(p)

Leaves == ExitStart \/ ExitLock \/ ExitDone

Changes(p) == Copy(p) \/ Replace(p) \/ Free(p)

LEMMA Steps ==
    ASSUME [Next]_vars
    PROVE  \/ UNCHANGED vars \/ Leaves \/ ExitUnlink
           \/ \E p \in Proc : Looks(p) \/ Changes(p)
  BY DEF Next, Start, Step, Update, Sync, Exit, Looks, Leaves, Changes

LEMMA ListAlone ==
    ASSUME UNCHANGED vars \/ Leaves \/ \E p \in Proc : Looks(p)
    PROVE  UNCHANGED list /\ Used' = Used /\ Linked' = Linked
<1>1. UNCHANGED list
  BY DEF vars, Leaves, ExitStart, ExitLock, ExitDone, Looks, Ioctl, Read,
         Acquire, Seek, Unlock, StartGrace, See, EndGrace
<1> QED
  BY <1>1 DEF list, Used, Linked

(* Types.                                                                  *)
LEMMA TypeNext == ListInv /\ [Next]_vars => ListTypeOK'
<1> SUFFICES ASSUME ListInv, [Next]_vars
             PROVE  ListTypeOK'
  OBVIOUS
<1>1. CASE UNCHANGED vars
  BY <1>1 DEF vars, list, locals, results, ListInv, ListTypeOK
<1>2. CASE Leaves
  BY <1>2 DEF Leaves, ExitStart, ExitLock, ExitDone, Goto, Labels, list, locals,
              results, ListInv, ListTypeOK
<1>3. CASE ExitUnlink
  <2>1. nxt[Head] \in Node
    BY <1>3, UnlinkList DEF Linked, Used
  <2>2. pos' \in [Proc -> Node \cup {Head}] /\ pc' \in [Proc -> Labels]
    BY <1>3, <2>1 DEF ExitUnlink, Goto, Labels, ListInv, ListTypeOK
  <2> QED
    BY <1>3, <2>1, <2>2 DEF ExitUnlink, results, ListInv, ListTypeOK
<1>4. ASSUME NEW p \in Apps, NEW id \in Arg, Ioctl(p, id)
      PROVE  ListTypeOK'
  <2>1. since' \in [Proc -> Nat \cup {NULL}]
    <3>1. ASSUME Records(id) # {}
          PROVE  record[CHOOSE n \in Records(id) : TRUE].data \in Nat
      BY <3>1, UsedRecord DEF Records, ListInv
    <3> QED
      BY <1>4, <3>1 DEF Ioctl, ListInv, ListTypeOK
  <2> QED
    BY <1>4, <2>1 DEF Ioctl, Goto, Labels, list, ListInv, ListTypeOK
<1>5. ASSUME NEW p \in Proc, Read(p)
      PROVE  ListTypeOK'
  <2>1. nxt[pos[p]] # Head => /\ record[nxt[pos[p]]].data \in Nat
                              /\ nxt[pos[p]] \in Node
    BY <1>5, UsedRecord DEF Read, Sound, At, Good, ListInv
  <2>2. pos' \in [Proc -> Node \cup {Head}]
    BY <1>5, <2>1 DEF Read, ListInv, ListTypeOK
  <2>3. shown' \in [Proc -> Nat \cup {NULL}]
    BY <1>5, <2>1 DEF Read, ListInv, ListTypeOK
  <2>4. p \in Apps /\ runs[p] < N
    BY <1>5 DEF Read, At, ListInv, RoleInv
  <2>5. runs' \in [Proc -> 0..N] /\ pc' \in [Proc -> Labels]
    BY <1>5, <2>4 DEF Read, Return, Goto, Labels, ListInv, ListTypeOK
  <2> QED
    BY <1>5, <2>2, <2>3, <2>5 DEF Read, list, ListInv, ListTypeOK
<1>6. ASSUME NEW p \in Proc, Acquire(p) \/ StartGrace(p) \/ EndGrace(p)
                \/ \E q \in Proc : See(p, q)
      PROVE  ListTypeOK'
  BY <1>6 DEF Acquire, StartGrace, EndGrace, See, Goto, Labels, list, locals,
              results, ListInv, ListTypeOK
<1>7. ASSUME NEW p \in Proc, Seek(p)
      PROVE  ListTypeOK'
  <2>1. nxt[pos[p]] \in Node \cup {Head}
    BY <1>7 DEF Seek, Sound, At, Good, Used
  <2>2. pc' \in [Proc -> Labels]
    BY <1>7 DEF Seek, Goto, Labels, ListInv, ListTypeOK
  <2> QED
    BY <1>7, <2>1, <2>2 DEF Seek, list, results, ListInv, ListTypeOK
<1>8. ASSUME NEW p \in Proc, Unlock(p)
      PROVE  ListTypeOK'
  <2>1. p \in Apps /\ runs[p] < N
    BY <1>8 DEF Unlock, At, ListInv, RoleInv
  <2> QED
    BY <1>8, <2>1 DEF Unlock, Released, Return, Goto, Labels, list, locals,
                      ListInv, ListTypeOK
<1>9. ASSUME NEW p \in Proc, Copy(p)
      PROVE  ListTypeOK'
  <2>1. pos[p] \in Linked /\ record[pos[p]].id = arg[p]
    BY <1>9 DEF Copy, At, ListInv, HandsInv, InHand, Carries
  <2>2. arg[p] \in 1..LEN /\ More(record[pos[p]].data) \in Nat
    BY <2>1, UsedRecord DEF Linked, More, ListInv
  <2>3. record' \in [Node -> [id : 1..LEN, data : Nat] \cup {NULL}]
    BY <1>9, <2>2 DEF Copy, ListInv, ListTypeOK
  <2>4. /\ nxt' \in [Node \cup {Head} -> Node \cup {Head, NULL}]
        /\ prv' \in [Node \cup {Head} -> Node \cup {Head, NULL}]
    BY <1>9 DEF Copy, CopiedNext, ListInv, ListTypeOK
  <2> QED
    BY <1>9, <2>3, <2>4 DEF Copy, Goto, Labels, results, ListInv, ListTypeOK
<1>10. ASSUME NEW p \in Proc, Replace(p)
       PROVE  ListTypeOK'
  <2>1. new[p] \in Node
    BY <1>10 DEF Replace, At, ListInv, HandsInv, InHand, Carries, Used
  <2>2. /\ nxt' \in [Node \cup {Head} -> Node \cup {Head, NULL}]
        /\ prv' \in [Node \cup {Head} -> Node \cup {Head, NULL}]
    BY <1>10, <2>1 DEF Replace, NewBack, ListInv, ListTypeOK
  <2> QED
    BY <1>10, <2>2 DEF Replace, Goto, Labels, locals, results, ListInv, ListTypeOK
<1>11. ASSUME NEW p \in Proc, Free(p)
       PROVE  ListTypeOK'
  BY <1>11 DEF Free, Goto, Labels, locals, results, ListInv, ListTypeOK
<1> QED
  BY Steps, <1>1, <1>2, <1>3, <1>4, <1>5, <1>6, <1>7, <1>8, <1>9, <1>10, <1>11
     DEF Looks, Changes

(* The lock.                                                               *)
LEMMA LockNext == ListInv /\ [Next]_vars => LockInv'
<1> SUFFICES ASSUME ListInv, [Next]_vars
             PROVE  LockInv'
  OBVIOUS
<1> USE DEF LockInv, Holding
<1>1. CASE UNCHANGED vars \/ Leaves \/ ExitUnlink
  BY <1>1 DEF vars, Leaves, ExitStart, ExitLock, ExitDone, ExitUnlink, At, Goto,
              ListInv, ListTypeOK
<1>2. ASSUME NEW p \in Proc, Acquire(p) \/ Unlock(p)
      PROVE  LockInv'
  BY <1>2 DEF Acquire, Unlock, Released, Return, At, Goto, ListInv, ListTypeOK
<1>3. ASSUME NEW p \in Proc, Seek(p) \/ StartGrace(p) \/ EndGrace(p)
                \/ \E q \in Proc : See(p, q)
      PROVE  LockInv'
  BY <1>3 DEF Seek, StartGrace, EndGrace, See, At, Goto, ListInv, ListTypeOK
<1>4. ASSUME NEW p \in Proc, Read(p) \/ \E id \in Arg : Ioctl(p, id)
      PROVE  LockInv'
  BY <1>4 DEF Read, Ioctl, Return, At, Goto, ListInv, ListTypeOK
<1>5. ASSUME NEW p \in Proc, Changes(p)
      PROVE  LockInv'
  BY <1>5 DEF Changes, Copy, Replace, Free, At, Goto, ListInv, ListTypeOK
<1> QED
  BY Steps, <1>1, <1>2, <1>3, <1>4, <1>5 DEF Looks

(* The roles.                                                              *)
LEMMA RoleNext == ListInv /\ [Next]_vars => RoleInv'
<1> SUFFICES ASSUME ListInv, [Next]_vars
             PROVE  RoleInv'
  OBVIOUS
<1> USE DEF RoleInv
<1>1. CASE UNCHANGED vars \/ Leaves \/ ExitUnlink
  BY <1>1 DEF vars, Leaves, ExitStart, ExitLock, ExitDone, ExitUnlink, At, Goto,
              results, ListInv, ListTypeOK
<1>2. ASSUME NEW p \in Proc, Acquire(p) \/ StartGrace(p) \/ EndGrace(p) \/ Seek(p)
                \/ (\E q \in Proc : See(p, q)) \/ Changes(p)
      PROVE  RoleInv'
  BY <1>2 DEF Acquire, StartGrace, EndGrace, Seek, See, Changes, Copy, Replace,
              Free, At, Goto, results, ListInv, ListTypeOK
<1>3. ASSUME NEW p \in Proc, Read(p) \/ Unlock(p)
      PROVE  RoleInv'
  BY <1>3 DEF Read, Unlock, Return, At, Goto, ListInv, ListTypeOK
<1>4. ASSUME NEW p \in Apps, NEW id \in Arg, Ioctl(p, id)
      PROVE  RoleInv'
  BY <1>4 DEF Ioctl, At, Goto, ListInv, ListTypeOK
<1> QED
  BY Steps, <1>1, <1>2, <1>3, <1>4 DEF Looks

(* A module that is being unloaded does not come back to life.             *)
LEMMA LiveStays ==
    ASSUME ListInv, [Next]_vars, Live'
    PROVE  Live
<1> USE DEF Live
<1>1. CASE UNCHANGED vars \/ Leaves \/ ExitUnlink
  BY <1>1 DEF vars, Leaves, ExitStart, ExitLock, ExitDone, ExitUnlink, At, Goto,
              ListInv, ListTypeOK
<1>2. ASSUME NEW p \in Proc, Acquire(p) \/ StartGrace(p) \/ EndGrace(p)
                \/ (\E q \in Proc : See(p, q)) \/ Changes(p)
      PROVE  Live
  BY <1>2 DEF Acquire, StartGrace, EndGrace, See, Changes, Copy, Replace, Free,
              At, Goto, ListInv, ListTypeOK
<1>3. ASSUME NEW p \in Proc, Seek(p) \/ Read(p) \/ Unlock(p)
      PROVE  Live
  <2>1. p \in Apps
    BY <1>3 DEF Seek, Read, Unlock, At, ListInv, RoleInv
  <2> QED
    BY <1>3, <2>1 DEF Seek, Read, Unlock, Return, Goto, ListInv, ListTypeOK
<1>4. ASSUME NEW p \in Apps, NEW id \in Arg, Ioctl(p, id)
      PROVE  Live
  BY <1>4 DEF Ioctl, Goto, ListInv, ListTypeOK
<1> QED
  BY Steps, <1>1, <1>2, <1>3, <1>4 DEF Looks

(* The list stays whole.                                                   *)
LEMMA LinkNext == ListInv /\ [Next]_vars => LinkInv'
<1> SUFFICES ASSUME ListInv, [Next]_vars
             PROVE  LinkInv'
  OBVIOUS
<1>1. Live' => Live
  BY LiveStays
<1>2. Linked \subseteq Node /\ Head \notin Node
  BY DEF Linked, Used
<1>3. ASSUME Linked' = Linked,
             \A n \in Linked \cup {Head} : nxt'[n] = nxt[n] /\ prv'[n] = prv[n],
             \A n \in Linked : record'[n] = record[n]
      PROVE  LinkInv'
  <2>1. \A n \in Linked \cup {Head} :
            /\ nxt'[n] \in Linked' \cup {Head} /\ prv'[nxt'[n]] = n
            /\ prv'[n] \in Linked' \cup {Head} /\ nxt'[prv'[n]] = n
    BY <1>3 DEF ListInv, LinkInv
  <2>2. \A n \in Linked \cup {Head} : Place(n)' = Place(n)
    BY <1>2, <1>3 DEF Place
  <2>3. \A n \in Linked \cup {Head} : LeadsOn(n) => LeadsOn(n)'
    BY <1>3, <2>2 DEF LeadsOn
  <2>4. \A m, n \in Linked : record'[m].id = record'[n].id => m = n
    BY <1>3 DEF ListInv, LinkInv
  <2>5. Live' => \A id \in 1..LEN : \E n \in Linked : record'[n].id = id
    BY <1>1, <1>3 DEF ListInv, LinkInv
  <2> QED
    BY <1>1, <1>3, <2>1, <2>3, <2>4, <2>5 DEF ListInv, LinkInv
<1>4. CASE UNCHANGED vars \/ Leaves \/ \E p \in Proc : Looks(p)
  BY <1>3, <1>4, ListAlone DEF list
<1>5. ASSUME NEW p \in Proc, Copy(p)
      PROVE  LinkInv'
  BY <1>3, <1>5, CopyList
<1>6. ASSUME NEW p \in Proc, Free(p)
      PROVE  LinkInv'
  BY <1>3, <1>6, FreeList
<1>7. ASSUME NEW p \in Proc, Replace(p)
      PROVE  LinkInv'
  <2>1. PICK o \in Linked, c \in Used \ Linked, a, b \in (Linked \cup {Head}) :
          /\ a = prv[o] /\ b = nxt[o]
          /\ o # a /\ o # b /\ o # c /\ nxt[a] = o /\ prv[b] = o
          /\ Linked' = (Linked \ {o}) \cup {c}
          /\ nxt'[a] = c /\ nxt'[c] = b
          /\ \A n \in (Node \cup {Head}) \ {a, c} : nxt'[n] = nxt[n]
          /\ prv'[b] = c /\ prv'[c] = a
          /\ \A n \in (Node \cup {Head}) \ {b, c, o} : prv'[n] = prv[n]
          /\ record[c] = [id |-> record[o].id, data |-> More(record[o].data)]
    BY <1>7, ReplaceList
  <2>2. c \in Node /\ c # Head /\ o # Head /\ c # a /\ c # b /\ o \in Node
    BY <1>2, <2>1 DEF Used
  <2>3. record' = record /\ record[c].id = record[o].id
    BY <1>7, <2>1 DEF Replace
  <2>4. \A n \in Linked \cup {Head} : n # o /\ n # a => nxt[n] # o
    BY <2>1 DEF ListInv, LinkInv
  <2>5. \A n \in Linked \cup {Head} : n # o /\ n # b => prv[n] # o
    BY <2>1 DEF ListInv, LinkInv
  <2>6. ASSUME NEW n \in Linked' \cup {Head}
        PROVE  nxt'[n] \in Linked' \cup {Head} /\ prv'[nxt'[n]] = n
    <3>1. CASE n = a \/ n = c
      BY <2>1, <2>2, <3>1
    <3>2. CASE n # a /\ n # c
      <4>1. n \in (Linked \cup {Head}) /\ n # o
        BY <2>1, <2>2, <2>6, <3>2
      <4>2. nxt'[n] = nxt[n] /\ nxt[n] \in Linked \cup {Head} /\ nxt[n] # o
        BY <1>2, <2>1, <2>4, <3>2, <4>1 DEF ListInv, LinkInv
      <4>3. prv[nxt[n]] = n /\ nxt[n] # b
        BY <2>1, <4>1 DEF ListInv, LinkInv
      <4>4. nxt[n] # c
        BY <2>1, <2>2, <4>2
      <4> QED
        BY <1>2, <2>1, <4>2, <4>3, <4>4
    <3> QED
      BY <3>1, <3>2
  <2>7. ASSUME NEW n \in Linked' \cup {Head}
        PROVE  prv'[n] \in Linked' \cup {Head} /\ nxt'[prv'[n]] = n
    <3>1. CASE n = b \/ n = c
      BY <2>1, <2>2, <3>1
    <3>2. CASE n # b /\ n # c
      <4>1. n \in (Linked \cup {Head}) /\ n # o
        BY <2>1, <2>2, <2>7, <3>2
      <4>2. prv'[n] = prv[n] /\ prv[n] \in Linked \cup {Head} /\ prv[n] # o
        BY <1>2, <2>1, <2>5, <3>2, <4>1 DEF ListInv, LinkInv
      <4>3. nxt[prv[n]] = n /\ prv[n] # a
        BY <2>1, <4>1 DEF ListInv, LinkInv
      <4>4. prv[n] # c
        BY <2>1, <2>2, <4>2
      <4> QED
        BY <1>2, <2>1, <4>2, <4>3, <4>4
    <3> QED
      BY <3>1, <3>2
  <2>8. \A n \in Node \cup {Head} : Place(n)' = Place(n)
    BY <2>3 DEF Place
  <2>9. Place(c) = Place(o)
    BY <2>2, <2>3 DEF Place
  <2>10. ASSUME NEW n \in Linked' \cup {Head}, n = c \/ LeadsOn(n)
         PROVE  LeadsOn(n)'
    <3>1. CASE n = a
      <4>1. LeadsOn(a) /\ a # c
        BY <2>2, <2>10, <3>1
      <4>2. Place(o) = Place(a) + 1
        BY <1>2, <2>1, <2>2, <4>1 DEF LeadsOn
      <4> QED
        BY <1>2, <2>1, <2>2, <2>8, <2>9, <3>1, <4>2 DEF LeadsOn
    <3>2. CASE n = c
      <4>1. LeadsOn(o)
        BY <2>1 DEF ListInv, LinkInv
      <4> QED
        BY <1>2, <2>1, <2>2, <2>8, <2>9, <3>2, <4>1 DEF LeadsOn
    <3>3. CASE n # a /\ n # c
      <4>1. n \in Linked \cup {Head} /\ n # o
        BY <2>1, <2>2, <2>10, <3>3
      <4>2. nxt'[n] = nxt[n] /\ nxt[n] \in Linked \cup {Head} /\ nxt[n] # o
        BY <1>2, <2>1, <2>4, <3>3, <4>1 DEF ListInv, LinkInv
      <4> QED
        BY <1>2, <2>1, <2>8, <2>10, <3>3, <4>1, <4>2 DEF LeadsOn
    <3> QED
      BY <3>1, <3>2, <3>3
  <2>11. \A m, n \in Linked' : record'[m].id = record'[n].id => m = n
    BY <2>1, <2>3 DEF ListInv, LinkInv
  <2>12. ASSUME Live', NEW id \in 1..LEN
         PROVE  \E n \in Linked' : record'[n].id = id
    <3>1. PICK n \in Linked : record[n].id = id
      BY <1>1, <2>12 DEF ListInv, LinkInv
    <3> QED
      BY <2>1, <2>3, <3>1
  <2>13. \A n \in Linked' : LeadsOn(n)'
    BY <2>1, <2>10 DEF ListInv, LinkInv
  <2>14. Live' => LeadsOn(Head)'
    BY <1>1, <2>10 DEF ListInv, LinkInv
  <2> QED
    BY <2>6, <2>7, <2>11, <2>12, <2>13, <2>14 DEF LinkInv
<1>8. CASE ExitUnlink
  <2>1. PICK o \in Linked, b \in Linked \cup {Head} :
          /\ o = nxt[Head] /\ b = nxt[o] /\ o # b
          /\ prv[o] = Head /\ prv[b] = o
          /\ Linked' = Linked \ {o}
          /\ nxt'[Head] = b /\ \A n \in Node : nxt'[n] = nxt[n]
          /\ prv'[b] = Head
          /\ \A n \in (Node \cup {Head}) \ {b, o} : prv'[n] = prv[n]
    BY <1>8, UnlinkList
  <2>2. record' = record /\ ~Live'
    BY <1>8 DEF ExitUnlink, Goto, Live, ListInv, ListTypeOK
  <2>3. o # Head
    BY <1>2, <2>1
  <2>4. ASSUME NEW n \in Linked' \cup {Head}
        PROVE  nxt'[n] \in Linked' \cup {Head} /\ prv'[nxt'[n]] = n
    <3>1. CASE n = Head
      BY <2>1, <3>1
    <3>2. CASE n # Head
      <4>1. n \in Linked /\ n # o /\ nxt'[n] = nxt[n]
        BY <1>2, <2>1, <2>4, <3>2
      <4>2. nxt[n] \in Linked \cup {Head} /\ prv[nxt[n]] = n
        BY <4>1 DEF ListInv, LinkInv
      <4>3. nxt[n] # o /\ nxt[n] # b
        BY <2>1, <3>2, <4>1, <4>2
      <4> QED
        BY <1>2, <2>1, <4>1, <4>2, <4>3
    <3> QED
      BY <3>1, <3>2
  <2>5. ASSUME NEW n \in Linked' \cup {Head}
        PROVE  prv'[n] \in Linked' \cup {Head} /\ nxt'[prv'[n]] = n
    <3>1. CASE n = b
      BY <2>1, <3>1
    <3>2. CASE n # b
      <4>1. n \in Linked \cup {Head} /\ n # o /\ prv'[n] = prv[n]
        BY <1>2, <2>1, <2>3, <2>5, <3>2
      <4>2. prv[n] \in Linked \cup {Head} /\ nxt[prv[n]] = n
        BY <4>1 DEF ListInv, LinkInv
      <4>3. prv[n] # o /\ prv[n] # Head
        BY <2>1, <3>2, <4>1, <4>2
      <4> QED
        BY <1>2, <2>1, <4>1, <4>2, <4>3
    <3> QED
      BY <3>1, <3>2
  <2>6. \A n \in Node \cup {Head} : Place(n)' = Place(n)
    BY <2>2 DEF Place
  <2>7. ASSUME NEW n \in Linked'
        PROVE  LeadsOn(n)'
    <3>1. n \in Linked /\ n # Head /\ n \in Node /\ nxt'[n] = nxt[n]
      BY <1>2, <2>1, <2>7
    <3>2. LeadsOn(n) /\ nxt'[n] # o
      BY <2>1, <3>1 DEF ListInv, LinkInv
    <3> QED
      BY <1>2, <2>1, <2>6, <3>1, <3>2 DEF LeadsOn
  <2>8. \A m, n \in Linked' : record'[m].id = record'[n].id => m = n
    BY <2>1, <2>2 DEF ListInv, LinkInv
  <2> QED
    BY <2>2, <2>4, <2>5, <2>7, <2>8 DEF LinkInv
<1> QED
  BY Steps, <1>4, <1>5, <1>6, <1>7, <1>8 DEF Changes

(* What a process has in its hands.                                        *)
LEMMA HandsNext == ListInv /\ [Next]_vars => HandsInv'
<1> SUFFICES ASSUME ListInv, [Next]_vars
             PROVE  HandsInv'
  OBVIOUS
<1>1. ASSUME UNCHANGED list, NEW q \in Proc,
             pc'[q] = pc[q], pos'[q] = pos[q], arg'[q] = arg[q], new'[q] = new[q]
      PROVE  /\ InHand(q)'
             /\ \A n \in Used \ Linked : Carries(q, n) => Carries(q, n)'
  <2>1. Used' = Used /\ Linked' = Linked /\ record' = record /\ nxt' = nxt
        /\ prv' = prv
    BY <1>1 DEF list, Used, Linked
  <2>2. \A n : LeadsOn(n)' = LeadsOn(n)
    BY <2>1 DEF LeadsOn, Place
  <2>3. InHand(q)
    BY DEF ListInv, HandsInv
  <2> QED
    BY <1>1, <2>1, <2>2, <2>3 DEF InHand, Carries, Removing, More
<1>2. CASE UNCHANGED vars \/ Leaves
  <2>1. ASSUME NEW q \in Proc
        PROVE  /\ InHand(q)'
               /\ \A n \in Used \ Linked : Carries(q, n) => Carries(q, n)'
    <3>1. CASE pc'[q] = pc[q]
      BY <1>1, <1>2, <3>1, ListAlone
         DEF vars, locals, Leaves, ExitStart, ExitLock, ExitDone
    <3>2. CASE pc'[q] # pc[q]
      <4>1. q = Rmmod /\ pc[q] \in {"user", "exit", "unlink"}
                      /\ pc'[q] \in {"exit", "unlink", "gone"}
        BY <1>2, <3>2 DEF vars, Leaves, ExitStart, ExitLock, ExitDone, At, Goto,
                          ListInv, ListTypeOK
      <4> QED
        BY <4>1 DEF InHand, Carries, Removing
    <3> QED
      BY <3>1, <3>2
  <2> QED
    BY <1>2, <2>1, ListAlone DEF ListInv, HandsInv
<1>3. ASSUME NEW p \in Proc, Looks(p)
      PROVE  HandsInv'
  <2>1. UNCHANGED list /\ Used' = Used /\ Linked' = Linked
        /\ record' = record /\ nxt' = nxt
    BY <1>3, ListAlone DEF list
  <2>2. \A q \in Proc : q # p => /\ pc'[q] = pc[q] /\ pos'[q] = pos[q]
                                 /\ arg'[q] = arg[q] /\ new'[q] = new[q]
    BY <1>3 DEF Looks, Ioctl, Read, Acquire, Seek, Unlock, StartGrace, See,
                EndGrace, Goto, Return, locals, ListInv, ListTypeOK
  <2>3. ASSUME NEW n \in Used \ Linked, Carries(p, n)
        PROVE  Carries(p, n)'
    BY <1>3, <2>3 DEF Looks, Ioctl, Read, Acquire, Seek, Unlock, StartGrace, See,
                EndGrace, At, Goto, locals, Carries, Removing, ListInv, ListTypeOK
  <2>4. InHand(p)'
    <3>1. CASE (\E id \in Arg : Ioctl(p, id)) \/ Read(p) \/ Unlock(p)
      BY <3>1 DEF Ioctl, Read, Unlock, At, Goto, Return, InHand, Removing,
                  ListInv, ListTypeOK
    <3>2. CASE Acquire(p)
      <4>1. p \in Updaters
        BY <3>2 DEF Acquire, At, ListInv, RoleInv
      <4>2. pc'[p] = "seek" /\ pos'[p] = pos[p]
        BY <3>2 DEF Acquire, Goto, locals, ListInv, ListTypeOK
      <4>3. pos[p] = Head
        BY <3>2 DEF Acquire, At, ListInv, HandsInv, InHand
      <4> QED
        BY <4>2, <4>3 DEF InHand, Removing
    <3>3. CASE Seek(p)
      <4>1. pos'[p] = nxt[pos[p]] /\ pos'[p] \in Linked \cup {Head}
        BY <3>3 DEF Seek, At, ListInv, ListTypeOK, HandsInv, InHand, LinkInv
      <4>2. /\ pc'[p] \in {"unlock", "copy", "seek"} /\ arg' = arg
            /\ pc'[p] = "copy" => pos'[p] # Head /\ record[pos'[p]].id = arg[p]
        BY <3>3, <4>1 DEF Seek, At, Goto, ListInv, ListTypeOK
      <4> QED
        BY <2>1, <4>1, <4>2 DEF InHand, Removing
    <3>4. CASE StartGrace(p) \/ EndGrace(p) \/ \E q \in Proc : See(p, q)
      <4>1. Removing(p) /\ Removing(p)' /\ pos' = pos
        BY <3>4 DEF StartGrace, EndGrace, See, At, Goto, locals, Removing,
                    ListInv, ListTypeOK
      <4>2. LeadsOn(pos[p])' = LeadsOn(pos[p])
        BY <2>1, <4>1 DEF LeadsOn, Place
      <4> QED
        BY <2>1, <4>1, <4>2 DEF InHand, Removing, ListInv, HandsInv, list
    <3> QED
      BY <1>3, <3>1, <3>2, <3>3, <3>4 DEF Looks
  <2> QED
    BY <1>1, <2>1, <2>2, <2>3, <2>4 DEF ListInv, HandsInv
<1>4. ASSUME NEW p \in Proc, NEW q \in Proc, q # p, pc[p] \in Holding,
             pc'[q] = pc[q], pos'[q] = pos[q]
      PROVE  InHand(q)'
  <2>1. pc[q] \notin Holding
    BY <1>4, OneHolder DEF ListInv
  <2>2. pc[q] = "lock" => pos[q] = Head
    BY DEF ListInv, HandsInv, InHand
  <2> QED
    BY <1>4, <2>1, <2>2 DEF InHand, Removing, Holding
<1>5. ASSUME NEW p \in Proc, Copy(p)
      PROVE  HandsInv'
  <2>1. PICK c \in Node \ Used :
          /\ Linked' = Linked /\ Used' = Used \cup {c} /\ Used = Linked
          /\ \A n \in Linked \cup {Head} : nxt'[n] = nxt[n] /\ prv'[n] = prv[n]
          /\ \A n \in Linked : record'[n] = record[n]
          /\ record'[c] = [id |-> arg[p], data |-> More(record[pos[p]].data)]
          /\ new' = [new EXCEPT ![p] = c]
          /\ nxt'[c] = nxt[pos[p]] /\ prv'[c] = prv[pos[p]]
    BY <1>5, CopyList
  <2>2. /\ pc[p] = "copy" /\ pc'[p] = "replace" /\ pos' = pos /\ arg' = arg
        /\ \A q \in Proc : q # p => pc'[q] = pc[q]
        /\ new'[p] = c
    BY <1>5, <2>1 DEF Copy, At, Goto, ListInv, ListTypeOK
  <2>3. pos[p] \in Linked /\ record[pos[p]].id = arg[p]
    BY <2>2 DEF ListInv, HandsInv, InHand
  <2>4. \A q \in Proc : q # p => InHand(q)'
    BY <1>4, <2>2 DEF Holding
  <2>5. InHand(p)'
    <3>1. record'[new'[p]] = [id |-> arg'[p], data |-> More(record'[pos'[p]].data)]
      <4>1. record'[pos'[p]] = record[pos[p]]
        BY <2>1, <2>2, <2>3
      <4> QED
        BY <2>1, <2>2, <4>1 DEF More
    <3>2. new'[p] \in Used' \ Linked'
      BY <2>1, <2>2
    <3>3. nxt'[new'[p]] = nxt'[pos'[p]] /\ prv'[new'[p]] = prv'[pos'[p]]
      BY <2>1, <2>2, <2>3
    <3>4. pos'[p] \in Linked' /\ record'[pos'[p]].id = arg'[p]
      BY <2>1, <2>2, <2>3
    <3> QED
      BY <2>2, <3>1, <3>2, <3>3, <3>4 DEF InHand, Removing, More
  <2>6. Carries(p, c)'
    BY <2>2 DEF Carries
  <2> QED
    BY <2>1, <2>4, <2>5, <2>6 DEF HandsInv
<1>6. ASSUME NEW p \in Proc, Replace(p)
      PROVE  HandsInv'
  <2>1. PICK o \in Linked, c \in Used \ Linked, a, b \in (Linked \cup {Head}) :
          /\ o = pos[p] /\ c = new[p] /\ a = prv[o] /\ b = nxt[o]
          /\ o # a /\ o # b /\ o # c /\ nxt[a] = o /\ prv[b] = o
          /\ Used = Linked \cup {c} /\ Used' = Used
          /\ Linked' = (Linked \ {o}) \cup {c}
          /\ nxt'[a] = c /\ nxt'[c] = b
          /\ \A n \in (Node \cup {Head}) \ {a, c} : nxt'[n] = nxt[n]
          /\ prv'[b] = c /\ prv'[c] = a /\ prv'[o] = NULL
          /\ \A n \in (Node \cup {Head}) \ {b, c, o} : prv'[n] = prv[n]
          /\ record[c] = [id |-> record[o].id, data |-> More(record[o].data)]
    BY <1>6, ReplaceList
  <2>2. /\ pc[p] = "replace" /\ pc'[p] = "sync" /\ pos' = pos /\ record' = record
        /\ \A q \in Proc : q # p => pc'[q] = pc[q]
    BY <1>6 DEF Replace, At, Goto, locals, ListInv, ListTypeOK
  <2>3. \A q \in Proc : q # p => InHand(q)'
    BY <1>4, <2>2 DEF Holding
  <2>4. o \in Used' \ Linked'
    BY <2>1 DEF Linked
  <2>5. LeadsOn(o)'
    <3>1. LeadsOn(o) /\ o \in Node
      BY <2>1 DEF ListInv, LinkInv, Linked, Used
    <3>2. nxt'[o] = nxt[o] /\ nxt[o] \in Linked' \cup {Head}
      BY <2>1, <3>1
    <3>3. \A n : Place(n)' = Place(n)
      BY <2>2 DEF Place
    <3>4. Head \notin Linked
      BY DEF Linked, Used
    <3> QED
      BY <3>1, <3>2, <3>3, <3>4 DEF LeadsOn
  <2>6. InHand(p)' /\ Carries(p, o)'
    BY <2>1, <2>2, <2>4, <2>5 DEF InHand, Carries, Removing
  <2> QED
    BY <2>1, <2>3, <2>6 DEF HandsInv
<1>7. ASSUME NEW p \in Proc, Free(p)
      PROVE  HandsInv'
  <2>1. Used' = Linked'
    <3>1. PICK o \in Used \ Linked :
            Used' = Used \ {o} /\ Used = Linked \cup {o} /\ Linked' = Linked
      BY <1>7, FreeList
    <3> QED
      BY <3>1
  <2>2. /\ pc[p] = "free" /\ pc'[p] \in {"unlink", "unlock"} /\ pos' = pos
        /\ \A q \in Proc : q # p => pc'[q] = pc[q]
    BY <1>7 DEF Free, At, Goto, locals, ListInv, ListTypeOK
  <2>3. \A q \in Proc : q # p => InHand(q)'
    BY <1>4, <2>2 DEF Holding
  <2>4. InHand(p)'
    BY <2>2 DEF InHand, Removing
  <2> QED
    BY <2>1, <2>3, <2>4 DEF HandsInv
<1>8. CASE ExitUnlink
  <2>1. PICK o \in Linked, b \in Linked \cup {Head} :
          /\ b = nxt[o] /\ o # b
          /\ Used = Linked /\ Used' = Used /\ Linked' = Linked \ {o}
          /\ pos' = [pos EXCEPT ![Rmmod] = o]
          /\ \A n \in Node : nxt'[n] = nxt[n]
          /\ prv'[o] = NULL
    BY <1>8, UnlinkList
  <2>2. /\ pc[Rmmod] = "unlink" /\ pc'[Rmmod] = "sync" /\ record' = record
        /\ pos'[Rmmod] = o
        /\ \A q \in Proc : q # Rmmod => pc'[q] = pc[q] /\ pos'[q] = pos[q]
    BY <1>8, <2>1 DEF ExitUnlink, At, Goto, ListInv, ListTypeOK
  <2>3. \A q \in Proc : q # Rmmod => InHand(q)'
    BY <1>4, <2>2 DEF Holding
  <2>4. LeadsOn(o)'
    <3>1. LeadsOn(o) /\ o \in Node /\ Head \notin Linked
      BY <2>1 DEF ListInv, LinkInv, Linked, Used
    <3>2. nxt'[o] = nxt[o] /\ nxt[o] \in Linked' \cup {Head}
      BY <2>1, <3>1
    <3>3. \A n : Place(n)' = Place(n)
      BY <2>2 DEF Place
    <3> QED
      BY <3>1, <3>2, <3>3 DEF LeadsOn
  <2>5. InHand(Rmmod)' /\ Carries(Rmmod, o)'
    BY <2>1, <2>2, <2>4 DEF InHand, Carries, Removing
  <2> QED
    BY <2>1, <2>3, <2>5 DEF HandsInv
<1> QED
  BY Steps, <1>2, <1>3, <1>5, <1>6, <1>7, <1>8 DEF Changes

(* Where a reader is leads on into the list.                               *)
LEMMA ReaderLeadsOn ==
    ASSUME ListInv, NEW r \in Readers, pc[r] = "read", pos[r] # Head \/ Live
    PROVE  LeadsOn(pos[r])
<1>1. Covered(r)
  BY DEF ListInv, ReaderInv
<1>2. CASE pos[r] \in Linked
  BY <1>2 DEF ListInv, LinkInv
<1>3. CASE pos[r] = Head
  BY <1>3 DEF ListInv, LinkInv
<1>4. ASSUME NEW p \in Proc, pos[r] = pos[p], pc[p] \in {"sync", "grace"}
      PROVE  LeadsOn(pos[r])
  BY <1>4 DEF ListInv, HandsInv, InHand, Removing
<1> QED
  BY <1>1, <1>2, <1>3, <1>4 DEF Covered

LEMMA ReaderReads ==
    ASSUME ListInv, NEW r \in Readers, pc[r] = "read"
    PROVE  pos[r] \in Used \cup {Head} /\ nxt[pos[r]] \in Linked \cup {Head}
<1>1. CASE pos[r] = Head
  BY <1>1 DEF ListInv, LinkInv
<1>2. CASE pos[r] # Head
  <2>1. LeadsOn(pos[r])
    BY <1>2, ReaderLeadsOn
  <2>2. pos[r] \in Used \cup {Head}
    <3>1. Covered(r)
      BY DEF ListInv, ReaderInv
    <3>2. \A p \in Proc : pc[p] \in {"sync", "grace"} => pos[p] \in Used
      BY DEF ListInv, HandsInv, InHand, Removing
    <3> QED
      BY <3>1, <3>2 DEF Covered, Linked
  <2> QED
    BY <2>1, <2>2 DEF LeadsOn
<1> QED
  BY <1>1, <1>2

(* Readers never lose the list.                                            *)
LEMMA ReaderNext == ListInv /\ [Next]_vars => ReaderInv'
<1> SUFFICES ASSUME ListInv, [Next]_vars, NEW r \in Readers, pc'[r] = "read"
             PROVE  Covered(r)'
  BY DEF ReaderInv
<1>1. pc[r] = "read" => Covered(r)
  BY DEF ListInv, ReaderInv
<1>2. \A p \in Proc : pc[p] \in {"sync", "grace"} => p # r
  BY DEF ListInv, RoleInv
<1>3. CASE UNCHANGED vars \/ Leaves
  <2>1. /\ pc'[r] = pc[r] /\ UNCHANGED <<pos, gp>>
        /\ \A p \in Proc : pc[p] \in {"sync", "grace"} => pc'[p] = pc[p]
    BY <1>3 DEF vars, locals, Leaves, ExitStart, ExitLock, ExitDone, At, Goto,
                ListInv, ListTypeOK
  <2> QED
    BY <1>1, <1>3, <2>1, ListAlone DEF Covered
<1>4. ASSUME NEW p \in Proc, Looks(p), p # r
      PROVE  Covered(r)'
  <2>1. pc'[r] = pc[r] /\ pos'[r] = pos[r] /\ Linked' = Linked
    BY <1>4, ListAlone DEF Looks, Ioctl, Read, Acquire, Seek, Unlock, StartGrace,
       See, EndGrace, Goto, Return, locals, ListInv, ListTypeOK
  <2>2. \A q \in Proc : q # p => /\ pc'[q] = pc[q] /\ pos'[q] = pos[q]
                                 /\ gp'[q] = gp[q]
    BY <1>4 DEF Looks, Ioctl, Read, Acquire, Seek, Unlock, StartGrace, See,
                EndGrace, Goto, Return, locals, ListInv, ListTypeOK
  <2>3. ASSUME pc[p] = "sync" \/ (pc[p] = "grace" /\ r \in gp[p])
        PROVE  /\ pc'[p] = "sync" \/ (pc'[p] = "grace" /\ r \in gp'[p])
               /\ pos'[p] = pos[p]
    <3>1. CASE StartGrace(p)
      BY <1>4, <3>1 DEF StartGrace, Goto, locals, ListInv, ListTypeOK
    <3>2. ASSUME NEW q \in Proc, See(p, q)
          PROVE  /\ pc'[p] = "grace" /\ r \in gp'[p]
                 /\ pos'[p] = pos[p]
      <4>1. q # r
        BY <2>1, <3>2 DEF See, Quiescent
      <4> QED
        BY <2>3, <3>2, <4>1 DEF See, At, locals, ListInv, ListTypeOK
    <3>3. CASE EndGrace(p)
      BY <2>3, <3>3 DEF EndGrace, GraceOver, At
    <3> QED
      BY <1>4, <2>3, <3>1, <3>2, <3>3
         DEF Looks, Ioctl, Read, Acquire, Seek, Unlock, At
  <2> QED
    BY <1>1, <2>1, <2>2, <2>3 DEF Covered
<1>5. ASSUME Looks(r)
      PROVE  Covered(r)'
  <2>1. Linked' = Linked
    BY <1>5, ListAlone
  <2>2. CASE \E id \in Arg : Ioctl(r, id)
    BY <2>2 DEF Ioctl, Covered, ListInv, ListTypeOK
  <2>3. CASE Read(r)
    <3>1. pos'[r] = nxt[pos[r]] /\ pc[r] = "read"
      BY <2>3 DEF Read, At, ListInv, ListTypeOK
    <3> QED
      BY <2>1, <3>1, ReaderReads DEF Covered
  <2> QED
    BY <1>5, <2>2, <2>3 DEF Looks, Acquire, Seek, Unlock, StartGrace, See,
                            EndGrace, At, ListInv, RoleInv
<1>6. ASSUME NEW p \in Proc, Copy(p) \/ Free(p)
      PROVE  Covered(r)'
  <2>1. Linked' = Linked
    BY <1>6, CopyList, FreeList
  <2>2. /\ pc'[r] = pc[r] /\ UNCHANGED <<pos, gp>>
        /\ \A q \in Proc : pc[q] \in {"sync", "grace"} => pc'[q] = pc[q]
    BY <1>6 DEF Copy, Free, At, Goto, locals, ListInv, ListTypeOK, RoleInv
  <2> QED
    BY <1>1, <2>1, <2>2 DEF Covered
<1>7. ASSUME NEW p \in Proc, Replace(p)
      PROVE  Covered(r)'
  <2>1. Linked \ {pos[p]} \subseteq Linked'
    BY <1>7, ReplaceLinked
  <2>2. /\ pc'[r] = pc[r] /\ UNCHANGED <<pos, gp>> /\ pc'[p] = "sync"
        /\ \A q \in Proc : pc[q] \in {"sync", "grace"} => pc'[q] = pc[q]
    BY <1>7 DEF Replace, At, Goto, locals, ListInv, ListTypeOK, RoleInv
  <2> QED
    BY <1>1, <2>1, <2>2 DEF Covered
<1>8. CASE ExitUnlink
  <2>1. Linked \ {nxt[Head]} \subseteq Linked' /\ pos'[Rmmod] = nxt[Head]
    BY <1>8, UnlinkList DEF ListInv, ListTypeOK
  <2>2. /\ pc'[r] = pc[r] /\ pos'[r] = pos[r] /\ gp' = gp /\ pc'[Rmmod] = "sync"
        /\ \A q \in Proc : pc[q] \in {"sync", "grace"} =>
                pc'[q] = pc[q] /\ pos'[q] = pos[q]
    BY <1>8 DEF ExitUnlink, At, Goto, locals, ListInv, ListTypeOK, RoleInv
  <2> QED
    BY <1>1, <2>1, <2>2 DEF Covered
<1> QED
  BY Steps, <1>3, <1>4, <1>5, <1>6, <1>7, <1>8 DEF Changes

(* What readers look for and find.                                         *)
LEMMA FreshNext == ListInv /\ [Next]_vars => FreshInv'
<1> SUFFICES ASSUME ListInv, [Next]_vars, Live', NEW r \in Readers, arg'[r] # 0
             PROVE  /\ pc'[r] = "read" => Searching(r)'
                    /\ pc'[r] = "user" /\ runs'[r] > 0 => Found(r)'
  BY DEF FreshInv
<1>1. Live
  BY LiveStays
<1>2. arg[r] # 0 => /\ pc[r] = "read" => Searching(r)
                    /\ pc[r] = "user" /\ runs[r] > 0 => Found(r)
  BY <1>1 DEF ListInv, FreshInv
<1>3. pc[r] \in {"user", "read"}
  BY DEF ListInv, RoleInv
(* A step of another process, after which the data of no number of the     *)
(* list are older.                                                         *)
<1>4. ASSUME UNCHANGED <<pc[r], arg[r], pos[r], runs[r], shown[r], since[r]>>,
             pc[r] = "read" => Place(pos[r])' = Place(pos[r]),
             \A m \in Linked' : \E n \in Linked :
                  /\ record[n].id = record'[m].id
                  /\ record[n].data <= record'[m].data
                  /\ record[n].data \in Nat /\ record'[m].data \in Nat
      PROVE  /\ pc'[r] = "read" => Searching(r)'
             /\ pc'[r] = "user" /\ runs'[r] > 0 => Found(r)'
  <2>1. shown[r] \in Nat \cup {NULL} /\ since[r] \in Nat \cup {NULL}
    BY DEF ListInv, ListTypeOK
  <2>2. ASSUME NEW d \in Nat,
               \A n \in Linked : record[n].id = arg[r] => d <= record[n].data
        PROVE  \A m \in Linked' : record'[m].id = arg[r] => d <= record'[m].data
    <3> SUFFICES ASSUME NEW m \in Linked', record'[m].id = arg[r]
                 PROVE  d <= record'[m].data
      OBVIOUS
    <3>1. PICK n \in Linked :
              /\ record[n].id = record'[m].id
              /\ record[n].data <= record'[m].data
              /\ record[n].data \in Nat /\ record'[m].data \in Nat
      BY <1>4
    <3>2. d <= record[n].data
      BY <2>2, <3>1
    <3> QED
      BY <3>1, <3>2
  <2>3. CASE pc[r] = "read"
    <3>1. Searching(r)
      BY <1>2, <1>4, <2>3
    <3>2. since'[r] \in Nat /\ Place(pos[r])' < arg'[r]
      BY <1>4, <2>3, <3>1 DEF Searching, Place
    <3>3. \A m \in Linked' : record'[m].id = arg[r] => since[r] <= record'[m].data
      BY <2>2, <3>1 DEF Searching
    <3> QED
      BY <1>4, <2>3, <3>2, <3>3 DEF Searching, Place
  <2>4. CASE pc[r] = "user" /\ runs[r] > 0
    <3>1. Found(r)
      BY <1>2, <1>4, <2>4
    <3>2. \A m \in Linked' : record'[m].id = arg[r] => shown[r] <= record'[m].data
      BY <2>2, <3>1 DEF Found
    <3> QED
      BY <1>4, <2>4, <3>1, <3>2 DEF Found
  <2> QED
    BY <1>4, <2>3, <2>4
<1>5. \A n \in Used : /\ n \in Node /\ n # Head
                      /\ record[n].id \in 1..LEN /\ record[n].data \in Nat
                      /\ Place(n) = record[n].id
  BY UsedRecord DEF ListInv
<1>6. \A n \in Linked : n \in Used
  BY DEF Linked
<1>7. pc[r] = "read" => pos[r] \in Used \cup {Head}
  BY ReaderReads
<1>8. ASSUME UNCHANGED <<pc[r], arg[r], pos[r], runs[r], shown[r], since[r]>>,
             Linked' = Linked, \A n \in Linked : record'[n] = record[n],
             pc[r] = "read" => Place(pos[r])' = Place(pos[r])
      PROVE  /\ pc'[r] = "read" => Searching(r)'
             /\ pc'[r] = "user" /\ runs'[r] > 0 => Found(r)'
  <2>1. \A m \in Linked' : \E n \in Linked :
            /\ record[n].id = record'[m].id
            /\ record[n].data <= record'[m].data
            /\ record[n].data \in Nat /\ record'[m].data \in Nat
    BY <1>5, <1>6, <1>8
  <2> QED
    BY <1>4, <1>8, <2>1
<1>9. CASE UNCHANGED vars \/ Leaves \/ \E p \in Proc : p # r /\ Looks(p)
  <2>1. UNCHANGED <<pc[r], arg[r], pos[r], runs[r], shown[r], since[r]>>
    <3>1. CASE UNCHANGED vars \/ Leaves
      BY <3>1 DEF vars, locals, results, Leaves, ExitStart, ExitLock, ExitDone,
                  Goto, ListInv, ListTypeOK
    <3>2. ASSUME NEW p \in Proc, p # r, Looks(p)
          PROVE  UNCHANGED <<pc[r], arg[r], pos[r], runs[r], shown[r], since[r]>>
      BY <3>2 DEF Looks, Ioctl, Read, Acquire, Seek, Unlock, StartGrace, See,
         EndGrace, Goto, Return, locals, results, ListInv, ListTypeOK
    <3> QED
      BY <1>9, <3>1, <3>2
  <2>2. Linked' = Linked /\ record' = record
    BY <1>9, ListAlone DEF list
  <2> QED
    BY <1>8, <2>1, <2>2 DEF Place
<1>10. ASSUME NEW id \in Arg, Ioctl(r, id)
       PROVE  pc'[r] = "read" /\ Searching(r)'
  <2>1. /\ pc'[r] = "read" /\ arg'[r] = id /\ pos'[r] = Head
        /\ record' = record /\ id \in 1..LEN
    BY <1>10 DEF Ioctl, Goto, list, Arg, ListInv, ListTypeOK
  <2>2. Linked' = Linked
    BY <1>10, ListAlone DEF Looks
  <2>3. PICK n \in Linked : record[n].id = id
    BY <1>1, <2>1 DEF ListInv, LinkInv
  <2>4. Records(id) = {n}
    BY <2>3, RecordsLinked DEF ListInv, LinkInv
  <2>5. since'[r] = record[n].data
    <3>1. (CHOOSE m \in Records(id) : TRUE) = n /\ Records(id) # {}
      BY <2>4
    <3> QED
      BY <1>10, <3>1 DEF Ioctl, ListInv, ListTypeOK
  <2>6. \A m \in Linked : record[m].id = id => m = n
    BY <2>4, RecordsLinked
  <2>7. \A m \in Linked' : record'[m].id = arg'[r] => since'[r] <= record'[m].data
    BY <1>5, <1>6, <2>1, <2>2, <2>3, <2>5, <2>6
  <2>8. Place(pos[r])' = 0
    BY <2>1 DEF Place
  <2> QED
    BY <1>5, <1>6, <2>1, <2>3, <2>5, <2>7, <2>8 DEF Searching, Place
<1>11. CASE Read(r)
  <2> DEFINE n == nxt[pos[r]]
  <2>1. /\ pc[r] = "read" /\ pos'[r] = n /\ arg' = arg /\ since' = since
        /\ record' = record /\ Linked' = Linked
    BY <1>11, ListAlone DEF Read, At, Looks, list, ListInv, ListTypeOK
  <2>2. Searching(r) /\ arg[r] \in 1..LEN
    BY <1>2, <2>1 DEF ListInv, ListTypeOK, Arg
  <2>3. n \in Linked /\ Place(n) = Place(pos[r]) + 1
    <3>1. LeadsOn(pos[r])
      BY <1>1, <2>1, ReaderLeadsOn
    <3>2. Place(pos[r]) \in 0..LEN
      BY <1>5, <1>7, <2>1 DEF Place
    <3>3. ~ (n = Head /\ Place(pos[r]) = LEN)
      BY <2>2, <3>2 DEF Searching
    <3> QED
      BY <3>1, <3>3 DEF LeadsOn
  <2>4. Place(n) = record[n].id /\ n # Head /\ record[n].data \in Nat
        /\ record[n].id \in 1..LEN
    BY <1>5, <1>6, <2>3
  <2>5. Place(pos[r]) \in 0..LEN
    BY <1>5, <1>7, <2>1 DEF Place
  <2>6. CASE record[n].id = arg[r]
    <3>1. pc'[r] = "user" /\ shown'[r] = record[n].data
      BY <1>11, <2>4, <2>6 DEF Read, Return, Goto, ListInv, ListTypeOK
    <3>2. since[r] \in Nat /\ since[r] <= record[n].data
      BY <2>2, <2>3, <2>6 DEF Searching
    <3>3. \A m \in Linked : record[m].id = arg[r] => m = n
      BY <2>3, <2>6 DEF ListInv, LinkInv
    <3> QED
      BY <2>1, <2>4, <3>1, <3>2, <3>3 DEF Found
  <2>7. CASE record[n].id # arg[r]
    <3>1. pc'[r] = "read"
      BY <1>11, <2>1, <2>4, <2>7 DEF Read
    <3>2. Place(n) < arg[r]
      BY <2>2, <2>3, <2>4, <2>5, <2>7 DEF Searching
    <3>3. Place(pos[r])' = Place(n)
      BY <2>1 DEF Place
    <3> QED
      BY <2>1, <2>2, <3>1, <3>2, <3>3 DEF Searching, Place
  <2> QED
    BY <2>6, <2>7
<1>12. ASSUME NEW p \in Proc, Changes(p)
       PROVE  /\ pc'[r] = "read" => Searching(r)'
              /\ pc'[r] = "user" /\ runs'[r] > 0 => Found(r)'
  <2>1. UNCHANGED <<pc[r], arg[r], pos[r], runs[r], shown[r], since[r]>>
    <3>1. p # r
      BY <1>3, <1>12 DEF Changes, Copy, Replace, Free, At
    <3> QED
      BY <1>12, <3>1 DEF Changes, Copy, Replace, Free, Goto, locals, results,
                         ListInv, ListTypeOK
  <2>2. CASE Copy(p)
    <3>1. PICK c \in Node \ Used :
            /\ Linked' = Linked /\ Used = Linked
            /\ \A n \in Linked : record'[n] = record[n]
      BY <2>2, CopyList
    <3>2. pc[r] = "read" => Place(pos[r])' = Place(pos[r])
      BY <1>5, <1>6, <1>7, <2>1, <3>1 DEF Place
    <3> QED
      BY <1>8, <2>1, <3>1, <3>2
  <2>3. CASE Free(p)
    <3>1. Linked' = Linked /\ \A n \in Linked : record'[n] = record[n]
      BY <2>3, FreeList
    <3>2. pc[r] = "read" => pos[r] \in Linked \cup {Head}
      <4>1. \A q \in Proc : ~(pc[q] = "sync" \/ (pc[q] = "grace" /\ r \in gp[q]))
        BY <2>3, OneHolder DEF Free, At, Holding, ListInv
      <4> QED
        BY <4>1 DEF ListInv, ReaderInv, Covered
    <3>3. pc[r] = "read" => Place(pos[r])' = Place(pos[r])
      BY <1>5, <1>6, <2>1, <3>1, <3>2 DEF Place
    <3> QED
      BY <1>8, <2>1, <3>1, <3>3
  <2>4. CASE Replace(p)
    <3>1. PICK o \in Linked, c \in Used \ Linked, a, b \in (Linked \cup {Head}) :
            /\ o = pos[p] /\ c = new[p] /\ a = prv[o] /\ b = nxt[o]
            /\ o # a /\ o # b /\ o # c /\ nxt[a] = o /\ prv[b] = o
            /\ Used = Linked \cup {c} /\ Used' = Used
            /\ Linked' = (Linked \ {o}) \cup {c}
            /\ nxt'[a] = c /\ nxt'[c] = b
            /\ \A n \in (Node \cup {Head}) \ {a, c} : nxt'[n] = nxt[n]
            /\ prv'[b] = c /\ prv'[c] = a /\ prv'[o] = NULL
            /\ \A n \in (Node \cup {Head}) \ {b, c, o} : prv'[n] = prv[n]
            /\ record[c] = [id |-> record[o].id, data |-> More(record[o].data)]
      BY <2>4, ReplaceList
    <3>2. record' = record
      BY <2>4 DEF Replace
    <3>3. record[c].id = record[o].id /\ record[c].data = record[o].data + 1
      BY <3>1 DEF More
    <3>4. \A m \in Linked' : \E n \in Linked :
              /\ record[n].id = record'[m].id
              /\ record[n].data <= record'[m].data
              /\ record[n].data \in Nat /\ record'[m].data \in Nat
      <4> TAKE m \in Linked'
      <4>1. CASE m = c
        BY <1>5, <1>6, <3>1, <3>2, <3>3, <4>1
      <4>2. CASE m # c
        BY <1>5, <1>6, <3>1, <3>2, <4>2
      <4> QED
        BY <4>1, <4>2
    <3> QED
      BY <1>4, <2>1, <3>2, <3>4 DEF Place
  <2> QED
    BY <1>12, <2>2, <2>3, <2>4 DEF Changes
<1>13. CASE ExitUnlink
  BY <1>1, <1>13 DEF ExitUnlink, At, Live
<1>14. CASE Looks(r)
  <2>1. Read(r) \/ \E id \in Arg : Ioctl(r, id)
    BY <1>3, <1>14 DEF Looks, Acquire, Seek, Unlock, StartGrace, See, EndGrace, At
  <2> QED
    BY <1>10, <1>11, <2>1
<1> QED
  BY Steps, <1>9, <1>12, <1>13, <1>14

-----------------------------------------------------------------------------
(* The invariant holds in every state.                                     *)
THEOREM ListInvariance == Spec => []ListInv
<1>1. ListInv /\ [Next]_vars => ListInv'
  BY TypeNext, LockNext, RoleNext, LinkNext, HandsNext, ReaderNext, FreshNext
     DEF ListInv
<1> QED
  BY ListInit, <1>1, PTL DEF Spec

(* Every variable keeps its type; in particular no id leaves 1..LEN and no *)
(* application runs more than N times.                                     *)
THEOREM ListTypeCorrect == Spec => []ListTypeOK
<1>1. ListInv => ListTypeOK
  BY DEF ListInv
<1> QED
  BY ListInvariance, <1>1, PTL

(* No reader, updater or rmmod looks into a freed node, however many       *)
(* updaters queue for my_lock and whenever the module is unloaded.         *)
THEOREM WalksAreSafe == Spec => []NoUseAfterFree
<1>1. ListInv => NoUseAfterFree
  <2> SUFFICES ASSUME ListInv, NEW p \in Proc,
                      pc[p] \in {"read", "seek", "copy", "replace"}
               PROVE  Good(pos[p]) /\ Good(nxt[pos[p]])
    BY DEF NoUseAfterFree, Sound
  <2>1. CASE pc[p] = "read"
    <3>1. p \in Readers
      BY <2>1 DEF ListInv, RoleInv
    <3> QED
      BY <2>1, <3>1, ReaderReads DEF Good, Linked
  <2>2. CASE pc[p] # "read"
    <3>1. pos[p] \in Linked \cup {Head}
      BY <2>2 DEF ListInv, HandsInv, InHand
    <3>2. nxt[pos[p]] \in Linked \cup {Head}
      BY <3>1 DEF ListInv, LinkInv
    <3> QED
      BY <3>1, <3>2 DEF Good, Linked
  <2> QED
    BY <2>1, <2>2
<1> QED
  BY ListInvariance, <1>1, PTL

(* Updates replace records and never lose or double one: each id has one   *)
(* record, the links go both ways, and a node outside the list is in the   *)
(* hands of an updater.                                                    *)
THEOREM ListStaysWhole == Spec => []ListWhole
<1>1. ListInv => ListWhole
  <2> SUFFICES ASSUME ListInv, Live
               PROVE  ListWhole
    BY DEF ListWhole
  <2>1. ASSUME NEW id \in 1..LEN
        PROVE  Cardinality(Records(id)) = 1
    <3>1. PICK n \in Linked : record[n].id = id
      BY DEF ListInv, LinkInv
    <3>2. Records(id) = {n}
      BY <3>1, RecordsLinked DEF ListInv, LinkInv
    <3> QED
      BY <3>2, FS_Singleton
  <2>2. \A n \in Linked : record[n].id \in 1..LEN
    BY UsedRecord DEF ListInv, Linked
  <2>3. UNION {Records(id) : id \in 1..LEN} = Linked
    <3>1. \A id \in 1..LEN : Records(id) = {n \in Linked : record[n].id = id}
      BY RecordsLinked
    <3> QED
      BY <2>2, <3>1
  <2>4. \A n \in Linked \cup {Head} : prv[nxt[n]] = n
    BY DEF ListInv, LinkInv
  <2>5. ASSUME NEW n \in Used \ Linked
        PROVE  \E p \in Updaters :
                  \/ pc[p] = "replace" /\ n = new[p]
                  \/ pc[p] \in {"sync", "grace", "free"} /\ n = pos[p]
    <3>1. PICK p \in Proc : Carries(p, n)
      BY DEF ListInv, HandsInv
    <3>2. p \in Updaters
      BY <3>1 DEF Carries, Removing, ListInv, RoleInv, Live
    <3> QED
      BY <3>1, <3>2 DEF Carries, Removing
  <2>6. \A n \in (UNION {Records(id) : id \in 1..LEN}) \cup {Head} :
            prv[nxt[n]] = n
    BY <2>3, <2>4, Zenon
  <2>7. \A n \in Used \ UNION {Records(id) : id \in 1..LEN} :
            \E p \in Updaters :
                \/ pc[p] = "replace" /\ n = new[p]
                \/ pc[p] \in {"sync", "grace", "free"} /\ n = pos[p]
    BY <2>3, <2>5, Zenon
  <2> QED
    BY <2>1, <2>6, <2>7, Zenon DEF ListWhole
<1> QED
  BY ListInvariance, <1>1, PTL

(* A read finds the number it asks for, in a version that is not older     *)
(* than the read and not newer than the list.                              *)
THEOREM FreshReads == Spec => []ReadsAreFresh
<1>1. ListInv => ReadsAreFresh
  <2> SUFFICES ASSUME ListInv, NEW p \in Readers, Live, pc[p] = "user",
                      runs[p] > 0, arg[p] # 0
               PROVE  /\ shown[p] # NULL
                      /\ since[p] <= shown[p]
                      /\ \E n \in Records(arg[p]) : shown[p] <= record[n].data
    BY DEF ReadsAreFresh
  <2>1. Found(p)
    BY DEF ListInv, FreshInv
  <2>2. arg[p] \in 1..LEN
    BY DEF ListInv, ListTypeOK, Arg
  <2>3. PICK n \in Linked : record[n].id = arg[p]
    BY <2>2 DEF ListInv, LinkInv
  <2>4. n \in Records(arg[p])
    BY <2>3, RecordsLinked
  <2> QED
    BY <2>1, <2>3, <2>4 DEF Found
<1> QED
  BY ListInvariance, <1>1, PTL
=============================================================================
