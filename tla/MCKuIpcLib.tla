----------------------------- MODULE MCKuIpcLib -----------------------------
(* Small applications of the library.                                      *)
EXTENDS KuIpcLib

CONSTANTS c, p1, p2, p3, n1, n2, n3

AllCalls == [p \in Proc |-> Ops]

Get(k, x) == [fn |-> "msgget", key |-> k, excl |-> x]
Close(k) == [fn |-> "msgclose", key |-> k]
Snd(t, l, nw) == [fn |-> "msgsnd", key |-> 1, type |-> t, len |-> l,
                  nowait |-> nw]
Rcv(t, l, nw, ne) == [fn |-> "msgrcv", key |-> 1, type |-> t, len |-> l,
                      nowait |-> nw, noerror |-> ne]

(* c runs first, then all others at the same time.                         *)
CreatorFirst == [p \in Proc |-> IF p = c THEN {} ELSE {c}]
AllAtOnce == [p \in Proc |-> {}]

(* c creates the queue; p1 and p2 send three messages, p3 receives them,   *)
(* the types in another order, one with a short buffer.                    *)
TransferPrograms ==
    {(c :> <<Get(1, TRUE)>>)
        @@ (p1 :> <<Snd(7, 1, FALSE), Snd(8, 2, FALSE)>>)
        @@ (p2 :> <<Snd(7, 2, FALSE)>>)
        @@ (p3 :> r) :
            r \in {<<Rcv(7, 2, FALSE, FALSE), Rcv(7, 2, FALSE, FALSE),
                     Rcv(8, 2, FALSE, FALSE)>>,
                   <<Rcv(7, 2, FALSE, FALSE), Rcv(8, 1, FALSE, TRUE),
                     Rcv(7, 2, FALSE, FALSE)>>}}

(* p1 fills the queue and blocks, p2 waits for a type nobody sends; p3     *)
(* closes the queue under them.                                            *)
ClosePrograms ==
    {(c :> <<Get(1, FALSE)>>)
        @@ (p1 :> <<Snd(7, 1, FALSE), Snd(7, 2, FALSE), Snd(7, 1, FALSE)>>)
        @@ (p2 :> <<Rcv(8, 2, FALSE, FALSE)>>)
        @@ (p3 :> <<Close(1)>>)}

(* What may wait for ever: the only receiver for a type whose sender finds *)
(* the queue full of another type, and the only one for an empty text when *)
(* there is no other text beside it.                                       *)
WaitingPrograms ==
    {(c :> <<Get(1, TRUE)>>) @@ (p1 :> s) @@ (p2 :> t) @@ (p3 :> r) :
        s \in {<<Snd(7, 2, FALSE), Snd(7, 1, FALSE)>>, <<Snd(7, 0, FALSE)>>},
        t \in {<<>>, <<Snd(8, 1, FALSE)>>},
        r \in {<<Rcv(8, 2, FALSE, FALSE)>>, <<Rcv(7, 2, FALSE, FALSE)>>}}

(* p1 alone, every sequence of three calls that do not wait, of them at    *)
(* most two of msgget; type 7 is never sent, and a text of size 2 is too   *)
(* long for a buffer of size 1.                                            *)
SessionCalls ==
    {Get(1, TRUE), Get(1, FALSE), Get(0, TRUE), Close(0), Close(1),
     Snd(8, 2, TRUE), Snd(8, 1, TRUE), Rcv(8, 1, TRUE, TRUE),
     Rcv(7, 2, TRUE, FALSE), Rcv(8, 1, TRUE, FALSE)}

Sessions ==
    {s \in [1..3 -> SessionCalls] :
        Cardinality({i \in 1..3 : s[i].fn = "msgget"}) <= 2}

(* ... and after the queue has been filled, when a send is refused.        *)
FullCalls == {Snd(8, 1, TRUE), Rcv(8, 2, TRUE, FALSE), Close(1), Get(1, FALSE)}

Alone(s) == [p \in Proc |-> IF p = p1 THEN s ELSE <<>>]

SessionPrograms ==
    {Alone(s) : s \in Sessions}
        \cup {Alone(<<Get(1, TRUE), Snd(8, 2, TRUE), Snd(8, 1, TRUE)>> \o s) :
                 s \in [1..2 -> FullCalls]}

AllPrograms == TransferPrograms \cup WaitingPrograms \cup SessionPrograms

(* Two processes create the same queue at the same time.                   *)
RacePrograms == {[p \in Proc |-> <<Get(1, TRUE)>>]}
=============================================================================
