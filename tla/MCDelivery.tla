----------------------------- MODULE MCDelivery -----------------------------
(***************************************************************************)
(* Constants for model-checking Delivery: alice sends from c1, c2 or c4 is *)
(* her second device, bob has c3.                                          *)
(***************************************************************************)
EXTENDS Delivery

CONSTANTS c1, c2, c3, c4, t1, t2, b1, b2, alice, bob, phone, web

Is(x, d) == [client |-> x, device |-> d]

Family == [c \in Conns |->
    {CASE c = c1 -> Is(alice, phone) [] c = c3 -> Is(bob, phone) [] OTHER -> Is(alice, web)}]
HostEach == [t \in Threads |-> IF t = t1 THEN b1 ELSE b2]

\* Each broker numbers its connections from 1.  c4 comes to bob's broker under
\* the number of his connection, and of the sender's at the other broker: before
\* the process has died, or after.
Split == [c \in Conns |-> IF c \in {c1, c2} THEN b1 ELSE b2]
Numbered == [c \in Conns |-> IF c = c2 THEN 2 ELSE 1]

\* alice's second device is on one of the brokers.
OneSecondDevice == net[c2] = "idle" \/ net[c4] = "idle"

\* The other devices sign in, and that is all they send.
OnlyLogins ==
    \A c \in Conns \ {c1} :
        /\ sent[c] <= 1
        /\ \A i \in 1 .. Len(queue[BrokerOf[c]]) :
               queue[BrokerOf[c]][i].conn = c => queue[BrokerOf[c]][i].type # "RPC"
=============================================================================
