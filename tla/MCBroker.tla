------------------------------ MODULE MCBroker ------------------------------
(***************************************************************************)
(* Constants for model-checking Broker.                                    *)
(***************************************************************************)
EXTENDS Broker

CONSTANTS c1, c2, t1, t2, b1, b2, alice, bob, phone, web

OneBroker == [c \in Conns |-> b1]
OneHost == [t \in Threads |-> b1]

Is(x, d) == [client |-> x, device |-> d]

\* The first connection may change its user, and the second is a reconnect or
\* another device of the first user.
TwoConnections == [c \in Conns |-> IF c = c1 THEN {Is(alice, phone), Is(bob, phone)}
                                              ELSE {Is(alice, phone), Is(alice, web)}]
Reconnect == [c \in Conns |-> {Is(alice, phone)}]
\* Frames of both connections together.
ThreeFrames == sent[c1] + sent[c2] <= 3
=============================================================================
