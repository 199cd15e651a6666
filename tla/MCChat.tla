------------------------------- MODULE MCChat -------------------------------
(***************************************************************************)
(* Constants for model-checking Chat: two chat messages from alice to bob  *)
(* in one session, a business message to bob in another, a group message.  *)
(***************************************************************************)
EXTENDS Chat

CONSTANTS alice, bob, club, s1, s2, p1, p2, p3, p4

Kinds == [p \in Packs |-> CASE p = p3 -> "biz" [] p = p4 -> "group" [] OTHER -> "single"]
Where == [p \in Packs |-> IF p \in {p1, p2} THEN s1 ELSE s2]
FromAlice == [p \in Packs |-> alice]
Addressees == [p \in Packs |-> IF p = p4 THEN club ELSE bob]
Members == [u \in Users |-> IF u = club THEN {alice, bob} ELSE {u}]

OneClock == {1}
\* alice's own connections play no part; messages to bob do not overlap (the
\* only case NothingMissed speaks of).
OnlyBob == alice \notin online
OneAtATime == raced = {}

\* bob asks for his priority messages only where no read mark is set and nothing
\* fails: these work on keys that the priority messages are not among.
AsksAlone == used.pulls > 0 => used.failures = 0 /\ used.reads = 0
=============================================================================
