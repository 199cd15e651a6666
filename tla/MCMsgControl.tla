---------------------------- MODULE MCMsgControl ----------------------------
(***************************************************************************)
(* Constants for model-checking MsgControl: two messages to a group, and   *)
(* commands about them.                                                    *)
(***************************************************************************)
EXTENDS MsgControl, MCChat

CONSTANTS c1, c2, c3, c4

Does == [c \in Commands |->
    CASE c = c1 -> "revoke" [] c = c2 -> "override" [] c = c3 -> "delete" [] OTHER -> "unknown"]
Grouped == [p \in Packs |-> "group"]
ToClub == [p \in Packs |-> club]
About == [c \in Commands |-> IF c = c3 THEN p2 ELSE p1]

\* Three kinds of behaviour in one run, all after the messages have been
\* acknowledged (their saves may still be under way): all the commands; two of
\* them and a failure; or two of them, and no failure, while bob comes, asks for
\* his priority messages, and goes.
Begun(c) == ~ In(c, "new")
AfterSending ==
    (\E c \in Commands : Begun(c)) \/ used.failures > 0 \/ used.connects > 0 =>
        \A p \in Packs : request[<<p, 1>>].stage \in {"done", "refused"}
OneRetried ==
    \A r \in Requests : r[2] > 1 /\ ~ At(r, "new") =>
        /\ r[1] = p1
        /\ used.failures = 0 /\ used.connects = 0
        /\ Cardinality({c \in Commands : Begun(c)}) <= 1
FailureAmongTwo == used.failures > 0 => Cardinality({c \in Commands : Begun(c)}) <= 2
ComesAndGoes ==
    used.connects > 0 =>
        /\ used.failures = 0
        /\ ~ Begun(c2)
        /\ \A u \in Users : sync[u].state # "listed"

\* One command at most names another number than its message has, with no retry,
\* no save under way, no failure and nobody connected.
Mistaken == {c \in Commands : Taken(c) /\ \A r \in Requests : r[1] = TargetOf[c] => Names(c) # Num(r)}
OneMistake ==
    Mistaken # {} =>
        /\ Cardinality(Mistaken) = 1
        /\ saves = {} /\ used.failures = 0 /\ used.connects = 0
        /\ \A r \in Requests : r[2] > 1 => At(r, "new")
=============================================================================
