----------------------------- MODULE MsgControl -----------------------------
(***************************************************************************)
(* MsgOperatorServer::processMsgCTRLReq: a message that is stored is       *)
(* revoked, overridden or deleted.  The handler reads up to five messages, *)
(* removes whatever is stored under the number in the request, adds the    *)
(* changed packet under that number, and leaves the command itself with    *)
(* the recipients' priority messages, each by a Redis command of its own,  *)
(* while other commands and the chat servers (module Chat) go on.  Nothing *)
(* compares the number with that of the packet the command is about.       *)
(***************************************************************************)
EXTENDS Chat

CONSTANTS
    CommandOf,      \* "revoke", "override", "delete", or "unknown"
    TargetOf        \* the packet a command is about

ASSUME ControlAssumption ==
    /\ CommandOf \in [Commands -> {"revoke", "override", "delete", "unknown"}]
    /\ TargetOf \in [Commands -> Packs]
    /\ Commands \cap Packs = {}
    /\ Original \notin Commands

VARIABLES
    control,    \* what each command has come to
    crossed     \* history: commands handled while another on the packet was

controlVars == <<vars, control, crossed>>

Idle == [stage |-> "new"]
Refused == [stage |-> "refused"]
Ended(c) == control[c].stage \in {"new", "done", "refused", "dead"}
In(c, stage) == control[c].stage = stage
Store(c) == SessionOf[TargetOf[c]]

\* A command at work: the changed packet, the users who have yet to hear of it,
\* the one whose turn it is, and the number of the command.
AtWork == [stage : {"remove", "add", "number", "priority", "push", "done", "dead"},
           copy : Entries, todo : SUBSET Users, at : SUBSET Users, n : Nat]

ControlTypeOK ==
    /\ TypeOK
    /\ control \in [Commands -> {Idle, Refused} \cup AtWork]
    /\ crossed \subseteq Commands

ControlInit ==
    /\ Init
    /\ control = [c \in Commands |-> Idle]
    /\ crossed = {}

Becomes(c, r) == control' = [control EXCEPT ![c] = r]
Moves(c, stage) == control' = [control EXCEPT ![c].stage = stage]

\* A field is missing (EC_PARAM), the packet is not among the five from the
\* number up (EC_MSG_NOT_EXIST), as it never is from a number yet to come, or the
\* command is none of the three (EC_MSG_OP_CMD).
RefuseCommand(c) ==
    /\ In(c, "new")
    /\ Becomes(c, Refused)
    /\ UNCHANGED <<vars, crossed>>

\* ZRANGEBYSCORE from the number up, at most five; the packet of that id that
\* comes last.
Page(s, n) ==
    {m \in store[s] : m.score >= n /\
        Cardinality({q \in store[s] : n <= q.score /\ q.score < m.score}) < 5}
Matches(c, n) ==
    {m \in Page(Store(c), n) : m.pack = TargetOf[c]}
LastMatch(c, n, m) == m \in Matches(c, n) /\ \A q \in Matches(c, n) : q.score <= m.score

\* Fault: the flags of the packet are set, not added to.
EditedAfresh(c, m) ==
    CASE CommandOf[c] = "revoke" -> [m EXCEPT !.revoked = TRUE]
      [] CommandOf[c] = "override" -> [m EXCEPT !.text = c, !.revoked = FALSE]
      [] OTHER -> m

Edited(c, m) ==
    CASE CommandOf[c] = "revoke" -> [m EXCEPT !.revoked = TRUE]
      [] CommandOf[c] = "override" -> [m EXCEPT !.text = c]
      [] OTHER -> m

\* The client names the message by its packet and a number; any number will
\* do from which the packet is found.
Fetch(c) ==
    /\ In(c, "new")
    /\ CommandOf[c] # "unknown"
    /\ \E n \in 1 .. clock : \E m \in store[Store(c)] :
          /\ LastMatch(c, n, m)
          /\ Becomes(c, [stage |-> "remove", copy |-> [Edited(c, m) EXCEPT !.score = n],
                         todo |-> {}, at |-> {}, n |-> 0])
    /\ crossed' = LET others == {d \in Commands \ {c} : TargetOf[d] = TargetOf[c] /\ ~ Ended(d)}
                  IN  IF others = {} THEN crossed ELSE crossed \cup others \cup {c}
    /\ UNCHANGED vars

\* Fault: everything from the number up is removed.
RemoveFrom(c) ==
    /\ In(c, "remove")
    /\ store' = [store EXCEPT ![Store(c)] = {m \in @ : m.score < control[c].copy.score}]
    /\ Moves(c, IF CommandOf[c] = "delete" THEN "number" ELSE "add")
    /\ UNCHANGED <<clock, request, saves, hot, unread, high, clients, reading, readMark, raced, used, crossed>>

\* Fault: a revoked message is not added again.
RemoveRevoked(c) ==
    /\ In(c, "remove")
    /\ store' = [store EXCEPT ![Store(c)] = {m \in @ : m.score # control[c].copy.score}]
    /\ Moves(c, IF CommandOf[c] = "override" THEN "add" ELSE "number")
    /\ UNCHANGED <<clock, request, saves, hot, unread, high, clients, reading, readMark, raced, used, crossed>>

\* ZREMRANGEBYSCORE from the number to the number
Remove(c) ==
    /\ In(c, "remove")
    /\ store' = [store EXCEPT ![Store(c)] = {m \in @ : m.score # control[c].copy.score}]
    /\ Moves(c, IF CommandOf[c] = "delete" THEN "number" ELSE "add")
    /\ UNCHANGED <<clock, request, saves, hot, unread, high, clients, reading, readMark, raced, used, crossed>>

Add(c) ==
    /\ In(c, "add")
    /\ store' = [store EXCEPT ![Store(c)] = ZAdd(@, control[c].copy)]
    /\ Moves(c, "number")
    /\ UNCHANGED <<clock, request, saves, hot, unread, high, clients, reading, readMark, raced, used, crossed>>

\* A new number for the command, and who has to hear of it: the recipient, or
\* the members of the group.
NumberCommand(c) ==
    /\ In(c, "number")
    /\ \E n \in GenSeqId :
          /\ Passes(n)
          /\ LET users == MembersOf[ToOf[TargetOf[c]]]
             IN  Becomes(c, [control[c] EXCEPT
                    !.stage = IF users = {} THEN "done" ELSE "priority",
                    !.n = n, !.todo = users])
    /\ UNCHANGED <<request, saves, redis, clients, reading, readMark, raced, used, crossed>>

\* savePriorityMsg and dispatchMsg for one of them after the other.
Turn(c, u) ==
    /\ In(c, "priority")
    /\ u \in control[c].todo
    /\ Becomes(c, [control[c] EXCEPT !.stage = "push", !.todo = @ \ {u}, !.at = {u}])

\* Fault: a recipient who is there is not left a priority message.
PriorityIfAway(c, u) ==
    /\ Turn(c, u)
    /\ high' = IF u \in online THEN high
               ELSE [high EXCEPT ![u] = @ \cup {<<c, control[c].n>>}]
    /\ UNCHANGED <<clock, request, saves, store, hot, unread, clients, reading, readMark, raced, used, crossed>>

Priority(c, u) ==
    /\ Turn(c, u)
    /\ high' = [high EXCEPT ![u] = @ \cup {<<c, control[c].n>>}]
    /\ UNCHANGED <<clock, request, saves, store, hot, unread, clients, reading, readMark, raced, used, crossed>>

Push(c) ==
    /\ In(c, "push")
    /\ Moves(c, IF control[c].todo = {} THEN "done" ELSE "priority")
    /\ pushed' = pushed \cup {<<u, c, control[c].n>> : u \in control[c].at \cap online}
    /\ UNCHANGED <<clock, request, saves, redis, online, cursor, seen, sync, prior, reading, readMark, raced, used, crossed>>

\* Redis fails: EC_DB_ERROR if it is the read, otherwise the handler logs it and
\* goes on.
CommandFails(c) ==
    /\ Fails
    /\ \/ In(c, "new") /\ Becomes(c, Refused)
       \/ In(c, "remove") /\ Moves(c, IF CommandOf[c] = "delete" THEN "number" ELSE "add")
       \/ In(c, "add") /\ Moves(c, "number")
       \/ \E u \in Users : Turn(c, u)
    /\ UNCHANGED <<clock, request, saves, redis, clients, reading, readMark, raced, crossed>>

\* The server dies between two steps, or the call to GroupChatServer throws.
CommandDies(c) ==
    /\ Fails
    /\ ~ Ended(c)
    /\ Moves(c, "dead")
    /\ UNCHANGED <<clock, request, saves, redis, clients, reading, readMark, raced, crossed>>

ControlStep ==
    \E c \in Commands :
        \/ RefuseCommand(c) \/ Fetch(c) \/ Remove(c) \/ Add(c)
        \/ NumberCommand(c) \/ Push(c) \/ CommandFails(c) \/ CommandDies(c)
        \/ \E u \in Users : Priority(c, u)

ControlNext ==
    \/ ControlStep
    \/ Next /\ UNCHANGED <<control, crossed>>

ControlSpec == ControlInit /\ [][ControlNext]_controlVars

-----------------------------------------------------------------------------
\* Attempts at p that have been saved (or whose call has failed).
Saved(r) == Num(r) # 0 /\ Entry(r, Num(r)) \notin saves

\* A command that found its packet, and the number it names.
Taken(c) == control[c].stage \notin {"new", "refused"}
Names(c) == control[c].copy.score

\* The numbers a packet may be stored under: those of its attempts, and those
\* that commands about it have named.
Places(p) ==
    {Num(r) : r \in {r \in Requests : r[1] = p}} \cup
    {Names(c) : c \in {c \in Commands : TargetOf[c] = p /\ Taken(c) /\ CommandOf[c] # "delete"}}

\* However commands interleave, and with a retry under way, a message that was
\* saved stays in the store, unless a command names a number it is stored under:
\* a delete of it, one of another message (nothing compares them), or one that
\* is about to add it again - which is where a crash of that handler loses it.
NotLost ==
    used.failures = 0 =>
        \A r \in Requests : Saved(r) =>
            \/ \E m \in store[Session(r)] : m.pack = r[1]
            \/ \E c \in Commands :
                  /\ control[c].stage \in {"add", "number", "priority", "push", "done"}
                  /\ Store(c) = Session(r)
                  /\ Names(c) \in Places(r[1])
                  /\ TargetOf[c] = r[1] => In(c, "add") \/ CommandOf[c] = "delete"

\* A message whose number no command of its session has named is stored as it
\* was sent, whatever is done to its neighbours or to copies of it, and
\* whichever Redis command fails or server dies meanwhile.
OthersUntouched ==
    ~ used.unsaved =>
        \A r \in Requests :
            /\ Saved(r)
            /\ \A c \in Commands : Taken(c) /\ Store(c) = Session(r) => Names(c) # Num(r)
            => Entry(r, Num(r)) \in store[Session(r)]

\* A revocation that named the number of its message, and met no other command
\* on it, holds for good: later commands, overlapping or not, keep the flag, and
\* a copy without it is found only under another number, which a command about
\* the message gave by mistake.  (The message is one that was sent once: a
\* retry is stored under another number.)
RevocationHolds ==
    used.failures = 0 =>
        \A c \in Commands, r \in Requests :
            /\ CommandOf[c] = "revoke"
            /\ In(c, "done")
            /\ c \notin crossed
            /\ {q \in Requests : q[1] = TargetOf[c] /\ Num(q) # 0} = {r}
            /\ Names(c) = Num(r)
            => \A m \in store[Store(c)] : m.pack = TargetOf[c] /\ ~ m.revoked =>
                  \E d \in Commands :
                      TargetOf[d] = TargetOf[c] /\ Taken(d) /\ m.score = Names(d) /\ Names(d) # Num(r)

\* A command that is done is left with every recipient's priority messages
\* before it is pushed to him, so that it reaches him wherever in its handling
\* he connects, asks for his priority messages page by page, or drops: no
\* recipient who is connected and has asked for all there is lacks it, if he
\* starts from the latest and no two messages share a number, at which a page
\* may end.
CommandReached ==
    ClocksAgree /\ AsksFrom = "start" /\ used.failures = 0 =>
        \A c \in Commands : In(c, "done") =>
            \A u \in MembersOf[ToOf[TargetOf[c]]] : Reached(u, <<c, control[c].n>>)
=============================================================================
