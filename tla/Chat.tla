-------------------------------- MODULE Chat --------------------------------
(***************************************************************************)
(* What becomes of a chat message: the servers that take it                *)
(* (SingleChatServer, BizMsgServer, GroupChatServer::sendMsg), the store   *)
(* (OlapServer), and what a client that was away learns from it            *)
(* (HistoryMsgServer: hot sessions; MsgOperatorServer: read marks).        *)
(*                                                                         *)
(* Nothing is transactional.  A request takes its number from the clock,   *)
(* hands the message to OlapServer asynchronously, writes the hot session  *)
(* of the recipient, of the sender, and the unread set with one Redis      *)
(* command each, pushes to the recipient if Redis names a connection, and  *)
(* acknowledges.  Other requests, saves that arrive late, reconnections    *)
(* and the several reads of a synchronisation come in between.             *)
(***************************************************************************)
EXTENDS Integers, FiniteSets, FiniteSetsExt

CONSTANTS
    Users, Sessions,
    Packs,          \* packets the clients send; a retry is the same packet
    KindOf,         \* "single", "biz" or "group"
    SessionOf, FromOf,
    ToOf,           \* a user, or the group for a group message
    MembersOf,      \* the members of a group; a user by himself
    HighPriority,   \* packets with the highPRJ flag
    Commands,       \* PT_MSG_CTRL packets (module MsgControl)
    Original,       \* the text of a message nobody has overridden
    Ticks,          \* how far the clock may go between two numbers
    MaxTries, MaxConnects, MaxReads, MaxPulls, MaxFailures,   \* bounds
    MaxHotSessionCounts,    \* the limits the HistoryMsgServers are configured with
    PullCount,      \* count in a request for priority messages
    AsksFrom        \* "start": a client asks for all of them, page by page;
                    \* "latest": from the latest number it knows

ASSUME ChatAssumption ==
    /\ KindOf \in [Packs -> {"single", "biz", "group"}]
    /\ SessionOf \in [Packs -> Sessions]
    /\ FromOf \in [Packs -> Users]
    /\ ToOf \in [Packs -> Users]
    /\ MembersOf \in [Users -> SUBSET Users]
    /\ Ticks \subseteq Int
    /\ MaxTries \in Nat \ {0}
    /\ MaxHotSessionCounts \subseteq Nat
    /\ PullCount \in Nat \ {0}
    /\ AsksFrom \in {"start", "latest"}

VARIABLES
    clock,      \* the last number given out (microseconds in the code)
    request,    \* what each attempt at a packet has come to, its number, and
                \* (history) whether one of its Redis writes failed
    saves,      \* async_saveMsg calls under way
    store,      \* MSG:<session>
    hot,        \* HOTSESSION:<user>, 0 for a session that is not a member
    unread,     \* UNREADCOUNT:<user>.<session>: number of the packet, 0 for none
    high,       \* MSGHIGHPRJ:<user>
    online,     \* users with a connection that takes a push
    cursor,     \* the timestamp the client keeps for its next synchronisation
    seen,       \* last message number the client was shown for a session
    pushed,     \* messages pushed to a client
    sync,       \* synchronisation HistoryMsgServer is working on
    prior,      \* how far the client has asked for its priority messages,
                \* what it was given, and the latest number it knows
    reading,    \* sessions whose read mark is being processed
    readMark,   \* history: the highest number each user has marked as read
    raced,      \* history: users with messages handled at the same time, or
                \* with a session that a synchronisation passed over
    used        \* history: connections, read marks, failures; has a save failed

redis == <<store, hot, unread, high>>
clients == <<online, cursor, seen, pushed, sync, prior>>
vars == <<clock, request, saves, redis, clients, reading, readMark, raced, used>>

Requests == Packs \X (1 .. MaxTries)
Stages == {"new", "priority", "hot_to", "hot_from", "unread", "dispatch", "done",
           "refused", "dead"}

\* A member of MSG:<session>: the packet with the number in its payload, its
\* PF_REVOKE flag and its text; score is the number it is stored under.
Entries == [pack : Packs, seqId : Nat, revoked : BOOLEAN,
            text : Commands \cup {Original}, score : Nat]
Entry(r, n) == [pack |-> r[1], seqId |-> n, revoked |-> FALSE, text |-> Original, score |-> n]

\* ZADD: a member that is there already gets the new score.
ZAdd(set, m) == {q \in set : [q EXCEPT !.score = m.score] # m} \cup {m}
NoSync == [state |-> "none"]

\* Whose hot sessions a packet may write, and who gets it.
Concerned(p) ==
    {ToOf[p]} \cup (IF KindOf[p] = "biz" THEN {} ELSE {FromOf[p]})
              \cup (IF KindOf[p] = "group" THEN MembersOf[ToOf[p]] ELSE {})

Num(r) == request[r].n
Session(r) == SessionOf[r[1]]
To(r) == ToOf[r[1]]

\* A synchronisation: what is left of the list, the last message shown of each
\* session so far, the timestamp of the answer, the limit of the server at work.
IsListing(x) ==
    /\ DOMAIN x.last \subseteq Sessions
    /\ x \in [state : {"listed"}, todo : SUBSET (Sessions \X Nat), last : [DOMAIN x.last -> Nat],
              stamp : Nat, max : MaxHotSessionCounts]

TypeOK ==
    /\ clock \in Nat
    /\ request \in [Requests -> [stage : Stages, n : Nat, cut : BOOLEAN]]
    /\ saves \subseteq Entries
    /\ store \in [Sessions -> SUBSET Entries]
    /\ hot \in [Users -> [Sessions -> Nat]]
    /\ unread \in [Packs -> Nat]
    /\ online \subseteq Users
    /\ cursor \in [Users -> Nat]
    /\ seen \in [Users -> [Sessions -> Nat]]
    /\ pushed \subseteq Users \X (Packs \cup Commands) \X Nat
    /\ DOMAIN sync = Users
    /\ \A u \in Users : sync[u] \in {NoSync, [state |-> "asked"]} \/ IsListing(sync[u])
    /\ reading \subseteq Users \X Sessions
    /\ readMark \in [Users -> [Sessions -> Nat]]
    /\ high \in [Users -> SUBSET ((Packs \cup Commands) \X Nat)]
    /\ prior \in [Users -> [state : {"none", "asked", "done"}, from : Nat, latest : Nat,
                            got : SUBSET ((Packs \cup Commands) \X Nat)]]
    /\ raced \subseteq Users
    /\ used \in [connects : Nat, reads : Nat, pulls : Nat, failures : Nat, unsaved : BOOLEAN]

Init ==
    /\ clock = 1
    /\ request = [r \in Requests |-> [stage |-> "new", n |-> 0, cut |-> FALSE]]
    /\ saves = {}
    /\ store = [s \in Sessions |-> {}]
    /\ hot = [u \in Users |-> [s \in Sessions |-> 0]]
    /\ unread = [p \in Packs |-> 0]
    /\ high = [u \in Users |-> {}]
    /\ online = {}
    /\ cursor = [u \in Users |-> 0]
    /\ seen = [u \in Users |-> [s \in Sessions |-> 0]]
    /\ pushed = {}
    /\ sync = [u \in Users |-> NoSync]
    /\ prior = [u \in Users |-> [state |-> "none", from |-> 0, latest |-> 0, got |-> {}]]
    /\ reading = {}
    /\ readMark = [u \in Users |-> [s \in Sessions |-> 0]]
    /\ raced = {}
    /\ used = [connects |-> 0, reads |-> 0, pulls |-> 0, failures |-> 0, unsaved |-> FALSE]

-----------------------------------------------------------------------------
(***************************************************************************)
(* The chat servers: request / sendMsg.                                    *)
(***************************************************************************)

At(r, stage) == request[r].stage = stage

\* Fault: the message is dispatched before the session is updated.
DispatchedFirst(p, stage) ==
    CASE stage = "new" -> "dispatch"
      [] stage = "dispatch" -> "hot_to"
      [] stage = "hot_to" -> "unread"
      [] OTHER -> "done"

\* The order of the handler: savePriorityMsg (not in BizMsgServer), then
\* updateSession (BizMsgServer leaves the sender out), then dispatchMsg.
Following(p, stage) ==
    CASE stage = "new" -> IF p \in HighPriority /\ KindOf[p] # "biz"
                          THEN "priority" ELSE "hot_to"
      [] stage = "priority" -> "hot_to"
      [] stage = "hot_to" -> IF KindOf[p] = "biz" THEN "unread" ELSE "hot_from"
      [] stage = "hot_from" -> "unread"
      [] stage = "unread" -> "dispatch"
      [] OTHER -> "done"
Proceeds(r) == request' = [request EXCEPT ![r].stage = Following(r[1], @)]

\* Fault: the number is kept in an integer that is too narrow for the clock.
GenSeqIdNarrow == {((clock + d + 2) % 4) - 2 : d \in Ticks} \ {0}

\* genSeqId: the clock of the server that handles the request.
GenSeqId == {clock + d : d \in Ticks} \cap (Nat \ {0})
Passes(n) == clock' = Max({clock, n})

\* A client sends a packet again, marked as a duplicate, when it has not got
\* the acknowledgement; the first attempt may still be at work.
MayStart(r) == At(r, "new") /\ (r[2] > 1 => ~ At(<<r[1], r[2] - 1>>, "new"))

\* A message is under way until it is acknowledged and saved.
UnderWay(q) ==
    \/ request[q].stage \notin {"new", "done", "refused", "dead"}
    \/ Entry(q, Num(q)) \in saves

\* The payload is too short or too long, a field is missing, or sender and
\* recipient are no friends.
Refuse(r) ==
    /\ MayStart(r)
    /\ request' = [request EXCEPT ![r].stage = "refused"]
    /\ UNCHANGED <<clock, saves, redis, clients, reading, readMark, raced, used>>

\* isRepeatedPackId finds nothing, because nothing calls saveRepeatedPackId:
\* every attempt is numbered, and saveMsg hands it to OlapServer.
Number(r) ==
    /\ MayStart(r)
    /\ \E n \in GenSeqId :
          /\ Passes(n)
          /\ request' = [request EXCEPT ![r].stage = Following(r[1], "new"), ![r].n = n]
          /\ saves' = saves \cup {Entry(r, n)}
    /\ raced' = raced \cup {u \in Concerned(r[1]) :
                    \E q \in Requests : UnderWay(q) /\ u \in Concerned(q[1])}
    /\ UNCHANGED <<redis, clients, reading, readMark, used>>

\* OlapServantImp::saveMsg
Save(m) ==
    /\ m \in saves
    /\ saves' = saves \ {m}
    /\ store' = [store EXCEPT ![SessionOf[m.pack]] = ZAdd(@, m)]
    /\ UNCHANGED <<clock, request, hot, unread, high, clients, reading, readMark, raced, used>>

Fails == used.failures < MaxFailures /\ used' = [used EXCEPT !.failures = @ + 1]

\* The call or Redis fails; the callback of the chat server only logs it.
SaveFails(m) ==
    /\ m \in saves
    /\ used.failures < MaxFailures
    /\ used' = [used EXCEPT !.failures = @ + 1, !.unsaved = TRUE]
    /\ saves' = saves \ {m}
    /\ UNCHANGED <<clock, request, redis, clients, reading, readMark, raced>>

\* savePriorityMsg
SavePriority(r) ==
    /\ At(r, "priority")
    /\ Proceeds(r)
    /\ high' = [high EXCEPT ![To(r)] = @ \cup {<<r[1], Num(r)>>}]
    /\ UNCHANGED <<clock, saves, store, hot, unread, clients, reading, readMark, raced, used>>

\* updateSession, one Redis command after the other.  ZADD replaces a score
\* whatever it was.  BizMsgServer does not write the sender's hot session.
HotTo(r) ==
    /\ At(r, "hot_to")
    /\ Proceeds(r)
    /\ hot' = [hot EXCEPT ![To(r)][Session(r)] = Num(r)]
    /\ UNCHANGED <<clock, saves, store, unread, high, clients, reading, readMark, raced, used>>

HotFrom(r) ==
    /\ At(r, "hot_from")
    /\ Proceeds(r)
    /\ hot' = [hot EXCEPT ![FromOf[r[1]]][Session(r)] = Num(r)]
    /\ UNCHANGED <<clock, saves, store, unread, high, clients, reading, readMark, raced, used>>

Unread(r) ==
    /\ At(r, "unread")
    /\ Proceeds(r)
    /\ unread' = [unread EXCEPT ![r[1]] = Num(r)]
    /\ UNCHANGED <<clock, saves, store, hot, high, clients, reading, readMark, raced, used>>

\* A Redis command of the request fails: logged, and the request goes on.
WriteFails(r) ==
    /\ Fails
    /\ request[r].stage \in {"priority", "hot_to", "hot_from", "unread"}
    /\ request' = [request EXCEPT ![r].stage = Following(r[1], @), ![r].cut = TRUE]
    /\ UNCHANGED <<clock, saves, redis, clients, reading, readMark, raced>>

\* The server dies with the request: no acknowledgement, nothing is undone.
Dies(r) ==
    /\ Fails
    /\ request[r].stage \notin {"new", "done", "refused", "dead"}
    /\ request' = [request EXCEPT ![r].stage = "dead"]
    /\ UNCHANGED <<clock, saves, redis, clients, reading, readMark, raced>>

\* dispatchGroupMsg leaves the sender out.
Recipients(p) == IF KindOf[p] = "group" THEN MembersOf[ToOf[p]] \ {FromOf[p]} ELSE {ToOf[p]}

\* dispatchMsg: those Redis names, if their connection still takes it
\* (module Delivery has the details).  The acknowledgement follows.
Dispatch(r) ==
    /\ At(r, "dispatch")
    /\ Proceeds(r)
    /\ pushed' = pushed \cup {<<u, r[1], Num(r)>> : u \in Recipients(r[1]) \cap online}
    /\ UNCHANGED <<clock, saves, redis, online, cursor, seen, sync, prior, reading, readMark, raced, used>>

-----------------------------------------------------------------------------
(***************************************************************************)
(* Clients and HistoryMsgServer::processHotsessionReq.                     *)
(***************************************************************************)

\* The client signs in, Redis names its connection, and the first thing it
\* does is to ask for the sessions that changed since its cursor.
Connect(u) ==
    /\ u \notin online
    /\ used.connects < MaxConnects
    /\ used' = [used EXCEPT !.connects = @ + 1]
    /\ online' = online \cup {u}
    /\ sync' = [sync EXCEPT ![u] = [state |-> "asked"]]
    /\ prior' = [prior EXCEPT ![u].state = "none", ![u].from = 0]
    /\ UNCHANGED <<clock, request, saves, redis, cursor, seen, pushed, reading, readMark, raced>>

\* The connection goes down; the answer under way is lost with it.
Drop(u) ==
    /\ u \in online
    /\ online' = online \ {u}
    /\ sync' = [sync EXCEPT ![u] = NoSync]
    /\ prior' = [prior EXCEPT ![u].state = "none", ![u].from = 0]
    /\ UNCHANGED <<clock, request, saves, redis, cursor, seen, pushed, reading, readMark, raced, used>>

\* ZRANGEBYSCORE from the cursor + 1 up.
Lists(u, todo) ==
    /\ sync[u].state = "asked"
    /\ \E max \in MaxHotSessionCounts :
          sync' = [sync EXCEPT ![u] =
             [state |-> "listed",
              todo |-> todo,
              last |-> [s \in {} |-> 0],
              stamp |-> cursor[u],
              max |-> max]]

SyncList(u) ==
    /\ Lists(u, {<<s, hot[u][s]>> : s \in {s \in Sessions : hot[u][s] > cursor[u]}})
    /\ UNCHANGED <<clock, request, saves, redis, online, cursor, seen, pushed, prior, reading, readMark, raced, used>>

Numbers(s) == {m.score : m \in store[s]}
LastNumber(s) == IF store[s] = {} THEN 0 ELSE Max(Numbers(s))

\* A session of which a message was not there yet when it was read, or whose
\* reading failed: a session that is listed too moves the stamp beyond it.
ReadEarly(u, last, stamp) ==
    \E s \in DOMAIN last : LastNumber(s) > last[s] /\ hot[u][s] <= stamp

\* One round of the loop, over the sessions in the order of their scores: n, the
\* last message of the session, moves the stamp.  The loop ends when there are
\* more than the maximum; a session that is left out then is passed over if the
\* stamp is beyond it, because the last session listed got a message meanwhile.
Shows(u, s, n) ==
    /\ s \in sync[u].todo
    /\ \A q \in sync[u].todo : s[2] <= q[2]
    /\ LET last == [q \in DOMAIN sync[u].last \cup {s[1]} |->
                       IF q = s[1] THEN n ELSE sync[u].last[q]]
           rest == sync[u].todo \ {s}
           full == Cardinality(DOMAIN last) > sync[u].max
           stamp == Max({sync[u].stamp, n})
       IN  /\ sync' = [sync EXCEPT ![u] =
                 [state |-> "listed",
                  todo |-> IF full THEN {} ELSE rest,
                  last |-> last,
                  stamp |-> stamp,
                  max |-> @.max]]
           /\ raced' = IF \/ full /\ rest # {} /\ stamp > s[2]
                          \/ ReadEarly(u, last, stamp)
                       THEN raced \cup {u} ELSE raced

SyncItem(u) ==
    /\ sync[u].state = "listed"
    /\ \E s \in sync[u].todo : Shows(u, s, LastNumber(s[1]))
    /\ UNCHANGED <<clock, request, saves, redis, online, cursor, seen, pushed, prior, reading, readMark, used>>

\* Redis fails, which the handler does not look at: nothing is listed, or the
\* session is shown without a message.
SyncFails(u) ==
    /\ Fails
    /\ \/ Lists(u, {}) /\ UNCHANGED raced
       \/ sync[u].state = "listed" /\ \E s \in sync[u].todo : Shows(u, s, 0)
    /\ UNCHANGED <<clock, request, saves, redis, online, cursor, seen, pushed, prior, reading, readMark>>

\* The client gets the answer and keeps the stamp as its cursor.
SyncAnswer(u) ==
    /\ sync[u].state = "listed"
    /\ sync[u].todo = {}
    /\ cursor' = [cursor EXCEPT ![u] = sync[u].stamp]
    /\ seen' = [seen EXCEPT ![u] = [s \in Sessions |->
          IF s \in DOMAIN sync[u].last THEN Max({@[s], sync[u].last[s]}) ELSE @[s]]]
    /\ sync' = [sync EXCEPT ![u] = NoSync]
    /\ UNCHANGED <<clock, request, saves, redis, online, pushed, prior, reading, readMark, raced, used>>

-----------------------------------------------------------------------------
(***************************************************************************)
(* HistoryMsgServer::processHighPriorMsgSyncReq                            *)
(***************************************************************************)

\* A client that has signed in asks for its priority messages.
AskPriority(u) ==
    /\ u \in online
    /\ prior[u].state = "none"
    /\ used.pulls < MaxPulls
    /\ used' = [used EXCEPT !.pulls = @ + 1]
    /\ prior' = [prior EXCEPT ![u].state = "asked",
                              ![u].from = IF AsksFrom = "latest" THEN prior[u].latest ELSE 0]
    /\ UNCHANGED <<clock, request, saves, redis, online, cursor, seen, pushed, sync, reading, readMark, raced>>

\* ZREVRANGEBYSCORE from the number down, LONG_MAX for 0, with a limit; among
\* equal numbers the limit may fall anywhere.
UpTo(u, from) == {x \in high[u] : from = 0 \/ x[2] <= from}
IsPage(page, all) ==
    /\ \/ page = all /\ Cardinality(page) <= PullCount
       \/ page # all /\ Cardinality(page) = PullCount
    /\ \A x \in page, y \in all \ page : y[2] <= x[2]

\* The answer says which number is the highest in it.  The client goes on below
\* the lowest until there is no more.
PullPriority(u) ==
    /\ prior[u].state = "asked"
    /\ \E page \in SUBSET UpTo(u, prior[u].from) :
          /\ IsPage(page, UpTo(u, prior[u].from))
          /\ LET numbers == {x[2] : x \in page}
                 last == Cardinality(page) < PullCount \/ Min(numbers) = 1
             IN  prior' = [prior EXCEPT ![u] =
                    [state |-> IF last THEN "done" ELSE "asked",
                     from |-> IF last THEN 0 ELSE Min(numbers) - 1,
                     latest |-> Max({@.latest} \cup numbers),
                     got |-> @.got \cup page]]
    /\ UNCHANGED <<clock, request, saves, redis, online, cursor, seen, pushed, sync, reading, readMark, raced, used>>

\* Redis fails, which the handler does not look at: the answer says that there
\* is no more.
PullFails(u) ==
    /\ prior[u].state = "asked"
    /\ Fails
    /\ prior' = [prior EXCEPT ![u].state = "done", ![u].from = 0]
    /\ UNCHANGED <<clock, request, saves, redis, online, cursor, seen, pushed, sync, reading, readMark, raced>>

-----------------------------------------------------------------------------
(***************************************************************************)
(* MsgOperatorServer::processMsgUnreadReq                                  *)
(***************************************************************************)

\* What a client knows of a session it may mark as read.
Known(u, s) ==
    {seen[u][s]} \cup {x[3] : x \in {x \in pushed :
                                         x[1] = u /\ x[2] \in Packs /\ SessionOf[x[2]] = s}}

\* Fault: the range has no upper end.
ReadAll(u, s, n) ==
    unread' = [p \in Packs |-> IF ToOf[p] = u /\ SessionOf[p] = s THEN 0 ELSE unread[p]]

\* ZREMRANGEBYSCORE 0 .. the number in the request
ReadUpTo(u, s, n) ==
    unread' = [p \in Packs |->
        IF ToOf[p] = u /\ SessionOf[p] = s /\ unread[p] <= n THEN 0 ELSE unread[p]]

Marks(u, s, n) ==
    /\ u \in online
    /\ <<u, s>> \notin reading
    /\ used.reads < MaxReads
    /\ readMark' = [readMark EXCEPT ![u][s] = Max({@, n})]
    /\ reading' = reading \cup {<<u, s>>}

MarkRead(u, s) ==
    /\ \E n \in Known(u, s) \ {0} : Marks(u, s, n) /\ ReadUpTo(u, s, n)
    /\ used' = [used EXCEPT !.reads = @ + 1]
    /\ UNCHANGED <<clock, request, saves, store, hot, high, clients, raced>>

\* The hot session moves to the present, so that other devices learn of it.
TouchSession(u, s) ==
    /\ <<u, s>> \in reading
    /\ reading' = reading \ {<<u, s>>}
    /\ \E n \in GenSeqId :
          /\ Passes(n)
          /\ hot' = [hot EXCEPT ![u][s] = n]
    /\ UNCHANGED <<request, saves, store, unread, high, clients, readMark, raced, used>>

\* Redis fails: logged, and the handler goes on.
ReadFails(u, s) ==
    /\ Fails
    /\ \/ \E n \in Known(u, s) \ {0} : Marks(u, s, n)
       \/ <<u, s>> \in reading /\ reading' = reading \ {<<u, s>>} /\ UNCHANGED readMark
    /\ UNCHANGED <<clock, request, saves, redis, clients, raced>>

-----------------------------------------------------------------------------
ServerStep ==
    \/ \E r \in Requests :
          \/ Refuse(r) \/ Number(r) \/ SavePriority(r) \/ HotTo(r) \/ HotFrom(r)
          \/ Unread(r) \/ WriteFails(r) \/ Dies(r) \/ Dispatch(r)
    \/ \E m \in saves : Save(m) \/ SaveFails(m)

ClientStep ==
    \E u \in Users :
        \/ Connect(u) \/ Drop(u) \/ SyncList(u) \/ SyncItem(u) \/ SyncFails(u) \/ SyncAnswer(u)
        \/ AskPriority(u) \/ PullPriority(u) \/ PullFails(u)
        \/ \E s \in Sessions : MarkRead(u, s) \/ TouchSession(u, s) \/ ReadFails(u, s)

Next == ServerStep \/ ClientStep

Spec == Init /\ [][Next]_vars
-----------------------------------------------------------------------------
\* The message is stored, acknowledged, and the recipient has it (pushed, or
\* shown in a synchronisation: the history up to the last message shown can be
\* pulled) or will be told at the next synchronisation.
Delivered(r) == At(r, "done") /\ Entry(r, Num(r)) \in store[Session(r)]
Told(u, r) ==
    \/ <<u, r[1], Num(r)>> \in pushed
    \/ Num(r) <= seen[u][Session(r)]
    \/ hot[u][Session(r)] > cursor[u]

\* Clocks go on between two numbers, and a session belongs to the same users
\* whichever of them sends (the ids clients make for sessions: the two names in
\* order, or the group).
ClocksAgree == Ticks \subseteq Nat \ {0}
SessionsOwned ==
    \A p, q \in Packs : SessionOf[p] = SessionOf[q] => Concerned(p) = Concerned(q)

\* Because the session is updated before Redis is asked for the recipient's
\* connection, and a client asks for its sessions after Redis knows its
\* connection, no stored and acknowledged message falls between the two,
\* wherever in the handling the client connects, synchronises or drops and
\* whatever becomes of other requests - as long as messages that concern the
\* user are handled one at a time, no synchronisation passed over a session,
\* and no Redis write of this one failed.
NothingMissed ==
    ClocksAgree /\ SessionsOwned =>
        \A r \in Requests :
            /\ KindOf[r[1]] # "group"
            /\ To(r) \notin raced
            /\ ~ request[r].cut
            /\ Delivered(r)
            => Told(To(r), r)

\* The unread set loses no message: one that is acknowledged, and numbered
\* above everything its recipient has marked as read, is counted.
UnreadCounted ==
    \A p \in Packs :
        /\ \E r \in Requests : r[1] = p /\ At(r, "done") /\ ~ request[r].cut
        /\ \A r \in Requests : r[1] = p /\ Num(r) # 0 =>
               Num(r) > readMark[ToOf[p]][SessionOf[p]]
        => unread[p] # 0

\* "a message is looked up in the cache of packet ids; if it is there it is a
\* duplicate, answered as such and not processed": a packet is stored once,
\* however often the client sends it after the first has been acknowledged.
StoredOnce ==
    \A p \in Packs : ToOf[p] \notin raced =>
        Cardinality({m \in store[SessionOf[p]] : m.pack = p}) <= 1

\* A priority message: it was pushed, or the client has got it, or it is there
\* for a client that has not yet asked, in this connection, for all there is.
Reached(u, x) ==
    \/ <<u, x[1], x[2]>> \in pushed
    \/ x \in prior[u].got
    \/ x \in high[u] /\ prior[u].state # "done"

\* "the client is sure to get it first thing when it comes online": the same
\* for messages with the highPRJ flag.
PriorityReached ==
    \A r \in Requests :
        /\ KindOf[r[1]] = "single"
        /\ r[1] \in HighPriority
        /\ At(r, "done")
        /\ ~ request[r].cut
        => Reached(To(r), <<r[1], Num(r)>>)
=============================================================================
