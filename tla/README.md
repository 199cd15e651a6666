# Verification of OTIM

OTIM is an instant-messaging system: C++ servers on the Tars RPC framework that share a
Redis, and a C++ client SDK. This directory holds TLA+ specifications of the parts whose
correctness depends on the order in which things happen, the configurations that check
them with TLC, and theorems about them proved with TLAPS.

## 1. The system

### 1.1 Components

| Component | State it keeps | Operations | Talks to |
|---|---|---|---|
| **BrokerServer**, the access server (`server/BrokerServer`) | per connection: `LongLink` with context and header; `_mapLonglink` (uid -> link), `_mapClientIdUid` (client -> uids); the Redis hash `CLIENTCONN:<client>` (device type -> connection) | accept, parse a frame, LOGIN, PING, LOGOUT, KICKOUT, forward a request, close; `push`, `syncMsg`, `kickout` for the other servers | clients over TCP; AuthServer and the business servers by asynchronous calls with callbacks |
| **Message dispatch** (`server/Common/Common.cpp`) | none; reads `CLIENTCONN` | `dispatchMsg`, `sendPackToMySelf`, `sendSyncMsg`, `savePriorityMsg`, `isRepeatedPackId`, `genSeqId` | brokers, by synchronous calls |
| **Redis connection pool** (`server/Common/ConnPool.h`) | idle connections, capacity, connection per thread | `open`, `get`, `release` | every handler of every server |
| **SingleChatServer**, **BizMsgServer** | Redis: hot sessions, unread sets, priority messages | `request`: check, number, save, update the session, dispatch, acknowledge | OlapServer (asynchronous), dispatch |
| **OlapServer** | Redis: the message store `MSG:<session>` | `saveMsg` | |
| **GroupChatServer** | Redis: group information, members, groups of a user | create, join, quit, dismiss, change creator or information, send | dispatch |
| **UserFriendServer** | Redis: users, friends, attributes | add, accept, remove, attributes | dispatch |
| **MsgOperatorServer** | message store, unread sets, priority messages | read, revoke, override, delete | GroupChatServer, dispatch |
| **HistoryMsgServer** | reads what the others store | hot sessions, history, priority messages | GroupChatServer |
| **HttpServer** | Redis task list, a semaphore | HTTP requests; a task thread that carries tasks out | SingleChat, BizMsg, dispatch |
| **AuthServer**, **PushServer** | none (stubs) | `auth` accepts everybody | |
| **Client SDK** (`client/source/src`) | network status, send/receive threads, messages in flight, packet queue, hot-session cursor | connect, log in, keep alive, reconnect, synchronise, count and mark messages that were not acknowledged (it does not resend them) | one broker |
| Redis driver, JSON, logging, `Locker.h` (unused) | | | |

### 1.2 How they interact

A client connects to a broker and sends LOGIN. A handle thread of the broker asks AuthServer
asynchronously; the callback, on a callback thread, binds the context to the link, enters
it into `_mapClientIdUid` and into Redis, and answers. From then on a frame of a type the
broker has a server for is forwarded with that context. A business server stores the
message, reads the recipient's row of `CLIENTCONN`, calls `push` on the broker of each
entry, reads the sender's row, calls `syncMsg` on the broker of each entry but the sender's
own, and answers. A close of the socket goes through the same receive queue as the frames
and ends in `doClose`, which removes the link, its index entry and its Redis field.

### 1.3 What is hard

* Several handle threads empty one queue: two frames of a connection, or a frame and the
  close after it, are handled in either order (`BrokerServantImp.cpp:63`).
* Callbacks apply an answer to a connection that may have closed since (`RPCCallback.cpp:64`).
* Redis is written at sign-in and at close by different threads and processes without a
  lock, keyed by user and device type and not by connection (`LonglinkManager.cpp:23`).
* Business servers use a snapshot of Redis while it goes stale (`Common.cpp:112`, `:175`).
* Brokers die and leave their rows in Redis (`BrokerServer.cpp:58`).
* Handlers nest `get()` on a pool that may be empty (`ConnPool.h:215`).
* Business data is changed by sequences of Redis commands without transaction (`MsgOperatorServantImp.cpp:179`,
  `GroupchatManager.cpp:243`, `UserInfoManager.cpp:109`), while clients synchronise from it.
* A message is acknowledged while its save is under way (`SingleChatServantImp.cpp:124`).
* Redis commands that fail are only logged, reads that fail pass for empty answers
  (`LongLinkRedis.cpp:60`, `:77`, `HistoryMsgServantImp.cpp:80`, `:102`, `:265`).
* Names are weaker than they look: a connection is told by a uid that is unique within one broker process
  (`Common.cpp:188`, `BrokerPushServantImp.cpp:51`), a message by a number taken from a clock or given by a client
  (`Common.cpp:33`, `MsgOperatorServantImp.cpp:179`).
* The client SDK reconnects and times out while several of its threads report what has become of
  earlier attempts; messages are sent from the application's threads.

`PROJECT.json` lists these hazards line by line, with the properties that cover them.

### 1.4 What makes each component correct

* Broker: a link that is bound is found through its client and the other way round; nobody
  is served as somebody they did not authenticate as; every login is answered and every
  close handled; what Redis says of a user is true.
* Dispatch: a message goes to all of the recipient's connections and to the sender's other
  devices, to nobody else and not back to the sender.
* Pool: a connection is used by one thread, none is lost, threads do not wait for each other.
* Chat servers: a message that is stored and acknowledged reaches its recipient, at once or at the
  next synchronisation, and is counted as unread until it is read.
* Message operations: a message is lost or changed only by a command that names the number it is stored under,
  a revocation holds, and every recipient is left the command.
* Groups, friends: the two directions of membership and friendship agree; a dismissed group
  has no members left.
* HTTP: a task that is queued is taken, whichever server's thread gets to it.
* Client: it uses one connection, is connected again eventually, and ends when it is told to.

## 2. The modules

| Module | Models | Lines of code |
|---|---|---|
| `Directory` | abstract: who is signed in on which connection | what the broker promises |
| `Broker` | the brokers, their registries, Redis presence, the calls and callbacks | `BrokerServantImp.cpp`, `LonglinkManager.cpp`, `RPCCallback.cpp`, `BrokerServer.cpp`, `LongLinkRedis` |
| `Delivery` | extends `Broker` by the business servers' dispatch and the brokers' `push`/`syncMsg` | `Common.cpp`, `BrokerPushServantImp.cpp`, `SingleChatServantImp.cpp` |
| `ConnPool` | the Redis connection pool | `ConnPool.h`, `RedisPool.cpp` |
| `Chat` | a message through the chat servers, the store, hot sessions, unread sets, read marks, and what a client that was away is told of hot sessions and priority messages | `SingleChatServantImp.cpp`, `BizMsgServantImp.cpp`, `GroupChatServantImp.cpp` (sendMsg), `OlapServantImp.cpp`, `HistoryMsgServantImp.cpp`, `MsgOperatorServantImp.cpp`, `Common.cpp` |
| `MsgControl` | extends `Chat` by revoke, override and delete | `MsgOperatorServantImp.cpp` |
| `GroupChat` | the requests about a group | `GroupChatServantImp.cpp`, `GroupchatManager.cpp` |
| `Friends` | the requests about friendships | `UserFriendServantImp.cpp`, `UserInfoManager.cpp` |
| `HttpServer` | extends `Friends` by the HTTP server that calls it, its task list and task threads | `HttpServantImp.cpp`, `RequestTaskThread.cpp`, `Semaphore.h` |
| `Client` | the client's process thread, socket threads and messages in flight | `CTNProcessThread.cpp`, `CTNSendRecvThread.cpp`, `CTNInflightVector.cpp` |
| `MC...` | constants for TLC, one module for each of the above that is run | |
| `BrokerProofs`, `DeliveryProofs`, `ConnPoolProofs`, `ChatProofs`, `MsgControlProofs`, `GroupChatProofs`, `HttpProofs`, `ClientProofs` | theorems about the module of that name; `HttpProofs` also about `Friends` | |

`Delivery` extends `Broker`, `MsgControl` extends `Chat`, `HttpServer` extends `Friends`: the extended
component goes on unchanged while the other acts on it. Between the groups the
interface is abstracted. `Chat` sees of the brokers only who is `online`; `Client` sees of the
broker what it signs in, serves, refuses and pushes. `Chat` also supposes what `Delivery` is about, that a push to who is online arrives.

### 2.1 Broker

| Variable | Code |
|---|---|
| `net` | the socket: `idle`, `open`, `closed` (its close item is queued or being handled), `gone` |
| `queue` | the receive queue of the adapter of each broker, frames and close items |
| `thread` | what each handle thread works on: the item, how far it is (`pc`), and the context it has read |
| `mapped`, `context` | `_mapLonglink` and `LongLink::context`; `NoCred` is an empty `clientId` |
| `index` | `_mapClientIdUid`; `{}` is a missing entry |
| `presence` | the Redis hashes `CLIENTCONN:<client>` |
| `auth`, `rpc` | asynchronous calls under way |
| `granted`, `sent`, `acked`, `crashes` | history: credentials accepted, frames sent, frames answered, crashes |
| `lost`, `late`, `dead` | history: Redis commands that failed, connections bound after `doClose` was through with them, connections whose broker died |

One action is one critical section or one call. `Dequeue` hands an item to a thread.
`UpdateHeader` is `LongLinkManager::update(uid, header)` and the `get` that follows, each
under the manager's lock: it creates the link if it is missing and reads the context. The
second half of `doRequest` runs without the lock: `LongLink::context` is then passed by reference or copied while the
callback may overwrite it, so `ContextRead` lets a thread see the context it read or any
credentials granted on the connection since. `Ping`, `Ignore` (KICKOUT), `ForwardRPC`,
`ForwardFails`, `Login`, `LoginRefused`, `LoginUndecodable`, `LogoutIgnored`, `LogoutUnauthenticated`,
`RejectUnauthenticated` and `RejectGarbage` are the ways `doRequest` ends, each with all
it writes. `AuthAnswered`, `AuthException`, `RpcAnswered`, `RpcException` are the
callbacks. `BindLink` and `RemoveLink` are `LongLinkManager::update(uid, context, current)` and `remove`,
including what they do to Redis: both hold the manager's mutex over the Redis command, so
for one broker they are atomic. The command itself (`SetField`, `DeleteField`) may fail, which the code logs and passes over:
the link is then bound without its field, or gone while the field stays. `AuthRefused` is the answer of an
AuthServer that refuses; the one in the repository accepts everybody. `Crash` loses the memory of a broker and leaves Redis.

Abstracted: the frame format (a frame is a type and, for LOGIN, credentials; `GARBAGE` is
one that cannot be parsed), payloads, versions, addresses, logging, the statistics.

External, modelled from how the servants use it: Tars delivers frames and close items of an
adapter through one queue to several handle threads; `Current::close` closes the socket
and queues a close item; a connection uid is given once by a process; an asynchronous call is answered or its exception callback is called.

### 2.2 Delivery

`chats` holds the requests business servers work on: `links` are the entries of the current
snapshot still to be served, `recipient` and `self` the snapshots as they were read. `got`
is the set of copies written to open sockets, each with the entry it was sent by. `Receive` reads the recipient's row; the
recipient is whoever the client names, himself included. A failed read leaves the row empty (`Snapshots`). `Push` is one iteration of `dispatchMsg` with the broker's
`push`, `TurnToSelf` starts `sendPackToMySelf`, `SkipOwn`, `Sync` and `CallFails` are its iterations,
`Finish` its return. A broker answers the client only when the request is done
(`Answerable`) or the call has timed out, so requests outlive their calls. A link that was
never bound has a null `Current`; `push` to it throws inside the broker and nothing is
written (`Writable`).

An entry names a connection by its broker and its uid. `UidOf` gives every connection its uid; connections of one
broker may share one (`SameUid`). `UidsFresh` lets such a connection be accepted only when the other has not been, or
its process has died: Tars numbers the connections of a process without repetition, and a new process starts anew under the
same broker id. `push` finds whatever link has the uid (`Found`) and does not compare the client, so that an entry a dead process left behind may name
somebody else's connection. `Astray` is a copy sent that way.

### 2.3 ConnPool

`m_conns`, `m_capacity`, `m_thread_cache` are the members of the class. `waiting` is the set of
threads in the wait loop, `held` the `RedisConnPtr` objects on each thread's stack. `get` is
one action per way it goes: `GetCached`, `GetIdle`, `GetNew`, `GetWaits`, and `WaitEnds`
when the loop finds a connection. The loop never establishes one. `GetWaits` is also what happens
when `m_init()` fails and when the pool is not open. `Init` allows `open()` to have failed:
`initRedisPool` ignores its result and the process goes on. `Release` is the destructor.

### 2.4 Directory

Pairs of connection and client that are signed in. A connection signs in with a client,
signs out, or a number of them fail together. `Broker` implements it through
`SignedIn`, the union of the indices: the proof and the runs show that `remove()`, which
erases a client's whole entry when one uid is left without looking which, never signs out
anybody else.

### 2.5 Chat

One Redis command, one asynchronous save, one push is one action. `request` says how far each
attempt at a packet is; `Following` is the order of the calls in `request()` and `sendMsg()`, which
differs between the three servers. `Number` covers the checks that pass, `genSeqId` and the start of `async_saveMsg`;
nothing shared is touched between them. `saves` are saves under way: `Save` and `SaveFails` come at any time,
also after the acknowledgement, since the callback only logs. `HotTo`, `HotFrom`, `Unread` and `SavePriority` write Redis,
`WriteFails` is a command that failed and was logged, `Dies` a server that went down in the middle,
`Dispatch` pushes to whom Redis names. Numbers come from the clocks of the servers: `Ticks` says how far the
next may be from the last; 0 is the same microsecond again.

The lookup of a repeated packet always fails, because nothing fills its cache; it is left out and is the
subject of `doc_retry`.

The client signs in and asks for its sessions (`Connect`), the server reads the list of
sessions (`SyncList`), then the store of each (`SyncItem`), and answers (`SyncAnswer`); the client
keeps the largest number as its cursor. The handler does not look whether its reads succeed: `SyncFails` lists nothing, or
shows a session without a message; `PullFails` answers that there are no priority messages left. Which limit `SyncList` picks from `MaxHotSessionCounts` is how
HistoryMsgServers with different configurations are covered. `MarkRead` and `TouchSession` are the two commands of
`processMsgUnreadReq`, either of which may fail and is logged (`ReadFails`). `prior` is what a client has done about its priority messages in its present connection: it asks
(`AskPriority`) and is given a page at a time (`PullPriority`), the highest numbers not above the one it named (`UpTo`, `IsPage`; among equal numbers the end of a page may fall anywhere). The client's
side of this is external, since the SDK leaves it to the application: `AsksFrom` says whether it starts from the top and pages down,
which is what the code serves, or from the latest number it knows, which is what the protocol says. `store` holds entries whose member is the packed packet and whose score is the number, so `ZAdd` of an edited packet is another
member.

### 2.6 MsgControl

A command goes through stages: `Fetch` (at most five messages from the number up, the last with the packet id),
`Remove` by number, `Add` unless it is a deletion, `NumberCommand`, and `Priority` and `Push` for one recipient
after the other. `CommandFails` is a Redis failure that is logged and passed over, `CommandDies` a
server that goes down or the call to GroupChatServer that throws. A recipient finds the command among his priority messages
through `PullPriority` of `Chat`. `RefuseCommand` is a missing field, an unknown command, or a message that is not there.

The number in a command is any number from which its packet is found within five messages. Nothing compares it with
that of the packet: the message that is removed is the one at the number, and the changed packet is added there. The score of
the copy in hand is the number named (`Names`); `Places` are all the numbers a packet may have come to be stored under. `AtWork` is what a handler has in hand: the changed packet, whom it has yet to tell, the number.

### 2.7 GroupChat and Friends

A handler checks once and then sends Redis a sequence of commands. That sequence is the `plan` of a request,
built from the methods of `GroupchatManager` and `UserInfoManager`; `Command` sends the first of
what is left. Requests interleave command by command, on any number of servers: the lock
around a friendship is commented out in the code. The handler that dismisses a group reads the
members in the middle of its plan (`read`) and the list extends it. A loop over users or friends that sends the same
commands for each is one function of the position (`Pairs`, `OneByOne`), which the proofs can take apart.

`getGroupInfo` succeeds for a group that is not there, with empty fields. So anybody may join such a group, and an
empty operator may dismiss it; the guards say no more than the code asks. The histories `crossed` and `met` record which users'
or friendships' requests overlapped, since the properties make no promise for those.

### 2.8 HttpServer

`queue` is the Redis list, shared by the servers. `thread` is where each server's task thread is: looking for
a task (`take`), having found none (`none`), in the semaphore (`waiting`), working on one (`hand`).
`AddTask` and `Signal` are the two halves of a handler; a signal that comes between `none` and `waiting` is lost, because
the semaphore is a condition variable without a count. `OnePlace`, part of the type invariant, says where a task can be. `Timeout` ends the wait of 60 seconds.

### 2.9 Client

All of the process thread's own state is the record `sdk`, and what the thread does with an item is a function on it:
`Success`, `Failed`, `Closed`, `Receive`, `CheckPing`. That the thread works on one item at a time makes an item
one action (`Process`); `Timeout` is the path of an empty queue. Socket threads
connect, fail, go down and end on their own; each posts what happened to the queue, where it may be overtaken by a
decision to use another thread. `sdk.ping` is the age of `m_pingReqTime` in keep-alive periods.
`sendMsgReq` is called on an application thread, which is why `SendMsg` and `AddToInflight` are
two actions. `Free` are the threads `destoryRSThread` deletes, whose place the next takes; it bounds the threads alive at a time: the
process thread goes on when one of them has ended.

Messages in flight are only counted and marked: the calls that would send them again are commented out, so `Checked`
sends nothing. The timestamp of a message is not initialised before it is first counted (`CTNInflightVector.h:27`), so
which messages a check finds due is any set; only a message that was counted has a time to go by.

The broker takes the requests of a connection in any order (several handle threads, several business servers) and answers
them in any order (`Asks`, `Answer`). A request it takes before the login is answered is refused and the connection closed (`Refuses`):
a message sent right behind the LOGIN can meet that.

`processRecvPack` does not look which connection a packet came over. `Misled` names the packets of a replaced connection that
matter: a "login ok" or a complete answer to the request for sessions, and anything that resets `m_pingReqTime` while the answer to
a new login is waited for. The history `astray` records them and the lost answers; `WayOut` and `Recovers` promise
nothing after it (3.2).

Everything that goes wrong is drawn from `Troubles` and counted: a failed attempt, a connection that goes
down, a busy or refusing broker, a lost or late answer, a pushed message, a kickout, a logout.

## 3. The runs

Every passing run completes its state space. `CHECK_DEADLOCK FALSE` is set throughout because
clients stop after their bound of frames, and because a pool that could not be opened does stop.

| Run | Instance | Question |
|---|---|---|
| `broker_core` | one broker, two connections: one may log in as two users, the other is a reconnect or a second device of the first user; two threads, two frames each and three together, one crash, one Redis command that fails | registries, presence and refinement while a user reconnects, a connection changes its user and another device comes and goes |
| `broker_frames` | one connection that may log in as two users, all eight kinds of frames, three frames, two threads | identity; liveness: every login answered, every close handled |
| `delivery` | four connections on two brokers: the sender, a second device of his on the same broker or on the other, and the recipient, or the sender himself as recipient; the two connections of the other broker give the same uid, before and after a crash | recipient and other device reached, no echo, what may go astray and what not |
| `conn_pool` | four threads, limit two, three nested scopes, also an unopened pool | sharing, loss, deadlock, progress |
| `chat_sync` | three messages in two sessions from two kinds of server, two connections, a read mark and one failure of a read, write, save or server, or a request for priority messages | does a recipient who comes and goes miss a message or its count |
| `chat_control` | two group messages of one session, three commands on them, one of which may name any number; or two and a failure; or a retry; or a member who connects twice and asks twice, in pages of one | do concurrent commands lose, change or resurrect a message whose number they do not name; do they reach everybody |
| `client` | four socket threads, one message, three troubles of eleven kinds | one connection, a way out, recovery, logout |
| `groups` | two users, three requests of any kind, one failure or crash | do the keys of a group agree |
| `http` | two servers, two friend requests, one task, one failure, one crash | are tasks taken whichever signals are lost; do friendships have two sides |

Bounds. Two connections are the least with which a late close and a new login can meet, and
the registries relate connections only in pairs that share a user; two threads suffice for
an item to be overtaken by any other of its connection; two frames of a connection allow a
second login, as another user too, or a request after one, and `ThreeFrames` leaves one for the other connection. Four connections
are needed for a sender, his other device on either broker, a recipient, and a connection that takes over a dead one's uid.
Two constraints keep `delivery` within reach: `OnlyLogins` keeps all but the sender
from sending anything but a login, which delivery does not depend on, and `OneSecondDevice` has the sender's second device
on one of the brokers. `MaxLost` bounds the
Redis commands that fail; it is 0 in `delivery`, whose state space is the largest, where an entry that is missing
or too old is no news (the snapshot may be empty, the links may be gone); the theorems hold for any value. In
`conn_pool` four threads exceed the limit of two by enough for two waiters, and depth three
has a middle scope. `chat_sync` has limits of 0 and 1 hot sessions, so that a synchronisation of two
sessions is cut after the first or covers both, and two connections, so that a client is away between
synchronisations. `OneAtATime` leaves out messages to one user handled at the same time, for which `NothingMissed`
says nothing. `AsksAlone` lets the recipient ask for priority messages there only without a read mark or a failure.
`chat_control` starts commands when the messages have been acknowledged, with saves possibly
under way. It joins several kinds of behaviour in one state space: all the commands with nobody connected, two of them and a failure
(`FailureAmongTwo`), two while the member comes, asks and goes, and one on a
message that was sent twice; three commands give two on one packet and one on its neighbour. `OneMistake` lets one command
name another number than its message has, when the saves are over and nothing else goes wrong: that is enough for a
message to be removed by its neighbour's command while a command of its own is at work. `client`: three troubles allow
a failed attempt to overlap with a lost connection and a logout; with four threads every stopped thread may still
report while a new one is tried. Two attempts that each report a stale answer need four troubles;
that case is left to the theorems, which prove the invariants of `client` for any number, while liveness is
checked with three. `groups`: three requests allow a creation and two that overlap. Clocks advance
(`Ticks` is {1}) in all runs; what equal numbers do is said in 3.2, and the theorems cover any clocks.

Fairness. `Broker` assumes weak fairness of each handle thread (Tars keeps them running and
no handler of the broker waits for another) and of each callback (an asynchronous call is
answered or times out). Nothing is assumed of clients or the network. `ConnPool` assumes weak fairness of
the wait loop, which looks again every 5 ms, and strong fairness of the end of a
scope at each depth: a handler is a finite program, so it does not open and close inner
scopes for ever without ending the outer one. Nothing is assumed about which waiting thread gets a
connection; a particular thread may starve, and the code does not exclude it. `Client` assumes
weak fairness of the process thread, of the socket threads, of time, and of `AddToInflight`, which follows
unconditionally; a broker that is asked answers unless a trouble comes in between, and troubles
are finitely many. `HttpServer` assumes that the task thread of a server that runs goes on and that a server that died
is started again; nothing of the callers or the signals. `Chat`, `MsgControl` and
`GroupChat` have safety properties only.

### 3.1 Where code and documents disagree

Three runs expect a violation; each checks what the documents say of one matter.

| Run | Sentence | What the code does |
|---|---|---|
| `doc_online` | every online user is recorded | the late close of an old connection deletes the field of the new one |
| `doc_retry` | a packet that was received before is answered as repeated and not processed | the cache of packets is never filled: the packet is stored and dispatched again |
| `doc_priority` | a client asks for priority messages with the latest number it knows, and gets them first thing when it comes online | the server answers from that number down: nothing newer comes |

These further sentences do not describe the code. The models contain what the code does, and the properties are stated so
that they say what is left; no run is spent on the sentence itself.

* Connection records are cleaned when a service restarts, and deleted for users who go offline (`1-基础篇:464`, `:465`): a broker cleans nothing when it starts, and an answer
  of AuthServer that comes after the close creates the link, the index entry and the Redis field again, for good. `IndexSound` and
  `PresenceBacked` name the late answer (`late`) and the crash (`dead`) as the only causes besides a failed command and a change of user.
  Since `push` does not compare the client, a message can follow an old entry to whoever has the uid now (`Astray`, in `DeliveredToOwn`).
* A message is sent to the sender's other ends (comment at `SingleChatServantImp.cpp:138`): the sender's own connection is told by its uid
  alone, so a device that another broker gave the same uid is skipped (`SkipOwn`). `OtherDevicesReached` excludes such devices.
* Sequence numbers are unique (`2-进阶篇:151`): they are the microseconds of a local clock. `OthersUntouched` and `NotLost` are stated of
  the numbers commands name, so they do not depend on it.
* The ACK is given after the message has been written (`2-进阶篇:65`): the save is an asynchronous call whose result nobody
  waits for. `NothingMissed` speaks of messages that were stored.
* A message is sent again until the ACK is received (`2-进阶篇:65`): the SDK marks and counts it; the call that would send it is commented out.

### 3.2 Observations

The models contain these, and no run is spent on them: either a property excludes the case by a named history, or
no document promises otherwise.

* An authenticated LOGOUT is ignored.
* A Redis command that fails when a connection signs in or closes is only logged: the user is online and cannot be found, or
  is found after he has gone (`PresenceBacked` and `Recorded` name both).
* `sendPackToMySelf` returns when the sender has at most one entry. When the sending connection has closed the one
  entry is another device, which is not told.
* A user who writes to himself gets the message on the sending connection, too.
* A device with two links on one broker beside another's gets a message once for each entry: `syncMsg` writes to all of them
  every time. `2-进阶篇:80` leaves it to the client to drop duplicates, and the SDK does not.
* A user who is offline learns nothing of a group message: hot session and unread set are
  written for the id of the group.
* Messages to one user that overlap can leave the hot session at the smaller number, below the cursor of a
  synchronisation that saw the larger one (`raced`). A full synchronisation can move the cursor past
  a session it left out, if the last session it listed gets a message meanwhile; and a session that was read
  before its message was saved, or whose read failed, is passed over when a later session moves the cursor (`ReadEarly`).
* `NothingMissed` needs clocks that go on (`ClocksAgree`) and sessions whose users are the same whoever sends (`SessionsOwned`).
  The SDK makes its session ids so (`CTNChatManager.cpp:46`); the servers take any id a client or the HTTP interface
  names (`HttpServantImp.cpp:160`).
* Two messages of a session with one number are removed together by a command about either, and priority paging goes on below
  the lowest number of a page, past any equal one that did not fit (`CommandReached` needs `ClocksAgree`).
* A command that names a neighbour's number removes the neighbour, and adds its own message there a second time. A revocation
  given so leaves the message itself as it was.
* A crash of MsgOperatorServer between removal and addition loses the message; with every command naming the number of its own message,
  `NotLost` shows that nothing else but a delete does.
* A priority message to a group is stored under the id of the group, for which no member asks.
* "If the MsgCount is not received it is fetched again after a keep-alive period" (`CTNProcessThread.cpp:892`): the
  repetition is reached only once the sessions have come. A client whose answer was lost relies on the keep-alive timeout, which pushed
  messages keep away. `Recovers` does not speak of it (`astray`).
* Overlapping additions and removals of one friend or member leave one side only, for good (`crossed`).
* A group that does not exist can be joined. `refreshUpdateTime` creates the hash of a dismissed
  group again. Handing a group to its present creator removes him from the members. `updateGroupInfo` writes back
  the creator it read.
* The client does not look which connection an answer came over (`CTNProcessThread.cpp:571`). A late "login ok" or "hot no" of a
  replaced connection changes the status while an attempt is under way, so that `reconnect()` starts a second; the first to
  report is chosen although it may have been stopped, its LOGIN is lost, and a late packet of the old connection sets
  `m_pingReqTime` to 0. Nothing then ends the status Connecting. Four troubles are enough (`astray`).
* The HTTP interface answers success before anything is done; a task is lost if the push into the list or the
  call afterwards fails.

## 4. The proofs

All theorems are about the specifications for every value of the constants that satisfies
the named assumptions: `BrokerAssumption` (functions and sets of the right kind, finitely many connections and device types), `CountAssumption` and
`DepthAssumption` (numbers), `ChatAssumption` and `ControlAssumption` (functions of the right kind; `Ticks` may hold any integers),
`ClientAssumption` (at least one socket thread), `GroupAssumption` (finitely many users), `FriendsAssumption` and `HttpAssumption`.
No theorem bounds the number of users, messages, connections, threads, requests or failures. `OneIdentity(c)`, which says that
connection c has been authenticated as one user only, `ClocksAgree` and `SessionsOwned` are not assumptions: where a property needs one, it is a hypothesis in the property.

Every invariant of a passing run is stated by a theorem, and so is the refinement of `broker_core`. Each proof has
the same form: an inductive invariant, checked by TLC on the run's instance before it was proved; a lemma for each
action that says what the action changes; a lemma for each part of the invariant an action can disturb.

* `BrokerProofs`. Type correctness; then the agreement of the registries. `IndexComplete`
  alone is not inductive: that `remove()` may erase a whole entry is right only because
  a one-element set holds nobody but the link removed, that is, because the uid
  being removed is itself in the index. The invariant states that for every bound link in every broker; the theorem
  holds whatever users a connection signs in as. `IndexIsSound` speaks of connections with one identity: a connection that signs in as a
  second user stays in the first user's set; what it cannot exclude is a link a late authentication brought back, which the
  history `late` names. `PresenceIsBacked` follows each entry from the HSET that wrote it to the HDEL that has to delete it, and charges what is
  left over to a failed command (`lost`), a crash (`dead`) or a change of user. `RecordedAlways` is its converse, for every connection. `StartedAlways`
  underlies both: what is in a queue, with a thread or with a callback belongs to a connection whose process is the present one.
  `ServedAsAuthenticatedAlways` carries the context a thread has read through its run.
  `DirectoryImplemented` maps every step to a sign-in, a sign-out, a failure or a stutter; a connection that changes its user signs
  out of the directory then, since its old entry outlives it.
  `OpenLinksReachable` says what `Delivery` relies on: an authenticated connection that is up is bound and in the set of its
  user.
* `DeliveryProofs`. `BrokersUnaffected` shows that the steps of the business servers leave the
  brokers' state alone, so all broker theorems apply. `DeliveredToOwnAlways` rests on the fact that what
  Redis or an index names for a user was once authenticated as that user and that
  credentials granted are never taken back; it needs no assumption on timing. That a copy found by its uid is either the one the entry was
  written for or `Astray` is `UidsApart`: of two connections with one uid, one has not come yet or is dead. `RecipientReachedAlways` and
  `OtherDevicesReachedAlways` follow one request (`RecipientOK`, `SelfOK`): every connection the snapshot named is still to be
  served, or has its copy, or takes none any more. That `syncMsg` then finds the other device through
  any entry for its broker is `OpenLinksReachable`.
* `ConnPoolProofs`. The properties speak of what the stacks hold, the code decides by its cache. The
  invariant ties them: the count of a thread is the number of its `RedisConnPtr` objects, all of them its cached connection
  (`Books`), and idle and cached connections partition those established (`Sound`).
* `ChatProofs`. `TypeInv` adds to the types that no number in use is ahead of the clock; that holds even where clocks go
  back, since the model's clock is the latest number given out. `UnreadCountedAlways` looks at all attempts at a packet together
  (`CountedOK`): the number in the unread set is that of one of them and can only be removed by a mark that reaches it.
  `NothingMissedAlways` is the long one. For a user who is not `raced`, `UserInv` says how cursor, stamp, what is left of the list, the hot
  sessions and the messages relate: at most one message that concerns him is under way and has the largest number
  (`LatestOK`); the cursor and the stamp are numbers of messages he was shown or that lie below what is still listed; a hot session
  holds the number of its last message or a later touch. A message that is stored and not told is then above the cursor.
* `MsgControlProofs`. Commands may name any number, so nothing is said of the number itself; `CopyOK` and `MemberOK` say what a copy in
  hand and an entry of the store can be: the packet of the command, under one of its `Places`. `LostInv`: a saved message is in the store,
  or a command that names one of its places is past the removal (`AtHand`, `Past`). `UntouchedInv` is the property with what is being saved
  added; it holds for any clocks. `RevokeInv` needs to know of every command on the packet which copy it has fetched: one that fetched
  before the revocation has met it and is in `crossed`; a copy that is stored under the number of the revocation has the flag, and one that has
  not was put elsewhere by a command that named another number (`Named`, `Under`, `RevokedOK`). `ReachInv` follows a command and a recipient
  through his paging (`HeardOK`): the command is among his priority messages at or below where he will ask next, or above with a
  push to come. Only it needs that numbers are given out once (`Distinct`).
* `GroupChatProofs` and `HttpProofs` (with `Friends`). The invariants speak of what the plans have still to send.
  `GroupInv` is: plans have the shape the handlers give them (`Plans`: the two commands about a member adjacent, the hash refreshed
  after a member is written, a removal at the start); requests that change one user do not overlap unless that is on record (`Apart`); where the two
  sides of a membership differ, the command that will even them out is in a plan (`Sides`, `Turns`); a group that does not exist and has
  members is about to be refreshed or emptied (`Found`); and what a lone dismissal has done (`Latest`). `FriendsInv`
  says that requests at work on a friendship want what was last asked for (`OneKind`) and that a side that is not as
  asked is still to be sent (`Due`). For the tasks, `OnePlace` in the type invariant is itself inductive, given that a
  thread has a task in hand exactly when it is handing one on.
* `ClientProofs`. `OneInUse` and `WayOut` depend on each other's history. `LifeInv` follows a socket thread: it has sent nothing
  before its report was handled, a chosen thread has been reported, and what is over holds no request. `Way` says what ends
  `Connecting`: with no chosen thread, an attempt or its report; with one, the clock. It is preserved because a
  report of success is only dropped when another thread has been chosen, and because nothing but a packet resets the
  clock: a packet of the chosen connection comes after its login was answered (`First`), one of a replaced connection is `Misled`. Without
  the second half of `Misled` the invariant is false from four troubles on; the proof attempt showed it.

Model-checked only: liveness (`LoginAnswered`, `CloseHandled`, `Relieved`, `Recovers`, `LogoutEnds`,
`TaskTaken`), since the prover does not handle fairness. What holds with several clocks, and with Redis commands that fail
during a delivery, is covered by the theorems and by no passing run.

## 5. Not modelled, and the plan

Not modelled:

* Redis driver, JSON, logging, configuration, sockets: no state of interest.
* AuthServer and PushServer, which are stubs; the MySQL half of OlapServer, an empty function;
  `Locker.h` and `BrokerPushServantImp::kickout`, which nothing uses.
* `sendSyncMsg`, which tells other clients of a change of a group or a friendship after it has been made.
* Requests that only read (history, members, friends), and the attributes of
  users and sessions, which are single commands nobody else depends on. Priority messages expire after 30 days,
  which no run reaches.
* The sleeps of the client, and its choice of an address.
* Generated protocol code, third-party code (most of the lines of the repository: OpenSSL, RapidJSON, hiredis), the
  sample applications.

The plan, for what is left:

1. `Chat`: that a message the pushed set names was numbered by the request it stands for, and that every number shown to a client
   is that of a stored message, so that a read mark never reaches beyond what its user could have seen.
2. `Broker` and `Delivery`: which steps can remove a copy's addressee from Redis, as an action property, to state without
   a history what `OnlineUserRecorded` gets wrong.
3. `Client`: the variants by which `WayOut` leads to `Recovers`: each step under way shortens a measure of what is in
   the queue and on the wire. The measure's steps are provable; their use under fairness stays with TLC.
