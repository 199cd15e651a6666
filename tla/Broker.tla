------------------------------- MODULE Broker -------------------------------
(***************************************************************************)
(* The access servers (BrokerServer) of OTIM and the two registries they   *)
(* keep about their client connections:                                    *)
(*   - LongLinkManager, in the memory of each broker: _mapLonglink         *)
(*     (connection -> context) and _mapClientIdUid (client -> connections);*)
(*   - LongLinkRedis, shared by all servers: CLIENTCONN:<client> is a hash *)
(*     device type -> connection.                                          *)
(*                                                                         *)
(* Frames and close notices of a broker go through one receive queue that  *)
(* several handle threads empty, so a thread may be overtaken between the  *)
(* moment it takes a frame and the moment it touches the registries.  The  *)
(* answer of the authentication service arrives on yet another thread.     *)
(* The Tars framework (sockets, the queue, the threads) is external; it is *)
(* modelled from how the servants use it.                                  *)
(***************************************************************************)
EXTENDS Naturals, Sequences, FiniteSets

CONSTANTS
    Conns,        \* client connections; a connection id is never used twice
    Brokers,      \* BrokerServer processes
    BrokerOf,     \* the broker a connection is accepted by
    Clients,      \* client ids (users)
    DeviceTypes,
    Offers,       \* the credentials each connection may offer in a LOGIN
    Threads,      \* the handle threads of all brokers
    HostOf,       \* the broker a thread belongs to
    FrameTypes,   \* the kinds of frames the clients send
    MaxFrames,    \* bound: frames a client sends on one connection
    MaxCrashes,   \* bound: broker crashes in a behaviour
    MaxLost,      \* bound: kinds of Redis commands that fail, over all connections
    NoCred,       \* the context of a link whose clientId is empty
    NoConn,       \* no entry in a Redis hash
    Idle          \* a thread with no job

Credentials == [client : Clients, device : DeviceTypes]

\* What a client may send.  BADLOGIN lacks a mandatory field or has a payload
\* that cannot be unpacked, GARBAGE is a frame that cannot.  RPC is a type of
\* the server map, UNKNOWN one that is not.
AllFrameTypes == {"LOGIN", "BADLOGIN", "PING", "LOGOUT", "KICKOUT",
                  "RPC", "UNKNOWN", "GARBAGE"}

ASSUME BrokerAssumption ==
    /\ IsFiniteSet(Conns)
    /\ IsFiniteSet(DeviceTypes)
    /\ BrokerOf \in [Conns -> Brokers]
    /\ HostOf \in [Threads -> Brokers]
    /\ Offers \in [Conns -> SUBSET Credentials]
    /\ FrameTypes \subseteq AllFrameTypes
    /\ NoCred \notin Credentials
    /\ NoConn \notin Conns
    /\ MaxFrames \in Nat
    /\ MaxCrashes \in Nat
    /\ MaxLost \in Nat

VARIABLES
    net,        \* the socket: idle, open, closed (doClose pending) or gone
    queue,      \* receive queue of each broker
    thread,     \* the job each handle thread works on
    mapped,     \* the connections in _mapLonglink (of their broker)
    context,    \* LongLink::context of each mapped connection
    index,      \* _mapClientIdUid of each broker; {} is a missing entry
    presence,   \* Redis CLIENTCONN:<client>, device type -> connection
    auth,       \* asynchronous calls to AuthServer, not yet answered
    rpc,        \* asynchronous calls to the business servers
    granted,    \* the credentials AuthServer accepted on a connection
    lost,       \* history: <<"HSET", c>> or <<"HDEL", c>>, the command failed
    late,       \* history: connections bound after doClose was through with them
    dead,       \* history: connections whose broker process died
    sent,       \* frames sent on each connection
    acked,      \* frames the client got an answer to
    crashes

links == <<mapped, context, index, presence, granted, lost, late, dead>>
vars == <<net, queue, thread, mapped, context, index, presence, auth, rpc,
          granted, lost, late, dead, sent, acked, crashes>>

\* A frame carries credentials when it is a LOGIN.
Carried(c, type) == IF type = "LOGIN" THEN Offers[c] ELSE {NoCred}

Requests == {r \in [conn : Conns, n : Nat, type : AllFrameTypes,
                    cred : Credentials \cup {NoCred}] :
                r.cred \in Carried(r.conn, r.type)}
Calls == {a \in [conn : Conns, n : Nat, cred : Credentials] :
             a.cred \in Offers[a.conn]}
CloseNotice(c) == [conn |-> c, n |-> 0, type |-> "CLOSE", cred |-> NoCred]
CloseNotices == {CloseNotice(c) : c \in Conns}
Jobs == Requests \cup CloseNotices

SocketsOK ==
    /\ net \in [Conns -> {"idle", "open", "closed", "gone"}]
    /\ queue \in [Brokers -> Seq(Jobs)]
    /\ sent \in [Conns -> Nat]
    /\ acked \in [Conns -> SUBSET Nat]

ActiveThreads ==
    [pc : {"update", "handle"}, job : Requests, seen : Credentials \cup {NoCred}]
    \cup [pc : {"close"}, job : CloseNotices, seen : {NoCred}]

ThreadsOK == thread \in [Threads -> {Idle} \cup ActiveThreads]

LinksOK ==
    /\ mapped \subseteq Conns
    /\ context \in [Conns -> Credentials \cup {NoCred}]
    /\ index \in [Brokers -> [Clients -> SUBSET Conns]]
    /\ presence \in [Clients -> [DeviceTypes -> Conns \cup {NoConn}]]
    /\ granted \in [Conns -> SUBSET Credentials]
    /\ lost \subseteq {"HSET", "HDEL"} \X Conns
    /\ late \subseteq Conns
    /\ dead \subseteq Conns

CallsOK ==
    /\ auth \subseteq Calls
    /\ rpc \subseteq [conn : Conns, n : Nat, cred : Credentials]

TypeOK == SocketsOK /\ ThreadsOK /\ LinksOK /\ CallsOK /\ crashes \in Nat

Init ==
    /\ net = [c \in Conns |-> "idle"]
    /\ queue = [b \in Brokers |-> <<>>]
    /\ thread = [t \in Threads |-> Idle]
    /\ mapped = {}
    /\ context = [c \in Conns |-> NoCred]
    /\ index = [b \in Brokers |-> [x \in Clients |-> {}]]
    /\ presence = [x \in Clients |-> [d \in DeviceTypes |-> NoConn]]
    /\ auth = {}
    /\ rpc = {}
    /\ granted = [c \in Conns |-> {}]
    /\ lost = {}
    /\ late = {}
    /\ dead = {}
    /\ sent = [c \in Conns |-> 0]
    /\ acked = [c \in Conns |-> {}]
    /\ crashes = 0
-----------------------------------------------------------------------------
(***************************************************************************)
(* Registry operations.  Each runs under LongLinkManager's mutex, its      *)
(* Redis command included.                                                 *)
(***************************************************************************)

\* Faulty variants of the definitions below, against which the properties are
\* tried (PROJECT.json, mutants); no specification uses them.

\* Fault: the entry of the client goes whatever else it holds.
EraseClient(uids, c) == {}

\* Fault: the whole hash of the client goes, not the field of the device.
DeleteHash(c, p) ==
    \/ /\ presence' = [presence EXCEPT ![p.client] = [d \in DeviceTypes |-> NoConn]]
       /\ UNCHANGED lost
    \/ /\ Cardinality(lost) < MaxLost
       /\ lost' = lost \cup {<<"HDEL", c>>}
       /\ UNCHANGED presence

\* Fault: the field stays.
DeleteNothing(c, p) == UNCHANGED <<presence, lost>>

\* Fault: _mapClientIdUid is forgotten.
LeaveSet(c, x) == UNCHANGED index

\* LongLinkRedis::add and remove.  A command that fails is only logged.
SetField(c, p) ==
    \/ /\ presence' = [presence EXCEPT ![p.client][p.device] = c]
       /\ UNCHANGED lost
    \/ /\ Cardinality(lost) < MaxLost
       /\ lost' = lost \cup {<<"HSET", c>>}
       /\ UNCHANGED presence

DeleteField(c, p) ==
    \/ /\ presence' = [presence EXCEPT ![p.client][p.device] = NoConn]
       /\ UNCHANGED lost
    \/ /\ Cardinality(lost) < MaxLost
       /\ lost' = lost \cup {<<"HDEL", c>>}
       /\ UNCHANGED presence

\* The two branches of remove(): erase the uid from the client's set, or the
\* whole entry when the set has a single element (whichever that is).
EraseUid(uids, c) == IF Cardinality(uids) > 1 THEN uids \ {c} ELSE {}

ClearSet(c, x) == index' = [index EXCEPT ![BrokerOf[c]][x] = EraseUid(@, c)]

\* update(uid, header): get() creates the record on the first frame.
TouchLink(c) ==
    /\ mapped' = mapped \cup {c}
    /\ UNCHANGED <<context, index, presence, granted, lost, late, dead>>

\* update(uid, context, current): sets the context of the record, which get()
\* creates when it is missing, whatever became of the connection meanwhile.
BindLink(c, cred) ==
    /\ mapped' = mapped \cup {c}
    /\ context' = [context EXCEPT ![c] = cred]
    /\ index' = [index EXCEPT ![BrokerOf[c]][cred.client] = @ \cup {c}]
    /\ SetField(c, cred)

\* The answer of AuthServer, for the record.
Accepted(c, cred) ==
    /\ granted' = [granted EXCEPT ![c] = @ \cup {cred}]
    /\ late' = IF net[c] = "gone" THEN late \cup {c} ELSE late
    /\ UNCHANGED dead

\* remove(uid)
RemoveLink(c) ==
    /\ mapped' = mapped \ {c}
    /\ context' = [context EXCEPT ![c] = NoCred]
    /\ IF c \in mapped /\ context[c] # NoCred
       THEN ClearSet(c, context[c].client) /\ DeleteField(c, context[c])
       ELSE UNCHANGED <<index, presence, lost>>
    /\ UNCHANGED <<granted, late, dead>>

-----------------------------------------------------------------------------
(***************************************************************************)
(* Sockets and the receive queue (Tars, external).                         *)
(***************************************************************************)

\* Fault: nobody is told that the socket went down.
CloseSocketUnnoticed(c) ==
    /\ net' = IF net[c] = "open" THEN [net EXCEPT ![c] = "closed"] ELSE net
    /\ UNCHANGED queue

\* The socket goes down and the handle threads are told through the queue.
CloseSocket(c) ==
    IF net[c] = "open"
    THEN /\ net' = [net EXCEPT ![c] = "closed"]
         /\ queue' = [queue EXCEPT ![BrokerOf[c]] = Append(@, CloseNotice(c))]
    ELSE UNCHANGED <<net, queue>>

\* sendDataToClient: a response to a closed socket is dropped.
Answer(c, n) ==
    acked' = IF net[c] = "open" THEN [acked EXCEPT ![c] = @ \cup {n}] ELSE acked

Accept(c) ==
    /\ net[c] = "idle"
    /\ net' = [net EXCEPT ![c] = "open"]
    /\ UNCHANGED <<queue, thread, links, auth, rpc, sent, acked, crashes>>

ClientSends(c, type, cred) ==
    /\ net[c] = "open"
    /\ sent[c] < MaxFrames
    /\ cred \in Carried(c, type)
    /\ sent' = [sent EXCEPT ![c] = @ + 1]
    /\ queue' = [queue EXCEPT ![BrokerOf[c]] =
           Append(@, [conn |-> c, n |-> sent[c] + 1, type |-> type, cred |-> cred])]
    /\ UNCHANGED <<net, thread, links, auth, rpc, acked, crashes>>

\* The client hangs up, the network fails or the adapter's idle timer fires.
ConnectionLost(c) ==
    /\ net[c] = "open"
    /\ CloseSocket(c)
    /\ UNCHANGED <<thread, links, auth, rpc, sent, acked, crashes>>

Dequeue(t) ==
    LET b == HostOf[t]
    IN  /\ thread[t] = Idle
        /\ queue[b] # <<>>
        /\ thread' = [thread EXCEPT ![t] =
               [pc   |-> IF Head(queue[b]).type = "CLOSE" THEN "close" ELSE "update",
                job  |-> Head(queue[b]),
                seen |-> NoCred]]
        /\ queue' = [queue EXCEPT ![b] = Tail(@)]
        /\ UNCHANGED <<net, links, auth, rpc, sent, acked, crashes>>

-----------------------------------------------------------------------------
(***************************************************************************)
(* BrokerServantImp: what a handle thread does with its job.               *)
(***************************************************************************)

At(t, pc) == thread[t] # Idle /\ thread[t].pc = pc

\* doClose
DoClose(t) ==
    /\ At(t, "close")
    /\ LET c == thread[t].job.conn
       IN  /\ RemoveLink(c)
           /\ net' = [net EXCEPT ![c] = "gone"]
    /\ thread' = [thread EXCEPT ![t] = Idle]
    /\ UNCHANGED <<queue, auth, rpc, sent, acked, crashes>>

\* doRequest: unpack the frame and refresh the link's header fields.
UpdateHeader(t) ==
    /\ At(t, "update")
    /\ thread[t].job.type # "GARBAGE"
    /\ LET c == thread[t].job.conn
       IN  /\ TouchLink(c)
           /\ thread' = [thread EXCEPT ![t].pc = "handle",
                                       ![t].seen = context[c]]
    /\ UNCHANGED <<net, queue, auth, rpc, sent, acked, crashes>>

\* doRequest: the exception branch.
RejectGarbage(t) ==
    /\ At(t, "update")
    /\ thread[t].job.type = "GARBAGE"
    /\ CloseSocket(thread[t].job.conn)
    /\ thread' = [thread EXCEPT ![t] = Idle]
    /\ UNCHANGED <<links, auth, rpc, sent, acked, crashes>>

\* The handlers get the context by reference and read it without the mutex
\* while an authentication callback may be assigning it.
ContextRead(t) == {thread[t].seen} \cup granted[thread[t].job.conn]

Handling(t, types) ==
    /\ At(t, "handle")
    /\ thread[t].job.type \in types
    /\ thread' = [thread EXCEPT ![t] = Idle]

\* processPingReq, processKickoutReq, processReqRPC: "maybe not auth".
RejectUnauthenticated(t) ==
    /\ Handling(t, {"PING", "KICKOUT", "RPC", "UNKNOWN"})
    /\ NoCred \in ContextRead(t)
    /\ CloseSocket(thread[t].job.conn)
    /\ UNCHANGED <<links, auth, rpc, sent, acked, crashes>>

Ping(t) ==
    /\ Handling(t, {"PING"})
    /\ ContextRead(t) # {NoCred}
    /\ Answer(thread[t].job.conn, thread[t].job.n)
    /\ UNCHANGED <<net, queue, links, auth, rpc, sent, crashes>>

\* processKickoutReq does nothing more, processReqRPC ignores unknown types.
Ignore(t) ==
    /\ Handling(t, {"KICKOUT", "UNKNOWN"})
    /\ ContextRead(t) # {NoCred}
    /\ UNCHANGED <<net, queue, links, auth, rpc, sent, acked, crashes>>

\* Fault: the "maybe not auth" check is missing.
ForwardUnchecked(t) ==
    /\ Handling(t, {"RPC"})
    /\ \E cred \in ContextRead(t) :
          rpc' = rpc \cup {[conn |-> thread[t].job.conn,
                            n |-> thread[t].job.n, cred |-> cred]}
    /\ UNCHANGED <<net, queue, links, auth, sent, acked, crashes>>

\* processReqRPC: an asynchronous call, made with a copy of the context.
ForwardRPC(t) ==
    /\ Handling(t, {"RPC"})
    /\ \E cred \in ContextRead(t) \ {NoCred} :
          rpc' = rpc \cup {[conn |-> thread[t].job.conn,
                            n |-> thread[t].job.n, cred |-> cred]}
    /\ UNCHANGED <<net, queue, links, auth, sent, acked, crashes>>

\* processReqRPC: no proxy for the server; the exception is only logged.
ForwardFails(t) ==
    /\ Handling(t, {"RPC"})
    /\ ContextRead(t) # {NoCred}
    /\ UNCHANGED <<net, queue, links, auth, rpc, sent, acked, crashes>>

\* Fault: the link is bound before AuthServer has answered.
LoginBindsEarly(t) ==
    /\ Handling(t, {"LOGIN"})
    /\ auth' = auth \cup {[conn |-> thread[t].job.conn,
                           n |-> thread[t].job.n,
                           cred |-> thread[t].job.cred]}
    /\ BindLink(thread[t].job.conn, thread[t].job.cred)
    /\ UNCHANGED <<net, queue, granted, late, dead, rpc, sent, acked, crashes>>

\* processLoginReq, processAuthReq
Login(t) ==
    /\ Handling(t, {"LOGIN"})
    /\ auth' = auth \cup {[conn |-> thread[t].job.conn,
                           n |-> thread[t].job.n,
                           cred |-> thread[t].job.cred]}
    /\ UNCHANGED <<net, queue, links, rpc, sent, acked, crashes>>

\* processLoginReq: a mandatory field is missing, or no proxy for AuthServer.
LoginRefused(t) ==
    /\ Handling(t, {"LOGIN", "BADLOGIN"})
    /\ Answer(thread[t].job.conn, thread[t].job.n)
    /\ CloseSocket(thread[t].job.conn)
    /\ UNCHANGED <<links, auth, rpc, sent, crashes>>

\* doRequest: the payload of a LOGIN cannot be unpacked, the exception branch.
LoginUndecodable(t) ==
    /\ Handling(t, {"BADLOGIN"})
    /\ CloseSocket(thread[t].job.conn)
    /\ UNCHANGED <<links, auth, rpc, sent, acked, crashes>>

\* processLogoutReq returns when the link has a client id, else it closes.
LogoutIgnored(t) ==
    /\ Handling(t, {"LOGOUT"})
    /\ ContextRead(t) # {NoCred}
    /\ UNCHANGED <<net, queue, links, auth, rpc, sent, acked, crashes>>

LogoutUnauthenticated(t) ==
    /\ Handling(t, {"LOGOUT"})
    /\ NoCred \in ContextRead(t)
    /\ CloseSocket(thread[t].job.conn)
    /\ UNCHANGED <<links, auth, rpc, sent, acked, crashes>>

-----------------------------------------------------------------------------
(***************************************************************************)
(* RPCCallback: the answers of the asynchronous calls.                     *)
(***************************************************************************)

\* UserAuthServantCallback::callback_auth (AuthServer::auth returns 0)
AuthAnswered(a) ==
    /\ a \in auth
    /\ auth' = auth \ {a}
    /\ Accepted(a.conn, a.cred)
    /\ BindLink(a.conn, a.cred)
    /\ Answer(a.conn, a.n)
    /\ UNCHANGED <<net, queue, thread, rpc, sent, crashes>>

\* callback_auth, AuthServer::auth refused: the client is told, nothing else.
AuthRefused(a) ==
    /\ a \in auth
    /\ auth' = auth \ {a}
    /\ Answer(a.conn, a.n)
    /\ UNCHANGED <<net, queue, thread, links, rpc, sent, crashes>>

\* Fault: the exception is only logged.
AuthExceptionLogged(a) ==
    /\ a \in auth
    /\ auth' = auth \ {a}
    /\ UNCHANGED <<net, queue, thread, links, rpc, sent, acked, crashes>>

\* UserAuthServantCallback::callback_auth_exception
AuthException(a) ==
    /\ a \in auth
    /\ auth' = auth \ {a}
    /\ Answer(a.conn, a.n)
    /\ CloseSocket(a.conn)
    /\ UNCHANGED <<thread, links, rpc, sent, crashes>>

\* CommonServantPrxBrokerCallback::callback_request
RpcAnswered(r) ==
    /\ r \in rpc
    /\ rpc' = rpc \ {r}
    /\ Answer(r.conn, r.n)
    /\ UNCHANGED <<net, queue, thread, links, auth, sent, crashes>>

\* CommonServantPrxBrokerCallback::callback_request_exception only logs.
RpcException(r) ==
    /\ r \in rpc
    /\ rpc' = rpc \ {r}
    /\ UNCHANGED <<net, queue, thread, links, auth, sent, acked, crashes>>

-----------------------------------------------------------------------------
\* A broker process dies: its memory and its sockets are gone, what it wrote
\* to Redis stays.  Nothing in initialize() cleans CLIENTCONN on a restart.
Crash(b) ==
    LET here == {c \in Conns : BrokerOf[c] = b}
        down == {c \in here : net[c] # "idle"}
    IN  /\ crashes < MaxCrashes
        /\ crashes' = crashes + 1
        /\ net' = [c \in Conns |-> IF c \in down THEN "gone" ELSE net[c]]
        /\ dead' = dead \cup down
        /\ queue' = [queue EXCEPT ![b] = <<>>]
        /\ thread' = [t \in Threads |-> IF HostOf[t] = b THEN Idle ELSE thread[t]]
        /\ mapped' = mapped \ here
        /\ context' = [c \in Conns |-> IF c \in here THEN NoCred ELSE context[c]]
        /\ index' = [index EXCEPT ![b] = [x \in Clients |-> {}]]
        /\ auth' = {a \in auth : a.conn \notin here}
        /\ rpc' = {r \in rpc : r.conn \notin here}
        /\ UNCHANGED <<presence, granted, lost, late, sent, acked>>

Handle(t) ==
    \/ Dequeue(t)
    \/ DoClose(t)
    \/ UpdateHeader(t)
    \/ RejectGarbage(t)
    \/ RejectUnauthenticated(t)
    \/ Ping(t)
    \/ Ignore(t)
    \/ ForwardRPC(t)
    \/ ForwardFails(t)
    \/ Login(t)
    \/ LoginRefused(t)
    \/ LoginUndecodable(t)
    \/ LogoutIgnored(t)
    \/ LogoutUnauthenticated(t)

AuthReturns(a) == AuthAnswered(a) \/ AuthRefused(a) \/ AuthException(a)

CallbackOf(c, n) ==
    \/ \E a \in auth : a.conn = c /\ a.n = n /\ AuthReturns(a)
    \/ \E r \in rpc : r.conn = c /\ r.n = n /\ (RpcAnswered(r) \/ RpcException(r))

Environment ==
    \/ \E c \in Conns : Accept(c) \/ ConnectionLost(c)
    \/ \E c \in Conns, type \in FrameTypes, cred \in Credentials \cup {NoCred} :
          ClientSends(c, type, cred)
    \/ \E b \in Brokers : Crash(b)

Next ==
    \/ \E t \in Threads : Handle(t)
    \/ \E a \in auth : AuthReturns(a)
    \/ \E r \in rpc : RpcAnswered(r) \/ RpcException(r)
    \/ Environment

Spec == Init /\ [][Next]_vars

\* The handle threads keep running and every asynchronous call is answered or
\* times out (Tars).  Nothing is assumed of the clients.
Fairness ==
    /\ \A t \in Threads : WF_vars(Handle(t))
    /\ \A c \in Conns, n \in 1 .. MaxFrames : WF_vars(CallbackOf(c, n))

FairSpec == Spec /\ Fairness

-----------------------------------------------------------------------------
(***************************************************************************)
(* Properties.                                                             *)
(***************************************************************************)

\* syncMsg finds the connections of a user through _mapClientIdUid: every
\* link bound to a client is in that client's set, however closes, logins and
\* repeated logins interleave (remove() erases the entry of a whole client
\* when its set has one element, without looking which).
IndexComplete ==
    \A c \in mapped : context[c] # NoCred =>
        c \in index[BrokerOf[c]][context[c].client]

\* A connection has signed in under one identity, as the client SDK does.
OneIdentity(c) == \A p, q \in granted[c] : p = q

\* The set holds nothing else, except a connection that signed in under a
\* second identity: no connection of another user is reached by a sync, and
\* no connection doClose is through with, but for those an authentication
\* answered too late brought back.
IndexSound ==
    \A b \in Brokers, x \in Clients : \A c \in index[b][x] : OneIdentity(c) =>
        /\ BrokerOf[c] = b
        /\ c \in mapped
        /\ context[c] # NoCred
        /\ context[c].client = x
        /\ net[c] = "gone" => c \in late

\* dispatchMsg pushes to the connection Redis names.  There is no more to be
\* said against an entry than this: the connection has a link, bound to the
\* very user and device (if it is gone, a late authentication brought the link
\* back), or the command that had to delete the entry failed, or the broker
\* died before it gave that command, or the connection signed in under another
\* identity as well, which leaves the entry of the first one behind.
PresenceBacked ==
    \A x \in Clients, d \in DeviceTypes :
        LET c == presence[x][d]
        IN  \/ c = NoConn
            \/ ~ OneIdentity(c)
            \/ /\ c \in mapped
               /\ context[c] = [client |-> x, device |-> d]
               /\ net[c] = "gone" => c \in late
            \/ <<"HDEL", c>> \in lost
            \/ c \in dead

\* Whatever the user's other devices do, and other users: a bound link is the
\* one Redis names for its user and device, unless its HSET failed or another
\* connection signed in with the same device type (which is what the close of
\* an old connection needs to do harm).
Recorded ==
    \A c \in mapped : context[c] # NoCred =>
        \/ presence[context[c].client][context[c].device] = c
        \/ <<"HSET", c>> \in lost
        \/ \E o \in Conns \ {c} : context[c] \in granted[o]

\* A bound link is in the map and holds what its connection offered.
ContextsOffered ==
    \A c \in Conns : context[c] # NoCred =>
        c \in mapped /\ context[c] \in Offers[c] /\ context[c] \in granted[c]

\* A business server is only called in the name of an identity that was
\* authenticated on that very connection.
ServedAsAuthenticated == \A r \in rpc : r.cred \in granted[r.conn]

\* _mapClientIdUid implements the directory of the users that are signed in,
\* as far as connections with one identity go: a login adds its connection and
\* nothing else, a close takes away its own connection and no other, whichever
\* branch of remove() it goes through, and a connection that changes its
\* identity counts as gone.
SignedIn == {p \in Conns \X Clients :
                OneIdentity(p[1]) /\ \E b \in Brokers : p[1] \in index[b][p[2]]}
AbstractDirectory == INSTANCE Directory WITH signedIn <- SignedIn, failures <- crashes
ImplementsDirectory == AbstractDirectory!Spec

\* A LOGIN is answered unless the connection goes away.
LoginAnswered ==
    \A c \in Conns, n \in 1 .. MaxFrames :
        (\E a \in auth : a.conn = c /\ a.n = n)
            ~> (n \in acked[c] \/ net[c] # "open")

\* doClose reaches every connection that went down.
CloseHandled == \A c \in Conns : net[c] = "closed" ~> net[c] = "gone"

-----------------------------------------------------------------------------
(***************************************************************************)
(* What the design documents say of the registries.                        *)
(***************************************************************************)

\* "the connection of every online user is recorded": so it is as long as no
\* broker dies and Redis does what it is told.
OnlineUserRecorded ==
    crashes = 0 /\ lost = {} =>
        \A c \in mapped : net[c] = "open" /\ context[c] # NoCred =>
            presence[context[c].client][context[c].device] # NoConn
=============================================================================
