------------------------------ MODULE Delivery ------------------------------
(***************************************************************************)
(* How a chat message reaches the connections it is meant for: the business*)
(* server that handles the request (Common.cpp: dispatchMsg and            *)
(* sendPackToMySelf, called by SingleChatServer and BizMsgServer) together *)
(* with the brokers it calls back (BrokerPushServantImp: push and syncMsg). *)
(*                                                                         *)
(* The business server takes one snapshot of Redis for the recipient and   *)
(* one for the sender, and then makes one synchronous call per entry.      *)
(* Connections open, sign in and close all the while, and the brokers die. *)
(* The entries of a snapshot name a connection by its broker and its uid,  *)
(* which is unique within a broker process and nowhere else: the process   *)
(* that is started after a crash has the same name and may give a          *)
(* connection the uid of one that is dead.                                 *)
(***************************************************************************)
EXTENDS Broker

CONSTANT UidOf      \* the uid of a connection, as its broker numbers it

SameUid(c, o) == BrokerOf[c] = BrokerOf[o] /\ UidOf[c] = UidOf[o]

VARIABLES
    chats,      \* requests a business server works on or is done with
    got         \* copies of messages written to open connections

deliveryVars == <<vars, chats, got>>

\* A row of CLIENTCONN as GetAllHashItem returned it.
Rows == [DeviceTypes -> Conns \cup {NoConn}]
Entries(row) == {d \in DeviceTypes : row[d] # NoConn}

\* links: the entries still to be served; seen: the snapshots they come from;
\* failed: a call to a broker has failed.
Chats == [msg : Conns \X Nat, from : Credentials, to : Clients,
          stage : {"dispatch", "self", "done"},
          links : Rows, recipient : Rows, self : Rows, failed : BOOLEAN]

\* via: the connection whose entry the copy was sent by.
Copies == [conn : Conns, msg : Conns \X Nat, to : Clients, via : Conns]

DeliveryTypeOK ==
    /\ TypeOK
    /\ chats \subseteq Chats
    /\ got \subseteq Copies

NoRow == [d \in DeviceTypes |-> NoConn]

DeliveryInit == Init /\ chats = {} /\ got = {}

Becomes(h, g) == chats' = (chats \ {h}) \cup {g}
Served(h, d) == [h EXCEPT !.links = [@ EXCEPT ![d] = NoConn]]

\* sendDataToClient on a link that was bound (before that its Current is null)
\* and whose socket is still open.
Writable(c) == c \in mapped /\ context[c] # NoCred /\ net[c] = "open"
CopyFor(c, h, x, o) == [conn |-> c, msg |-> h.msg, to |-> x, via |-> o]

\* GetAllHashItem; a failure leaves the list empty and is only logged.
Snapshots(x) == {presence[x], NoRow}

\* The request passes the checks; dispatchMsg reads the links of the recipient,
\* who may be the sender.
Receive(r, to) ==
    /\ r \in rpc
    /\ \A h \in chats : h.msg # <<r.conn, r.n>>
    /\ \E row \in Snapshots(to) :
          chats' = chats \cup
            {[msg |-> <<r.conn, r.n>>, from |-> r.cred, to |-> to,
              stage |-> "dispatch", links |-> row,
              recipient |-> row, self |-> NoRow, failed |-> FALSE]}
    /\ UNCHANGED got

\* Fault: the uid is looked up without regard to the broker.
FoundAnywhere(o) == {c \in mapped : UidOf[c] = UidOf[o]}

\* The links a broker finds under the uid of connection o.
Found(o) == {c \in mapped : SameUid(c, o)}

\* Fault: the sender's uid is skipped here, too.
PushToOthers(h, d) ==
    LET o == h.links[d]
    IN  /\ h.stage = "dispatch"
        /\ d \in Entries(h.links)
        /\ Becomes(h, Served(h, d))
        /\ got' = got \cup {CopyFor(c, h, h.to, o) :
                               c \in {c \in Found(o) : UidOf[c] # UidOf[h.msg[1]] /\ Writable(c)}}

\* dispatchMsg, BrokerPushServantImp::push: the link is told by its uid, nobody
\* looks whose it is.
Push(h, d) ==
    LET o == h.links[d]
    IN  /\ h.stage = "dispatch"
        /\ d \in Entries(h.links)
        /\ Becomes(h, Served(h, d))
        /\ got' = got \cup {CopyFor(c, h, h.to, o) : c \in {c \in Found(o) : Writable(c)}}

\* sendPackToMySelf: with one entry or none there is no other device.
TurnToSelf(h) ==
    /\ h.stage = "dispatch"
    /\ Entries(h.links) = {}
    /\ \E row \in Snapshots(h.from.client) :
           Becomes(h, IF Cardinality(Entries(row)) <= 1
                      THEN [h EXCEPT !.stage = "done", !.self = row]
                      ELSE [h EXCEPT !.stage = "self", !.self = row, !.links = row])
    /\ UNCHANGED got

\* The sender's own link is skipped; it is told by its uid alone.
SkipOwn(h, d) ==
    /\ h.stage = "self"
    /\ d \in Entries(h.links)
    /\ UidOf[h.links[d]] = UidOf[h.msg[1]]
    /\ Becomes(h, Served(h, d))
    /\ UNCHANGED got

\* Fault: the sender's own link is not left out.
SyncedAll(h, b) == {c \in index[b][h.from.client] : Writable(c)}

\* BrokerPushServantImp::syncMsg goes through all the links of the client.
Synced(h, b) ==
    {c \in index[b][h.from.client] : UidOf[c] # UidOf[h.msg[1]] /\ Writable(c)}

Sync(h, d) ==
    /\ h.stage = "self"
    /\ d \in Entries(h.links)
    /\ UidOf[h.links[d]] # UidOf[h.msg[1]]
    /\ Becomes(h, Served(h, d))
    /\ got' = got \cup
         {CopyFor(c, h, h.from.client, h.links[d]) :
             c \in Synced(h, BrokerOf[h.links[d]])}

\* The call to the broker throws; the loop goes on.
CallFails(h, d) ==
    /\ h.stage \in {"dispatch", "self"}
    /\ d \in Entries(h.links)
    /\ Becomes(h, [Served(h, d) EXCEPT !.failed = TRUE])
    /\ UNCHANGED got

Finish(h) ==
    /\ h.stage = "self"
    /\ Entries(h.links) = {}
    /\ Becomes(h, [h EXCEPT !.stage = "done"])
    /\ UNCHANGED got

\* The response leaves the business server when it is done with the request
\* (or has refused it).
Answerable(r) == \A h \in chats : h.msg = <<r.conn, r.n>> => h.stage = "done"

\* A broker process gives a uid once; a new one starts anew.
UidsFresh ==
    \A c \in Conns : net[c] = "idle" /\ net'[c] # "idle" =>
        \A o \in Conns \ {c} : SameUid(c, o) => net'[o] = "idle" \/ o \in dead

BrokerStep ==
    /\ \/ \E t \in Threads : Handle(t)
       \/ \E a \in auth : AuthReturns(a)
       \/ \E r \in rpc : (Answerable(r) /\ RpcAnswered(r)) \/ RpcException(r)
       \/ Environment
    /\ UidsFresh
    /\ UNCHANGED <<chats, got>>

BusinessStep ==
    /\ \/ \E r \in rpc, to \in Clients : Receive(r, to)
       \/ \E h \in chats, d \in DeviceTypes :
             Push(h, d) \/ SkipOwn(h, d) \/ Sync(h, d) \/ CallFails(h, d)
       \/ \E h \in chats : TurnToSelf(h) \/ Finish(h)
    /\ UNCHANGED vars

DeliveryNext == BrokerStep \/ BusinessStep

DeliverySpec == DeliveryInit /\ [][DeliveryNext]_deliveryVars

-----------------------------------------------------------------------------
\* The connection was found under the uid of a dead one, which Redis still
\* names.
Astray(g) == g.via \in dead /\ g.via # g.conn /\ SameUid(g.via, g.conn)

\* Whatever happens between the snapshot and the write - a close, a login of
\* another user on the same connection, a crash - a message is only written
\* to a connection that authenticated as the user it is for.  The one way to
\* somebody else is an entry a dead broker process left behind, when the
\* process after it has given the uid again.
DeliveredToOwn ==
    \A g \in got : (\E p \in granted[g.conn] : p.client = g.to) \/ Astray(g)

\* The sending connection gets no copy, unless its user wrote to himself, it has
\* signed in under a second identity, or it was taken for a dead one.
NoEcho ==
    \A g \in got : g.conn = g.msg[1] /\ OneIdentity(g.conn) =>
        \/ \E h \in chats : h.msg = g.msg /\ h.to = h.from.client
        \/ Astray(g)

Reached(c, h, x) == \E g \in got : g.conn = c /\ g.msg = h.msg /\ g.to = x

\* A request that is done, with no call failed, has reached every connection
\* the snapshots named that is still up: the recipient's ...
RecipientReached ==
    \A h \in chats : h.stage # "dispatch" /\ ~ h.failed =>
        \A d \in Entries(h.recipient) :
            Writable(h.recipient[d]) => Reached(h.recipient[d], h, h.to)

\* ... and, when the snapshot still names the sender's own connection, the
\* sender's other devices, except those whose broker gave them the sender's uid.
OtherDevicesReached ==
    \A h \in chats :
        /\ h.stage = "done"
        /\ ~ h.failed
        /\ \E d \in DeviceTypes : h.self[d] = h.msg[1]
        => \A d \in Entries(h.self) :
               Writable(h.self[d]) /\ UidOf[h.self[d]] # UidOf[h.msg[1]] =>
                   Reached(h.self[d], h, h.from.client)
=============================================================================
