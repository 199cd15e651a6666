---------------------------- MODULE BrokerProofs ----------------------------
(***************************************************************************)
(* Theorems about Broker, for every set of connections, brokers, users and *)
(* device types.                                                           *)
(***************************************************************************)
EXTENDS Broker, FiniteSetTheorems, SequenceTheorems, TLAPS

-----------------------------------------------------------------------------
(***************************************************************************)
(* Type correctness, operator by operator and then action by action.       *)
(***************************************************************************)

\* Credentials are all a LOGIN carries, nothing is what the others carry.
LEMMA CarriedType ==
    ASSUME NEW c \in Conns, NEW type \in AllFrameTypes
    PROVE  Carried(c, type) \subseteq Credentials \cup {NoCred}
  BY BrokerAssumption DEF Carried

\* CloseSocket keeps the sockets and the queues well typed.
LEMMA CloseSocketType ==
    ASSUME SocketsOK, NEW c \in Conns, CloseSocket(c)
    PROVE  /\ net' \in [Conns -> {"idle", "open", "closed", "gone"}]
           /\ queue' \in [Brokers -> Seq(Jobs)]
<1>1. CASE net[c] = "open"
  <2>1. CloseNotice(c) \in Jobs
    BY DEF Jobs, CloseNotices
  <2>2. BrokerOf[c] \in Brokers /\ queue[BrokerOf[c]] \in Seq(Jobs)
    BY BrokerAssumption DEF SocketsOK
  <2>3. Append(queue[BrokerOf[c]], CloseNotice(c)) \in Seq(Jobs)
    BY <2>1, <2>2, AppendProperties
  <2>4. QED
    BY <1>1, <2>2, <2>3 DEF CloseSocket, SocketsOK
<1>2. CASE net[c] # "open"
  BY <1>2 DEF CloseSocket, SocketsOK
<1>3. QED
  BY <1>1, <1>2

\* An answer is one more answered frame.
LEMMA AnswerType ==
    ASSUME SocketsOK, NEW c \in Conns, NEW n \in Nat, Answer(c, n)
    PROVE  acked' \in [Conns -> SUBSET Nat]
  BY DEF SocketsOK, Answer

\* The parts of a credential.
LEMMA CredentialParts ==
    ASSUME NEW p \in Credentials
    PROVE  /\ p.client \in Clients
           /\ p.device \in DeviceTypes
           /\ p = [client |-> p.client, device |-> p.device]
           /\ p # NoCred
  BY BrokerAssumption DEF Credentials

LEMMA TouchLinkType ==
    ASSUME LinksOK, NEW c \in Conns, TouchLink(c)
    PROVE  LinksOK'
  BY DEF LinksOK, TouchLink

\* An HSET sets the field of one user and device, or fails.
LEMMA SetFieldCases ==
    ASSUME LinksOK, NEW c \in Conns, NEW p \in Credentials, SetField(c, p)
    PROVE  /\ \A y \in Clients, d \in DeviceTypes :
                  \/ presence'[y][d] = presence[y][d]
                  \/ y = p.client /\ d = p.device /\ presence'[y][d] = c
           /\ presence'[p.client][p.device] = c \/ <<"HSET", c>> \in lost'
           /\ presence' \in [Clients -> [DeviceTypes -> Conns \cup {NoConn}]]
           /\ lost' \in {lost, lost \cup {<<"HSET", c>>}}
<1>1. p.client \in Clients /\ p.device \in DeviceTypes
  BY CredentialParts
<1>2. presence \in [Clients -> [DeviceTypes -> Conns \cup {NoConn}]]
  BY DEF LinksOK
<1>3. CASE /\ presence' = [presence EXCEPT ![p.client][p.device] = c]
           /\ UNCHANGED lost
  BY <1>1, <1>2, <1>3
<1>4. CASE /\ lost' = lost \cup {<<"HSET", c>>}
           /\ UNCHANGED presence
  BY <1>1, <1>2, <1>4
<1>5. QED
  BY <1>3, <1>4 DEF SetField

\* An HDEL clears the field of one user and device, or fails.
LEMMA DeleteFieldCases ==
    ASSUME LinksOK, NEW c \in Conns, NEW p \in Credentials, DeleteField(c, p)
    PROVE  /\ \A y \in Clients, d \in DeviceTypes :
                  \/ presence'[y][d] = presence[y][d]
                  \/ y = p.client /\ d = p.device /\ presence'[y][d] = NoConn
           /\ presence'[p.client][p.device] = NoConn \/ <<"HDEL", c>> \in lost'
           /\ presence' \in [Clients -> [DeviceTypes -> Conns \cup {NoConn}]]
           /\ lost' \in {lost, lost \cup {<<"HDEL", c>>}}
<1>1. p.client \in Clients /\ p.device \in DeviceTypes
  BY CredentialParts
<1>2. presence \in [Clients -> [DeviceTypes -> Conns \cup {NoConn}]]
  BY DEF LinksOK
<1>3. CASE /\ presence' = [presence EXCEPT ![p.client][p.device] = NoConn]
           /\ UNCHANGED lost
  BY <1>1, <1>2, <1>3
<1>4. CASE /\ lost' = lost \cup {<<"HDEL", c>>}
           /\ UNCHANGED presence
  BY <1>1, <1>2, <1>4
<1>5. QED
  BY <1>3, <1>4 DEF DeleteField

LEMMA BindLinkType ==
    ASSUME LinksOK, NEW c \in Conns, NEW cred \in Credentials, BindLink(c, cred),
           Accepted(c, cred)
    PROVE  LinksOK'
<1>1. cred.client \in Clients /\ cred.device \in DeviceTypes
  BY CredentialParts
<1>2. BrokerOf[c] \in Brokers
  BY BrokerAssumption
<1>3. index' \in [Brokers -> [Clients -> SUBSET Conns]]
  BY <1>1, <1>2 DEF LinksOK, BindLink
<1>4. /\ presence' \in [Clients -> [DeviceTypes -> Conns \cup {NoConn}]]
      /\ lost' \subseteq {"HSET", "HDEL"} \X Conns
  <2>1. SetField(c, cred)
    BY DEF BindLink
  <2>2. /\ presence' \in [Clients -> [DeviceTypes -> Conns \cup {NoConn}]]
        /\ lost' \in {lost, lost \cup {<<"HSET", c>>}}
    BY <2>1, SetFieldCases
  <2>3. QED
    BY <2>2 DEF LinksOK
<1>5. mapped' \subseteq Conns /\ context' \in [Conns -> Credentials \cup {NoCred}]
  BY DEF LinksOK, BindLink
<1>6. /\ granted' \in [Conns -> SUBSET Credentials]
      /\ late' \subseteq Conns /\ dead' \subseteq Conns
  BY DEF LinksOK, Accepted
<1>7. QED
  BY <1>3, <1>4, <1>5, <1>6 DEF LinksOK

LEMMA RemoveLinkType ==
    ASSUME LinksOK, NEW c \in Conns, RemoveLink(c)
    PROVE  LinksOK'
<1>1. CASE c \in mapped /\ context[c] # NoCred
  <2>1. context[c] \in Credentials
    BY <1>1 DEF LinksOK
  <2>2. context[c].client \in Clients /\ context[c].device \in DeviceTypes
    BY <2>1, CredentialParts
  <2>3. BrokerOf[c] \in Brokers
    BY BrokerAssumption
  <2>4. index[BrokerOf[c]][context[c].client] \subseteq Conns
    BY <2>2, <2>3 DEF LinksOK
  <2>5. EraseUid(index[BrokerOf[c]][context[c].client], c) \subseteq Conns
    BY <2>4 DEF EraseUid
  <2> DEFINE b == BrokerOf[c]
             x == context[c].client
             uids == EraseUid(index[b][x], c)
  <2>6. index' \in [Brokers -> [Clients -> SUBSET Conns]]
    <3>1. index' = [index EXCEPT ![b][x] = uids]
      BY <1>1 DEF RemoveLink, ClearSet
    <3>2. uids \subseteq Conns
      BY <2>5
    <3>3. index \in [Brokers -> [Clients -> SUBSET Conns]]
      BY DEF LinksOK
    <3>4. QED
      BY <2>2, <2>3, <3>1, <3>2, <3>3
  <2>7. /\ presence' \in [Clients -> [DeviceTypes -> Conns \cup {NoConn}]]
        /\ lost' \in {lost, lost \cup {<<"HDEL", c>>}}
    BY <1>1, <2>1, DeleteFieldCases DEF RemoveLink
  <2>8. QED
    BY <2>6, <2>7 DEF LinksOK, RemoveLink
<1>2. CASE ~ (c \in mapped /\ context[c] # NoCred)
  BY <1>2 DEF LinksOK, RemoveLink
<1>3. QED
  BY <1>1, <1>2

\* What a working thread holds.
LEMMA RequestJob ==
    ASSUME ThreadsOK, NEW t \in Threads, At(t, "update") \/ At(t, "handle")
    PROVE  /\ thread[t].job \in Requests
           /\ thread[t].job.conn \in Conns
           /\ thread[t].job.n \in Nat
           /\ thread[t].job.type \in AllFrameTypes
           /\ thread[t].job.cred \in Carried(thread[t].job.conn, thread[t].job.type)
           /\ thread[t].seen \in Credentials \cup {NoCred}
<1>1. thread[t] \in ActiveThreads
  BY DEF ThreadsOK, At
<1>2. /\ thread[t].job \in Requests
      /\ thread[t].seen \in Credentials \cup {NoCred}
  BY <1>1 DEF ActiveThreads, At
<1>3. QED
  BY <1>2 DEF Requests

LEMMA CloseJob ==
    ASSUME ThreadsOK, NEW t \in Threads, At(t, "close")
    PROVE  thread[t].job.conn \in Conns
<1>1. thread[t] \in ActiveThreads
  BY DEF ThreadsOK, At
<1>2. thread[t].job \in CloseNotices
  BY <1>1 DEF ActiveThreads, At
<1>3. QED
  BY <1>2 DEF CloseNotices, CloseNotice

\* A thread that finishes its job.
LEMMA FinishType ==
    ASSUME ThreadsOK, NEW t \in Threads, thread' = [thread EXCEPT ![t] = Idle]
    PROVE  ThreadsOK'
  BY DEF ThreadsOK, ActiveThreads, Requests, CloseNotices

\* A frame as the clients send it.
LEMMA RequestType ==
    ASSUME NEW c \in Conns, NEW n \in Nat, NEW type \in AllFrameTypes,
           NEW cred \in Carried(c, type)
    PROVE  [conn |-> c, n |-> n, type |-> type, cred |-> cred] \in Requests
  BY CarriedType DEF Requests

\* Taking the head of the receive queue.
LEMMA DequeueType ==
    ASSUME TypeOK, NEW t \in Threads, Dequeue(t)
    PROVE  TypeOK'
<1> DEFINE b == HostOf[t]
<1>1. b \in Brokers /\ queue[b] \in Seq(Jobs) /\ queue[b] # <<>>
  BY BrokerAssumption DEF TypeOK, SocketsOK, Dequeue
<1>2. Head(queue[b]) \in Jobs /\ Tail(queue[b]) \in Seq(Jobs)
  BY <1>1, HeadTailProperties
<1>3. queue' \in [Brokers -> Seq(Jobs)]
  <2>1. queue' = [queue EXCEPT ![b] = Tail(queue[b])]
    BY DEF Dequeue
  <2>2. QED
    BY <1>1, <1>2, <2>1 DEF TypeOK, SocketsOK
<1> DEFINE work == [pc   |-> IF Head(queue[b]).type = "CLOSE" THEN "close" ELSE "update",
                    job  |-> Head(queue[b]),
                    seen |-> NoCred]
<1>4. work \in ActiveThreads
  <2>1. CASE Head(queue[b]) \in Requests
    <3>1. Head(queue[b]).type # "CLOSE"
      BY <2>1 DEF Requests, AllFrameTypes
    <3>2. QED
      BY <2>1, <3>1 DEF ActiveThreads
  <2>2. CASE Head(queue[b]) \in CloseNotices
    <3>1. Head(queue[b]).type = "CLOSE"
      <4>1. PICK c \in Conns : Head(queue[b]) = CloseNotice(c)
        BY <2>2 DEF CloseNotices
      <4>2. QED
        BY <4>1 DEF CloseNotice
    <3>2. QED
      BY <2>2, <3>1 DEF ActiveThreads
  <2>3. QED
    BY <1>2, <2>1, <2>2 DEF Jobs
<1>5. thread' \in [Threads -> {Idle} \cup ActiveThreads]
  <2>1. thread' = [thread EXCEPT ![t] = work]
    BY DEF Dequeue
  <2>2. thread \in [Threads -> {Idle} \cup ActiveThreads]
    BY DEF TypeOK, ThreadsOK
  <2>3. QED
    BY <1>4, <2>1, <2>2
<1>6. ThreadsOK'
  BY <1>5 DEF ThreadsOK, ActiveThreads, Requests, CloseNotices, CloseNotice
<1>7. SocketsOK'
  BY <1>3 DEF TypeOK, SocketsOK, Dequeue, Jobs, Requests, CloseNotices, CloseNotice
<1>8. QED
  BY <1>6, <1>7 DEF TypeOK, LinksOK, CallsOK, Dequeue, links

\* Every action of a handle thread.
LEMMA HandleType ==
    ASSUME TypeOK, NEW t \in Threads, Handle(t)
    PROVE  TypeOK'
<1> USE DEF TypeOK, links
<1>1. CASE Dequeue(t)
  BY <1>1, DequeueType
<1>2. CASE DoClose(t)
  <2>1. thread[t].job.conn \in Conns
    BY <1>2, CloseJob DEF DoClose
  <2>2. LinksOK'
    BY <1>2, <2>1, RemoveLinkType DEF DoClose
  <2>3. SocketsOK' /\ CallsOK'
    BY <1>2, <2>1 DEF DoClose, SocketsOK, CallsOK, Jobs, Requests, CloseNotices,
       CloseNotice, Calls
  <2>4. QED
    BY <1>2, <2>2, <2>3, FinishType DEF DoClose
<1>3. CASE UpdateHeader(t)
  <2>1. /\ thread[t].job.conn \in Conns
        /\ thread[t] \in ActiveThreads
        /\ thread[t].job \in Requests
    BY <1>3, RequestJob DEF UpdateHeader, ThreadsOK, At
  <2>2. LinksOK'
    BY <1>3, <2>1, TouchLinkType DEF UpdateHeader
  <2>3. context[thread[t].job.conn] \in Credentials \cup {NoCred}
    BY <2>1 DEF LinksOK
  <2>4. [thread[t] EXCEPT !.pc = "handle", !.seen = context[thread[t].job.conn]]
            \in ActiveThreads
    <3>1. thread[t] \in [pc : {"update", "handle"}, job : Requests,
                         seen : Credentials \cup {NoCred}]
      BY <1>3, <2>1 DEF UpdateHeader, At, ActiveThreads
    <3>2. QED
      BY <2>3, <3>1 DEF ActiveThreads
  <2>5. thread' = [thread EXCEPT ![t] =
            [thread[t] EXCEPT !.pc = "handle", !.seen = context[thread[t].job.conn]]]
    BY <1>3, <2>1 DEF UpdateHeader, ThreadsOK
  <2>6. thread' \in [Threads -> {Idle} \cup ActiveThreads]
    BY <2>4, <2>5 DEF ThreadsOK
  <2>7. ThreadsOK'
    BY <2>6 DEF ThreadsOK, ActiveThreads, Requests, CloseNotices, CloseNotice
  <2>8. QED
    BY <1>3, <2>2, <2>7 DEF UpdateHeader, SocketsOK, CallsOK, Jobs, Requests,
       CloseNotices, CloseNotice, Calls
<1>4. ASSUME NEW c \in Conns, CloseSocket(c), thread' = [thread EXCEPT ![t] = Idle],
             UNCHANGED <<links, auth, rpc, sent, acked, crashes>>
      PROVE  TypeOK'
  <2>1. SocketsOK'
    BY <1>4, CloseSocketType DEF SocketsOK, Jobs, Requests, CloseNotices, CloseNotice
  <2>2. QED
    BY <1>4, <2>1, FinishType DEF LinksOK, CallsOK, Calls
<1>5. ASSUME thread' = [thread EXCEPT ![t] = Idle],
             UNCHANGED <<net, queue, links, auth, rpc, sent, acked, crashes>>
      PROVE  TypeOK'
  BY <1>5, FinishType DEF SocketsOK, LinksOK, CallsOK, Calls, Jobs, Requests,
     CloseNotices, CloseNotice
<1>6. CASE RejectGarbage(t)
  BY <1>4, <1>6, RequestJob DEF RejectGarbage
<1>7. CASE RejectUnauthenticated(t)
  BY <1>4, <1>7, RequestJob DEF RejectUnauthenticated, Handling
<1>8. CASE Ping(t)
  <2>1. acked' \in [Conns -> SUBSET Nat]
    BY <1>8, RequestJob, AnswerType DEF Ping, Handling
  <2>2. QED
    BY <1>8, <2>1, FinishType DEF Ping, Handling, SocketsOK, LinksOK, CallsOK, Calls,
       Jobs, Requests, CloseNotices, CloseNotice
<1>9. CASE Ignore(t) \/ ForwardFails(t) \/ LogoutIgnored(t)
  BY <1>5, <1>9 DEF Ignore, ForwardFails, LogoutIgnored, Handling
<1>10. CASE ForwardRPC(t)
  <2>1. PICK cred \in ContextRead(t) \ {NoCred} :
          rpc' = rpc \cup {[conn |-> thread[t].job.conn, n |-> thread[t].job.n,
                            cred |-> cred]}
    BY <1>10 DEF ForwardRPC
  <2>2. /\ thread[t].job.conn \in Conns
        /\ thread[t].job.n \in Nat
        /\ thread[t].seen \in Credentials \cup {NoCred}
    BY <1>10, RequestJob DEF ForwardRPC, Handling
  <2>3. cred \in Credentials
    BY <2>1, <2>2 DEF ContextRead, LinksOK
  <2>4. CallsOK'
    BY <1>10, <2>1, <2>2, <2>3 DEF ForwardRPC, CallsOK, Calls
  <2>5. QED
    BY <1>10, <2>4, FinishType DEF ForwardRPC, Handling, SocketsOK, LinksOK,
       Jobs, Requests, CloseNotices, CloseNotice
<1>11. CASE Login(t)
  <2>1. /\ thread[t].job.conn \in Conns
        /\ thread[t].job.n \in Nat
        /\ thread[t].job.cred \in Offers[thread[t].job.conn]
    BY <1>11, RequestJob DEF Login, Handling, Carried
  <2>2. [conn |-> thread[t].job.conn, n |-> thread[t].job.n,
         cred |-> thread[t].job.cred] \in Calls
    BY <2>1, BrokerAssumption DEF Calls
  <2>3. CallsOK'
    BY <1>11, <2>2 DEF Login, CallsOK, Calls
  <2>4. QED
    BY <1>11, <2>3, FinishType DEF Login, Handling, SocketsOK, LinksOK,
       Jobs, Requests, CloseNotices, CloseNotice
<1>12. CASE LoginRefused(t)
  <2>1. thread[t].job.conn \in Conns /\ thread[t].job.n \in Nat
    BY <1>12, RequestJob DEF LoginRefused, Handling
  <2>2. SocketsOK'
    BY <1>12, <2>1, AnswerType, CloseSocketType DEF LoginRefused, SocketsOK,
       Jobs, Requests, CloseNotices, CloseNotice
  <2>3. QED
    BY <1>12, <2>2, FinishType DEF LoginRefused, Handling, LinksOK, CallsOK, Calls
<1>13. CASE LogoutUnauthenticated(t) \/ LoginUndecodable(t)
  BY <1>4, <1>13, RequestJob DEF LogoutUnauthenticated, LoginUndecodable, Handling
<1>14. QED
  BY <1>1, <1>2, <1>3, <1>6, <1>7, <1>8, <1>9, <1>10, <1>11, <1>12, <1>13 DEF Handle

\* Every answer of an asynchronous call.
LEMMA CallbackType ==
    ASSUME TypeOK,
           \/ \E a \in auth : AuthReturns(a)
           \/ \E r \in rpc : RpcAnswered(r) \/ RpcException(r)
    PROVE  TypeOK'
<1> USE DEF TypeOK, links
<1>1. ASSUME NEW a \in auth, AuthAnswered(a)
      PROVE  TypeOK'
  <2>1. a.conn \in Conns /\ a.n \in Nat /\ a.cred \in Credentials
    BY DEF CallsOK, Calls
  <2>2. LinksOK'
    BY <1>1, <2>1, BindLinkType DEF AuthAnswered
  <2>3. acked' \in [Conns -> SUBSET Nat]
    BY <1>1, <2>1, AnswerType DEF AuthAnswered
  <2>4. QED
    BY <1>1, <2>2, <2>3 DEF AuthAnswered, SocketsOK, ThreadsOK, CallsOK, Calls,
       ActiveThreads, Jobs, Requests, CloseNotices, CloseNotice
<1>2. ASSUME NEW a \in auth, AuthException(a)
      PROVE  TypeOK'
  <2>1. a.conn \in Conns /\ a.n \in Nat
    BY DEF CallsOK, Calls
  <2>2. SocketsOK'
    BY <1>2, <2>1, AnswerType, CloseSocketType DEF AuthException, SocketsOK,
       Jobs, Requests, CloseNotices, CloseNotice
  <2>3. QED
    BY <1>2, <2>2 DEF AuthException, LinksOK, ThreadsOK, CallsOK, Calls,
       ActiveThreads, Requests, CloseNotices, CloseNotice
<1>3. ASSUME NEW r \in rpc, RpcAnswered(r)
      PROVE  TypeOK'
  <2>1. r.conn \in Conns /\ r.n \in Nat
    BY DEF CallsOK
  <2>2. acked' \in [Conns -> SUBSET Nat]
    BY <1>3, <2>1, AnswerType DEF RpcAnswered
  <2>3. QED
    BY <1>3, <2>2 DEF RpcAnswered, SocketsOK, LinksOK, ThreadsOK, CallsOK, Calls,
       ActiveThreads, Jobs, Requests, CloseNotices, CloseNotice
<1>4. ASSUME NEW r \in rpc, RpcException(r)
      PROVE  TypeOK'
  BY <1>4 DEF RpcException, SocketsOK, LinksOK, ThreadsOK, CallsOK, Calls,
     ActiveThreads, Jobs, Requests, CloseNotices, CloseNotice
<1>5. ASSUME NEW a \in auth, AuthRefused(a)
      PROVE  TypeOK'
  <2>1. a.conn \in Conns /\ a.n \in Nat
    BY DEF CallsOK, Calls
  <2>2. acked' \in [Conns -> SUBSET Nat]
    BY <1>5, <2>1, AnswerType DEF AuthRefused
  <2>3. QED
    BY <1>5, <2>2 DEF AuthRefused, SocketsOK, LinksOK, ThreadsOK, CallsOK, Calls,
       ActiveThreads, Jobs, Requests, CloseNotices, CloseNotice
<1>6. QED
  BY <1>1, <1>2, <1>3, <1>4, <1>5 DEF AuthReturns

\* Every step of the clients, the network and a dying broker.
LEMMA EnvironmentType ==
    ASSUME TypeOK, Environment
    PROVE  TypeOK'
<1> USE DEF TypeOK, links
<1>1. ASSUME NEW c \in Conns, Accept(c)
      PROVE  TypeOK'
  BY <1>1 DEF Accept, SocketsOK, LinksOK, ThreadsOK, CallsOK, Calls,
     ActiveThreads, Jobs, Requests, CloseNotices, CloseNotice
<1>2. ASSUME NEW c \in Conns, ConnectionLost(c)
      PROVE  TypeOK'
  <2>1. SocketsOK'
    BY <1>2, CloseSocketType DEF ConnectionLost, SocketsOK,
       Jobs, Requests, CloseNotices, CloseNotice
  <2>2. QED
    BY <1>2, <2>1 DEF ConnectionLost, LinksOK, ThreadsOK, CallsOK, Calls,
       ActiveThreads, Requests, CloseNotices, CloseNotice
<1>3. ASSUME NEW c \in Conns, NEW type \in FrameTypes,
             NEW cred \in Credentials \cup {NoCred}, ClientSends(c, type, cred)
      PROVE  TypeOK'
  <2> DEFINE frame == [conn |-> c, n |-> sent[c] + 1, type |-> type, cred |-> cred]
  <2>1. sent[c] + 1 \in Nat /\ type \in AllFrameTypes /\ cred \in Carried(c, type)
    BY <1>3, BrokerAssumption DEF ClientSends, SocketsOK
  <2>2. frame \in Jobs
    BY <2>1, RequestType DEF Jobs
  <2>3. BrokerOf[c] \in Brokers /\ queue[BrokerOf[c]] \in Seq(Jobs)
    BY BrokerAssumption DEF SocketsOK
  <2>4. Append(queue[BrokerOf[c]], frame) \in Seq(Jobs)
    BY <2>2, <2>3, AppendProperties
  <2>5. queue' \in [Brokers -> Seq(Jobs)]
    <3>1. queue' = [queue EXCEPT ![BrokerOf[c]] = Append(queue[BrokerOf[c]], frame)]
      BY <1>3 DEF ClientSends
    <3>2. QED
      BY <2>3, <2>4, <3>1 DEF SocketsOK
  <2>6. sent' \in [Conns -> Nat]
    BY <1>3, <2>1 DEF ClientSends, SocketsOK
  <2>7. QED
    BY <1>3, <2>5, <2>6 DEF ClientSends, SocketsOK, LinksOK, ThreadsOK, CallsOK,
       Calls, ActiveThreads, Jobs, Requests, CloseNotices, CloseNotice
<1>4. ASSUME NEW b \in Brokers, Crash(b)
      PROVE  TypeOK'
  <2>1. SocketsOK'
    <3>1. queue' \in [Brokers -> Seq(Jobs)]
      <4>1. <<>> \in Seq(Jobs)
        BY EmptySeq
      <4>2. queue' = [queue EXCEPT ![b] = <<>>]
        BY <1>4 DEF Crash
      <4>3. QED
        BY <4>1, <4>2 DEF SocketsOK
    <3>2. net' \in [Conns -> {"idle", "open", "closed", "gone"}]
      BY <1>4 DEF Crash, SocketsOK
    <3>3. QED
      BY <1>4, <3>1, <3>2 DEF Crash, SocketsOK, Jobs, Requests, CloseNotices, CloseNotice
  <2>2. ThreadsOK'
    <3>1. thread' = [t \in Threads |-> IF HostOf[t] = b THEN Idle ELSE thread[t]]
      BY <1>4 DEF Crash
    <3>2. thread' \in [Threads -> {Idle} \cup ActiveThreads]
      BY <3>1 DEF ThreadsOK
    <3>3. QED
      BY <3>2 DEF ThreadsOK, ActiveThreads, Requests, CloseNotices, CloseNotice
  <2>3. LinksOK'
    BY <1>4 DEF Crash, LinksOK
  <2>4. CallsOK'
    BY <1>4 DEF Crash, CallsOK, Calls
  <2>5. QED
    BY <1>4, <2>1, <2>2, <2>3, <2>4 DEF Crash
<1>5. QED
  BY <1>1, <1>2, <1>3, <1>4 DEF Environment

\* A stuttering step.
LEMMA StutterType ==
    ASSUME TypeOK, UNCHANGED vars
    PROVE  TypeOK'
  BY DEF TypeOK, vars, SocketsOK, LinksOK, ThreadsOK, CallsOK, Calls,
     ActiveThreads, Jobs, Requests, CloseNotices, CloseNotice

\* Every state of the broker is well typed; in particular a pending
\* authentication only holds credentials its connection offered.
THEOREM TypeCorrect == Spec => []TypeOK
<1>1. Init => TypeOK
  <2> SUFFICES ASSUME Init PROVE TypeOK
    OBVIOUS
  <2>1. <<>> \in Seq(Jobs)
    BY EmptySeq
  <2>2. SocketsOK
    BY <2>1 DEF Init, SocketsOK
  <2>3. QED
    BY <2>2 DEF Init, TypeOK, ThreadsOK, LinksOK, CallsOK
<1>2. TypeOK /\ [Next]_vars => TypeOK'
  BY HandleType, CallbackType, EnvironmentType, StutterType DEF Next
<1>3. QED
  BY <1>1, <1>2, PTL DEF Spec

-----------------------------------------------------------------------------
(***************************************************************************)
(* Sockets and registries.  Only four operations touch the registries, so  *)
(* a step is one of these or leaves them alone.                            *)
(***************************************************************************)

LEMMA CloseSocketNet ==
    ASSUME SocketsOK, NEW c \in Conns, CloseSocket(c), NEW o \in Conns
    PROVE  /\ net[o] # "idle" => net'[o] # "idle"
           /\ net'[o] = "open" => net[o] = "open"
           /\ net'[o] = "gone" <=> net[o] = "gone"
  BY DEF SocketsOK, CloseSocket

NoneGone == \A c \in Conns : net'[c] = "gone" => net[c] = "gone"

RegistryStep ==
    \/ /\ crashes' = crashes
       /\ NoneGone
       /\ \/ UNCHANGED links
          \/ \E c \in Conns : TouchLink(c)
          \/ \E c \in Conns : \E cred \in Offers[c] : BindLink(c, cred) /\ Accepted(c, cred)
    \/ /\ crashes' = crashes
       /\ \E c \in Conns : RemoveLink(c) /\ net' = [net EXCEPT ![c] = "gone"]
    \/ \E b \in Brokers : Crash(b)

LEMMA StepIsRegistryStep ==
    ASSUME TypeOK, [Next]_vars
    PROVE  RegistryStep
<1>1. ASSUME NEW t \in Threads, Handle(t)
      PROVE  RegistryStep
  <2>1. CASE DoClose(t)
    <3>1. thread[t].job.conn \in Conns
      BY <2>1, CloseJob DEF DoClose, TypeOK
    <3>2. QED
      BY <2>1, <3>1 DEF DoClose, RegistryStep
  <2>2. CASE UpdateHeader(t)
    <3>1. thread[t].job.conn \in Conns
      BY <2>2, RequestJob DEF UpdateHeader, TypeOK
    <3>2. QED
      BY <2>2, <3>1 DEF UpdateHeader, RegistryStep, NoneGone
  <2>3. CASE RejectGarbage(t) \/ RejectUnauthenticated(t) \/ LoginRefused(t)
             \/ LoginUndecodable(t) \/ LogoutUnauthenticated(t)
    BY <2>3, RequestJob, CloseSocketNet DEF RejectGarbage, RejectUnauthenticated,
       LoginRefused, LoginUndecodable, LogoutUnauthenticated, Handling, TypeOK,
       RegistryStep, NoneGone
  <2>4. CASE Dequeue(t) \/ Ping(t) \/ Ignore(t) \/ ForwardRPC(t) \/ ForwardFails(t)
             \/ Login(t) \/ LogoutIgnored(t)
    BY <2>4 DEF RegistryStep, NoneGone, Dequeue, Ping, Ignore, ForwardRPC,
       ForwardFails, Login, LogoutIgnored
  <2>5. QED
    BY <1>1, <2>1, <2>2, <2>3, <2>4 DEF Handle
<1>2. ASSUME NEW a \in auth, AuthReturns(a)
      PROVE  RegistryStep
  <2>1. a.conn \in Conns /\ a.cred \in Offers[a.conn]
    BY DEF TypeOK, CallsOK, Calls
  <2>2. CASE AuthAnswered(a)
    BY <2>1, <2>2 DEF AuthAnswered, RegistryStep, NoneGone
  <2>3. CASE AuthRefused(a)
    BY <2>3 DEF AuthRefused, RegistryStep, NoneGone
  <2>4. CASE AuthException(a)
    BY <2>1, <2>4, CloseSocketNet DEF AuthException, RegistryStep, NoneGone, TypeOK
  <2>5. QED
    BY <1>2, <2>2, <2>3, <2>4 DEF AuthReturns
<1>3. ASSUME NEW r \in rpc, RpcAnswered(r) \/ RpcException(r)
      PROVE  RegistryStep
  BY <1>3 DEF RpcAnswered, RpcException, RegistryStep, NoneGone
<1>4. CASE Environment
  <2>1. CASE \E c \in Conns : Accept(c)
    BY <2>1 DEF Accept, RegistryStep, NoneGone, TypeOK, SocketsOK
  <2>2. CASE \E c \in Conns : ConnectionLost(c)
    BY <2>2, CloseSocketNet DEF ConnectionLost, RegistryStep, NoneGone, TypeOK
  <2>3. CASE \E c \in Conns, type \in FrameTypes, cred \in Credentials \cup {NoCred} :
                 ClientSends(c, type, cred)
    BY <2>3 DEF ClientSends, RegistryStep, NoneGone
  <2>4. QED
    BY <1>4, <2>1, <2>2, <2>3 DEF Environment, RegistryStep
<1>5. CASE UNCHANGED vars
  BY <1>5 DEF vars, links, RegistryStep, NoneGone
<1>6. QED
  BY <1>1, <1>2, <1>3, <1>4, <1>5 DEF Next

\* A connection somebody has accepted and whose broker process still runs.
Alive(c) == net[c] # "idle" /\ c \notin dead
AliveNext(c) == net'[c] # "idle" /\ c \notin dead'

\* Only such a connection is on a queue - of its own broker -, with a thread,
\* at AuthServer or in the map; only one that began is granted anything.
StartedInv ==
    /\ \A b \in Brokers : \A i \in 1 .. Len(queue[b]) :
          Alive(queue[b][i].conn) /\ BrokerOf[queue[b][i].conn] = b
    /\ \A t \in Threads : thread[t] # Idle =>
          Alive(thread[t].job.conn) /\ BrokerOf[thread[t].job.conn] = HostOf[t]
    /\ \A a \in auth : Alive(a.conn)
    /\ \A c \in mapped : Alive(c)
    /\ \A c \in Conns : granted[c] # {} => net[c] # "idle"
    /\ \A c \in dead : net[c] = "gone"

\* What becomes of a socket: it is accepted once, and does not open again.
LEMMA NetStep ==
    ASSUME TypeOK, [Next]_vars, NEW o \in Conns
    PROVE  /\ net[o] # "idle" => net'[o] # "idle"
           /\ net[o] = "gone" => net'[o] = "gone"
           /\ net'[o] = "open" => net[o] = "open" \/ (net[o] = "idle" /\ UNCHANGED links)
<1> DEFINE Kept == /\ net[o] # "idle" => net'[o] # "idle"
                   /\ net[o] = "gone" => net'[o] = "gone"
                   /\ net'[o] = "open" => net[o] = "open"
<1>1. ASSUME NEW t \in Threads, Handle(t)
      PROVE  Kept
  <2>1. CASE DoClose(t)
    BY <2>1, CloseJob DEF DoClose, TypeOK, SocketsOK
  <2>2. CASE RejectGarbage(t)
    BY <2>2, RequestJob, CloseSocketNet DEF RejectGarbage, TypeOK
  <2>3. CASE RejectUnauthenticated(t) \/ LoginRefused(t) \/ LoginUndecodable(t)
             \/ LogoutUnauthenticated(t)
    BY <2>3, RequestJob, CloseSocketNet DEF RejectUnauthenticated, LoginRefused,
       LoginUndecodable, LogoutUnauthenticated, Handling, TypeOK
  <2>4. CASE Dequeue(t) \/ UpdateHeader(t) \/ Ping(t) \/ Ignore(t) \/ ForwardRPC(t)
             \/ ForwardFails(t) \/ Login(t) \/ LogoutIgnored(t)
    BY <2>4 DEF Dequeue, UpdateHeader, Ping, Ignore, ForwardRPC, ForwardFails, Login,
       LogoutIgnored
  <2>5. QED
    BY <1>1, <2>1, <2>2, <2>3, <2>4 DEF Handle
<1>2. ASSUME NEW a \in auth, AuthReturns(a)
      PROVE  Kept
  <2>1. a.conn \in Conns
    BY DEF TypeOK, CallsOK, Calls
  <2>2. QED
    BY <1>2, <2>1, CloseSocketNet
       DEF AuthReturns, AuthAnswered, AuthRefused, AuthException, TypeOK
<1>3. ASSUME NEW r \in rpc, RpcAnswered(r) \/ RpcException(r)
      PROVE  Kept
  BY <1>3 DEF RpcAnswered, RpcException
<1>4. ASSUME NEW c \in Conns, Accept(c)
      PROVE  /\ net[o] # "idle" => net'[o] # "idle"
             /\ net[o] = "gone" => net'[o] = "gone"
             /\ net'[o] = "open" => net[o] = "open" \/ (net[o] = "idle" /\ UNCHANGED links)
  BY <1>4 DEF Accept, TypeOK, SocketsOK
<1>5. CASE \E c \in Conns : ConnectionLost(c)
  BY <1>5, CloseSocketNet DEF ConnectionLost, TypeOK
<1>6. ASSUME NEW c \in Conns, NEW type, NEW cred, ClientSends(c, type, cred)
      PROVE  Kept
  BY <1>6 DEF ClientSends
<1>7. CASE \E b \in Brokers : Crash(b)
  BY <1>7 DEF Crash
<1>8. CASE UNCHANGED vars
  BY <1>8 DEF vars
<1>9. QED
  BY <1>1, <1>2, <1>3, <1>4, <1>5, <1>6, <1>7, <1>8 DEF Next, Environment

\* Nobody dies but in a crash.
LEMMA AliveStep ==
    ASSUME TypeOK, [Next]_vars, ~ \E b \in Brokers : Crash(b)
    PROVE  dead' = dead /\ \A c \in Conns : Alive(c) => AliveNext(c)
<1>1. dead' = dead
  BY StepIsRegistryStep DEF RegistryStep, links, TouchLink, Accepted, RemoveLink
<1>2. QED
  BY <1>1, NetStep DEF Alive, AliveNext

\* What is on a queue is one of the items it held or the item added to it.
QueuesKept ==
    \A b \in Brokers : \A i \in 1 .. Len(queue'[b]) :
        AliveNext(queue'[b][i].conn) /\ BrokerOf[queue'[b][i].conn] = b

LEMMA AppendedItem ==
    ASSUME TypeOK, StartedInv, [Next]_vars, ~ \E b \in Brokers : Crash(b),
           NEW item \in Jobs, Alive(item.conn),
           queue' = [queue EXCEPT ![BrokerOf[item.conn]] = Append(@, item)]
    PROVE  QueuesKept
<1> DEFINE b == BrokerOf[item.conn]
<1>1. queue \in [Brokers -> Seq(Jobs)]
  BY DEF TypeOK, SocketsOK
<1>2. \A j \in Jobs : j.conn \in Conns
  BY DEF Jobs, Requests, CloseNotices, CloseNotice
<1>3. \A c \in Conns : Alive(c) => AliveNext(c)
  BY AliveStep
<1>4. b \in Brokers
  BY <1>2, BrokerAssumption
<1>5. SUFFICES ASSUME NEW e \in Brokers, NEW i \in 1 .. Len(queue'[e])
               PROVE  AliveNext(queue'[e][i].conn) /\ BrokerOf[queue'[e][i].conn] = e
  BY DEF QueuesKept
<1>6. ASSUME i \in 1 .. Len(queue[e]), queue'[e][i] = queue[e][i]
      PROVE  AliveNext(queue'[e][i].conn) /\ BrokerOf[queue'[e][i].conn] = e
  <2>1. queue[e][i] \in Jobs
    BY <1>1, <1>6
  <2>2. Alive(queue[e][i].conn) /\ BrokerOf[queue[e][i].conn] = e
    BY <1>6 DEF StartedInv
  <2>3. AliveNext(queue[e][i].conn)
    BY <1>2, <1>3, <2>1, <2>2
  <2>4. QED
    BY <1>6, <2>2, <2>3
<1>7. CASE e # b
  BY <1>1, <1>4, <1>6, <1>7
<1>8. CASE e = b
  <2>1. queue'[e] = Append(queue[e], item) /\ queue[e] \in Seq(Jobs)
    BY <1>1, <1>4, <1>8
  <2>2. CASE i = Len(queue[e]) + 1
    <3>1. queue'[e][i] = item
      BY <2>1, <2>2
    <3>2. AliveNext(item.conn)
      BY <1>2, <1>3
    <3>3. QED
      BY <1>8, <3>1, <3>2
  <2>3. CASE i # Len(queue[e]) + 1
    BY <1>6, <2>1, <2>3
  <2>4. QED
    BY <2>2, <2>3
<1>9. QED
  BY <1>7, <1>8

LEMMA StartedStep ==
    ASSUME TypeOK, StartedInv, [Next]_vars
    PROVE  StartedInv'
<1> DEFINE ThreadsKept == \A t \in Threads : thread'[t] # Idle =>
                /\ AliveNext(thread'[t].job.conn)
                /\ BrokerOf[thread'[t].job.conn] = HostOf[t]
           AuthKept == \A a \in auth' : AliveNext(a.conn)
           MappedKept == \A c \in mapped' : AliveNext(c)
           GrantedKept == \A c \in Conns : granted'[c] # {} => net'[c] # "idle"
<1>1. \A b \in Brokers : queue[b] \in Seq(Jobs)
  BY DEF TypeOK, SocketsOK
<1>2. \A j \in Jobs : j.conn \in Conns
  BY DEF Jobs, Requests, CloseNotices, CloseNotice
<1>3. \A t \in Threads : thread[t] # Idle => thread[t].job \in Jobs
  BY DEF TypeOK, ThreadsOK, ActiveThreads, Jobs
<1>4. \A a \in auth : a.conn \in Conns
  BY DEF TypeOK, CallsOK, Calls
<1>5. mapped \subseteq Conns /\ dead \subseteq Conns
  BY DEF TypeOK, LinksOK
<1>6. granted' = granted => GrantedKept
  BY NetStep DEF StartedInv
<1>7. ASSUME \E b \in Brokers : Crash(b)
      PROVE  StartedInv'
  <2>1. PICK b \in Brokers : Crash(b)
    BY <1>7
  <2>2. \A c \in Conns : BrokerOf[c] # b => (AliveNext(c) <=> Alive(c))
    BY <2>1 DEF Crash, Alive, AliveNext, TypeOK, SocketsOK
  <2>3. QueuesKept
    <3> SUFFICES ASSUME NEW e \in Brokers, NEW i \in 1 .. Len(queue'[e])
                 PROVE  AliveNext(queue'[e][i].conn) /\ BrokerOf[queue'[e][i].conn] = e
      BY DEF QueuesKept
    <3>1. e # b /\ queue'[e] = queue[e]
      BY <2>1 DEF Crash, TypeOK, SocketsOK
    <3>2. queue[e][i].conn \in Conns
      BY <1>1, <1>2, <3>1
    <3>3. QED
      BY <2>2, <3>1, <3>2 DEF StartedInv
  <2>4. ThreadsKept
    <3> SUFFICES ASSUME NEW t \in Threads, thread'[t] # Idle
                 PROVE  /\ AliveNext(thread'[t].job.conn)
                        /\ BrokerOf[thread'[t].job.conn] = HostOf[t]
      OBVIOUS
    <3>1. thread'[t] = thread[t] /\ HostOf[t] # b
      BY <2>1 DEF Crash
    <3>2. QED
      BY <1>2, <1>3, <2>2, <3>1 DEF StartedInv
  <2>5. AuthKept
    <3>1. \A a \in auth' : a \in auth /\ BrokerOf[a.conn] # b
      BY <1>4, <2>1 DEF Crash
    <3>2. QED
      BY <1>4, <2>2, <3>1 DEF StartedInv
  <2>6. MappedKept
    BY <1>5, <2>1, <2>2 DEF StartedInv, Crash
  <2>7. GrantedKept
    BY <1>6, <2>1 DEF Crash
  <2>8. \A c \in dead' : net'[c] = "gone"
    BY <1>5, <2>1 DEF StartedInv, Crash
  <2>9. QED
    BY <2>3, <2>4, <2>5, <2>6, <2>7, <2>8 DEF StartedInv, QueuesKept, Alive, AliveNext
<1>8. ASSUME ~ \E b \in Brokers : Crash(b)
      PROVE  StartedInv'
  <2>1. dead' = dead /\ \A c \in Conns : Alive(c) => AliveNext(c)
    BY <1>8, AliveStep
  <2>2. \A c \in dead' : net'[c] = "gone"
    BY <1>5, <2>1, NetStep DEF StartedInv
  <2>3. queue' = queue => QueuesKept
    BY <1>1, <1>2, <2>1 DEF StartedInv, QueuesKept
  <2>4. ASSUME \A t \in Threads : thread'[t] = Idle
                   \/ (thread[t] # Idle /\ thread'[t].job = thread[t].job)
        PROVE  ThreadsKept
    BY <1>2, <1>3, <2>1, <2>4 DEF StartedInv
  <2>5. auth' \subseteq auth => AuthKept
    BY <1>4, <2>1 DEF StartedInv
  <2>6. mapped' \subseteq mapped => MappedKept
    BY <1>5, <2>1 DEF StartedInv
  <2>7. ASSUME NEW c \in Conns, CloseSocket(c)
        PROVE  QueuesKept
    <3>1. CASE net[c] = "open"
      <4>1. CloseNotice(c) \in Jobs /\ CloseNotice(c).conn = c
        BY DEF Jobs, CloseNotices, CloseNotice
      <4>2. queue' = [queue EXCEPT ![BrokerOf[c]] = Append(@, CloseNotice(c))]
        BY <2>7, <3>1 DEF CloseSocket
      <4>3. Alive(c)
        BY <3>1 DEF Alive, StartedInv
      <4>4. QED
        BY <1>8, <4>1, <4>2, <4>3, AppendedItem
    <3>2. CASE net[c] # "open"
      BY <2>3, <2>7, <3>2 DEF CloseSocket
    <3>3. QED
      BY <3>1, <3>2
  <2>8. ASSUME NEW t \in Threads, Dequeue(t)
        PROVE  QueuesKept /\ ThreadsKept
    <3> DEFINE b == HostOf[t]
    <3>1. b \in Brokers /\ queue[b] # <<>> /\ queue[b] \in Seq(Jobs)
      BY <1>1, <2>8, BrokerAssumption DEF Dequeue
    <3>2. /\ Tail(queue[b]) \in Seq(Jobs)
          /\ Head(queue[b]) = queue[b][1] /\ 1 \in 1 .. Len(queue[b])
          /\ Len(Tail(queue[b])) = Len(queue[b]) - 1
          /\ \A i \in 1 .. Len(Tail(queue[b])) :
                 Tail(queue[b])[i] = queue[b][i + 1] /\ i + 1 \in 1 .. Len(queue[b])
      BY <3>1, HeadTailProperties
    <3>3. queue' = [queue EXCEPT ![b] = Tail(queue[b])] /\ queue \in [Brokers -> Seq(Jobs)]
      BY <2>8 DEF Dequeue, TypeOK, SocketsOK
    <3>4. QueuesKept
      <4> SUFFICES ASSUME NEW e \in Brokers, NEW i \in 1 .. Len(queue'[e])
                   PROVE  AliveNext(queue'[e][i].conn) /\ BrokerOf[queue'[e][i].conn] = e
        BY DEF QueuesKept
      <4>1. PICK j \in 1 .. Len(queue[e]) : queue'[e][i] = queue[e][j]
        BY <3>1, <3>2, <3>3
      <4>2. queue[e][j] \in Jobs
        BY <1>1
      <4>3. Alive(queue[e][j].conn) /\ BrokerOf[queue[e][j].conn] = e
        BY DEF StartedInv
      <4>4. AliveNext(queue[e][j].conn)
        BY <1>2, <2>1, <4>2, <4>3
      <4>5. QED
        BY <4>1, <4>3, <4>4
    <3>5. ThreadsKept
      <4> SUFFICES ASSUME NEW o \in Threads, thread'[o] # Idle
                   PROVE  /\ AliveNext(thread'[o].job.conn)
                          /\ BrokerOf[thread'[o].job.conn] = HostOf[o]
        OBVIOUS
      <4>1. CASE o = t
        <5>1. thread'[t].job = queue[b][1]
          BY <2>8, <3>2 DEF Dequeue, TypeOK, ThreadsOK
        <5>2. queue[b][1] \in Jobs
          BY <3>1, <3>2
        <5>3. Alive(queue[b][1].conn) /\ BrokerOf[queue[b][1].conn] = b
          BY <3>1, <3>2 DEF StartedInv
        <5>4. AliveNext(queue[b][1].conn)
          BY <1>2, <2>1, <5>2, <5>3
        <5>5. QED
          BY <4>1, <5>1, <5>3, <5>4
      <4>2. CASE o # t
        <5>1. thread'[o] = thread[o]
          BY <2>8, <4>2 DEF Dequeue, TypeOK, ThreadsOK
        <5>2. QED
          BY <1>2, <1>3, <2>1, <5>1 DEF StartedInv
      <4>3. QED
        BY <4>1, <4>2
    <3>6. QED
      BY <3>4, <3>5
  <2>9. ASSUME NEW t \in Threads, Handle(t)
        PROVE  StartedInv'
    <3>1. ThreadsKept
      <4>1. CASE Dequeue(t)
        BY <2>8, <4>1
      <4>2. CASE ~ Dequeue(t)
        <5>1. \/ thread' = [thread EXCEPT ![t] = Idle]
              \/ UpdateHeader(t)
          BY <2>9, <4>2 DEF Handle, DoClose, RejectGarbage, RejectUnauthenticated,
             Ping, Ignore, ForwardRPC, ForwardFails, Login, LoginRefused,
             LoginUndecodable, LogoutIgnored, LogoutUnauthenticated, Handling
        <5>2. CASE thread' = [thread EXCEPT ![t] = Idle]
          BY <2>4, <5>2 DEF TypeOK, ThreadsOK
        <5>3. CASE UpdateHeader(t)
          BY <2>4, <5>3 DEF UpdateHeader, At, TypeOK, ThreadsOK, ActiveThreads
        <5>4. QED
          BY <5>1, <5>2, <5>3
      <4>3. QED
        BY <4>1, <4>2
    <3>2. QueuesKept
      <4>1. CASE Dequeue(t)
        BY <2>8, <4>1
      <4>2. CASE RejectGarbage(t) \/ RejectUnauthenticated(t) \/ LoginRefused(t)
                 \/ LoginUndecodable(t) \/ LogoutUnauthenticated(t)
        BY <2>7, <4>2, RequestJob DEF RejectGarbage, RejectUnauthenticated, LoginRefused,
           LoginUndecodable, LogoutUnauthenticated, Handling, TypeOK
      <4>3. CASE DoClose(t) \/ UpdateHeader(t) \/ Ping(t) \/ Ignore(t) \/ ForwardRPC(t)
                 \/ ForwardFails(t) \/ Login(t) \/ LogoutIgnored(t)
        BY <2>3, <4>3 DEF DoClose, UpdateHeader, Ping, Ignore, ForwardRPC, ForwardFails,
           Login, LogoutIgnored
      <4>4. QED
        BY <2>9, <4>1, <4>2, <4>3 DEF Handle
    <3>3. AuthKept
      <4>1. CASE Login(t)
        <5>1. thread[t] # Idle /\ thread[t].job.conn \in Conns
          BY <4>1, RequestJob DEF Login, Handling, At, TypeOK
        <5>2. auth' = auth \cup {[conn |-> thread[t].job.conn, n |-> thread[t].job.n,
                                  cred |-> thread[t].job.cred]}
          BY <4>1 DEF Login
        <5>3. AliveNext(thread[t].job.conn)
          BY <2>1, <5>1 DEF StartedInv
        <5>4. \A a \in auth' : a \in auth \/ a.conn = thread[t].job.conn
          BY <5>2
        <5>5. \A a \in auth : AliveNext(a.conn)
          BY <1>4, <2>1 DEF StartedInv
        <5>6. QED
          BY <5>3, <5>4, <5>5
      <4>2. CASE ~ Login(t)
        BY <2>5, <2>9, <4>2 DEF Handle, Dequeue, DoClose, UpdateHeader, RejectGarbage,
           RejectUnauthenticated, Ping, Ignore, ForwardRPC, ForwardFails, LoginRefused,
           LoginUndecodable, LogoutIgnored, LogoutUnauthenticated
      <4>3. QED
        BY <4>1, <4>2
    <3>4. MappedKept
      <4>1. CASE UpdateHeader(t)
        <5>1. thread[t] # Idle /\ thread[t].job.conn \in Conns
          BY <4>1, RequestJob DEF UpdateHeader, At, TypeOK
        <5>2. AliveNext(thread[t].job.conn)
          BY <2>1, <5>1 DEF StartedInv
        <5>3. mapped' = mapped \cup {thread[t].job.conn}
          BY <4>1 DEF UpdateHeader, TouchLink
        <5>4. \A c \in mapped : AliveNext(c)
          BY <1>5, <2>1 DEF StartedInv
        <5>5. QED
          BY <5>2, <5>3, <5>4
      <4>2. CASE ~ UpdateHeader(t)
        BY <2>6, <2>9, <4>2 DEF Handle, Dequeue, DoClose, RemoveLink, RejectGarbage,
           RejectUnauthenticated, Ping, Ignore, ForwardRPC, ForwardFails, Login,
           LoginRefused, LoginUndecodable, LogoutIgnored, LogoutUnauthenticated, links
      <4>3. QED
        BY <4>1, <4>2
    <3>5. GrantedKept
      BY <1>6, <2>9 DEF Handle, Dequeue, DoClose, UpdateHeader, RejectGarbage,
         RejectUnauthenticated, Ping, Ignore, ForwardRPC, ForwardFails, Login,
         LoginRefused, LoginUndecodable, LogoutIgnored, LogoutUnauthenticated,
         RemoveLink, TouchLink, links
    <3>6. QED
      BY <2>2, <3>1, <3>2, <3>3, <3>4, <3>5 DEF StartedInv, QueuesKept, Alive, AliveNext
  <2>10. ASSUME NEW a \in auth, AuthReturns(a)
         PROVE  StartedInv'
    <3>1. ThreadsKept /\ AuthKept
      BY <2>4, <2>5, <2>10 DEF AuthReturns, AuthAnswered, AuthRefused, AuthException
    <3>2. QueuesKept
      BY <1>4, <2>3, <2>7, <2>10 DEF AuthReturns, AuthAnswered, AuthRefused, AuthException
    <3>3. a.conn \in Conns /\ Alive(a.conn) /\ AliveNext(a.conn)
      BY <1>4, <2>1 DEF StartedInv
    <3>4. CASE AuthAnswered(a)
      <4>1. \A c \in mapped : AliveNext(c)
        BY <1>5, <2>1 DEF StartedInv
      <4>2. MappedKept
        BY <3>3, <3>4, <4>1 DEF AuthAnswered, BindLink
      <4>3. \A c \in Conns : c # a.conn => granted'[c] = granted[c]
        BY <3>3, <3>4 DEF AuthAnswered, Accepted, TypeOK, LinksOK
      <4>4. net'[a.conn] # "idle"
        BY <3>3 DEF AliveNext
      <4>5. GrantedKept
        BY <4>3, <4>4, NetStep DEF StartedInv
      <4>6. QED
        BY <2>2, <3>1, <3>2, <4>2, <4>5 DEF StartedInv, QueuesKept, Alive, AliveNext
    <3>5. CASE AuthRefused(a) \/ AuthException(a)
      <4>1. GrantedKept /\ MappedKept
        BY <1>6, <2>6, <3>5 DEF AuthRefused, AuthException, links
      <4>2. QED
        BY <2>2, <3>1, <3>2, <4>1 DEF StartedInv, QueuesKept, Alive, AliveNext
    <3>6. QED
      BY <2>10, <3>4, <3>5 DEF AuthReturns
  <2>11. ASSUME NEW c \in Conns, NEW type \in FrameTypes,
                NEW cred \in Credentials \cup {NoCred}, ClientSends(c, type, cred)
         PROVE  QueuesKept
    <3> DEFINE item == [conn |-> c, n |-> sent[c] + 1, type |-> type, cred |-> cred]
    <3>1. item \in Jobs
      BY <2>11, BrokerAssumption DEF ClientSends, Jobs, Requests, TypeOK, SocketsOK
    <3>2. item.conn = c /\ Alive(c)
      BY <2>11 DEF ClientSends, Alive, StartedInv
    <3>3. queue' = [queue EXCEPT ![BrokerOf[c]] = Append(@, item)]
      BY <2>11 DEF ClientSends
    <3> HIDE DEF item
    <3>4. QED
      BY <1>8, <3>1, <3>2, <3>3, AppendedItem
  <2>12. ASSUME QueuesKept, UNCHANGED <<thread, mapped, granted>>, auth' \subseteq auth
         PROVE  StartedInv'
    BY <1>6, <2>2, <2>4, <2>5, <2>6, <2>12 DEF StartedInv, QueuesKept, Alive, AliveNext
  <2>13. CASE (\E r \in rpc : RpcAnswered(r) \/ RpcException(r)) \/ UNCHANGED vars
              \/ (\E c \in Conns : Accept(c))
    BY <2>3, <2>12, <2>13 DEF RpcAnswered, RpcException, vars, links, Accept
  <2>14. CASE \E c \in Conns : ConnectionLost(c)
    BY <2>7, <2>12, <2>14 DEF ConnectionLost, links
  <2>15. CASE \E c \in Conns, type \in FrameTypes, cred \in Credentials \cup {NoCred} :
                 ClientSends(c, type, cred)
    BY <2>11, <2>12, <2>15 DEF ClientSends, links
  <2>16. QED
    BY <1>8, <2>9, <2>10, <2>13, <2>14, <2>15 DEF Next, Environment
<1>9. QED
  BY <1>7, <1>8

\* Whoever is on a queue, with a thread, at AuthServer or in a map belongs to a
\* process that runs.
THEOREM StartedAlways == Spec => []StartedInv
<1>1. Init => StartedInv
  BY DEF Init, StartedInv
<1>2. TypeOK /\ StartedInv /\ [Next]_vars => StartedInv'
  BY StartedStep
<1>3. QED
  BY <1>1, <1>2, TypeCorrect, PTL DEF Spec

-----------------------------------------------------------------------------
(***************************************************************************)
(* The registries and Redis.                                               *)
(***************************************************************************)

\* What remove() does to the set of a client, whichever branch it takes.
LEMMA EraseUidProperties ==
    ASSUME NEW uids \in SUBSET Conns, NEW c \in uids
    PROVE  EraseUid(uids, c) = uids \ {c}
<1>1. IsFiniteSet(uids)
  BY BrokerAssumption, FS_Subset
<1>2. Cardinality(uids) \in Nat
  BY <1>1, FS_CardinalityType
<1>3. CASE Cardinality(uids) > 1
  BY <1>3 DEF EraseUid
<1>4. CASE ~ (Cardinality(uids) > 1)
  <2>1. Cardinality(uids) # 0
    BY <1>1, FS_EmptySet
  <2>2. Cardinality(uids) = 1
    BY <1>2, <1>4, <2>1
  <2>3. PICK x : uids = {x}
    BY <1>1, <2>2, FS_Singleton
  <2>4. QED
    BY <1>4, <2>3 DEF EraseUid
<1>5. QED
  BY <1>3, <1>4

RegistryInv ==
    ContextsOffered /\ IndexComplete /\ IndexSound /\ PresenceBacked /\ Recorded

\* What can be said against one entry of Redis, and for one bound link.
Backed(x, d) ==
    LET c == presence[x][d]
    IN  \/ c = NoConn
        \/ ~ OneIdentity(c)
        \/ /\ c \in mapped
           /\ context[c] = [client |-> x, device |-> d]
           /\ net[c] = "gone" => c \in late
        \/ <<"HDEL", c>> \in lost
        \/ c \in dead

IsRecorded(c) ==
    \/ presence[context[c].client][context[c].device] = c
    \/ <<"HSET", c>> \in lost
    \/ \E o \in Conns \ {c} : context[c] \in granted[o]

\* The invariant of the registries is preserved by each operation.
LEMMA UntouchedInv ==
    ASSUME LinksOK, RegistryInv, NoneGone, UNCHANGED links
    PROVE  RegistryInv'
<1>1. \A c \in Conns : net'[c] = "gone" => net[c] = "gone"
  BY DEF NoneGone
<1>2. ContextsOffered' /\ IndexComplete' /\ Recorded'
  BY DEF links, RegistryInv, ContextsOffered, IndexComplete, Recorded
<1>3. IndexSound'
  BY <1>1 DEF links, RegistryInv, IndexSound, OneIdentity, LinksOK
<1>4. PresenceBacked'
  BY <1>1 DEF links, RegistryInv, PresenceBacked, OneIdentity, LinksOK
<1>5. QED
  BY <1>2, <1>3, <1>4 DEF RegistryInv

LEMMA TouchLinkInv ==
    ASSUME LinksOK, RegistryInv, NEW c \in Conns, TouchLink(c), NoneGone
    PROVE  RegistryInv'
<1>1. \A o \in Conns : net'[o] = "gone" => net[o] = "gone"
  BY DEF NoneGone
<1>2. /\ mapped' = mapped \cup {c}
      /\ UNCHANGED <<context, index, presence, granted, lost, late, dead>>
  BY DEF TouchLink
<1>3. ContextsOffered' /\ IndexComplete' /\ Recorded'
  BY <1>2 DEF RegistryInv, ContextsOffered, IndexComplete, Recorded, LinksOK
<1>4. IndexSound'
  BY <1>1, <1>2 DEF RegistryInv, IndexSound, OneIdentity, LinksOK
<1>5. PresenceBacked'
  BY <1>1, <1>2 DEF RegistryInv, PresenceBacked, OneIdentity, LinksOK
<1>6. QED
  BY <1>3, <1>4, <1>5 DEF RegistryInv

LEMMA BindLinkInv ==
    ASSUME LinksOK, RegistryInv, NEW c \in Conns, NEW cred \in Offers[c],
           BindLink(c, cred), Accepted(c, cred), NoneGone
    PROVE  RegistryInv'
<1> DEFINE b == BrokerOf[c]
           x == cred.client
<1>1. /\ cred \in Credentials /\ cred # NoCred
      /\ x \in Clients /\ cred.device \in DeviceTypes
      /\ cred = [client |-> x, device |-> cred.device]
      /\ b \in Brokers
  <2>1. cred \in Credentials
    BY BrokerAssumption
  <2>2. QED
    BY <2>1, CredentialParts, BrokerAssumption
<1>2. /\ mapped' = mapped \cup {c}
      /\ context' = [context EXCEPT ![c] = cred]
      /\ granted' = [granted EXCEPT ![c] = granted[c] \cup {cred}]
      /\ index' = [index EXCEPT ![b][x] = index[b][x] \cup {c}]
      /\ dead' = dead
  BY DEF BindLink, Accepted
<1>3. /\ \A y \in Clients, d \in DeviceTypes :
             \/ presence'[y][d] = presence[y][d]
             \/ y = x /\ d = cred.device /\ presence'[y][d] = c
      /\ presence'[x][cred.device] = c \/ <<"HSET", c>> \in lost'
      /\ lost \subseteq lost'
  <2>1. SetField(c, cred) /\ cred \in Credentials
    BY <1>1 DEF BindLink
  <2>2. \A y \in Clients, d \in DeviceTypes :
            \/ presence'[y][d] = presence[y][d]
            \/ y = cred.client /\ d = cred.device /\ presence'[y][d] = c
    BY <2>1, SetFieldCases
  <2>3. /\ presence'[cred.client][cred.device] = c \/ <<"HSET", c>> \in lost'
        /\ lost' \in {lost, lost \cup {<<"HSET", c>>}}
    BY <2>1, SetFieldCases
  <2>4. QED
    BY <2>2, <2>3
<1>4. /\ late \subseteq late'
      /\ \A o \in Conns : net'[o] = "gone" => net[o] = "gone"
      /\ net'[c] = "gone" => c \in late'
  BY DEF NoneGone, Accepted
<1>5. ContextsOffered'
  BY <1>1, <1>2 DEF RegistryInv, ContextsOffered, LinksOK
<1>6. \A e \in Brokers, y \in Clients :
          index'[e][y] = IF e = b /\ y = x THEN index[b][x] \cup {c} ELSE index[e][y]
  BY <1>1, <1>2 DEF LinksOK
<1>7. \A o \in Conns : context'[o] = IF o = c THEN cred ELSE context[o]
  BY <1>2 DEF LinksOK
<1>8. IndexComplete'
  <2> SUFFICES ASSUME NEW o \in mapped', context'[o] # NoCred
               PROVE  o \in index'[BrokerOf[o]][context'[o].client]
    BY DEF IndexComplete
  <2>1. CASE o = c
    BY <1>1, <1>6, <1>7, <2>1 DEF LinksOK
  <2>2. CASE o # c
    <3>1. /\ o \in mapped /\ o \in Conns /\ context'[o] = context[o]
          /\ context[o] \in Credentials
      BY <1>2, <2>2 DEF LinksOK
    <3>2. o \in index[BrokerOf[o]][context[o].client]
      BY <3>1 DEF RegistryInv, IndexComplete
    <3>3. BrokerOf[o] \in Brokers /\ context[o].client \in Clients
      BY <3>1, CredentialParts, BrokerAssumption
    <3>4. QED
      BY <1>6, <3>1, <3>2, <3>3
  <2>3. QED
    BY <2>1, <2>2
<1>9. /\ \A o \in Conns : OneIdentity(o)' => OneIdentity(o)
      /\ OneIdentity(c)' /\ context[c] # NoCred => context[c] = cred
  <2>1. \A o \in Conns : granted[o] \subseteq granted'[o]
    BY <1>2 DEF LinksOK
  <2>2. context[c] # NoCred => context[c] \in granted'[c]
    BY <2>1 DEF RegistryInv, ContextsOffered
  <2>3. cred \in granted'[c]
    BY <1>2 DEF LinksOK
  <2>4. QED
    BY <2>1, <2>2, <2>3 DEF OneIdentity
<1>10. IndexSound'
  <2> SUFFICES ASSUME NEW e \in Brokers, NEW y \in Clients,
                      NEW o \in index'[e][y], OneIdentity(o)'
               PROVE  /\ BrokerOf[o] = e /\ o \in mapped'
                      /\ context'[o] # NoCred /\ context'[o].client = y
                      /\ net'[o] = "gone" => o \in late'
    BY DEF IndexSound
  <2>1. CASE o \in index[e][y]
    <3>1. o \in Conns
      BY <2>1 DEF LinksOK
    <3>2. /\ BrokerOf[o] = e /\ o \in mapped
          /\ context[o] # NoCred /\ context[o].client = y
          /\ net[o] = "gone" => o \in late
      BY <1>9, <2>1, <3>1 DEF RegistryInv, IndexSound
    <3>3. context'[o] = context[o]
      BY <1>7, <1>9, <3>1, <3>2
    <3>4. QED
      BY <1>2, <1>4, <3>1, <3>2, <3>3
  <2>2. CASE o \notin index[e][y]
    <3>1. o = c /\ e = b /\ y = x
      BY <1>6, <2>2
    <3>2. QED
      BY <1>1, <1>2, <1>4, <1>7, <3>1
  <2>3. QED
    BY <2>1, <2>2
<1>11. PresenceBacked'
  <2> SUFFICES ASSUME NEW y \in Clients, NEW d \in DeviceTypes
               PROVE  Backed(y, d)'
    BY DEF PresenceBacked, Backed
  <2>1. CASE presence'[y][d] = c /\ y = x /\ d = cred.device
    <3>1. c \in mapped' /\ context'[c] = [client |-> y, device |-> d]
      BY <1>1, <1>2, <1>7, <2>1
    <3>2. QED
      BY <1>4, <2>1, <3>1 DEF Backed
  <2>2. CASE presence'[y][d] = presence[y][d]
    <3>1. Backed(y, d)
      BY DEF RegistryInv, PresenceBacked, Backed
    <3> DEFINE o == presence[y][d]
    <3>2. CASE /\ o \in mapped /\ context[o] = [client |-> y, device |-> d]
               /\ net[o] = "gone" => o \in late
      <4>1. [client |-> y, device |-> d] # NoCred /\ o \in Conns
        BY <3>2, BrokerAssumption DEF Credentials, LinksOK
      <4>2. o \in mapped' /\ (net'[o] = "gone" => o \in late')
        BY <1>2, <1>4, <3>2, <4>1
      <4>3. CASE o = c /\ ~ OneIdentity(c)'
        BY <2>2, <4>3 DEF Backed
      <4>4. CASE o # c \/ OneIdentity(c)'
        <5>1. context'[o] = context[o]
          BY <1>7, <1>9, <3>2, <4>1, <4>4
        <5>2. QED
          BY <2>2, <3>2, <4>2, <5>1 DEF Backed
      <4>5. QED
        BY <4>3, <4>4
    <3>3. CASE o = NoConn \/ <<"HDEL", o>> \in lost \/ o \in dead
      BY <1>2, <1>3, <2>2, <3>3 DEF Backed
    <3>4. CASE o # NoConn /\ ~ OneIdentity(o)
      <4>1. o \in Conns
        BY <3>4 DEF LinksOK
      <4>2. ~ OneIdentity(o)'
        BY <1>9, <2>2, <3>4, <4>1
      <4>3. QED
        BY <2>2, <4>2 DEF Backed
    <3>5. QED
      BY <3>1, <3>2, <3>3, <3>4 DEF Backed
  <2>3. QED
    BY <1>3, <2>1, <2>2
<1>12. Recorded'
  <2> SUFFICES ASSUME NEW o \in mapped', context'[o] # NoCred
               PROVE  IsRecorded(o)'
    BY DEF Recorded, IsRecorded
  <2>1. CASE o = c
    BY <1>3, <1>7, <2>1 DEF IsRecorded
  <2>2. CASE o # c
    <3>1. /\ o \in mapped /\ o \in Conns /\ context'[o] = context[o]
          /\ context[o] \in Credentials
      BY <1>2, <1>7, <2>2 DEF LinksOK
    <3>2. IsRecorded(o)
      BY <2>2, <3>1 DEF RegistryInv, Recorded, IsRecorded
    <3>3. \A e \in Conns : granted[e] \subseteq granted'[e]
      BY <1>2 DEF LinksOK
    <3>4. CASE context[o] = cred
      <4>1. cred \in granted'[c] /\ c \in Conns \ {o}
        BY <1>2, <2>2 DEF LinksOK
      <4>2. QED
        BY <3>1, <3>4, <4>1 DEF IsRecorded
    <3>5. CASE context[o] # cred
      <4>1. /\ context[o].client \in Clients /\ context[o].device \in DeviceTypes
            /\ context[o] = [client |-> context[o].client, device |-> context[o].device]
        BY <3>1, CredentialParts
      <4>2. ~ (context[o].client = x /\ context[o].device = cred.device)
        BY <1>1, <3>5, <4>1
      <4>3. presence'[context[o].client][context[o].device]
                = presence[context[o].client][context[o].device]
        BY <1>3, <4>1, <4>2
      <4>4. QED
        BY <1>3, <3>1, <3>2, <3>3, <4>3 DEF IsRecorded
    <3>6. QED
      BY <3>4, <3>5
  <2>3. QED
    BY <2>1, <2>2
<1>13. QED
  BY <1>5, <1>8, <1>10, <1>11, <1>12 DEF RegistryInv

\* What remove() leaves of the set of a client and of its hash in Redis.
LEMMA RemoveLinkCases ==
    ASSUME LinksOK, RegistryInv, NEW c \in Conns, RemoveLink(c),
           c \in mapped, context[c] # NoCred
    PROVE  /\ context[c] \in Credentials
           /\ \A e \in Brokers, y \in Clients :
                 index'[e][y] = IF e = BrokerOf[c] /\ y = context[c].client
                                THEN index[e][y] \ {c} ELSE index[e][y]
           /\ \A y \in Clients, d \in DeviceTypes :
                  \/ presence'[y][d] = presence[y][d]
                  \/ /\ y = context[c].client /\ d = context[c].device
                     /\ presence'[y][d] = NoConn
           /\ \/ presence'[context[c].client][context[c].device] = NoConn
              \/ <<"HDEL", c>> \in lost'
           /\ lost \subseteq lost'
<1> DEFINE b == BrokerOf[c]
           x == context[c].client
<1>1. context[c] \in Credentials /\ x \in Clients /\ b \in Brokers
  BY CredentialParts, BrokerAssumption DEF LinksOK
<1>2. index[b][x] \in SUBSET Conns /\ c \in index[b][x]
  BY <1>1 DEF LinksOK, RegistryInv, IndexComplete
<1>3. index' = [index EXCEPT ![b][x] = index[b][x] \ {c}]
  BY <1>2, EraseUidProperties DEF RemoveLink, ClearSet
<1>4. \A e \in Brokers, y \in Clients :
          index'[e][y] = IF e = b /\ y = x THEN index[e][y] \ {c} ELSE index[e][y]
  BY <1>1, <1>3 DEF LinksOK
<1>5. DeleteField(c, context[c])
  BY DEF RemoveLink
<1>6. QED
  BY <1>1, <1>4, <1>5, DeleteFieldCases

LEMMA RemoveLinkInv ==
    ASSUME LinksOK, SocketsOK, RegistryInv, NEW c \in Conns, RemoveLink(c),
           net' = [net EXCEPT ![c] = "gone"]
    PROVE  RegistryInv'
<1>1. /\ mapped' = mapped \ {c}
      /\ context' = [context EXCEPT ![c] = NoCred]
      /\ UNCHANGED <<granted, late, dead>>
  BY DEF RemoveLink
<1>2. \A o \in Conns : o # c => context'[o] = context[o] /\ net'[o] = net[o]
  BY <1>1 DEF LinksOK, SocketsOK
<1>3. ContextsOffered'
  BY <1>1 DEF RegistryInv, ContextsOffered, LinksOK
<1>4. CASE c \in mapped /\ context[c] # NoCred
  <2> DEFINE b == BrokerOf[c]
             x == context[c].client
             dev == context[c].device
  <2>1. /\ x \in Clients /\ dev \in DeviceTypes /\ b \in Brokers
        /\ context[c] \in Credentials
        /\ context[c] = [client |-> x, device |-> dev]
    <3>1. context[c] \in Credentials
      BY <1>4 DEF LinksOK
    <3>2. QED
      BY <3>1, CredentialParts, BrokerAssumption
  <2>2. \A e \in Brokers, y \in Clients :
            index'[e][y] = IF e = b /\ y = x THEN index[e][y] \ {c} ELSE index[e][y]
    BY <1>4, RemoveLinkCases
  <2>3. /\ \A y \in Clients, d \in DeviceTypes :
               \/ presence'[y][d] = presence[y][d]
               \/ y = x /\ d = dev /\ presence'[y][d] = NoConn
        /\ presence'[x][dev] = NoConn \/ <<"HDEL", c>> \in lost'
        /\ lost \subseteq lost'
    BY <1>4, RemoveLinkCases
  <2>4. IndexComplete'
    <3> SUFFICES ASSUME NEW o \in mapped', context'[o] # NoCred
                 PROVE  o \in index'[BrokerOf[o]][context'[o].client]
      BY DEF IndexComplete
    <3>1. o # c /\ o \in mapped /\ o \in Conns /\ context'[o] = context[o]
      BY <1>1 DEF LinksOK
    <3>2. BrokerOf[o] \in Brokers /\ context[o].client \in Clients
      BY <3>1, CredentialParts, BrokerAssumption DEF LinksOK
    <3>3. o \in index[BrokerOf[o]][context[o].client]
      BY <3>1 DEF RegistryInv, IndexComplete
    <3>4. QED
      BY <2>2, <3>1, <3>2, <3>3
  <2>5. IndexSound'
    <3> SUFFICES ASSUME NEW e \in Brokers, NEW y \in Clients,
                        NEW o \in index'[e][y], OneIdentity(o)
                 PROVE  /\ BrokerOf[o] = e /\ o \in mapped'
                        /\ context'[o] # NoCred /\ context'[o].client = y
                        /\ net'[o] = "gone" => o \in late'
      BY <1>1 DEF IndexSound, OneIdentity
    <3>1. o \in index[e][y] /\ ~ (o = c /\ e = b /\ y = x)
      BY <2>2
    <3>2. /\ BrokerOf[o] = e /\ o \in mapped /\ o \in Conns
          /\ context[o] # NoCred /\ context[o].client = y
          /\ net[o] = "gone" => o \in late
      BY <3>1 DEF RegistryInv, IndexSound, LinksOK
    <3>3. o # c
      BY <3>1, <3>2
    <3>4. QED
      BY <1>1, <1>2, <3>2, <3>3
  <2>6. PresenceBacked'
    <3> SUFFICES ASSUME NEW y \in Clients, NEW d \in DeviceTypes
                 PROVE  Backed(y, d)'
      BY DEF PresenceBacked, Backed
    <3> DEFINE o == presence[y][d]
    <3>1. CASE presence'[y][d] = NoConn
      BY <3>1 DEF Backed
    <3>2. CASE presence'[y][d] = o /\ o # NoConn
      <4>1. Backed(y, d)
        BY DEF RegistryInv, PresenceBacked, Backed
      <4>2. CASE <<"HDEL", o>> \in lost \/ o \in dead \/ ~ OneIdentity(o)
        BY <1>1, <2>3, <3>2, <4>2 DEF Backed, OneIdentity
      <4>3. CASE /\ o \in mapped /\ context[o] = [client |-> y, device |-> d]
                 /\ net[o] = "gone" => o \in late
        <5>1. CASE o = c
          <6>1. y = x /\ d = dev
            BY <2>1, <4>3, <5>1
          <6>2. <<"HDEL", o>> \in lost'
            BY <2>3, <3>2, <5>1, <6>1
          <6>3. QED
            BY <3>2, <6>2 DEF Backed
        <5>2. CASE o # c
          <6>1. o \in Conns
            BY <4>3 DEF LinksOK
          <6>2. QED
            BY <1>1, <1>2, <3>2, <4>3, <5>2, <6>1 DEF Backed
        <5>3. QED
          BY <5>1, <5>2
      <4>4. QED
        BY <3>2, <4>1, <4>2, <4>3 DEF Backed
    <3>3. QED
      BY <2>3, <3>1, <3>2
  <2>7. Recorded'
    <3> SUFFICES ASSUME NEW o \in mapped', context'[o] # NoCred
                 PROVE  IsRecorded(o)'
      BY DEF Recorded, IsRecorded
    <3>1. o # c /\ o \in mapped /\ o \in Conns /\ context'[o] = context[o]
      BY <1>1 DEF LinksOK
    <3>2. context[o] \in Credentials
      BY <3>1 DEF LinksOK
    <3>3. IsRecorded(o)
      BY <3>1 DEF RegistryInv, Recorded, IsRecorded
    <3>4. CASE context[o] = context[c]
      <4>1. context[o] \in granted[c] /\ c \in Conns \ {o}
        BY <1>4, <3>1, <3>4 DEF RegistryInv, ContextsOffered
      <4>2. QED
        BY <1>1, <3>1, <4>1 DEF IsRecorded
    <3>5. CASE context[o] # context[c]
      <4>1. /\ context[o].client \in Clients /\ context[o].device \in DeviceTypes
            /\ context[o] = [client |-> context[o].client, device |-> context[o].device]
        BY <3>2, CredentialParts
      <4>2. ~ (context[o].client = x /\ context[o].device = dev)
        BY <2>1, <3>5, <4>1
      <4>3. presence'[context[o].client][context[o].device]
                = presence[context[o].client][context[o].device]
        BY <2>3, <4>1, <4>2
      <4>4. QED
        BY <1>1, <2>3, <3>1, <3>3, <4>3 DEF IsRecorded
    <3>6. QED
      BY <3>4, <3>5
  <2>8. QED
    BY <1>3, <2>4, <2>5, <2>6, <2>7 DEF RegistryInv
<1>5. CASE ~ (c \in mapped /\ context[c] # NoCred)
  <2>1. context[c] = NoCred
    BY <1>5 DEF RegistryInv, ContextsOffered
  <2>2. context' = context /\ UNCHANGED <<index, presence, lost>>
    BY <1>1, <1>5, <2>1 DEF RemoveLink, LinksOK
  <2>3. IndexComplete' /\ Recorded'
    BY <1>1, <2>2 DEF RegistryInv, IndexComplete, Recorded
  <2>4. IndexSound'
    <3> SUFFICES ASSUME NEW e \in Brokers, NEW y \in Clients,
                        NEW o \in index[e][y], OneIdentity(o)
                 PROVE  /\ BrokerOf[o] = e /\ o \in mapped'
                        /\ context[o] # NoCred /\ context[o].client = y
                        /\ net'[o] = "gone" => o \in late
      BY <1>1, <2>2 DEF IndexSound, OneIdentity
    <3>1. /\ BrokerOf[o] = e /\ o \in mapped /\ o \in Conns
          /\ context[o] # NoCred /\ context[o].client = y
          /\ net[o] = "gone" => o \in late
      BY DEF RegistryInv, IndexSound, LinksOK
    <3>2. QED
      BY <1>1, <1>2, <2>1, <3>1
  <2>5. PresenceBacked'
    <3> SUFFICES ASSUME NEW y \in Clients, NEW d \in DeviceTypes
                 PROVE  Backed(y, d)'
      BY DEF PresenceBacked, Backed
    <3>1. Backed(y, d)
      BY DEF RegistryInv, PresenceBacked, Backed
    <3>2. [client |-> y, device |-> d] # NoCred
      BY BrokerAssumption DEF Credentials
    <3>3. QED
      BY <1>1, <1>2, <2>1, <2>2, <3>1, <3>2 DEF Backed, OneIdentity, LinksOK
  <2>6. QED
    BY <1>3, <2>3, <2>4, <2>5 DEF RegistryInv
<1>6. QED
  BY <1>4, <1>5

\* A crash empties one broker's registries; what Redis has of its connections
\* is of connections that died.
LEMMA CrashInv ==
    ASSUME LinksOK, SocketsOK, StartedInv, RegistryInv, NEW b \in Brokers, Crash(b)
    PROVE  RegistryInv'
<1> DEFINE here == {c \in Conns : BrokerOf[c] = b}
           down == {c \in here : net[c] # "idle"}
<1>1. /\ mapped' = mapped \ here
      /\ context' = [c \in Conns |-> IF c \in here THEN NoCred ELSE context[c]]
      /\ index' = [index EXCEPT ![b] = [x \in Clients |-> {}]]
      /\ dead' = dead \cup down
      /\ net' = [c \in Conns |-> IF c \in down THEN "gone" ELSE net[c]]
      /\ UNCHANGED <<presence, granted, lost, late>>
  BY DEF Crash
<1>2. ContextsOffered'
  BY <1>1 DEF RegistryInv, ContextsOffered
<1>3. \A e \in Brokers, y \in Clients :
          index'[e][y] = IF e = b THEN {} ELSE index[e][y]
  BY <1>1 DEF LinksOK
<1>4. IndexComplete'
  <2> SUFFICES ASSUME NEW o \in mapped', context'[o] # NoCred
               PROVE  o \in index'[BrokerOf[o]][context'[o].client]
    BY DEF IndexComplete
  <2>1. o \in mapped /\ o \in Conns /\ context'[o] = context[o] /\ BrokerOf[o] # b
    BY <1>1 DEF LinksOK
  <2>2. BrokerOf[o] \in Brokers /\ context[o].client \in Clients
    BY <2>1, CredentialParts, BrokerAssumption DEF LinksOK
  <2>3. o \in index[BrokerOf[o]][context[o].client]
    BY <2>1 DEF RegistryInv, IndexComplete
  <2>4. QED
    BY <1>3, <2>1, <2>2, <2>3
<1>5. IndexSound'
  <2> SUFFICES ASSUME NEW e \in Brokers, NEW y \in Clients,
                      NEW o \in index'[e][y], OneIdentity(o)'
               PROVE  /\ BrokerOf[o] = e /\ o \in mapped'
                      /\ context'[o] # NoCred /\ context'[o].client = y
                      /\ net'[o] = "gone" => o \in late'
    BY DEF IndexSound
  <2>1. e # b /\ o \in index[e][y]
    BY <1>3
  <2>2. /\ BrokerOf[o] = e /\ o \in mapped /\ o \in Conns
        /\ context[o] # NoCred /\ context[o].client = y
        /\ net[o] = "gone" => o \in late
    BY <1>1, <2>1 DEF RegistryInv, IndexSound, OneIdentity, LinksOK
  <2>3. QED
    BY <1>1, <2>1, <2>2
<1>6. PresenceBacked'
  <2> SUFFICES ASSUME NEW y \in Clients, NEW d \in DeviceTypes
               PROVE  Backed(y, d)'
    BY DEF PresenceBacked, Backed
  <2> DEFINE o == presence[y][d]
  <2>1. Backed(y, d)
    BY DEF RegistryInv, PresenceBacked, Backed
  <2>2. CASE o = NoConn \/ ~ OneIdentity(o) \/ <<"HDEL", o>> \in lost \/ o \in dead
    BY <1>1, <2>2 DEF Backed, OneIdentity
  <2>3. CASE /\ o \in mapped /\ context[o] = [client |-> y, device |-> d]
             /\ net[o] = "gone" => o \in late
    <3>1. o \in Conns /\ net[o] # "idle"
      BY <2>3 DEF LinksOK, StartedInv, Alive
    <3>2. CASE o \in here
      BY <1>1, <3>1, <3>2 DEF Backed
    <3>3. CASE o \notin here
      BY <1>1, <2>3, <3>1, <3>3 DEF Backed
    <3>4. QED
      BY <3>2, <3>3
  <2>4. QED
    BY <2>1, <2>2, <2>3 DEF Backed
<1>7. Recorded'
  <2> SUFFICES ASSUME NEW o \in mapped', context'[o] # NoCred
               PROVE  IsRecorded(o)'
    BY DEF Recorded, IsRecorded
  <2>1. o \in mapped /\ context'[o] = context[o]
    BY <1>1 DEF LinksOK
  <2>2. QED
    BY <1>1, <2>1 DEF RegistryInv, Recorded, IsRecorded
<1>8. QED
  BY <1>2, <1>4, <1>5, <1>6, <1>7 DEF RegistryInv

\* However frames, closes, logins, crashes and failing Redis commands
\* interleave, the registries of LongLinkManager and the presence in Redis
\* agree as far as they can.
THEOREM RegistriesAgree == Spec => []RegistryInv
<1>1. Init => RegistryInv
  BY DEF Init, RegistryInv, ContextsOffered, IndexComplete, IndexSound, PresenceBacked,
     Recorded
<1>2. TypeOK /\ StartedInv /\ RegistryInv /\ [Next]_vars => RegistryInv'
  <2> SUFFICES ASSUME TypeOK, StartedInv, RegistryInv, [Next]_vars
               PROVE  RegistryInv'
    OBVIOUS
  <2>1. RegistryStep
    BY StepIsRegistryStep
  <2>2. LinksOK /\ SocketsOK
    BY DEF TypeOK
  <2>3. QED
    BY <2>1, <2>2, UntouchedInv, TouchLinkInv, BindLinkInv, RemoveLinkInv, CrashInv
       DEF RegistryStep
<1>3. QED
  BY <1>1, <1>2, TypeCorrect, StartedAlways, PTL DEF Spec

\* Every bound link is in the set of its client.
THEOREM IndexIsComplete == Spec => []IndexComplete
<1>1. RegistryInv => IndexComplete
  BY DEF RegistryInv
<1>2. QED
  BY <1>1, RegistriesAgree, PTL

\* Of the connections that signed in under one identity the set of a client
\* holds bound links of that client only, and of those doClose is through with
\* only the ones that an authentication answered afterwards has brought back.
THEOREM IndexIsSound == Spec => []IndexSound
<1>1. RegistryInv => IndexSound
  BY DEF RegistryInv
<1>2. QED
  BY <1>1, RegistriesAgree, PTL

\* Whatever Redis does with its commands: an entry names a link that is bound
\* to the very user and device, unless it changed its identity, its HDEL failed
\* or its broker died; if
\* the connection is gone as well, a late authentication has set the entry.
THEOREM PresenceIsBacked == Spec => []PresenceBacked
<1>1. RegistryInv => PresenceBacked
  BY DEF RegistryInv
<1>2. QED
  BY <1>1, RegistriesAgree, PTL

\* A bound link is the one Redis names, unless its HSET failed or another
\* connection signed in as the same user and device.
THEOREM RecordedAlways == Spec => []Recorded
<1>1. RegistryInv => Recorded
  BY DEF RegistryInv
<1>2. QED
  BY <1>1, RegistriesAgree, PTL

-----------------------------------------------------------------------------
(***************************************************************************)
(* _mapClientIdUid implements the directory of signed-in users.            *)
(***************************************************************************)

\* A frame changes nothing in the directory.
LEMMA TouchLinkRefines ==
    ASSUME NEW c \in Conns, TouchLink(c), crashes' = crashes
    PROVE  UNCHANGED AbstractDirectory!vars
  BY DEF TouchLink, AbstractDirectory!vars, SignedIn, OneIdentity

Indexed(c, x) == \E b \in Brokers : c \in index[b][x]

\* An authenticated login is a SignIn, or takes the connection out of the
\* directory when it is the second identity.
LEMMA BindLinkRefines ==
    ASSUME LinksOK, RegistryInv, NEW c \in Conns, NEW cred \in Offers[c],
           BindLink(c, cred), Accepted(c, cred), crashes' = crashes
    PROVE  AbstractDirectory!SignIn(c, cred.client) \/ AbstractDirectory!SignOut(c)
<1> DEFINE b == BrokerOf[c]
           x == cred.client
<1>1. x \in Clients /\ b \in Brokers
  BY CredentialParts, BrokerAssumption
<1>2. index' = [index EXCEPT ![b][x] = index[b][x] \cup {c}]
  BY DEF BindLink
<1>3. \A e \in Brokers, y \in Clients :
          index'[e][y] = IF e = b /\ y = x THEN index[b][x] \cup {c} ELSE index[e][y]
  BY <1>1, <1>2 DEF LinksOK
<1>4. /\ granted'[c] = granted[c] \cup {cred}
      /\ \A o \in Conns : o # c => granted'[o] = granted[o]
  BY DEF Accepted, LinksOK
<1>5. \A p \in Conns \X Clients :
          Indexed(p[1], p[2])' <=> Indexed(p[1], p[2]) \/ p = <<c, x>>
  BY <1>1, <1>3 DEF Indexed
<1>6. \A o \in Conns : o # c => (OneIdentity(o)' <=> OneIdentity(o))
  BY <1>4 DEF OneIdentity
<1>7. /\ SignedIn  = {p \in Conns \X Clients : OneIdentity(p[1]) /\ Indexed(p[1], p[2])}
      /\ SignedIn' = {p \in Conns \X Clients : OneIdentity(p[1])' /\ Indexed(p[1], p[2])'}
  BY DEF SignedIn, Indexed
<1>8. CASE OneIdentity(c)'
  <2>1. OneIdentity(c)
    BY <1>4, <1>8 DEF OneIdentity
  <2>2. ASSUME NEW p \in Conns \X Clients
        PROVE  p \in SignedIn' <=> p \in SignedIn \/ p = <<c, x>>
    BY <1>5, <1>6, <1>7, <1>8, <2>1
  <2>3. <<c, x>> \in Conns \X Clients
    BY <1>1
  <2>4. SignedIn' = SignedIn \cup {<<c, x>>}
    BY <1>7, <2>2, <2>3
  <2>5. ASSUME NEW p \in SignedIn, p[1] = c
        PROVE  p[2] = x
    <3>1. PICK e \in Brokers : c \in index[e][p[2]] /\ p[2] \in Clients
      BY <1>7, <2>5 DEF Indexed
    <3>2. context[c] # NoCred /\ context[c].client = p[2]
      BY <2>1, <3>1 DEF RegistryInv, IndexSound
    <3>3. context[c] \in granted'[c] /\ cred \in granted'[c]
      BY <1>4, <3>2 DEF RegistryInv, ContextsOffered
    <3>4. context[c] = cred
      BY <1>8, <3>3 DEF OneIdentity
    <3>5. QED
      BY <3>2, <3>4
  <2>6. QED
    BY <2>4, <2>5 DEF AbstractDirectory!SignIn
<1>9. CASE ~ OneIdentity(c)'
  <2>1. ASSUME NEW p \in Conns \X Clients
        PROVE  p \in SignedIn' <=> p \in SignedIn /\ p[1] # c
    BY <1>5, <1>6, <1>7, <1>9
  <2>2. SignedIn' = {p \in SignedIn : p[1] # c}
    BY <1>7, <2>1
  <2>3. QED
    BY <2>2 DEF AbstractDirectory!SignOut
<1>10. QED
  BY <1>8, <1>9

\* A close is a SignOut of its own connection.
LEMMA RemoveLinkRefines ==
    ASSUME LinksOK, RegistryInv, NEW c \in Conns, RemoveLink(c), crashes' = crashes
    PROVE  AbstractDirectory!SignOut(c)
<1>1. granted' = granted
  BY DEF RemoveLink
<1>2. /\ \A e \in Brokers, y \in Clients : \A o : o # c =>
             (o \in index'[e][y] <=> o \in index[e][y])
      /\ OneIdentity(c) => \A e \in Brokers, y \in Clients : c \notin index'[e][y]
  <2>1. CASE c \in mapped /\ context[c] # NoCred
    <3>1. \A e \in Brokers, y \in Clients :
              index'[e][y] = IF e = BrokerOf[c] /\ y = context[c].client
                             THEN index[e][y] \ {c} ELSE index[e][y]
      BY <2>1, RemoveLinkCases
    <3>2. OneIdentity(c) => \A e \in Brokers, y \in Clients :
              c \in index[e][y] => e = BrokerOf[c] /\ y = context[c].client
      BY DEF RegistryInv, IndexSound
    <3>3. QED
      BY <3>1, <3>2
  <2>2. CASE ~ (c \in mapped /\ context[c] # NoCred)
    <3>1. index' = index
      BY <2>2 DEF RemoveLink
    <3>2. OneIdentity(c) => \A e \in Brokers, y \in Clients : c \notin index[e][y]
      BY <2>2 DEF RegistryInv, IndexSound
    <3>3. QED
      BY <3>1, <3>2
  <2>3. QED
    BY <2>1, <2>2
<1>3. \A o : OneIdentity(o)' <=> OneIdentity(o)
  BY <1>1 DEF OneIdentity
<1>4. ASSUME NEW p \in Conns \X Clients
      PROVE  OneIdentity(p[1])' /\ Indexed(p[1], p[2])'
               <=> OneIdentity(p[1]) /\ Indexed(p[1], p[2]) /\ p[1] # c
  BY <1>2, <1>3 DEF Indexed
<1>5. SignedIn' = {p \in SignedIn : p[1] # c}
  BY <1>4 DEF SignedIn, Indexed
<1>6. QED
  BY <1>5 DEF AbstractDirectory!SignOut

\* A dying broker takes its connections and no others.
LEMMA CrashRefines ==
    ASSUME LinksOK, RegistryInv, NEW b \in Brokers, Crash(b)
    PROVE  AbstractDirectory!Fail(b)
<1>1. /\ index' = [index EXCEPT ![b] = [x \in Clients |-> {}]]
      /\ crashes' = crashes + 1 /\ granted' = granted
  BY DEF Crash
<1>2. \A e \in Brokers, y \in Clients :
          index'[e][y] = IF e = b THEN {} ELSE index[e][y]
  BY <1>1 DEF LinksOK
<1>3. \A e \in Brokers, y \in Clients : \A o \in index[e][y] :
          OneIdentity(o) => BrokerOf[o] = e
  BY DEF RegistryInv, IndexSound
<1>4. \A o : OneIdentity(o)' <=> OneIdentity(o)
  BY <1>1 DEF OneIdentity
<1>5. ASSUME NEW p \in Conns \X Clients
      PROVE  OneIdentity(p[1])' /\ Indexed(p[1], p[2])'
               <=> OneIdentity(p[1]) /\ Indexed(p[1], p[2]) /\ BrokerOf[p[1]] # b
  BY <1>2, <1>3, <1>4 DEF Indexed
<1>6. SignedIn' = {p \in SignedIn : BrokerOf[p[1]] # b}
  BY <1>5 DEF SignedIn, Indexed
<1>7. QED
  BY <1>1, <1>6 DEF AbstractDirectory!Fail

\* As far as connections with one identity go, every step of the brokers is a
\* step of the directory or leaves it alone.
THEOREM DirectoryImplemented == Spec => ImplementsDirectory
<1>1. Init => AbstractDirectory!Init
  BY DEF Init, AbstractDirectory!Init, SignedIn
<1>2. TypeOK /\ RegistryInv /\ [Next]_vars
          => [AbstractDirectory!Next]_(AbstractDirectory!vars)
  <2> SUFFICES ASSUME TypeOK, RegistryInv, [Next]_vars
               PROVE  [AbstractDirectory!Next]_(AbstractDirectory!vars)
    OBVIOUS
  <2>1. RegistryStep
    BY StepIsRegistryStep
  <2>2. LinksOK
    BY DEF TypeOK
  <2>3. CASE crashes' = crashes /\ UNCHANGED links
    BY <2>3 DEF links, AbstractDirectory!vars, SignedIn, OneIdentity
  <2>4. CASE \E c \in Conns : crashes' = crashes /\ TouchLink(c)
    BY <2>4, TouchLinkRefines
  <2>5. CASE \E c \in Conns : \E cred \in Offers[c] :
                 crashes' = crashes /\ BindLink(c, cred) /\ Accepted(c, cred)
    <3>1. PICK c \in Conns :
                 \E cred \in Offers[c] :
                     crashes' = crashes /\ BindLink(c, cred) /\ Accepted(c, cred)
      BY <2>5
    <3>2. PICK cred \in Offers[c] :
                 crashes' = crashes /\ BindLink(c, cred) /\ Accepted(c, cred)
      BY <3>1
    <3>3. cred.client \in Clients
      BY BrokerAssumption, CredentialParts
    <3>4. QED
      BY <2>2, <3>2, <3>3, BindLinkRefines DEF AbstractDirectory!Next
  <2>6. CASE \E c \in Conns : RemoveLink(c) /\ crashes' = crashes
    BY <2>2, <2>6, RemoveLinkRefines DEF AbstractDirectory!Next
  <2>7. CASE \E b \in Brokers : Crash(b)
    BY <2>2, <2>7, CrashRefines DEF AbstractDirectory!Next
  <2>8. QED
    BY <2>1, <2>3, <2>4, <2>5, <2>6, <2>7 DEF RegistryStep
<1>3. QED
  BY <1>1, <1>2, TypeCorrect, RegistriesAgree, PTL
     DEF Spec, ImplementsDirectory, AbstractDirectory!Spec

-----------------------------------------------------------------------------
(***************************************************************************)
(* Calls to the business servers.                                          *)
(***************************************************************************)

\* The context a handler has read, and the one a pending call was made with,
\* were authenticated on the connection they are used for.
AuthInv ==
    /\ \A t \in Threads : At(t, "handle") =>
          thread[t].seen \in {NoCred} \cup granted[thread[t].job.conn]
    /\ ServedAsAuthenticated

\* What was authenticated on a connection once stays so.
LEMMA GrantedGrows ==
    ASSUME TypeOK, [Next]_vars
    PROVE  \A c \in Conns : granted[c] \subseteq granted'[c]
<1>1. RegistryStep
  BY StepIsRegistryStep
<1>2. ASSUME NEW c \in Conns, NEW cred, Accepted(c, cred)
      PROVE  \A o \in Conns : granted[o] \subseteq granted'[o]
  BY <1>2 DEF Accepted, TypeOK, LinksOK
<1>3. QED
  BY <1>1, <1>2 DEF RegistryStep, TouchLink, RemoveLink, Crash, links

LEMMA AuthInvStep ==
    ASSUME TypeOK, ContextsOffered, AuthInv, [Next]_vars
    PROVE  AuthInv'
<1> USE GrantedGrows
<1>1. ASSUME thread' = thread, rpc' \subseteq rpc
      PROVE  AuthInv'
  <2>1. \A t \in Threads : At(t, "handle") => thread[t].job.conn \in Conns
    BY RequestJob DEF TypeOK
  <2>2. \A r \in rpc : r.conn \in Conns
    BY DEF TypeOK, CallsOK
  <2>3. QED
    BY <1>1, <2>1, <2>2 DEF AuthInv, At, ServedAsAuthenticated
<1>2. ASSUME NEW t \in Threads, NEW w, thread' = [thread EXCEPT ![t] = w],
             w # Idle /\ w.pc = "handle" =>
                 w.seen \in {NoCred} \cup granted'[w.job.conn],
             \A r \in rpc' \ rpc : r.cred \in granted'[r.conn]
      PROVE  AuthInv'
  <2>1. \A u \in Threads : At(u, "handle") => thread[u].job.conn \in Conns
    BY RequestJob DEF TypeOK
  <2>2. \A r \in rpc : r.conn \in Conns
    BY DEF TypeOK, CallsOK
  <2>3. \A u \in Threads : thread'[u] = IF u = t THEN w ELSE thread[u]
    BY <1>2 DEF TypeOK, ThreadsOK
  <2>4. QED
    BY <1>2, <2>1, <2>2, <2>3 DEF AuthInv, At, ServedAsAuthenticated
<1>3. ASSUME NEW t \in Threads, Handle(t)
      PROVE  AuthInv'
  <2>1. CASE Dequeue(t)
    BY <1>2, <2>1 DEF Dequeue
  <2>2. CASE UpdateHeader(t)
    <3> DEFINE c == thread[t].job.conn
               w == [thread[t] EXCEPT !.pc = "handle", !.seen = context[c]]
    <3>1. c \in Conns /\ thread[t] \in ActiveThreads
      BY <2>2, RequestJob DEF UpdateHeader, TypeOK, ThreadsOK, At
    <3>2. thread' = [thread EXCEPT ![t] = w]
      BY <2>2, <3>1 DEF UpdateHeader, TypeOK, ThreadsOK
    <3>3. context[c] \in {NoCred} \cup granted[c]
      BY <3>1 DEF ContextsOffered
    <3>4. w.job = thread[t].job /\ w.seen = context[c]
      BY <3>1 DEF ActiveThreads
    <3>5. rpc' = rpc
      BY <2>2 DEF UpdateHeader
    <3> HIDE DEF w
    <3>6. QED
      BY <1>2, <3>1, <3>2, <3>3, <3>4, <3>5
  <2>3. CASE ForwardRPC(t)
    <3> DEFINE c == thread[t].job.conn
    <3>1. PICK cred \in ContextRead(t) \ {NoCred} :
            rpc' = rpc \cup {[conn |-> c, n |-> thread[t].job.n, cred |-> cred]}
      BY <2>3 DEF ForwardRPC
    <3>2. c \in Conns /\ At(t, "handle")
      BY <2>3, RequestJob DEF ForwardRPC, Handling, TypeOK
    <3>3. cred \in granted[c]
      BY <3>1, <3>2 DEF ContextRead, AuthInv
    <3>4. thread' = [thread EXCEPT ![t] = Idle]
      BY <2>3 DEF ForwardRPC, Handling
    <3>5. \A r \in rpc' \ rpc : r.cred \in granted'[r.conn]
      BY <3>1, <3>2, <3>3
    <3>6. QED
      BY <1>2, <3>4, <3>5
  <2>4. CASE ~ Dequeue(t) /\ ~ UpdateHeader(t) /\ ~ ForwardRPC(t)
    <3>1. thread' = [thread EXCEPT ![t] = Idle] /\ rpc' = rpc
      BY <1>3, <2>4 DEF Handle, DoClose, RejectGarbage, RejectUnauthenticated,
         Ping, Ignore, ForwardFails, Login, LoginRefused, LoginUndecodable, LogoutIgnored,
         LogoutUnauthenticated, Handling
    <3>2. QED
      BY <1>2, <3>1
  <2>5. QED
    BY <2>1, <2>2, <2>3, <2>4
<1>4. ASSUME NEW a \in auth, AuthReturns(a)
      PROVE  AuthInv'
  BY <1>1, <1>4 DEF AuthReturns, AuthAnswered, AuthRefused, AuthException
<1>5. ASSUME NEW r \in rpc, RpcAnswered(r) \/ RpcException(r)
      PROVE  AuthInv'
  BY <1>1, <1>5 DEF RpcAnswered, RpcException
<1>6. CASE \E b \in Brokers : Crash(b)
  <2>1. PICK b \in Brokers : Crash(b)
    BY <1>6
  <2>2. /\ \A t \in Threads : At(t, "handle")' => At(t, "handle") /\ thread'[t] = thread[t]
        /\ rpc' \subseteq rpc
    BY <2>1 DEF Crash, At
  <2>3. \A t \in Threads : At(t, "handle") => thread[t].job.conn \in Conns
    BY RequestJob DEF TypeOK
  <2>4. \A r \in rpc : r.conn \in Conns
    BY DEF TypeOK, CallsOK
  <2>5. QED
    BY <2>2, <2>3, <2>4 DEF AuthInv, ServedAsAuthenticated
<1>7. CASE Environment /\ ~ \E b \in Brokers : Crash(b)
  BY <1>1, <1>7 DEF Environment, Accept, ConnectionLost, ClientSends
<1>8. CASE UNCHANGED vars
  BY <1>1, <1>8 DEF vars
<1>9. QED
  BY <1>3, <1>4, <1>5, <1>6, <1>7, <1>8 DEF Next

\* No business server is called in the name of a user that connection did
\* not authenticate, however logins and requests overtake each other.
THEOREM ServedAsAuthenticatedAlways == Spec => []ServedAsAuthenticated
<1>1. Init => AuthInv
  BY DEF Init, AuthInv, At, ServedAsAuthenticated
<1>2. TypeOK /\ RegistryInv /\ AuthInv /\ [Next]_vars => AuthInv'
  BY AuthInvStep DEF RegistryInv
<1>3. AuthInv => ServedAsAuthenticated
  BY DEF AuthInv
<1>4. QED
  BY <1>1, <1>2, <1>3, TypeCorrect, RegistriesAgree, PTL DEF Spec

-----------------------------------------------------------------------------
(***************************************************************************)
(* A connection that is up keeps what it has been granted.                 *)
(***************************************************************************)

\* A connection that was authenticated and is still up is bound, and in the
\* set of every client it was authenticated as.
OpenInv ==
    \A c \in Conns : net[c] = "open" =>
        /\ granted[c] # {} => c \in mapped /\ context[c] # NoCred
        /\ \A p \in granted[c] : c \in index[BrokerOf[c]][p.client]

\* remove() of one connection takes no other out of a set, not even where it
\* erases the whole entry.
LEMMA OthersStayIndexed ==
    ASSUME LinksOK, IndexComplete, NEW o \in Conns, RemoveLink(o),
           NEW c \in Conns, c # o, NEW x \in Clients, c \in index[BrokerOf[c]][x]
    PROVE  c \in index'[BrokerOf[c]][x]
<1>1. CASE o \in mapped /\ context[o] # NoCred
  <2> DEFINE b == BrokerOf[o]
             y == context[o].client
  <2>1. b \in Brokers /\ y \in Clients /\ BrokerOf[c] \in Brokers
    BY <1>1, CredentialParts, BrokerAssumption DEF LinksOK
  <2>2. o \in index[b][y] /\ index[b][y] \subseteq Conns
    BY <1>1, <2>1 DEF IndexComplete, LinksOK
  <2>3. EraseUid(index[b][y], o) = index[b][y] \ {o}
    BY <2>2, EraseUidProperties
  <2>4. index' = [index EXCEPT ![b][y] = index[b][y] \ {o}]
    BY <1>1, <2>3 DEF RemoveLink, ClearSet
  <2>5. QED
    BY <2>1, <2>4 DEF LinksOK
<1>2. CASE ~ (o \in mapped /\ context[o] # NoCred)
  BY <1>2 DEF RemoveLink
<1>3. QED
  BY <1>1, <1>2

LEMMA OpenStep ==
    ASSUME TypeOK, StartedInv, RegistryInv, OpenInv, [Next]_vars
    PROVE  OpenInv'
<1> SUFFICES ASSUME NEW c \in Conns, net'[c] = "open"
             PROVE  /\ granted'[c] # {} => c \in mapped' /\ context'[c] # NoCred
                    /\ \A p \in granted'[c] : c \in index'[BrokerOf[c]][p.client]
  BY DEF OpenInv
<1>1. BrokerOf[c] \in Brokers
  BY BrokerAssumption
<1>2. granted[c] \subseteq Credentials
  BY DEF TypeOK, LinksOK
<1>3. CASE UNCHANGED links
  <2>1. net[c] = "open" \/ granted[c] = {}
    BY NetStep DEF StartedInv
  <2>2. QED
    BY <1>3, <2>1 DEF links, OpenInv
<1>4. CASE ~ UNCHANGED links
  <2>1. net[c] = "open"
    BY <1>4, NetStep
  <2>2. /\ granted[c] # {} => c \in mapped /\ context[c] # NoCred
        /\ \A p \in granted[c] : c \in index[BrokerOf[c]][p.client]
    BY <2>1 DEF OpenInv
  <2>3. ASSUME NEW o \in Conns, TouchLink(o)
        PROVE  mapped \subseteq mapped' /\ UNCHANGED <<context, index, granted>>
    BY <2>3 DEF TouchLink
  <2>4. ASSUME NEW o \in Conns, NEW cred \in Offers[o], BindLink(o, cred), Accepted(o, cred)
        PROVE  /\ granted'[c] # {} => c \in mapped' /\ context'[c] # NoCred
               /\ \A p \in granted'[c] : c \in index'[BrokerOf[c]][p.client]
    <3>1. cred \in Credentials /\ BrokerOf[o] \in Brokers
      BY BrokerAssumption
    <3>2. cred.client \in Clients /\ cred # NoCred
      BY <3>1, CredentialParts
    <3>3. \A b \in Brokers, x \in Clients : index[b][x] \subseteq index'[b][x]
      BY <2>4, <3>1, <3>2 DEF BindLink, TypeOK, LinksOK
    <3>4. \A p \in granted[c] : c \in index'[BrokerOf[c]][p.client]
      BY <1>1, <1>2, <2>2, <3>3, CredentialParts
    <3>5. CASE c = o
      <4>1. c \in mapped' /\ context'[c] = cred /\ granted'[c] = granted[c] \cup {cred}
        BY <2>4, <3>5 DEF BindLink, Accepted, TypeOK, LinksOK
      <4>2. c \in index'[BrokerOf[c]][cred.client]
        BY <2>4, <3>1, <3>2, <3>5 DEF BindLink, TypeOK, LinksOK
      <4>3. QED
        BY <3>2, <3>4, <4>1, <4>2
    <3>6. CASE c # o
      <4>1. /\ mapped \subseteq mapped' /\ context'[c] = context[c]
            /\ granted'[c] = granted[c]
        BY <2>4, <3>6 DEF BindLink, Accepted, TypeOK, LinksOK
      <4>2. QED
        BY <2>2, <3>4, <4>1
    <3>7. QED
      BY <3>5, <3>6
  <2>5. ASSUME NEW o \in Conns, RemoveLink(o), net' = [net EXCEPT ![o] = "gone"]
        PROVE  /\ granted'[c] # {} => c \in mapped' /\ context'[c] # NoCred
               /\ \A p \in granted'[c] : c \in index'[BrokerOf[c]][p.client]
    <3>1. c # o
      BY <2>5 DEF TypeOK, SocketsOK
    <3>2. /\ granted' = granted /\ context'[c] = context[c]
          /\ c \in mapped => c \in mapped'
      BY <2>5, <3>1 DEF RemoveLink, TypeOK, LinksOK
    <3>3. \A p \in granted[c] : c \in index'[BrokerOf[c]][p.client]
      BY <1>2, <2>2, <2>5, <3>1, CredentialParts, OthersStayIndexed DEF TypeOK, RegistryInv
    <3>4. QED
      BY <2>2, <3>2, <3>3
  <2>6. ASSUME NEW b \in Brokers, Crash(b)
        PROVE  /\ granted'[c] # {} => c \in mapped' /\ context'[c] # NoCred
               /\ \A p \in granted'[c] : c \in index'[BrokerOf[c]][p.client]
    <3>1. BrokerOf[c] # b
      BY <2>1, <2>6 DEF Crash
    <3>2. /\ granted' = granted /\ context'[c] = context[c]
          /\ c \in mapped => c \in mapped'
          /\ index'[BrokerOf[c]] = index[BrokerOf[c]]
      BY <1>1, <2>6, <3>1 DEF Crash, TypeOK, LinksOK
    <3>3. QED
      BY <2>2, <3>2
  <2>7. RegistryStep
    BY StepIsRegistryStep
  <2>8. CASE \E o \in Conns : TouchLink(o)
    BY <2>2, <2>3, <2>8
  <2>9. QED
    BY <1>4, <2>4, <2>5, <2>6, <2>7, <2>8 DEF RegistryStep
<1>5. QED
  BY <1>3, <1>4

\* However late an answer of AuthServer, whatever other connections of the user
\* close: an authenticated connection that is up is bound and can be reached
\* through the set of its user.
THEOREM OpenLinksReachable == Spec => []OpenInv
<1>1. Init => OpenInv
  BY DEF Init, OpenInv
<1>2. TypeOK /\ StartedInv /\ RegistryInv /\ OpenInv /\ [Next]_vars => OpenInv'
  BY OpenStep
<1>3. QED
  BY <1>1, <1>2, TypeCorrect, StartedAlways, RegistriesAgree, PTL DEF Spec
=============================================================================
