--------------------------- MODULE DeliveryProofs ---------------------------
(***************************************************************************)
(* Theorems about Delivery, for every set of connections, brokers, users   *)
(* and device types.                                                       *)
(***************************************************************************)
EXTENDS Delivery, BrokerProofs

-----------------------------------------------------------------------------
(***************************************************************************)
(* The brokers behave in the composition as they do on their own.          *)
(***************************************************************************)

LEMMA DeliveryStepIsBrokerStep ==
    ASSUME [DeliveryNext]_deliveryVars
    PROVE  [Next]_vars
<1>1. CASE BrokerStep
  BY <1>1 DEF BrokerStep, Next
<1>2. CASE BusinessStep
  BY <1>2 DEF BusinessStep
<1>3. CASE UNCHANGED deliveryVars
  BY <1>3 DEF deliveryVars
<1>4. QED
  BY <1>1, <1>2, <1>3 DEF DeliveryNext

\* Whatever the business servers do, the brokers implement Broker; all that
\* is proved of Broker therefore holds in the composition.
THEOREM BrokersUnaffected == DeliverySpec => Spec
<1>1. DeliveryInit => Init
  BY DEF DeliveryInit
<1>2. [DeliveryNext]_deliveryVars => [Next]_vars
  BY DeliveryStepIsBrokerStep
<1>3. QED
  BY <1>1, <1>2, PTL DEF DeliverySpec, Spec

-----------------------------------------------------------------------------
(***************************************************************************)
(* What a business server works on is well typed.                          *)
(***************************************************************************)

DeliveryState == chats \subseteq Chats /\ got \subseteq Copies

LEMMA ServedType ==
    ASSUME NEW h \in Chats, NEW d \in DeviceTypes
    PROVE  /\ Served(h, d) \in Chats
           /\ [Served(h, d) EXCEPT !.failed = TRUE] \in Chats
           /\ Served(h, d).msg = h.msg
           /\ Served(h, d).from = h.from
           /\ Served(h, d).to = h.to
           /\ Served(h, d).stage = h.stage
           /\ \A e \in DeviceTypes :
                 Served(h, d).links[e] \in {h.links[e], NoConn}
<1>1. [h.links EXCEPT ![d] = NoConn] \in Rows
  BY DEF Chats, Rows
<1>2. Served(h, d) = [h EXCEPT !.links = [h.links EXCEPT ![d] = NoConn]]
  BY DEF Served
<1>3. QED
  BY <1>1, <1>2 DEF Chats, Rows

\* What is read of Redis.
LEMMA SnapshotRows ==
    ASSUME TypeOK, NEW x \in Clients
    PROVE  Snapshots(x) \subseteq Rows /\ NoRow \in Rows
  BY DEF TypeOK, LinksOK, Rows, NoRow, Snapshots

LEMMA CopyType ==
    ASSUME NEW c \in Conns, NEW h \in Chats, NEW x \in Clients, NEW o \in Conns
    PROVE  CopyFor(c, h, x, o) \in Copies
  BY DEF CopyFor, Copies, Chats

LEMMA SyncedType ==
    ASSUME LinksOK, NEW h \in Chats, NEW b \in Brokers
    PROVE  Synced(h, b) \subseteq Conns
<1>1. h.from.client \in Clients
  BY CredentialParts DEF Chats
<1>2. QED
  BY <1>1 DEF Synced, LinksOK

LEMMA BusinessType ==
    ASSUME TypeOK, DeliveryState, BusinessStep
    PROVE  DeliveryState'
<1> USE DEF DeliveryState
<1>1. ASSUME NEW r \in rpc, NEW to \in Clients, Receive(r, to)
      PROVE  DeliveryState'
  <2>1. r.conn \in Conns /\ r.n \in Nat /\ r.cred \in Credentials
    BY DEF TypeOK, CallsOK
  <2>2. Snapshots(to) \subseteq Rows /\ NoRow \in Rows
    BY SnapshotRows
  <2>3. PICK row \in Snapshots(to) :
           /\ chats' = chats \cup
                {[msg |-> <<r.conn, r.n>>, from |-> r.cred, to |-> to,
                  stage |-> "dispatch", links |-> row,
                  recipient |-> row, self |-> NoRow, failed |-> FALSE]}
           /\ got' = got
    BY <1>1 DEF Receive
  <2>4. [msg |-> <<r.conn, r.n>>, from |-> r.cred, to |-> to,
         stage |-> "dispatch", links |-> row,
         recipient |-> row, self |-> NoRow, failed |-> FALSE] \in Chats
    BY <2>1, <2>2 DEF Chats
  <2>5. QED
    BY <2>3, <2>4
<1>2. ASSUME NEW h \in chats, NEW d \in DeviceTypes, Push(h, d)
      PROVE  DeliveryState'
  <2>1. h \in Chats /\ h.links[d] \in Conns /\ h.to \in Clients
    BY <1>2 DEF Push, Entries, Chats, Rows
  <2>2. \A c \in Found(h.links[d]) : CopyFor(c, h, h.to, h.links[d]) \in Copies
    BY <2>1, CopyType DEF Found, TypeOK, LinksOK
  <2>3. QED
    BY <1>2, <2>1, <2>2, ServedType DEF Push, Becomes
<1>3. ASSUME NEW h \in chats, NEW d \in DeviceTypes, Sync(h, d)
      PROVE  DeliveryState'
  <2>1. /\ h \in Chats /\ h.links[d] \in Conns /\ h.from.client \in Clients
        /\ BrokerOf[h.links[d]] \in Brokers
    BY <1>3, CredentialParts, BrokerAssumption DEF Sync, Entries, Chats, Rows
  <2>2. \A c \in Synced(h, BrokerOf[h.links[d]]) :
            CopyFor(c, h, h.from.client, h.links[d]) \in Copies
    BY <2>1, SyncedType, CopyType DEF TypeOK
  <2>3. QED
    BY <1>3, <2>1, <2>2, ServedType DEF Sync, Becomes
<1>4. ASSUME NEW h \in chats, NEW d \in DeviceTypes, SkipOwn(h, d) \/ CallFails(h, d)
      PROVE  DeliveryState'
  BY <1>4, ServedType DEF SkipOwn, CallFails, Becomes
<1>5. ASSUME NEW h \in chats, TurnToSelf(h) \/ Finish(h)
      PROVE  DeliveryState'
  <2>1. h \in Chats
    OBVIOUS
  <2>2. h.from.client \in Clients
    BY <2>1, CredentialParts DEF Chats
  <2>3. Snapshots(h.from.client) \subseteq Rows
    BY <2>2, SnapshotRows
  <2>4. CASE TurnToSelf(h)
    <3>0. PICK row \in Snapshots(h.from.client) :
             Becomes(h, IF Cardinality(Entries(row)) <= 1
                        THEN [h EXCEPT !.stage = "done", !.self = row]
                        ELSE [h EXCEPT !.stage = "self", !.self = row, !.links = row])
      BY <2>4 DEF TurnToSelf
    <3> DEFINE over == [h EXCEPT !.stage = "done", !.self = row]
               on == [h EXCEPT !.stage = "self", !.self = row, !.links = row]
    <3>1. over \in Chats /\ on \in Chats
      BY <2>1, <2>3 DEF Chats
    <3>2. chats' = (chats \ {h}) \cup {over} \/ chats' = (chats \ {h}) \cup {on}
      BY <3>0 DEF Becomes
    <3>3. got' = got
      BY <2>4 DEF TurnToSelf
    <3> HIDE DEF over, on
    <3>4. QED
      BY <3>1, <3>2, <3>3
  <2>5. CASE Finish(h)
    BY <2>1, <2>5 DEF Finish, Becomes, Chats
  <2>6. QED
    BY <1>5, <2>4, <2>5
<1>6. QED
  BY <1>1, <1>2, <1>3, <1>4, <1>5 DEF BusinessStep

\* Requests in work and written copies are well typed.
THEOREM DeliveryTypeCorrect == DeliverySpec => []DeliveryTypeOK
<1>1. DeliveryInit => DeliveryState
  BY DEF DeliveryInit, DeliveryState
<1>2. TypeOK /\ DeliveryState /\ [DeliveryNext]_deliveryVars => DeliveryState'
  <2>1. TypeOK /\ DeliveryState /\ BusinessStep => DeliveryState'
    BY BusinessType
  <2>2. DeliveryState /\ (BrokerStep \/ UNCHANGED deliveryVars) => DeliveryState'
    BY DEF DeliveryState, BrokerStep, deliveryVars, Chats, Rows, Copies
  <2>3. QED
    BY <2>1, <2>2 DEF DeliveryNext
<1>3. TypeOK /\ DeliveryState => DeliveryTypeOK
  BY DEF DeliveryState, DeliveryTypeOK
<1>4. QED
  BY <1>1, <1>2, <1>3, BrokersUnaffected, TypeCorrect, PTL DEF DeliverySpec

-----------------------------------------------------------------------------
(***************************************************************************)
(* No message reaches a connection that is not its user's.                 *)
(***************************************************************************)

\* x signed in on c at some time.
Owned(c, x) == \E p \in granted[c] : p.client = x

\* All that names a connection for a user names one the user signed in on:
\* the index, Redis, and the snapshots taken from it.
OwnedInv ==
    /\ \A b \in Brokers, x \in Clients : \A c \in index[b][x] : Owned(c, x)
    /\ \A x \in Clients, d \in DeviceTypes :
          presence[x][d] # NoConn => Owned(presence[x][d], x)

\* Of two connections with one uid on one broker, one died with its process.
UidsApart ==
    \A c, o \in Conns :
        c # o /\ SameUid(c, o) /\ net[c] # "idle" /\ net[o] # "idle" =>
            c \in dead \/ o \in dead

PendingInv ==
    \A h \in chats : h.stage = "dispatch" =>
        \A d \in DeviceTypes : h.links[d] # NoConn => Owned(h.links[d], h.to)

LEMMA OwnedGrows ==
    ASSUME TypeOK, [Next]_vars, NEW c \in Conns, NEW x, Owned(c, x)
    PROVE  Owned(c, x)'
  BY GrantedGrows DEF Owned

\* What died stays dead.
LEMMA DeadGrows ==
    ASSUME TypeOK, [Next]_vars
    PROVE  dead \subseteq dead'
  BY StepIsRegistryStep DEF RegistryStep, links, TouchLink, Accepted, RemoveLink, Crash

LEMMA UidsApartStep ==
    ASSUME TypeOK, UidsApart, [DeliveryNext]_deliveryVars
    PROVE  UidsApart'
<1>1. [Next]_vars /\ dead \subseteq dead'
  BY DeliveryStepIsBrokerStep, DeadGrows
<1>2. CASE BrokerStep
  <2> SUFFICES ASSUME NEW c \in Conns, NEW o \in Conns, c # o, SameUid(c, o),
                      net'[c] # "idle", net'[o] # "idle"
               PROVE  c \in dead' \/ o \in dead'
    BY DEF UidsApart, SameUid
  <2>1. SameUid(o, c)
    BY DEF SameUid
  <2>2. CASE net[c] = "idle" \/ net[o] = "idle"
    BY <1>1, <1>2, <2>1, <2>2 DEF BrokerStep, UidsFresh
  <2>3. CASE net[c] # "idle" /\ net[o] # "idle"
    BY <1>1, <2>3 DEF UidsApart
  <2>4. QED
    BY <2>2, <2>3
<1>3. CASE BusinessStep \/ UNCHANGED deliveryVars
  BY <1>3 DEF BusinessStep, deliveryVars, vars, UidsApart, SameUid
<1>4. QED
  BY <1>2, <1>3 DEF DeliveryNext

\* What a broker finds under a uid is the connection that was meant, or the
\* one that took over the uid of a dead one.
LEMMA FoundOwnOrAstray ==
    ASSUME TypeOK, StartedInv, UidsApart, NEW o \in Conns, NEW x, Owned(o, x),
           NEW c \in Found(o)
    PROVE  c = o \/ (o \in dead /\ o # c /\ SameUid(o, c))
<1>1. c \in mapped /\ c \in Conns /\ SameUid(c, o) /\ SameUid(o, c)
  BY DEF Found, TypeOK, LinksOK, SameUid
<1>2. net[c] # "idle" /\ c \notin dead
  BY <1>1 DEF StartedInv, Alive
<1>3. net[o] # "idle"
  BY DEF StartedInv, Owned
<1>4. QED
  BY <1>1, <1>2, <1>3 DEF UidsApart

LEMMA OwnedInvStep ==
    ASSUME TypeOK, OwnedInv, [Next]_vars
    PROVE  OwnedInv'
<1>1. RegistryStep
  BY StepIsRegistryStep
<1>2. \A b \in Brokers, x \in Clients : index[b][x] \subseteq Conns
  BY DEF TypeOK, LinksOK
<1>3. \A x \in Clients, d \in DeviceTypes : presence[x][d] \in Conns \cup {NoConn}
  BY DEF TypeOK, LinksOK
<1>4. ASSUME \A b \in Brokers, x \in Clients : index'[b][x] \subseteq index[b][x],
             \A x \in Clients, d \in DeviceTypes :
                 presence'[x][d] = presence[x][d] \/ presence'[x][d] = NoConn
      PROVE  OwnedInv'
  BY <1>2, <1>3, <1>4, OwnedGrows DEF OwnedInv
<1>5. CASE UNCHANGED links \/ (\E c \in Conns : TouchLink(c)) \/ (\E b \in Brokers : Crash(b))
  <2>1. \A b \in Brokers, x \in Clients : index'[b][x] \subseteq index[b][x]
    BY <1>5 DEF links, TouchLink, Crash, TypeOK, LinksOK
  <2>2. presence' = presence
    BY <1>5 DEF links, TouchLink, Crash
  <2>3. QED
    BY <1>4, <2>1, <2>2
<1>6. ASSUME NEW c \in Conns, RemoveLink(c)
      PROVE  OwnedInv'
  <2>1. CASE c \in mapped /\ context[c] # NoCred
    <3> DEFINE b == BrokerOf[c]
               x == context[c].client
               dev == context[c].device
    <3>1. /\ b \in Brokers /\ x \in Clients /\ dev \in DeviceTypes
          /\ context[c] \in Credentials
      BY <2>1, CredentialParts, BrokerAssumption DEF TypeOK, LinksOK
    <3>2. /\ index' = [index EXCEPT ![b][x] = EraseUid(index[b][x], c)]
          /\ DeleteField(c, context[c])
      BY <1>6, <2>1 DEF RemoveLink, ClearSet
    <3>3. EraseUid(index[b][x], c) \subseteq index[b][x]
      BY DEF EraseUid
    <3>4. \A e \in Brokers, y \in Clients : index'[e][y] \subseteq index[e][y]
      BY <3>1, <3>2, <3>3 DEF TypeOK, LinksOK
    <3>5. \A y \in Clients, d \in DeviceTypes :
              presence'[y][d] = presence[y][d] \/ presence'[y][d] = NoConn
      BY <3>1, <3>2, DeleteFieldCases DEF TypeOK
    <3>6. QED
      BY <1>4, <3>4, <3>5
  <2>2. CASE ~ (c \in mapped /\ context[c] # NoCred)
    BY <1>4, <1>6, <2>2 DEF RemoveLink
  <2>3. QED
    BY <2>1, <2>2
<1>7. ASSUME NEW c \in Conns, NEW cred \in Offers[c], BindLink(c, cred), Accepted(c, cred)
      PROVE  OwnedInv'
  <2> DEFINE b == BrokerOf[c]
             x == cred.client
  <2>1. /\ b \in Brokers /\ x \in Clients /\ cred.device \in DeviceTypes
        /\ cred \in Credentials /\ SetField(c, cred)
    BY <1>7, CredentialParts, BrokerAssumption DEF BindLink
  <2>2. \A e \in Brokers, y \in Clients :
            index'[e][y] = IF e = b /\ y = x THEN index[b][x] \cup {c} ELSE index[e][y]
    BY <1>7, <2>1 DEF BindLink, TypeOK, LinksOK
  <2>3. \A y \in Clients, d \in DeviceTypes :
            presence'[y][d] = presence[y][d] \/ (y = x /\ presence'[y][d] = c)
    <3>1. LinksOK /\ SetField(c, cred) /\ cred \in Credentials
      BY <2>1 DEF TypeOK
    <3>2. \A y \in Clients, d \in DeviceTypes :
              \/ presence'[y][d] = presence[y][d]
              \/ y = cred.client /\ d = cred.device /\ presence'[y][d] = c
      BY <3>1, SetFieldCases
    <3>3. QED
      BY <3>2
  <2>4. cred \in granted'[c]
    BY <1>7 DEF Accepted, TypeOK, LinksOK
  <2>5. Owned(c, x)'
    BY <2>4 DEF Owned
  <2>6. \A e \in Brokers, y \in Clients : \A o \in index'[e][y] : Owned(o, y)'
    BY <1>2, <2>2, <2>5, OwnedGrows DEF OwnedInv
  <2>7. \A y \in Clients, d \in DeviceTypes, o \in Conns :
            presence'[y][d] = o => Owned(o, y)'
    BY <1>3, <2>3, <2>5, OwnedGrows, BrokerAssumption DEF OwnedInv
  <2>8. \A y \in Clients, d \in DeviceTypes : presence'[y][d] \in Conns \cup {NoConn}
    BY <1>3, <2>3
  <2>9. QED
    BY <2>6, <2>7, <2>8 DEF OwnedInv, Owned
<1>8. QED
  BY <1>1, <1>5, <1>6, <1>7 DEF RegistryStep

LEMMA OwnCopiesStep ==
    ASSUME TypeOK, StartedInv, DeliveryState, UidsApart, OwnedInv, PendingInv,
           DeliveredToOwn, [DeliveryNext]_deliveryVars
    PROVE  PendingInv' /\ DeliveredToOwn'
<1>1. CASE BrokerStep \/ UNCHANGED deliveryVars
  <2>1. chats' = chats /\ got' = got
    BY <1>1 DEF BrokerStep, deliveryVars
  <2>2. \A c \in Conns, x \in Clients : Owned(c, x) => Owned(c, x)'
    BY OwnedGrows, DeliveryStepIsBrokerStep
  <2>3. PendingInv'
    BY <2>1, <2>2 DEF PendingInv, DeliveryState, Chats, Rows
  <2>4. \A g \in got : Astray(g) => Astray(g)'
    BY DeadGrows, DeliveryStepIsBrokerStep DEF Astray, SameUid
  <2>5. DeliveredToOwn'
    BY <2>1, <2>2, <2>4 DEF DeliveredToOwn, Owned, DeliveryState, Copies
  <2>6. QED
    BY <2>3, <2>5
<1>2. CASE BusinessStep
  <2>1. granted' = granted /\ \A g : Astray(g)' <=> Astray(g)
    BY <1>2 DEF BusinessStep, vars, Astray, SameUid
  <2>2. ASSUME NEW h \in chats, NEW g, Becomes(h, g),
               g.stage = "dispatch" =>
                   /\ h.stage = "dispatch"
                   /\ g.to = h.to
                   /\ \A d \in DeviceTypes : g.links[d] \in {h.links[d], NoConn}
        PROVE  PendingInv'
    BY <2>1, <2>2 DEF PendingInv, Becomes, Owned
  <2>3. ASSUME NEW r \in rpc, NEW to \in Clients, Receive(r, to)
        PROVE  PendingInv' /\ DeliveredToOwn'
    <3>1. \A row \in Snapshots(to), d \in DeviceTypes :
              row[d] # NoConn => Owned(row[d], to)
      BY DEF Snapshots, NoRow, OwnedInv
    <3>2. got' = got
      BY <2>3 DEF Receive
    <3>3. PICK row \in Snapshots(to) :
             chats' = chats \cup
                {[msg |-> <<r.conn, r.n>>, from |-> r.cred, to |-> to,
                  stage |-> "dispatch", links |-> row,
                  recipient |-> row, self |-> NoRow, failed |-> FALSE]}
      BY <2>3 DEF Receive
    <3>4. \A h \in chats' : h \in chats \/ (h.to = to /\ h.links = row)
      BY <3>3
    <3>5. PendingInv'
      BY <2>1, <3>1, <3>4 DEF PendingInv, Owned
    <3>6. QED
      BY <2>1, <3>2, <3>5 DEF DeliveredToOwn
  <2>4. ASSUME NEW h \in chats, NEW d \in DeviceTypes, Push(h, d)
        PROVE  PendingInv' /\ DeliveredToOwn'
    <3>1. PendingInv'
      BY <2>2, <2>4, ServedType DEF Push, DeliveryState
    <3>2. Owned(h.links[d], h.to) /\ h.links[d] \in Conns
      BY <2>4 DEF Push, PendingInv, Entries, DeliveryState, Chats, Rows
    <3>3. \A g \in got' \ got :
              g.conn \in Found(h.links[d]) /\ g.to = h.to /\ g.via = h.links[d]
      BY <2>4 DEF Push, CopyFor
    <3>4. \A g \in got' \ got : g.conn = h.links[d] \/ Astray(g)
      BY <3>2, <3>3, FoundOwnOrAstray DEF Astray
    <3>5. DeliveredToOwn'
      BY <2>1, <3>2, <3>3, <3>4 DEF DeliveredToOwn, Owned
    <3>6. QED
      BY <3>1, <3>5
  <2>5. ASSUME NEW h \in chats, NEW d \in DeviceTypes, Sync(h, d)
        PROVE  PendingInv' /\ DeliveredToOwn'
    <3>1. PendingInv'
      BY <2>2, <2>5, ServedType DEF Sync, DeliveryState
    <3>2. h \in Chats /\ h.links[d] \in Conns /\ h.from.client \in Clients
          /\ BrokerOf[h.links[d]] \in Brokers
      BY <2>5, CredentialParts, BrokerAssumption
         DEF Sync, Entries, DeliveryState, Chats, Rows
    <3>3. \A c \in Synced(h, BrokerOf[h.links[d]]) : Owned(c, h.from.client)
      BY <3>2 DEF Synced, OwnedInv
    <3>4. \A g \in got' \ got : g.conn \in Synced(h, BrokerOf[h.links[d]])
                                /\ g.to = h.from.client
      BY <2>5 DEF Sync, CopyFor
    <3>5. DeliveredToOwn'
      BY <2>1, <3>3, <3>4 DEF DeliveredToOwn, Owned
    <3>6. QED
      BY <3>1, <3>5
  <2>6. ASSUME NEW h \in chats, NEW d \in DeviceTypes, SkipOwn(h, d) \/ CallFails(h, d)
        PROVE  PendingInv' /\ DeliveredToOwn'
    <3>1. PendingInv'
      BY <2>2, <2>6, ServedType DEF SkipOwn, CallFails, DeliveryState, Chats
    <3>2. got' = got
      BY <2>6 DEF SkipOwn, CallFails
    <3>3. QED
      BY <2>1, <3>1, <3>2 DEF DeliveredToOwn
  <2>7. ASSUME NEW h \in chats, TurnToSelf(h) \/ Finish(h)
        PROVE  PendingInv' /\ DeliveredToOwn'
    <3>1. PendingInv'
      BY <2>2, <2>7 DEF TurnToSelf, Finish, DeliveryState, Chats
    <3>2. got' = got
      BY <2>7 DEF TurnToSelf, Finish
    <3>3. QED
      BY <2>1, <3>1, <3>2 DEF DeliveredToOwn
  <2>8. QED
    BY <1>2, <2>3, <2>4, <2>5, <2>6, <2>7 DEF BusinessStep
<1>3. QED
  BY <1>1, <1>2 DEF DeliveryNext

OwnedCopies == UidsApart /\ OwnedInv /\ PendingInv /\ DeliveredToOwn

LEMMA OwnedCopiesAlways == DeliverySpec => []OwnedCopies
<1>1. DeliveryInit => OwnedCopies
  BY DEF DeliveryInit, Init, OwnedCopies, UidsApart, OwnedInv, PendingInv, DeliveredToOwn
<1>2. TypeOK /\ StartedInv /\ DeliveryState /\ OwnedCopies
          /\ [DeliveryNext]_deliveryVars => OwnedCopies'
  BY UidsApartStep, OwnedInvStep, OwnCopiesStep, DeliveryStepIsBrokerStep DEF OwnedCopies
<1>3. DeliveryTypeOK => TypeOK /\ DeliveryState
  BY DEF DeliveryTypeOK, DeliveryState
<1>4. QED
  BY <1>1, <1>2, <1>3, DeliveryTypeCorrect, BrokersUnaffected, StartedAlways, PTL
     DEF DeliverySpec

\* Relogins, closes, crashes and stale snapshots notwithstanding, a message is
\* only written to a connection its user signed in on, or to one that was given
\* the uid of a connection Redis still names although its process died.
THEOREM DeliveredToOwnAlways == DeliverySpec => []DeliveredToOwn
<1>1. DeliverySpec => []OwnedCopies
  BY OwnedCopiesAlways
<1>2. OwnedCopies => DeliveredToOwn
  BY DEF OwnedCopies
<1>3. QED
  BY <1>1, <1>2, PTL

-----------------------------------------------------------------------------
(***************************************************************************)
(* No message goes back to the connection it came from.                    *)
(***************************************************************************)

\* A request in work was sent by a connection of its sender.
SenderInv == \A h \in chats : h.from \in granted[h.msg[1]]

\* The sender wrote to himself.
ToHimself(msg) == \E h \in chats : h.msg = msg /\ h.to = h.from.client

EchoFree ==
    \A g \in got : g.conn = g.msg[1] /\ OneIdentity(g.conn) =>
        ToHimself(g.msg) \/ Astray(g)

LEMMA EchoStep ==
    ASSUME TypeOK, StartedInv, DeliveryState, UidsApart,
           PendingInv, ServedAsAuthenticated, SenderInv, EchoFree,
           [DeliveryNext]_deliveryVars
    PROVE  SenderInv' /\ EchoFree'
<1>1. CASE BrokerStep \/ UNCHANGED deliveryVars
  <2>1. chats' = chats /\ got' = got
    BY <1>1 DEF BrokerStep, deliveryVars
  <2>2. \A c \in Conns : granted[c] \subseteq granted'[c]
    BY GrantedGrows, DeliveryStepIsBrokerStep
  <2>3. \A g : (Astray(g) => Astray(g)') /\ (ToHimself(g.msg) => ToHimself(g.msg)')
    BY <2>1, DeadGrows, DeliveryStepIsBrokerStep DEF Astray, SameUid, ToHimself
  <2>4. \A g \in got : OneIdentity(g.conn)' => OneIdentity(g.conn)
    BY <2>2 DEF OneIdentity, DeliveryState, Copies
  <2>5. QED
    BY <2>1, <2>2, <2>3, <2>4 DEF SenderInv, EchoFree, DeliveryState, Chats
<1>2. CASE BusinessStep
  <2>1. granted' = granted /\ \A g : Astray(g)' <=> Astray(g)
    BY <1>2 DEF BusinessStep, vars, Astray, SameUid
  <2>2. ASSUME NEW h \in chats, NEW k, Becomes(h, k),
               k.msg = h.msg, k.from = h.from, k.to = h.to
        PROVE  /\ SenderInv'
               /\ \A msg : ToHimself(msg) => ToHimself(msg)'
    <3>1. k \in chats' /\ \A f \in chats : f # h => f \in chats'
      BY <2>2 DEF Becomes
    <3>2. ASSUME NEW msg, ToHimself(msg)
          PROVE  ToHimself(msg)'
      BY <2>2, <3>1, <3>2 DEF ToHimself
    <3>3. SenderInv'
      BY <2>1, <2>2 DEF SenderInv, Becomes
    <3>4. QED
      BY <3>2, <3>3
  <2>3. ASSUME got' = got, \A msg : ToHimself(msg) => ToHimself(msg)'
        PROVE  EchoFree'
    BY <2>1, <2>3 DEF EchoFree, OneIdentity
  <2>4. ASSUME NEW r \in rpc, NEW to \in Clients, Receive(r, to)
        PROVE  SenderInv' /\ EchoFree'
    <3>1. PICK row \in Snapshots(to) :
             /\ chats' = chats \cup
                  {[msg |-> <<r.conn, r.n>>, from |-> r.cred, to |-> to,
                    stage |-> "dispatch", links |-> row,
                    recipient |-> row, self |-> NoRow, failed |-> FALSE]}
             /\ got' = got
      BY <2>4 DEF Receive
    <3>2. SenderInv'
      BY <2>1, <3>1 DEF SenderInv, ServedAsAuthenticated
    <3>3. \A msg : ToHimself(msg) => ToHimself(msg)'
      BY <3>1 DEF ToHimself
    <3>4. QED
      BY <2>3, <3>1, <3>2, <3>3
  <2>5. ASSUME NEW h \in chats, NEW d \in DeviceTypes, Push(h, d)
        PROVE  SenderInv' /\ EchoFree'
    <3> DEFINE o == h.links[d]
    <3>1. h \in Chats /\ Served(h, d).msg = h.msg /\ Served(h, d).from = h.from
          /\ Served(h, d).to = h.to /\ Becomes(h, Served(h, d))
      BY <2>5, ServedType DEF Push, DeliveryState
    <3>2. SenderInv' /\ \A msg : ToHimself(msg) => ToHimself(msg)'
      BY <2>2, <3>1
    <3>3. o # NoConn /\ o \in Conns /\ h.msg[1] \in Conns
      BY <2>5 DEF Push, Entries, DeliveryState, Chats, Rows
    <3>4. Owned(o, h.to)
      BY <2>5, <3>3 DEF Push, PendingInv
    <3>5. \A g \in got' \ got : g.conn \in Found(o) /\ g.msg = h.msg /\ g.via = o
      BY <2>5 DEF Push, CopyFor
    <3>6. ASSUME o = h.msg[1], OneIdentity(o)
          PROVE  ToHimself(h.msg)
      <4>1. PICK p \in granted[o] : p.client = h.to
        BY <3>4 DEF Owned
      <4>2. h.from \in granted[o]
        BY <3>6 DEF SenderInv
      <4>3. h.to = h.from.client
        BY <3>6, <4>1, <4>2 DEF OneIdentity
      <4>4. QED
        BY <4>3 DEF ToHimself
    <3>7. \A g \in got' \ got : g.conn = o \/ Astray(g)
      BY <3>3, <3>4, <3>5, FoundOwnOrAstray DEF Astray
    <3>8. EchoFree'
      <4> SUFFICES ASSUME NEW g \in got', g.conn = g.msg[1], OneIdentity(g.conn)
                   PROVE  ToHimself(g.msg)' \/ Astray(g)'
        BY <2>1 DEF EchoFree, OneIdentity
      <4>1. CASE g \in got
        BY <2>1, <3>2, <4>1 DEF EchoFree
      <4>2. CASE g \notin got
        BY <2>1, <3>2, <3>5, <3>6, <3>7, <4>2
      <4>3. QED
        BY <4>1, <4>2
    <3>9. QED
      BY <3>2, <3>8
  <2>6. ASSUME NEW h \in chats, NEW d \in DeviceTypes, Sync(h, d)
        PROVE  SenderInv' /\ EchoFree'
    <3>1. h \in Chats /\ Served(h, d).msg = h.msg /\ Served(h, d).from = h.from
          /\ Served(h, d).to = h.to /\ Becomes(h, Served(h, d))
      BY <2>6, ServedType DEF Sync, DeliveryState
    <3>2. SenderInv' /\ \A msg : ToHimself(msg) => ToHimself(msg)'
      BY <2>2, <3>1
    <3>3. \A g \in got' \ got : g.conn # g.msg[1]
      BY <2>6 DEF Sync, CopyFor, Synced
    <3>4. EchoFree'
      BY <2>1, <3>2, <3>3 DEF EchoFree, OneIdentity
    <3>5. QED
      BY <3>2, <3>4
  <2>7. ASSUME NEW h \in chats, NEW d \in DeviceTypes, SkipOwn(h, d) \/ CallFails(h, d)
        PROVE  SenderInv' /\ EchoFree'
    <3>1. SenderInv' /\ \A msg : ToHimself(msg) => ToHimself(msg)'
      BY <2>2, <2>7, ServedType DEF SkipOwn, CallFails, DeliveryState, Chats
    <3>2. got' = got
      BY <2>7 DEF SkipOwn, CallFails
    <3>3. QED
      BY <2>3, <3>1, <3>2
  <2>8. ASSUME NEW h \in chats, TurnToSelf(h) \/ Finish(h)
        PROVE  SenderInv' /\ EchoFree'
    <3>1. h \in Chats
      BY DEF DeliveryState
    <3>2. SenderInv' /\ \A msg : ToHimself(msg) => ToHimself(msg)'
      BY <2>2, <2>8, <3>1 DEF TurnToSelf, Finish, Chats
    <3>3. got' = got
      BY <2>8 DEF TurnToSelf, Finish
    <3>4. QED
      BY <2>3, <3>2, <3>3
  <2>9. QED
    BY <1>2, <2>4, <2>5, <2>6, <2>7, <2>8 DEF BusinessStep
<1>3. QED
  BY <1>1, <1>2 DEF DeliveryNext

\* No copy goes back to the connection a message came from, although push looks
\* for nothing but a uid, and sendPackToMySelf and syncMsg compare nothing else -
\* unless the sender wrote to himself, the connection has signed in under a
\* second identity, or it has the uid of one that died.
THEOREM NoEchoAlways == DeliverySpec => []NoEcho
<1>1. DeliveryInit => SenderInv /\ EchoFree
  BY DEF DeliveryInit, SenderInv, EchoFree
<1>2. TypeOK /\ StartedInv /\ DeliveryState /\ OwnedCopies
          /\ ServedAsAuthenticated /\ SenderInv /\ EchoFree
          /\ [DeliveryNext]_deliveryVars => SenderInv' /\ EchoFree'
  BY EchoStep DEF OwnedCopies
<1>3. DeliveryTypeOK => TypeOK /\ DeliveryState
  BY DEF DeliveryTypeOK, DeliveryState
<1>4. EchoFree => NoEcho
  BY DEF EchoFree, ToHimself, NoEcho
<1>5. QED
  BY <1>1, <1>2, <1>3, <1>4, DeliveryTypeCorrect, OwnedCopiesAlways,
     BrokersUnaffected, StartedAlways, ServedAsAuthenticatedAlways, PTL
     DEF DeliverySpec

-----------------------------------------------------------------------------
(***************************************************************************)
(* Who is named in the snapshots and still up gets the message.            *)
(***************************************************************************)

\* What is known of entry d of a snapshot that names c for user x, once its
\* turn has come.
Kept(h, c, x) == Writable(c) => Reached(c, h, x)

RecipientOK(h) ==
    ~ h.failed => \A d \in DeviceTypes : h.recipient[d] # NoConn =>
        /\ Owned(h.recipient[d], h.to)
        /\ h.stage = "dispatch" => h.links[d] \in {h.recipient[d], NoConn}
        /\ h.stage # "dispatch" \/ h.links[d] = NoConn =>
              Kept(h, h.recipient[d], h.to)

NamesItself(h) == \E d \in DeviceTypes : h.self[d] = h.msg[1]

SelfOK(h) ==
    ~ h.failed /\ h.stage # "dispatch" =>
        \A d \in DeviceTypes :
            /\ h.stage = "self" => h.links[d] \in {h.self[d], NoConn}
            /\ h.self[d] # NoConn => Owned(h.self[d], h.from.client)
            /\ /\ h.self[d] # NoConn
               /\ \/ h.stage = "self" /\ h.links[d] = NoConn
                  \/ h.stage = "done" /\ NamesItself(h)
               /\ UidOf[h.self[d]] # UidOf[h.msg[1]]
               => Kept(h, h.self[d], h.from.client)

ReachedInv == \A h \in chats : RecipientOK(h) /\ SelfOK(h)

\* A connection somebody signed in on does not become writable again.
LEMMA WritableBefore ==
    ASSUME TypeOK, StartedInv, OpenInv, [Next]_vars, NEW c \in Conns, NEW x, Owned(c, x),
           Writable(c)'
    PROVE  Writable(c)
<1>1. granted[c] # {} /\ net'[c] = "open"
  BY DEF Owned, Writable
<1>2. net[c] = "open"
  BY <1>1, NetStep DEF StartedInv
<1>3. QED
  BY <1>1, <1>2 DEF OpenInv, Writable

\* What a request has achieved outlives what the brokers do ...
LEMMA BrokersKeepReached ==
    ASSUME TypeOK, StartedInv, OpenInv, [Next]_vars, got \subseteq got',
           NEW h \in Chats, RecipientOK(h), SelfOK(h)
    PROVE  RecipientOK(h)' /\ SelfOK(h)'
<1>1. h.to \in Clients /\ h.from.client \in Clients
  BY CredentialParts DEF Chats
<1>2. \A c \in Conns, x \in Clients : Owned(c, x) => Owned(c, x)'
  BY OwnedGrows
<1>3. \A c \in Conns, x \in Clients : Owned(c, x) /\ Kept(h, c, x) => Kept(h, c, x)'
  <2> SUFFICES ASSUME NEW c \in Conns, NEW x \in Clients, Owned(c, x), Kept(h, c, x),
                      Writable(c)'
               PROVE  Reached(c, h, x)'
    BY DEF Kept
  <2>1. Reached(c, h, x)
    BY WritableBefore DEF Kept
  <2>2. QED
    BY <2>1 DEF Reached
<1>4. RecipientOK(h)'
  <2> SUFFICES ASSUME ~ h.failed, NEW d \in DeviceTypes, h.recipient[d] # NoConn
               PROVE  /\ Owned(h.recipient[d], h.to)'
                      /\ h.stage = "dispatch" => h.links[d] \in {h.recipient[d], NoConn}
                      /\ h.stage # "dispatch" \/ h.links[d] = NoConn =>
                            Kept(h, h.recipient[d], h.to)'
    BY DEF RecipientOK
  <2>1. h.recipient[d] \in Conns
    BY DEF Chats, Rows
  <2>2. QED
    BY <1>1, <1>2, <1>3, <2>1 DEF RecipientOK
<1>5. SelfOK(h)'
  <2> SUFFICES ASSUME ~ h.failed, h.stage # "dispatch", NEW d \in DeviceTypes
               PROVE  /\ h.stage = "self" => h.links[d] \in {h.self[d], NoConn}
                      /\ h.self[d] # NoConn => Owned(h.self[d], h.from.client)'
                      /\ /\ h.self[d] # NoConn
                         /\ \/ h.stage = "self" /\ h.links[d] = NoConn
                            \/ h.stage = "done" /\ NamesItself(h)
                         /\ UidOf[h.self[d]] # UidOf[h.msg[1]]
                         => Kept(h, h.self[d], h.from.client)'
    BY DEF SelfOK, NamesItself
  <2>1. h.self[d] # NoConn => h.self[d] \in Conns
    BY DEF Chats, Rows
  <2>2. QED
    BY <1>1, <1>2, <1>3, <2>1 DEF SelfOK
<1>6. QED
  BY <1>4, <1>5

\* ... and so does what another business server does.
LEMMA RequestMoves ==
    ASSUME TypeOK, StartedInv, OpenInv, DeliveryState, ReachedInv, UNCHANGED vars,
           got \subseteq got', NEW h \in chats, NEW g, Becomes(h, g),
           RecipientOK(g)' /\ SelfOK(g)'
    PROVE  ReachedInv'
<1>1. [Next]_vars
  OBVIOUS
<1>2. \A f \in chats : RecipientOK(f)' /\ SelfOK(f)'
  BY <1>1, BrokersKeepReached DEF ReachedInv, DeliveryState
<1>3. QED
  BY <1>2 DEF ReachedInv, Becomes

\* The entries that are left are served one by one, the copies are kept.
LEMMA EntryServed ==
    ASSUME TypeOK, UNCHANGED vars, got \subseteq got', NEW h \in Chats,
           RecipientOK(h), SelfOK(h), NEW d \in DeviceTypes, h.links[d] # NoConn,
           h.stage = "dispatch" => Kept(h, h.links[d], h.to)',
           /\ ~ h.failed
           /\ h.stage = "self"
           /\ UidOf[h.links[d]] # UidOf[h.msg[1]]
           => Kept(h, h.links[d], h.from.client)'
    PROVE  RecipientOK(Served(h, d))' /\ SelfOK(Served(h, d))'
<1> DEFINE g == Served(h, d)
<1>1. /\ g.msg = h.msg /\ g.from = h.from /\ g.to = h.to /\ g.stage = h.stage
      /\ g.recipient = h.recipient /\ g.self = h.self /\ g.failed = h.failed
      /\ \A e \in DeviceTypes : g.links[e] = IF e = d THEN NoConn ELSE h.links[e]
  BY DEF Served, Chats, Rows
<1>2. \A c, x : Owned(c, x)' <=> Owned(c, x)
  BY DEF Owned, vars
<1>3. \A c, x : Kept(h, c, x) => Kept(g, c, x)'
  BY <1>1 DEF Kept, Reached, Writable, CopyFor, vars
<1>4. \A c, x : Kept(h, c, x)' => Kept(g, c, x)'
  BY <1>1 DEF Kept, Reached, CopyFor
<1> HIDE DEF g
<1>5. RecipientOK(g)'
  BY <1>1, <1>2, <1>3, <1>4 DEF RecipientOK
<1>6. SelfOK(g)'
  <2>1. h.stage \in {"dispatch", "self", "done"}
    BY DEF Chats
  <2>2. NamesItself(g) <=> NamesItself(h)
    BY <1>1 DEF NamesItself
  <2>3. QED
    BY <1>1, <1>2, <1>3, <1>4, <2>1, <2>2 DEF SelfOK, NamesItself
<1>7. QED
  BY <1>5, <1>6 DEF g

LEMMA ReachedByBusiness ==
    ASSUME TypeOK, StartedInv, OpenInv, OwnedInv, ServedAsAuthenticated, DeliveryState,
           ReachedInv, BusinessStep
    PROVE  ReachedInv'
<1>1. UNCHANGED vars /\ [Next]_vars
  BY DEF BusinessStep
<1>2. \A h \in chats : h \in Chats /\ RecipientOK(h) /\ SelfOK(h)
  BY DEF DeliveryState, ReachedInv
<1>3. \A c, x : Owned(c, x)' <=> Owned(c, x)
  BY <1>1 DEF Owned, vars
<1>4. ASSUME NEW r \in rpc, NEW to \in Clients, Receive(r, to)
      PROVE  ReachedInv'
  <2>0. PICK row \in Snapshots(to) :
           /\ chats' = chats \cup
                {[msg |-> <<r.conn, r.n>>, from |-> r.cred, to |-> to,
                  stage |-> "dispatch", links |-> row,
                  recipient |-> row, self |-> NoRow, failed |-> FALSE]}
           /\ got' = got
    BY <1>4 DEF Receive
  <2>1. PICK g : g = [msg |-> <<r.conn, r.n>>, from |-> r.cred, to |-> to,
                      stage |-> "dispatch", links |-> row,
                      recipient |-> row, self |-> NoRow, failed |-> FALSE]
                 /\ chats' = chats \cup {g} /\ got' = got
    BY <2>0
  <2>2. \A d \in DeviceTypes : row[d] # NoConn => Owned(row[d], to)
    BY DEF OwnedInv, Snapshots, NoRow
  <2>3. RecipientOK(g)' /\ SelfOK(g)'
    <3>1. /\ g.stage = "dispatch" /\ g.to = to
          /\ g.links = row /\ g.recipient = row
      BY <2>1
    <3>2. QED
      BY <1>3, <2>2, <3>1 DEF RecipientOK, SelfOK
  <2>4. \A h \in chats : RecipientOK(h)' /\ SelfOK(h)'
    BY <1>1, <1>2, <2>1, BrokersKeepReached
  <2>5. QED
    BY <2>1, <2>3, <2>4 DEF ReachedInv
<1>5. ASSUME NEW h \in chats, NEW d \in DeviceTypes, Push(h, d)
      PROVE  ReachedInv'
  <2>1. /\ h.stage = "dispatch" /\ h.links[d] # NoConn /\ Becomes(h, Served(h, d))
        /\ got' = got \cup {CopyFor(c, h, h.to, h.links[d]) :
                               c \in {c \in Found(h.links[d]) : Writable(c)}}
    BY <1>5 DEF Push, Entries
  <2>2. Kept(h, h.links[d], h.to)'
    <3> DEFINE o == h.links[d]
    <3> SUFFICES ASSUME Writable(o)'
                 PROVE  \E g \in got' : g.conn = o /\ g.msg = h.msg /\ g.to = h.to
      BY DEF Kept, Reached
    <3>1. Writable(o)
      BY <1>1 DEF Writable, vars
    <3>2. o \in Found(o)
      BY <3>1 DEF Writable, Found, SameUid
    <3>3. CopyFor(o, h, h.to, o) \in got'
      BY <2>1, <3>1, <3>2
    <3>4. QED
      BY <3>3 DEF CopyFor
  <2>3. RecipientOK(Served(h, d))' /\ SelfOK(Served(h, d))'
    BY <1>1, <1>2, <2>1, <2>2, EntryServed
  <2>4. QED
    BY <1>1, <2>1, <2>3, RequestMoves
<1>6. ASSUME NEW h \in chats, NEW d \in DeviceTypes, SkipOwn(h, d)
      PROVE  ReachedInv'
  <2>1. /\ h.stage = "self" /\ h.links[d] # NoConn /\ UidOf[h.links[d]] = UidOf[h.msg[1]]
        /\ Becomes(h, Served(h, d)) /\ got' = got
    BY <1>6 DEF SkipOwn, Entries
  <2>2. RecipientOK(Served(h, d))' /\ SelfOK(Served(h, d))'
    BY <1>1, <1>2, <2>1, EntryServed
  <2>3. QED
    BY <1>1, <2>1, <2>2, RequestMoves
<1>7. ASSUME NEW h \in chats, NEW d \in DeviceTypes, Sync(h, d)
      PROVE  ReachedInv'
  <2> DEFINE c == h.links[d]
             x == h.from.client
  <2>1. /\ h.stage = "self" /\ c # NoConn /\ UidOf[c] # UidOf[h.msg[1]]
        /\ Becomes(h, Served(h, d))
        /\ got' = got \cup {CopyFor(o, h, x, c) : o \in Synced(h, BrokerOf[c])}
    BY <1>7 DEF Sync, Entries
  <2>2. c \in Conns /\ x \in Clients
    BY <1>2, <2>1, CredentialParts DEF Chats, Rows
  <2>3. ASSUME ~ h.failed
        PROVE  Kept(h, c, x)'
    <3> SUFFICES ASSUME Writable(c)'
                 PROVE  \E g \in got' : g.conn = c /\ g.msg = h.msg /\ g.to = x
      BY DEF Kept, Reached
    <3>1. Writable(c)
      BY <1>1 DEF Writable, vars
    <3>2. PICK e \in DeviceTypes : h.self[e] = c
      BY <1>2, <2>1, <2>3 DEF SelfOK
    <3>3. Owned(c, x)
      BY <1>2, <2>1, <2>3, <3>2 DEF SelfOK
    <3>4. c \in index[BrokerOf[c]][x]
      BY <2>2, <3>1, <3>3 DEF Owned, OpenInv, Writable
    <3>5. c \in Synced(h, BrokerOf[c])
      BY <2>1, <3>1, <3>4 DEF Synced
    <3>6. CopyFor(c, h, x, c) \in got'
      BY <2>1, <3>5
    <3>7. QED
      BY <3>6 DEF CopyFor
  <2>4. RecipientOK(Served(h, d))' /\ SelfOK(Served(h, d))'
    BY <1>1, <1>2, <2>1, <2>3, EntryServed
  <2>5. QED
    BY <1>1, <2>1, <2>4, RequestMoves
<1>8. ASSUME NEW h \in chats, NEW d \in DeviceTypes, CallFails(h, d)
      PROVE  ReachedInv'
  <2> DEFINE g == [Served(h, d) EXCEPT !.failed = TRUE]
  <2>1. g.failed /\ Becomes(h, g) /\ got' = got
    BY <1>2, <1>8 DEF CallFails, Served, Chats
  <2> HIDE DEF g
  <2>2. RecipientOK(g)' /\ SelfOK(g)'
    BY <2>1 DEF RecipientOK, SelfOK
  <2>3. QED
    BY <1>1, <2>1, <2>2, RequestMoves
<1>9. ASSUME NEW h \in chats, TurnToSelf(h)
      PROVE  ReachedInv'
  <2> DEFINE x == h.from.client
  <2>1. PICK row \in Snapshots(x) :
             Becomes(h, IF Cardinality(Entries(row)) <= 1
                        THEN [h EXCEPT !.stage = "done", !.self = row]
                        ELSE [h EXCEPT !.stage = "self", !.self = row, !.links = row])
    BY <1>9 DEF TurnToSelf
  <2>2. PICK g : /\ Becomes(h, g) /\ got' = got
                 /\ g.msg = h.msg /\ g.from = h.from /\ g.to = h.to
                 /\ g.recipient = h.recipient /\ g.failed = h.failed /\ g.self = row
                 /\ \/ g.stage = "done" /\ Cardinality(Entries(row)) <= 1
                    \/ g.stage = "self" /\ g.links = row
    <3> DEFINE over == [h EXCEPT !.stage = "done", !.self = row]
               on == [h EXCEPT !.stage = "self", !.self = row, !.links = row]
    <3>1. /\ over.msg = h.msg /\ over.from = h.from /\ over.to = h.to
          /\ over.recipient = h.recipient /\ over.failed = h.failed /\ over.self = row
          /\ over.stage = "done"
      BY <1>2 DEF Chats
    <3>2. /\ on.msg = h.msg /\ on.from = h.from /\ on.to = h.to
          /\ on.recipient = h.recipient /\ on.failed = h.failed /\ on.self = row
          /\ on.stage = "self" /\ on.links = row
      BY <1>2 DEF Chats
    <3>3. /\ got' = got
          /\ \/ Becomes(h, over) /\ Cardinality(Entries(row)) <= 1
             \/ Becomes(h, on)
      BY <1>9, <2>1 DEF TurnToSelf
    <3> HIDE DEF over, on
    <3>4. QED
      BY <3>1, <3>2, <3>3
  <2>3. h.stage = "dispatch" /\ \A d \in DeviceTypes : h.links[d] = NoConn
    BY <1>9 DEF TurnToSelf, Entries
  <2>4. \A c, z : Kept(h, c, z) => Kept(g, c, z)'
    BY <1>1, <2>2 DEF Kept, Reached, Writable, CopyFor, vars
  <2>5. RecipientOK(g)'
    BY <1>2, <1>3, <2>2, <2>3, <2>4 DEF RecipientOK
  <2>6. x \in Clients /\ h.msg[1] \in Conns /\ row \in Rows
    BY <1>2, <2>1, CredentialParts, SnapshotRows DEF Chats
  <2>7. \A d \in DeviceTypes : row[d] # NoConn => Owned(row[d], x)
    BY <2>1, <2>6 DEF OwnedInv, Snapshots, NoRow
  <2>8. ASSUME Cardinality(Entries(row)) <= 1, NEW e \in DeviceTypes, row[e] = h.msg[1],
               NEW d \in DeviceTypes, row[d] # NoConn
        PROVE  row[d] = h.msg[1]
    <3>1. IsFiniteSet(Entries(row))
      BY BrokerAssumption, FS_Subset DEF Entries
    <3>2. e \in Entries(row) /\ d \in Entries(row)
      BY <2>6, <2>8, BrokerAssumption DEF Entries
    <3>3. PICK only : Entries(row) = {only}
      BY <2>8, <3>1, <3>2, FS_EmptySet, FS_CardinalityType, FS_Singleton
    <3>4. QED
      BY <2>8, <3>2, <3>3
  <2>9. SelfOK(g)'
    BY <1>3, <2>2, <2>7, <2>8 DEF SelfOK, NamesItself
  <2>10. QED
    BY <1>1, <2>2, <2>5, <2>9, RequestMoves
<1>10. ASSUME NEW h \in chats, Finish(h)
       PROVE  ReachedInv'
  <2> DEFINE g == [h EXCEPT !.stage = "done"]
  <2>1. /\ Becomes(h, g) /\ got' = got
        /\ h.stage = "self" /\ \A d \in DeviceTypes : h.links[d] = NoConn
    BY <1>10 DEF Finish, Entries
  <2>2. /\ g.msg = h.msg /\ g.from = h.from /\ g.to = h.to /\ g.stage = "done"
        /\ g.recipient = h.recipient /\ g.failed = h.failed /\ g.self = h.self
    BY <1>2 DEF Chats
  <2> HIDE DEF g
  <2>3. \A c, z : Kept(h, c, z) => Kept(g, c, z)'
    BY <1>1, <2>1, <2>2 DEF Kept, Reached, Writable, CopyFor, vars
  <2>4. RecipientOK(g)'
    BY <1>2, <1>3, <2>1, <2>2, <2>3 DEF RecipientOK
  <2>5. SelfOK(g)'
    BY <1>2, <1>3, <2>1, <2>2, <2>3 DEF SelfOK, NamesItself
  <2>6. QED
    BY <1>1, <2>1, <2>4, <2>5, RequestMoves
<1>11. QED
  BY <1>4, <1>5, <1>6, <1>7, <1>8, <1>9, <1>10 DEF BusinessStep

LEMMA ReachedAlways ==
    DeliverySpec => [](DeliveryTypeOK /\ ReachedInv)
<1>1. DeliveryInit => ReachedInv
  BY DEF DeliveryInit, ReachedInv
<1>2. OwnedCopies => OwnedInv
  BY DEF OwnedCopies
<1>3. DeliveryTypeOK /\ StartedInv /\ OpenInv /\ OwnedInv /\ ServedAsAuthenticated
        /\ ReachedInv /\ [DeliveryNext]_deliveryVars => ReachedInv'
  <2> SUFFICES ASSUME DeliveryTypeOK, StartedInv, OpenInv, OwnedInv, ServedAsAuthenticated,
                      ReachedInv, [DeliveryNext]_deliveryVars
               PROVE  ReachedInv'
    OBVIOUS
  <2>1. TypeOK /\ DeliveryState
    BY DEF DeliveryTypeOK, DeliveryState
  <2>2. CASE BusinessStep
    BY <2>1, <2>2, ReachedByBusiness
  <2>3. CASE BrokerStep \/ UNCHANGED deliveryVars
    <3>1. chats' = chats /\ got' = got
      BY <2>3 DEF BrokerStep, deliveryVars
    <3>2. \A h \in chats : RecipientOK(h)' /\ SelfOK(h)'
      BY <2>1, <3>1, DeliveryStepIsBrokerStep, BrokersKeepReached
         DEF ReachedInv, DeliveryState
    <3>3. QED
      BY <3>1, <3>2 DEF ReachedInv
  <2>4. QED
    BY <2>2, <2>3 DEF DeliveryNext
<1>4. QED
  BY <1>1, <1>2, <1>3, DeliveryTypeCorrect, OwnedCopiesAlways, BrokersUnaffected,
     StartedAlways, OpenLinksReachable, ServedAsAuthenticatedAlways, PTL DEF DeliverySpec

\* No login, close or crash in the middle of a dispatch makes it pass over a
\* connection that Redis named and that is still up.
THEOREM RecipientReachedAlways == DeliverySpec => []RecipientReached
<1>1. DeliveryTypeOK /\ ReachedInv => RecipientReached
  BY DEF ReachedInv, RecipientOK, RecipientReached, Kept, Entries
<1>2. QED
  BY <1>1, ReachedAlways, PTL

\* Nor does it make the sync pass over a device of the sender, through whichever
\* entry the broker of that device was called.
THEOREM OtherDevicesReachedAlways == DeliverySpec => []OtherDevicesReached
<1>1. DeliveryTypeOK /\ ReachedInv => OtherDevicesReached
  <2> SUFFICES ASSUME ReachedInv, NEW h \in chats, h.stage = "done", ~ h.failed,
                      NEW e \in DeviceTypes, h.self[e] = h.msg[1],
                      NEW d \in Entries(h.self), Writable(h.self[d]),
                      UidOf[h.self[d]] # UidOf[h.msg[1]]
               PROVE  Reached(h.self[d], h, h.from.client)
    BY DEF OtherDevicesReached
  <2>1. SelfOK(h) /\ NamesItself(h)
    BY DEF ReachedInv, NamesItself
  <2>2. d \in DeviceTypes /\ h.self[d] # NoConn
    BY DEF Entries
  <2>3. Kept(h, h.self[d], h.from.client)
    BY <2>1, <2>2 DEF SelfOK
  <2>4. QED
    BY <2>3 DEF Kept
<1>2. QED
  BY <1>1, ReachedAlways, PTL
=============================================================================
