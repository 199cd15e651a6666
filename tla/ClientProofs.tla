---------------------------- MODULE ClientProofs ----------------------------
(***************************************************************************)
(* What is proved of the connection of a client (Client): its types, that  *)
(* it uses one connection at a time, and that it has a way out of          *)
(* connecting.  The invariant is about the life of a socket thread: until  *)
(* its SUCCESS is taken from the queue nothing is sent through it and      *)
(* nothing comes from it; the answer to its login comes before all else.   *)
(***************************************************************************)
EXTENDS Client, TLAPS, SequenceTheorems

Logins == {"login_ok", "login_busy", "login_no"}

\* The queue holds at place i an item of this type about this thread.
Holds(s, i, type, t) == s.queue[i].type = type /\ s.queue[i].thread = t
Answered(s, i, t) == Holds(s, i, "RECV", t) /\ s.queue[i].what \in Logins

\* No request has gone to the thread, and the broker has not signed it in.
Unused(t, w, g) == w[t] = <<>> /\ t \notin g

\* A thread that is connecting is new; one that has ended is forgotten.
Young(s, w, g) ==
    \A t \in Threads : s.rs[t] = "connecting" =>
        /\ Unused(t, w, g)
        /\ s.current # t
        /\ \A i \in 1 .. Len(s.queue) : s.queue[i].thread # t

Over(s, w, g) == \A t \in Threads : s.rs[t] = "ended" => Unused(t, w, g)

One(s, w, g) == \A t \in Threads : s.rs[t] = "open" /\ ~ Unused(t, w, g) => s.current = t

\* Until its report is taken a thread is neither chosen nor used, and nothing
\* but its end is reported after it.
Reported(s, w, g) ==
    \A t \in Threads, i \in 1 .. Len(s.queue) : Holds(s, i, "SUCCESS", t) =>
        /\ Unused(t, w, g)
        /\ s.current # t
        /\ \A j \in 1 .. Len(s.queue) :
              Holds(s, j, "SUCCESS", t) \/ Holds(s, j, "RECV", t) => j = i

Life(s, w, g) == Young(s, w, g) /\ Over(s, w, g) /\ One(s, w, g) /\ Reported(s, w, g)

\* While the login of the chosen thread is not answered, nothing else has come
\* from it; and the answer comes first.
First(s, g) ==
    s.status = "Connecting" => \A t \in Threads : s.current = t =>
        /\ t \in g => \E i \in 1 .. Len(s.queue) : Answered(s, i, t)
        /\ \A i \in 1 .. Len(s.queue) : Holds(s, i, "RECV", t) =>
              \E j \in 1 .. i : Answered(s, j, t)

Way(s) ==
    s.status = "Connecting" =>
        IF s.current = NoThread
        THEN \E t \in Threads : \/ s.rs[t] = "connecting"
                                \/ \E i \in 1 .. Len(s.queue) :
                                      Holds(s, i, "SUCCESS", t) \/ Holds(s, i, "FAILED", t)
        ELSE s.ping > 0

LifeInv == Life(sdk, wire, signed)
ClientInv == LifeInv /\ First(sdk, signed) /\ (astray \/ Way(sdk))

-----------------------------------------------------------------------------
(***************************************************************************)
(* What the functions on sdk leave behind.                                 *)
(***************************************************************************)
LEMMA PostKeepsType ==
    ASSUME NEW s \in SdkType, NEW item \in Items
    PROVE  Post(s, item) \in SdkType
<1>1. Append(s.queue, item) \in Seq(Items)
  BY DEF SdkType
<1> HIDE DEF Items
<1> QED
  BY <1>1 DEF Post, SdkType

LEMMA PingKeepsType ==
    ASSUME NEW s \in SdkType, NEW age \in 0 .. 3
    PROVE  [s EXCEPT !.ping = age] \in SdkType
BY DEF SdkType

LEMMA ItemTypes ==
    /\ \A what \in Requests : Item("SEND", NoThread, what) \in Items
    /\ Item("LOGOUT", NoThread, "nothing") \in Items
    /\ \A t \in Threads : /\ Item("SUCCESS", t, "nothing") \in Items
                          /\ Item("FAILED", t, "nothing") \in Items
                          /\ Item("CLOSED", t, "nothing") \in Items
                          /\ \A what \in Answers : Item("RECV", t, what) \in Items
BY DEF Items, Item

LEMMA SendKeepsType ==
    ASSUME NEW s \in SdkType, NEW what \in Requests
    PROVE  Send(s, what) \in SdkType
BY PostKeepsType, ItemTypes DEF Send

LEMMA StopKeepsType ==
    ASSUME NEW s \in SdkType, NEW T
    PROVE  Stop(s, T) \in SdkType
BY DEF Stop, SdkType, Live

\* A thread is created in a free place; the chosen one is stopped.
LEMMA CreateEffect ==
    ASSUME NEW s \in SdkType, Free(s) # {}
    PROVE  \E u \in Free(s) :
               CreateSocketThread(s) =
                   [s EXCEPT !.current = NoThread, !.ping = 0,
                             !.rs = [t \in Threads |->
                                        IF t = u THEN "connecting"
                                        ELSE IF t = s.current /\ s.rs[t] \in Live THEN "stopping"
                                        ELSE s.rs[t]]]
<1> DEFINE u == CHOOSE t \in Free(s) : TRUE
           stopped == Stop(s, {s.current})
<1>1. u \in Free(s)
  OBVIOUS
<1>2. u \in Threads
  BY <1>1 DEF Free
<1>3. stopped \in SdkType
  BY StopKeepsType
<1>4. stopped = [s EXCEPT !.rs = [t \in Threads |-> IF t = s.current /\ s.rs[t] \in Live THEN "stopping"
                                                     ELSE s.rs[t]]]
  BY DEF Stop, SdkType
<1>5. CreateSocketThread(s) = [stopped EXCEPT !.rs[u] = "connecting", !.current = NoThread, !.ping = 0]
  BY DEF CreateSocketThread
<1> HIDE DEF u
<1>6. CreateSocketThread(s) =
          [s EXCEPT !.current = NoThread, !.ping = 0,
                    !.rs = [t \in Threads |->
                               IF t = u THEN "connecting"
                               ELSE IF t = s.current /\ s.rs[t] \in Live THEN "stopping"
                               ELSE s.rs[t]]]
  <2>1. stopped.rs = [t \in Threads |-> IF t = s.current /\ s.rs[t] \in Live THEN "stopping" ELSE s.rs[t]]
    BY <1>4 DEF SdkType
  <2>2. [stopped.rs EXCEPT ![u] = "connecting"] =
            [t \in Threads |-> IF t = u THEN "connecting"
                               ELSE IF t = s.current /\ s.rs[t] \in Live THEN "stopping"
                               ELSE s.rs[t]]
    BY <1>2, <2>1
  <2> QED
    BY <1>3, <1>4, <1>5, <2>2 DEF SdkType
<1> QED
  BY <1>1, <1>6

LEMMA CreateKeepsType ==
    ASSUME NEW s \in SdkType, Free(s) # {}
    PROVE  CreateSocketThread(s) \in SdkType
<1>1. PICK u \in Free(s) :
          CreateSocketThread(s) =
              [s EXCEPT !.current = NoThread, !.ping = 0,
                        !.rs = [t \in Threads |->
                                   IF t = u THEN "connecting"
                                   ELSE IF t = s.current /\ s.rs[t] \in Live THEN "stopping"
                                   ELSE s.rs[t]]]
  BY CreateEffect
<1> DEFINE states == [t \in Threads |-> IF t = u THEN "connecting"
                                        ELSE IF t = s.current /\ s.rs[t] \in Live THEN "stopping"
                                        ELSE s.rs[t]]
<1>2. states \in [Threads -> Live \cup {"stopping", "ended"}]
  BY DEF SdkType, Live
<1> HIDE DEF states
<1>3. [s EXCEPT !.current = NoThread, !.ping = 0, !.rs = states] \in SdkType
  <2> DEFINE r == [s EXCEPT !.current = NoThread]
  <2>1. r \in SdkType
    BY DEF SdkType
  <2> HIDE DEF r
  <2>2. [r EXCEPT !.ping = 0] \in SdkType
    BY <2>1 DEF SdkType
  <2> DEFINE q == [r EXCEPT !.ping = 0]
  <2> HIDE DEF q
  <2>3. [q EXCEPT !.rs = states] \in SdkType
    BY <1>2, <2>2 DEF SdkType, q
  <2> QED
    BY <2>3 DEF q, r
<1> QED
  BY <1>1, <1>3 DEF states

\* Where a thread may be created does not depend on the status.
LEMMA FreeStatus ==
    ASSUME NEW s \in SdkType, NEW status \in Statuses
    PROVE  /\ [s EXCEPT !.status = status] \in SdkType
           /\ Free([s EXCEPT !.status = status]) = Free(s)
<1>1. [s EXCEPT !.status = status] \in SdkType
  BY DEF SdkType
<1>2. LET r == [s EXCEPT !.status = status]
      IN  r.current = s.current /\ r.rs = s.rs /\ r.queue = s.queue
  BY DEF SdkType
<1> QED
  BY <1>1, <1>2 DEF Free

LEMMA ReconnectKeepsType ==
    ASSUME NEW s \in SdkType, Free(s) # {}
    PROVE  Reconnect(s) \in SdkType
<1>1. "Connecting" \in Statuses
  BY DEF Statuses
<1> QED
  BY <1>1, FreeStatus, CreateKeepsType DEF Reconnect

\* The connection is sought anew.
LEMMA RenewKeepsType ==
    ASSUME NEW s \in SdkType, Free(s) # {}
    PROVE  Reconnect([s EXCEPT !.status = "None"]) \in SdkType
<1>1. "None" \in Statuses
  BY DEF Statuses
<1> QED
  BY <1>1, FreeStatus, ReconnectKeepsType

LEMMA AwakeKeepsType ==
    ASSUME NEW s \in SdkType, Free(s) # {}
    PROVE  /\ Awake(s) \in SdkType
           /\ Awake(s).queue = s.queue
           /\ Awake(s).status # "None"
           /\ s.status = "None" => Awake(s).status = "Connecting" /\ Awake(s).ping = 0
           /\ s.status # "None" => Awake(s) = s
<1>1. Awake(s) \in SdkType
  BY ReconnectKeepsType DEF Awake
<1>2. CASE s.status = "None"
  <2> DEFINE r == [s EXCEPT !.status = "Connecting"]
  <2>1. r \in SdkType /\ Free(r) = Free(s)
    BY FreeStatus DEF Statuses
  <2>2. r.queue = s.queue /\ r.status = "Connecting"
    BY DEF SdkType
  <2>3. Awake(s) = CreateSocketThread(r)
    BY <1>2 DEF Awake, Reconnect
  <2> HIDE DEF r
  <2>4. /\ CreateSocketThread(r).queue = r.queue
        /\ CreateSocketThread(r).status = r.status
        /\ CreateSocketThread(r).ping = 0
    BY <2>1, CreateEffect DEF SdkType
  <2> QED
    BY <1>1, <1>2, <2>2, <2>3, <2>4
<1>3. CASE s.status # "None"
  BY <1>1, <1>3 DEF Awake
<1> QED
  BY <1>2, <1>3

LEMMA HeardKeepsType ==
    ASSUME NEW s \in SdkType
    PROVE  Heard(s) \in SdkType /\ Free(Heard(s)) = Free(s)
<1>1. Heard(s) \in SdkType
  BY DEF Heard, SdkType
<1>2. Heard(s).current = s.current /\ Heard(s).rs = s.rs /\ Heard(s).queue = s.queue
  BY DEF Heard, SdkType
<1> QED
  BY <1>1, <1>2 DEF Free

LEMMA SuccessKeepsType ==
    ASSUME NEW s \in SdkType, NEW t \in Threads
    PROVE  Success(s, t) \in SdkType
<1> DEFINE chosen == IF s.current # NoThread THEN s
                     ELSE Stop([s EXCEPT !.current = t], Threads \ {t})
<1>1. [s EXCEPT !.current = t] \in SdkType
  BY DEF SdkType
<1>2. chosen \in SdkType
  BY <1>1, StopKeepsType
<1> HIDE DEF chosen
<1>3. [chosen EXCEPT !.ping = 1] \in SdkType
  BY <1>2 DEF SdkType
<1>4. Success(s, t) = IF chosen.ping = 0 THEN Send([chosen EXCEPT !.ping = 1], "LOGIN") ELSE chosen
  BY DEF Success, chosen
<1> QED
  BY <1>2, <1>3, <1>4, SendKeepsType DEF Requests

LEMMA ClosedKeepsType ==
    ASSUME NEW s \in SdkType, NEW t \in Threads, Free(s) # {}
    PROVE  Closed(s, t) \in SdkType
BY RenewKeepsType, ReconnectKeepsType DEF Closed

LEMMA ReceiveKeepsType ==
    ASSUME NEW s \in SdkType, NEW what \in Answers, Free(s) # {}
    PROVE  Receive(s, what) \in SdkType
<1> DEFINE heard == Heard(s)
<1>1. heard \in SdkType /\ Free(heard) = Free(s)
  BY HeardKeepsType
<1>2. [s EXCEPT !.status = "Recving", !.offMsgCountOk = FALSE] \in SdkType
  BY DEF SdkType, Statuses
<1>3. \A status \in Statuses : [s EXCEPT !.status = status] \in SdkType
  BY FreeStatus
<1>4. [heard EXCEPT !.status = "Connected", !.offMsgCountOk = TRUE] \in SdkType
  <2>1. "Connected" \in Statuses
    BY DEF Statuses
  <2> DEFINE met == [heard EXCEPT !.status = "Connected"]
  <2>2. met \in SdkType
    BY <1>1, <2>1, FreeStatus
  <2>3. [met EXCEPT !.offMsgCountOk = TRUE] = [heard EXCEPT !.status = "Connected", !.offMsgCountOk = TRUE]
    OBVIOUS
  <2> HIDE DEF met
  <2>4. [met EXCEPT !.offMsgCountOk = TRUE] \in SdkType
    BY <2>2 DEF SdkType
  <2> QED
    BY <2>3, <2>4
<1>5. [heard EXCEPT !.status = "Logout"] \in SdkType
  BY <1>1, FreeStatus DEF Statuses
<1>6. Reconnect([heard EXCEPT !.status = "None"]) \in SdkType
  BY <1>1, RenewKeepsType
<1>7. "HOTSESSION" \in Requests /\ {"None", "Logout"} \subseteq Statuses
  BY DEF Requests, Statuses
<1> QED
  BY <1>1, <1>2, <1>3, <1>4, <1>5, <1>6, <1>7, SendKeepsType DEF Receive

LEMMA CheckPingKeepsType ==
    ASSUME NEW s \in SdkType, Free(s) # {}
    PROVE  CheckPing(s) \in SdkType
<1> DEFINE asked == IF s.offMsgCountOk THEN Send(s, "PING") ELSE Send(Send(s, "PING"), "HOTSESSION")
<1>1. asked \in SdkType
  BY SendKeepsType DEF Requests
<1> HIDE DEF asked
<1>2. [asked EXCEPT !.ping = IF @ = 0 THEN 1 ELSE @] \in SdkType
  <2>1. asked.ping \in 0 .. 3
    BY <1>1 DEF SdkType
  <2>2. (IF asked.ping = 0 THEN 1 ELSE asked.ping) \in 0 .. 3
    BY <2>1
  <2> QED
    BY <1>1, <2>2, PingKeepsType
<1>3. CheckPing(s) \in {Reconnect([s EXCEPT !.status = "None"]), s,
                        [asked EXCEPT !.ping = IF @ = 0 THEN 1 ELSE @]}
  BY DEF CheckPing, asked
<1> QED
  BY <1>2, <1>3, RenewKeepsType

LEMMA DestroyKeepsType ==
    ASSUME NEW s \in SdkType
    PROVE  DestroyThreads(s) \in SdkType
BY StopKeepsType DEF DestroyThreads

LEMMA ExitKeepsType ==
    ASSUME NEW s \in SdkType
    PROVE  [Stop(s, Threads) EXCEPT !.status = "None", !.current = NoThread] \in SdkType
<1> DEFINE r == [Stop(s, Threads) EXCEPT !.status = "None"]
<1>1. r \in SdkType
  BY StopKeepsType, FreeStatus DEF Statuses
<1>2. [Stop(s, Threads) EXCEPT !.status = "None", !.current = NoThread] = [r EXCEPT !.current = NoThread]
  OBVIOUS
<1> HIDE DEF r
<1>3. [r EXCEPT !.current = NoThread] \in SdkType
  BY <1>1 DEF SdkType
<1> QED
  BY <1>2, <1>3

LEMMA PopKeepsType ==
    ASSUME NEW s \in SdkType, s.queue # <<>>
    PROVE  /\ [s EXCEPT !.queue = Tail(@)] \in SdkType
           /\ Head(s.queue) \in Items
<1>1. Tail(s.queue) \in Seq(Items) /\ Head(s.queue) \in Items
  BY DEF SdkType
<1> HIDE DEF Items
<1> QED
  BY <1>1 DEF SdkType

LEMMA EndedKeepsType ==
    ASSUME NEW s \in SdkType, NEW t \in Threads,
           NEW state \in Live \cup {"stopping", "ended"}
    PROVE  [s EXCEPT !.rs[t] = state] \in SdkType
<1>1. [s.rs EXCEPT ![t] = state] \in [Threads -> Live \cup {"stopping", "ended"}]
  BY DEF SdkType
<1> QED
  BY <1>1 DEF SdkType

\* A message counted often enough goes: no count passes the bound.
LEMMA CheckedInBounds ==
    ASSUME TypeOK, NEW m \in Messages, NEW due \in SUBSET Messages
    PROVE  Checked(m, m \in due) \in -1 .. MaxRetries
BY ClientAssumption DEF TypeOK, Checked

-----------------------------------------------------------------------------
LEMMA TypeInit ==
    Init => TypeOK
<1> SUFFICES ASSUME Init PROVE TypeOK
  OBVIOUS
<1> DEFINE first == CHOOSE t \in Threads : TRUE
           states == [t \in Threads |-> IF t = first THEN "connecting" ELSE "ended"]
<1>1. states \in [Threads -> Live \cup {"stopping", "ended"}]
  BY DEF Live
<1>2. sdk = [status |-> "Connecting", current |-> NoThread, ping |-> 0,
             offMsgCountOk |-> FALSE, rs |-> states, queue |-> <<>>]
  BY DEF Init
<1>3. <<>> \in Seq(Items)
  OBVIOUS
<1> HIDE DEF states, Items
<1>4. sdk \in SdkType
  BY <1>1, <1>2, <1>3 DEF SdkType, Statuses
<1> QED
  <2>1. /\ running \in BOOLEAN
        /\ wire \in [Threads -> Seq(Requests)]
        /\ signed \subseteq Threads
    BY DEF Init
  <2>2. sending \in [Messages -> {"new", "posted", "done"}] /\ astray \in BOOLEAN
    BY DEF Init
  <2>3. -1 \in -1 .. MaxRetries /\ 0 \in 0 .. MaxTrouble
    BY ClientAssumption
  <2>4. inflight \in [Messages -> -1 .. MaxRetries] /\ trouble \in 0 .. MaxTrouble
    BY <2>3 DEF Init
  <2> QED
    BY <1>4, <2>1, <2>2, <2>4 DEF TypeOK

\* What the process thread does with an item.
Done(s, item) ==
    CASE item.type = "SUCCESS" -> Success(s, item.thread)
      [] item.type = "FAILED"  -> Failed(s)
      [] item.type = "CLOSED"  -> Closed(s, item.thread)
      [] item.type = "RECV"    -> Receive(s, item.what)
      [] OTHER -> IF s.current = NoThread THEN Reconnect(s) ELSE s

LEMMA DoneKeepsType ==
    ASSUME NEW s \in SdkType, NEW item \in Items, Free(s) # {}
    PROVE  Done(s, item) \in SdkType
<1>1. CASE item.type = "SUCCESS"
  <2>1. item.thread \in Threads
    BY <1>1 DEF Items
  <2> QED
    BY <1>1, <2>1, SuccessKeepsType DEF Done
<1>2. CASE item.type = "FAILED"
  BY <1>2, RenewKeepsType DEF Done, Failed
<1>3. CASE item.type = "CLOSED"
  <2>1. item.thread \in Threads
    BY <1>3 DEF Items
  <2> QED
    BY <1>3, <2>1, ClosedKeepsType DEF Done
<1>4. CASE item.type = "RECV"
  <2>1. item.what \in Answers
    BY <1>4 DEF Items
  <2> QED
    BY <1>4, <2>1, ReceiveKeepsType DEF Done
<1>5. CASE item.type \notin {"SUCCESS", "FAILED", "CLOSED", "RECV"}
  BY <1>5, ReconnectKeepsType DEF Done
<1> QED
  BY <1>1, <1>2, <1>3, <1>4, <1>5

\* One round of the loop with an item.
LEMMA ProcessEffect ==
    ASSUME TypeOK, Process
    PROVE  \E item \in Items, s \in SdkType :
               /\ running
               /\ sdk.queue # <<>>
               /\ item = Head(sdk.queue)
               /\ Free(sdk) # {}
               /\ Awake(sdk) \in SdkType
               /\ Awake(sdk).queue = sdk.queue
               /\ s = [Awake(sdk) EXCEPT !.queue = Tail(@)]
               /\ s.queue = Tail(sdk.queue)
               /\ Free(s) # {}
               /\ inflight' \in [Messages -> -1 .. MaxRetries]
               /\ astray' = (astray \/ Misled(s, item))
               /\ wire' = IF item.type = "SEND" /\ s.current # NoThread /\ s.rs[s.current] = "open"
                          THEN [wire EXCEPT ![s.current] = Append(@, item.what)] ELSE wire
               /\ \/ item.type = "LOGOUT" /\ Exit(s)
                  \/ item.type # "LOGOUT" /\ sdk' = Done(s, item) /\ UNCHANGED running
               /\ UNCHANGED <<signed, sending, trouble>>
<1> DEFINE item == Head(sdk.queue)
           s == [Awake(sdk) EXCEPT !.queue = Tail(@)]
<1>1. sdk \in SdkType /\ Free(sdk) # {} /\ sdk.queue # <<>> /\ running
  BY DEF TypeOK, Process, Turns
<1>2. Awake(sdk) \in SdkType /\ Awake(sdk).queue = sdk.queue
  BY <1>1, AwakeKeepsType
<1>3. s \in SdkType /\ item \in Items
  BY <1>1, <1>2, PopKeepsType
<1>4. s.queue = Tail(sdk.queue)
  BY <1>2 DEF SdkType
<1>5. inflight' \in [Messages -> -1 .. MaxRetries]
  <2>1. PICK due \in SUBSET Messages, acked \in SUBSET Messages :
            inflight' = [m \in Messages |->
                IF m \in acked THEN -1
                ELSE IF sdk.status # "Connected" THEN inflight[m]
                ELSE Checked(m, m \in due)]
    <3>1. (IF item.type = "RECV" /\ item.what \in Messages THEN {item.what} ELSE {}) \in SUBSET Messages
      OBVIOUS
    <3> QED
      BY <3>1 DEF Process
  <2>2. \A m \in Messages : inflight[m] \in -1 .. MaxRetries /\ -1 \in -1 .. MaxRetries
    BY ClientAssumption DEF TypeOK
  <2> QED
    BY <2>1, <2>2, CheckedInBounds
<1>6. /\ Free(s) # {}
      /\ astray' = (astray \/ Misled(s, item))
      /\ wire' = IF item.type = "SEND" /\ s.current # NoThread /\ s.rs[s.current] = "open"
                 THEN [wire EXCEPT ![s.current] = Append(@, item.what)] ELSE wire
      /\ \/ item.type = "LOGOUT" /\ Exit(s)
         \/ item.type # "LOGOUT" /\ sdk' = Done(s, item) /\ UNCHANGED running
      /\ UNCHANGED <<signed, sending, trouble>>
  BY DEF Process, Done
<1> HIDE DEF item, s
<1>7. item = Head(sdk.queue) /\ s = [Awake(sdk) EXCEPT !.queue = Tail(@)]
  BY DEF item, s
<1> QED
  BY <1>1, <1>2, <1>3, <1>4, <1>5, <1>6, <1>7

LEMMA WireKeepsType ==
    ASSUME TypeOK, NEW t \in Threads
    PROVE  /\ [wire EXCEPT ![t] = <<>>] \in [Threads -> Seq(Requests)]
           /\ \A i \in 1 .. Len(wire[t]) :
                 [wire EXCEPT ![t] = RemoveAt(@, i)] \in [Threads -> Seq(Requests)]
           /\ \A what \in Requests : [wire EXCEPT ![t] = Append(@, what)] \in [Threads -> Seq(Requests)]
<1>1. wire \in [Threads -> Seq(Requests)] /\ wire[t] \in Seq(Requests) /\ <<>> \in Seq(Requests)
  BY DEF TypeOK
<1>2. \A i \in 1 .. Len(wire[t]) : RemoveAt(wire[t], i) \in Seq(Requests)
  <2> HIDE DEF Requests
  <2> TAKE i \in 1 .. Len(wire[t])
  <2>1. Len(wire[t]) \in Nat
    BY <1>1
  <2>2. SubSeq(wire[t], 1, i - 1) \in Seq(Requests)
    BY <1>1, <2>1
  <2>3. SubSeq(wire[t], i + 1, Len(wire[t])) \in Seq(Requests)
    BY <1>1, <2>1
  <2> QED
    BY <2>2, <2>3 DEF RemoveAt
<1>3. \A what \in Requests : Append(wire[t], what) \in Seq(Requests)
  BY <1>1
<1> HIDE DEF Requests
<1> QED
  BY <1>1, <1>2, <1>3

LEMMA TroubleKeepsType ==
    ASSUME TypeOK, NEW what, Happens(what)
    PROVE  trouble' \in 0 .. MaxTrouble
BY ClientAssumption DEF TypeOK, Happens

LEMMA AnswerKeepsType ==
    ASSUME TypeOK, NEW t \in Threads, NEW what \in Answers,
           NEW i \in 1 .. Len(wire[t]), Answer(t, i, what)
    PROVE  sdk' \in SdkType /\ wire' \in [Threads -> Seq(Requests)]
<1>1. sdk \in SdkType
  BY DEF TypeOK
<1> QED
  BY <1>1, ItemTypes, PostKeepsType, WireKeepsType DEF Answer

\* The actions of the process thread.
LEMMA LoopKeepsType ==
    ASSUME TypeOK, Process \/ LoopEnds \/ Timeout \/ TimePasses
    PROVE  TypeOK'
<1>1. sdk \in SdkType
  BY DEF TypeOK
<1>2. CASE Process
  <2>1. PICK item \in Items, s \in SdkType :
            /\ sdk.queue # <<>>
            /\ Free(s) # {}
            /\ inflight' \in [Messages -> -1 .. MaxRetries]
            /\ astray' = (astray \/ Misled(s, item))
            /\ wire' = IF item.type = "SEND" /\ s.current # NoThread /\ s.rs[s.current] = "open"
                       THEN [wire EXCEPT ![s.current] = Append(@, item.what)] ELSE wire
            /\ \/ item.type = "LOGOUT" /\ Exit(s)
               \/ item.type # "LOGOUT" /\ sdk' = Done(s, item) /\ UNCHANGED running
            /\ UNCHANGED <<signed, sending, trouble>>
    BY <1>2, ProcessEffect
  <2>2. sdk' \in SdkType /\ running' \in BOOLEAN
    BY <2>1, ExitKeepsType, DoneKeepsType DEF Exit, TypeOK
  <2>3. wire' \in [Threads -> Seq(Requests)]
    <3>1. CASE item.type = "SEND" /\ s.current # NoThread
      <4>1. item.what \in Requests /\ s.current \in Threads
        BY <3>1 DEF Items, SdkType
      <4> QED
        BY <2>1, <4>1, WireKeepsType DEF TypeOK
    <3>2. CASE ~ (item.type = "SEND" /\ s.current # NoThread)
      BY <2>1, <3>2 DEF TypeOK
    <3> QED
      BY <3>1, <3>2
  <2>4. astray' \in BOOLEAN
    <3>1. Misled(s, item) \in BOOLEAN
      BY DEF Misled
    <3> QED
      BY <2>1, <3>1 DEF TypeOK
  <2> QED
    BY <2>1, <2>2, <2>3, <2>4 DEF TypeOK
<1>3. CASE LoopEnds
  <2>1. sdk' \in SdkType /\ running' \in BOOLEAN
    BY <1>1, <1>3, ExitKeepsType DEF LoopEnds, Exit
  <2> QED
    BY <1>3, <2>1 DEF LoopEnds, TypeOK
<1>4. CASE Timeout
  <2>1. Free(sdk) # {} /\ sdk' = DestroyThreads(CheckPing(Awake(sdk)))
    BY <1>4 DEF Timeout, Turns
  <2>2. Awake(sdk) \in SdkType
    BY <1>1, <2>1, AwakeKeepsType
  <2>3. CheckPing(Awake(sdk)) \in SdkType
    <3>1. CASE sdk.status = "None"
      <4>1. Awake(sdk).status = "Connecting" /\ Awake(sdk).ping = 0
        BY <1>1, <2>1, <3>1, AwakeKeepsType
      <4> QED
        BY <2>2, <4>1 DEF CheckPing
    <3>2. CASE sdk.status # "None"
      BY <1>1, <2>1, <3>2, AwakeKeepsType, CheckPingKeepsType
    <3> QED
      BY <3>1, <3>2
  <2>4. sdk' \in SdkType
    BY <2>1, <2>3, DestroyKeepsType
  <2>5. inflight' \in [Messages -> -1 .. MaxRetries]
    <3>1. PICK due \in SUBSET Messages :
              inflight' = [m \in Messages |->
                  IF sdk.status = "Connected" THEN Checked(m, m \in due) ELSE inflight[m]]
      BY <1>4 DEF Timeout
    <3> QED
      BY <3>1, CheckedInBounds DEF TypeOK
  <2>6. trouble' \in 0 .. MaxTrouble
    BY <1>4, TroubleKeepsType DEF Timeout, TypeOK
  <2> QED
    BY <1>4, <2>4, <2>5, <2>6 DEF Timeout, TypeOK
<1>5. CASE TimePasses
  <2>1. sdk.ping + 1 \in 0 .. 3
    BY <1>5 DEF TimePasses
  <2>2. sdk' \in SdkType
    BY <1>1, <1>5, <2>1, PingKeepsType DEF TimePasses
  <2>3. trouble' \in 0 .. MaxTrouble
    BY <1>5, TroubleKeepsType DEF TimePasses, TypeOK
  <2> QED
    BY <1>5, <2>2, <2>3 DEF TimePasses, TypeOK
<1> QED
  BY <1>2, <1>3, <1>4, <1>5

\* The actions of the socket threads, the network and the broker.
Network(t) == Resolves(t) \/ ConnectFails(t) \/ GoesDown(t) \/ Pushes(t) \/ AnswerLost(t)

LEMMA NetworkKeepsType ==
    ASSUME TypeOK, NEW t \in Threads, Network(t)
    PROVE  TypeOK'
<1>1. /\ sdk \in SdkType
      /\ {"open", "ended"} \subseteq Live \cup {"stopping", "ended"}
      /\ {"login_ok", "login_busy", "login_no", "hot_ok", "hot_more", "hot_no",
          "ping", "pushed", "kickout"} \cup Messages \subseteq Answers
  BY DEF TypeOK, Live, Answers
<1>2. \A state \in {"open", "ended"}, type \in {"SUCCESS", "FAILED", "CLOSED"} :
          /\ [sdk EXCEPT !.rs[t] = state] \in SdkType
          /\ Post([sdk EXCEPT !.rs[t] = state], Item(type, t, "nothing")) \in SdkType
  BY <1>1, EndedKeepsType, PostKeepsType, ItemTypes
<1>3. CASE Connects(t)
  BY <1>2, <1>3 DEF Connects, TypeOK
<1>4. CASE Ends(t)
  BY <1>2, <1>4, WireKeepsType DEF Ends, Gone, Ended, TypeOK
<1>5. CASE SignsIn(t)
  <2>1. PICK what \in {"login_ok", "login_busy", "login_no"}, i \in 1 .. Len(wire[t]) :
            Answer(t, i, what)
    BY <1>5 DEF SignsIn
  <2>2. sdk' \in SdkType /\ wire' \in [Threads -> Seq(Requests)]
    BY <1>1, <2>1, AnswerKeepsType
  <2>3. trouble' \in 0 .. MaxTrouble
    BY <1>5, TroubleKeepsType DEF SignsIn, TypeOK
  <2> QED
    BY <1>5, <2>2, <2>3 DEF SignsIn, TypeOK
<1>6. CASE Serves(t)
  <2>1. PICK what \in {"hot_ok", "hot_more", "hot_no", "ping"} \cup Messages,
             i \in 1 .. Len(wire[t]) :
            Answer(t, i, what)
    BY <1>6 DEF Serves
  <2>2. sdk' \in SdkType /\ wire' \in [Threads -> Seq(Requests)]
    BY <1>1, <2>1, AnswerKeepsType
  <2>3. trouble' \in 0 .. MaxTrouble
    BY <1>6, TroubleKeepsType DEF Serves, TypeOK
  <2> QED
    BY <1>6, <2>2, <2>3 DEF Serves, TypeOK
<1>7. CASE Refuses(t)
  BY <1>2, <1>7, WireKeepsType DEF Refuses, Gone, Ended, TypeOK
<1>8. CASE ConnectFails(t)
  BY <1>2, <1>8, TroubleKeepsType DEF ConnectFails, Ended, TypeOK
<1>9. CASE GoesDown(t)
  BY <1>2, <1>9, WireKeepsType, TroubleKeepsType DEF GoesDown, Gone, Ended, TypeOK
<1>10. CASE Pushes(t)
  <2>1. PICK what \in {"pushed", "kickout"} : sdk' = Post(sdk, Item("RECV", t, what))
    BY <1>10 DEF Pushes
  <2>2. sdk' \in SdkType
    BY <1>1, <2>1, PostKeepsType, ItemTypes
  <2>3. trouble' \in 0 .. MaxTrouble
    BY <1>10, TroubleKeepsType DEF Pushes
  <2> QED
    BY <1>10, <2>2, <2>3 DEF Pushes, TypeOK
<1>11. CASE AnswerLost(t)
  BY <1>11, WireKeepsType, TroubleKeepsType DEF AnswerLost, TypeOK
<1> QED
  BY <1>3, <1>4, <1>5, <1>6, <1>7, <1>8, <1>9, <1>10, <1>11 DEF Network, Resolves

LEMMA ApplicationKeepsType ==
    ASSUME TypeOK, Logout \/ \E m \in Messages : SendMsg(m) \/ AddToInflight(m)
    PROVE  TypeOK'
<1>1. sdk \in SdkType
  BY DEF TypeOK
<1>2. CASE Logout
  <2>1. Post([sdk EXCEPT !.status = "Logouting"], Item("LOGOUT", NoThread, "nothing")) \in SdkType
    BY <1>1, FreeStatus, PostKeepsType, ItemTypes DEF Statuses
  <2> QED
    BY <1>2, <2>1, TroubleKeepsType DEF Logout, TypeOK
<1>3. ASSUME NEW m \in Messages, SendMsg(m) \/ AddToInflight(m)
      PROVE  TypeOK'
  <2>1. m \in Requests /\ 0 \in -1 .. MaxRetries
    BY ClientAssumption DEF Requests
  <2>2. CASE SendMsg(m)
    <3>1. sdk' \in SdkType
      BY <1>1, <2>1, <2>2, PostKeepsType, ItemTypes DEF SendMsg
    <3>2. sending' \in [Messages -> {"new", "posted", "done"}]
      BY <2>2 DEF SendMsg, TypeOK
    <3> QED
      BY <2>2, <3>1, <3>2 DEF SendMsg, TypeOK
  <2>3. CASE AddToInflight(m)
    <3>1. sending' \in [Messages -> {"new", "posted", "done"}]
      BY <2>3 DEF AddToInflight, TypeOK
    <3>2. inflight' \in [Messages -> -1 .. MaxRetries]
      BY <2>1, <2>3 DEF AddToInflight, TypeOK
    <3> QED
      BY <2>3, <3>1, <3>2 DEF AddToInflight, TypeOK
  <2> QED
    BY <1>3, <2>2, <2>3
<1> QED
  BY <1>2, <1>3

LEMMA TypeStep ==
    TypeOK /\ [Next]_vars => TypeOK'
<1> SUFFICES ASSUME TypeOK, [Next]_vars PROVE TypeOK'
  OBVIOUS
<1>1. CASE Process \/ LoopEnds \/ Timeout \/ TimePasses
  BY <1>1, LoopKeepsType
<1>2. CASE Logout \/ \E m \in Messages : SendMsg(m) \/ AddToInflight(m)
  BY <1>2, ApplicationKeepsType
<1>3. ASSUME NEW t \in Threads, Network(t)
      PROVE  TypeOK'
  BY <1>3, NetworkKeepsType
<1>4. CASE UNCHANGED vars
  BY <1>4 DEF vars, TypeOK
<1> QED
  BY <1>1, <1>2, <1>3, <1>4 DEF Next, Network

\* The types of the connection's state; the counts of the messages in flight
\* stay within RETRY_MAXTIMES (checkInflight).
THEOREM TypeAlways == Spec => []TypeOK
<1> QED
  BY TypeInit, TypeStep, PTL DEF Spec

-----------------------------------------------------------------------------
(***************************************************************************)
(* The life of a socket thread, through the functions on sdk.              *)
(***************************************************************************)
\* Nothing but status, ping and offMsgCountOk differs.
Alike(s, r) == r.current = s.current /\ r.rs = s.rs /\ r.queue = s.queue

LEMMA LifeAlike ==
    ASSUME NEW s, NEW r, NEW w, NEW g, Alike(s, r), Life(s, w, g)
    PROVE  Life(r, w, g)
BY DEF Alike, Life, Young, Over, One, Reported, Holds

LEMMA LifeStop ==
    ASSUME NEW s \in SdkType, NEW w, NEW g, NEW T, Life(s, w, g)
    PROVE  Life(Stop(s, T), w, g)
<1> DEFINE r == Stop(s, T)
<1>1. r.current = s.current /\ r.queue = s.queue
  BY DEF Stop, SdkType
<1>2. \A t \in Threads : r.rs[t] = IF t \in T /\ s.rs[t] \in Live THEN "stopping" ELSE s.rs[t]
  BY DEF Stop, SdkType
<1> HIDE DEF r
<1>3. \A t \in Threads : r.rs[t] \in {"connecting", "open", "ended"} => s.rs[t] = r.rs[t]
  BY <1>2
<1> QED
  BY <1>1, <1>3 DEF Life, Young, Over, One, Reported, Holds, r

LEMMA LifeCreate ==
    ASSUME NEW s \in SdkType, NEW w, NEW g, Free(s) # {}, Life(s, w, g)
    PROVE  Life(CreateSocketThread(s), w, g)
<1>1. PICK u \in Free(s) :
          CreateSocketThread(s) =
              [s EXCEPT !.current = NoThread, !.ping = 0,
                        !.rs = [t \in Threads |->
                                   IF t = u THEN "connecting"
                                   ELSE IF t = s.current /\ s.rs[t] \in Live THEN "stopping"
                                   ELSE s.rs[t]]]
  BY CreateEffect
<1> DEFINE r == CreateSocketThread(s)
<1>2. r.current = NoThread /\ r.queue = s.queue
  BY <1>1 DEF SdkType
<1>3. \A t \in Threads : r.rs[t] = IF t = u THEN "connecting"
                                   ELSE IF t = s.current /\ s.rs[t] \in Live THEN "stopping"
                                   ELSE s.rs[t]
  BY <1>1 DEF SdkType
<1>4. /\ u \in Threads /\ s.rs[u] = "ended"
      /\ \A i \in 1 .. Len(s.queue) : s.queue[i].thread # u
  BY DEF Free
<1> HIDE DEF r
<1>5. Young(r, w, g)
  <2> SUFFICES ASSUME NEW t \in Threads, r.rs[t] = "connecting"
               PROVE  /\ Unused(t, w, g)
                      /\ r.current # t
                      /\ \A i \in 1 .. Len(r.queue) : r.queue[i].thread # t
    BY DEF Young
  <2>1. NoThread # t
    BY ClientAssumption
  <2>2. CASE t = u
    BY <1>2, <1>4, <2>1, <2>2 DEF Life, Over
  <2>3. CASE t # u
    BY <1>2, <1>3, <2>1, <2>3 DEF Life, Young
  <2> QED
    BY <2>2, <2>3
<1>6. Over(r, w, g)
  BY <1>3 DEF Life, Over
<1>7. One(r, w, g)
  BY <1>3 DEF Life, One, Live
<1>8. Reported(r, w, g)
  BY <1>2, ClientAssumption DEF Life, Reported, Holds
<1> QED
  BY <1>5, <1>6, <1>7, <1>8 DEF Life, r

LEMMA LifeReconnect ==
    ASSUME NEW s \in SdkType, NEW w, NEW g, Free(s) # {}, Life(s, w, g)
    PROVE  Life(Reconnect(s), w, g)
<1>1. CASE s.status = "Connecting"
  BY <1>1 DEF Reconnect
<1>2. CASE s.status # "Connecting"
  <2> DEFINE r == [s EXCEPT !.status = "Connecting"]
  <2>1. r \in SdkType /\ Free(r) # {}
    BY FreeStatus DEF Statuses
  <2>2. Alike(s, r)
    BY DEF Alike, SdkType
  <2>3. Reconnect(s) = CreateSocketThread(r)
    BY <1>2 DEF Reconnect
  <2> HIDE DEF r
  <2> QED
    BY <2>1, <2>2, <2>3, LifeAlike, LifeCreate
<1> QED
  BY <1>1, <1>2

LEMMA LifeRenew ==
    ASSUME NEW s \in SdkType, NEW w, NEW g, Free(s) # {}, Life(s, w, g)
    PROVE  Life(Reconnect([s EXCEPT !.status = "None"]), w, g)
<1> DEFINE r == [s EXCEPT !.status = "None"]
<1>1. r \in SdkType /\ Free(r) # {}
  BY FreeStatus DEF Statuses
<1>2. Alike(s, r)
  BY DEF Alike, SdkType
<1> HIDE DEF r
<1>3. Life(Reconnect(r), w, g)
  BY <1>1, <1>2, LifeAlike, LifeReconnect
<1> QED
  BY <1>3 DEF r

LEMMA LifeAwake ==
    ASSUME NEW s \in SdkType, NEW w, NEW g, Free(s) # {}, Life(s, w, g)
    PROVE  Life(Awake(s), w, g)
BY LifeReconnect DEF Awake

\* A request for the process thread itself is about no socket thread.
LEMMA LifeSend ==
    ASSUME NEW s \in SdkType, NEW w, NEW g, NEW what \in Requests, Life(s, w, g)
    PROVE  Life(Send(s, what), w, g)
<1>1. CASE Send(s, what) = s
  BY <1>1
<1>2. CASE Send(s, what) # s
  <2> DEFINE r == Send(s, what)
  <2>1. /\ r.current = s.current /\ r.rs = s.rs
        /\ r.queue = Append(s.queue, Item("SEND", NoThread, what))
        /\ s.queue \in Seq(Items)
    BY <1>2 DEF Send, Post, SdkType
  <2>2. \A i \in 1 .. Len(r.queue) :
            \/ i \in 1 .. Len(s.queue) /\ r.queue[i] = s.queue[i]
            \/ r.queue[i].type = "SEND" /\ r.queue[i].thread = NoThread
    <3> HIDE DEF r, Items
    <3>1. \A i \in 1 .. Len(r.queue) :
              \/ i \in 1 .. Len(s.queue) /\ r.queue[i] = s.queue[i]
              \/ r.queue[i] = Item("SEND", NoThread, what)
      BY <2>1
    <3> QED
      BY <3>1 DEF Item
  <2> HIDE DEF r
  <2>3. Life(r, w, g)
    BY <2>1, <2>2, ClientAssumption DEF Life, Young, Over, One, Reported, Holds
  <2> QED
    BY <2>3 DEF r
<1> QED
  BY <1>1, <1>2

\* The item at the head is taken.
LEMMA PopPlaces ==
    ASSUME NEW s \in SdkType, s.queue # <<>>, NEW r, r = [s EXCEPT !.queue = Tail(@)]
    PROVE  /\ r.current = s.current /\ r.rs = s.rs /\ r.status = s.status /\ r.ping = s.ping
           /\ 1 \in 1 .. Len(s.queue) /\ s.queue[1] = Head(s.queue)
           /\ \A i \in 1 .. Len(r.queue) : i + 1 \in 1 .. Len(s.queue) /\ r.queue[i] = s.queue[i + 1]
           /\ \A i \in 1 .. Len(s.queue) : i # 1 => i - 1 \in 1 .. Len(r.queue) /\ s.queue[i] = r.queue[i - 1]
<1>1. s.queue \in Seq(Items)
  BY DEF SdkType
<1>2. r.queue = Tail(s.queue) /\ r.current = s.current /\ r.rs = s.rs /\ r.status = s.status /\ r.ping = s.ping
  BY DEF SdkType
<1> HIDE DEF Items
<1> QED
  BY <1>1, <1>2

LEMMA LifePop ==
    ASSUME NEW s \in SdkType, NEW w, NEW g, s.queue # <<>>, Life(s, w, g)
    PROVE  Life([s EXCEPT !.queue = Tail(@)], w, g)
<1> DEFINE r == [s EXCEPT !.queue = Tail(@)]
<1>1. /\ r.current = s.current /\ r.rs = s.rs
      /\ \A i \in 1 .. Len(r.queue) : i + 1 \in 1 .. Len(s.queue) /\ r.queue[i] = s.queue[i + 1]
  BY PopPlaces
<1> HIDE DEF r
<1>2. Young(r, w, g) /\ Over(r, w, g) /\ One(r, w, g)
  BY <1>1 DEF Life, Young, Over, One
<1>3. Reported(r, w, g)
  <2> SUFFICES ASSUME NEW t \in Threads, NEW i \in 1 .. Len(r.queue), Holds(r, i, "SUCCESS", t)
               PROVE  /\ Unused(t, w, g)
                      /\ r.current # t
                      /\ \A j \in 1 .. Len(r.queue) :
                            Holds(r, j, "SUCCESS", t) \/ Holds(r, j, "RECV", t) => j = i
    BY DEF Reported
  <2>1. i + 1 \in 1 .. Len(s.queue) /\ Holds(s, i + 1, "SUCCESS", t)
    BY <1>1 DEF Holds
  <2>2. /\ Unused(t, w, g)
        /\ s.current # t
        /\ \A j \in 1 .. Len(s.queue) :
              Holds(s, j, "SUCCESS", t) \/ Holds(s, j, "RECV", t) => j = i + 1
    BY <2>1 DEF Life, Reported
  <2>3. ASSUME NEW j \in 1 .. Len(r.queue), Holds(r, j, "SUCCESS", t) \/ Holds(r, j, "RECV", t)
        PROVE  j = i
    <3>1. j + 1 \in 1 .. Len(s.queue) /\ (Holds(s, j + 1, "SUCCESS", t) \/ Holds(s, j + 1, "RECV", t))
      BY <1>1, <2>3 DEF Holds
    <3>2. j + 1 = i + 1
      BY <2>2, <3>1
    <3> QED
      BY <3>2
  <2> QED
    BY <1>1, <2>2, <2>3
<1> QED
  BY <1>2, <1>3 DEF Life, r

\* A thread whose report has just been taken.
Taken(s, t, w, g) ==
    /\ s.rs[t] # "connecting"
    /\ Unused(t, w, g)
    /\ \A i \in 1 .. Len(s.queue) : ~ Holds(s, i, "SUCCESS", t) /\ ~ Holds(s, i, "RECV", t)

LEMMA ReportTaken ==
    ASSUME NEW s \in SdkType, NEW w, NEW g, NEW t \in Threads, s.queue # <<>>, Life(s, w, g),
           Head(s.queue).type = "SUCCESS", Head(s.queue).thread = t
    PROVE  Taken([s EXCEPT !.queue = Tail(@)], t, w, g)
<1> DEFINE r == [s EXCEPT !.queue = Tail(@)]
<1>1. /\ r.current = s.current /\ r.rs = s.rs
      /\ 1 \in 1 .. Len(s.queue) /\ s.queue[1] = Head(s.queue)
      /\ \A i \in 1 .. Len(r.queue) : i + 1 \in 1 .. Len(s.queue) /\ r.queue[i] = s.queue[i + 1]
  BY PopPlaces
<1> HIDE DEF r
<1>2. Holds(s, 1, "SUCCESS", t)
  BY <1>1 DEF Holds
<1>3. r.rs[t] # "connecting"
  BY <1>1, <1>2 DEF Life, Young, Holds
<1>4. /\ Unused(t, w, g)
      /\ \A j \in 1 .. Len(s.queue) : Holds(s, j, "SUCCESS", t) \/ Holds(s, j, "RECV", t) => j = 1
  BY <1>1, <1>2 DEF Life, Reported
<1>5. \A i \in 1 .. Len(r.queue) : ~ Holds(r, i, "SUCCESS", t) /\ ~ Holds(r, i, "RECV", t)
  BY <1>1, <1>4 DEF Holds
<1> QED
  BY <1>3, <1>4, <1>5 DEF Taken, r

\* processSuccessRSThread.
Chosen(s, t) ==
    IF s.current # NoThread THEN s
    ELSE Stop([s EXCEPT !.current = t], Threads \ {t})

LEMMA ChosenEffect ==
    ASSUME NEW s \in SdkType, NEW t \in Threads
    PROVE  /\ Chosen(s, t) \in SdkType
           /\ Chosen(s, t).current = IF s.current # NoThread THEN s.current ELSE t
           /\ Chosen(s, t).current # NoThread
           /\ Chosen(s, t).queue = s.queue
           /\ Chosen(s, t).status = s.status
           /\ Chosen(s, t).ping = s.ping
           /\ \A x \in Threads : Chosen(s, t).rs[x] \in {s.rs[x], "stopping"}
<1> DEFINE r == [s EXCEPT !.current = t]
<1>1. /\ r \in SdkType /\ r.current = t /\ r.queue = s.queue /\ r.status = s.status
      /\ r.ping = s.ping /\ r.rs = s.rs
  BY DEF SdkType
<1> HIDE DEF r
<1>2. /\ Stop(r, Threads \ {t}) \in SdkType
      /\ Stop(r, Threads \ {t}).current = t
      /\ Stop(r, Threads \ {t}).queue = s.queue
      /\ Stop(r, Threads \ {t}).status = s.status
      /\ Stop(r, Threads \ {t}).ping = s.ping
  <2>1. Stop(r, Threads \ {t}) \in SdkType
    BY <1>1, StopKeepsType
  <2>2. PICK states : Stop(r, Threads \ {t}) = [r EXCEPT !.rs = states]
    BY DEF Stop
  <2>3. \A x : LET q == [r EXCEPT !.rs = x]
               IN  q.current = r.current /\ q.queue = r.queue /\ q.status = r.status /\ q.ping = r.ping
    BY <1>1 DEF SdkType
  <2> QED
    BY <1>1, <2>1, <2>2, <2>3
<1>3. \A x \in Threads : Stop(r, Threads \ {t}).rs[x] \in {s.rs[x], "stopping"}
  BY <1>1 DEF Stop, SdkType
<1>4. t # NoThread
  BY ClientAssumption
<1> QED
  BY <1>2, <1>3, <1>4 DEF Chosen, r

LEMMA SuccessEffect ==
    ASSUME NEW s \in SdkType, NEW t \in Threads
    PROVE  \/ Success(s, t) = Chosen(s, t) /\ s.ping # 0
           \/ /\ s.ping = 0
              /\ [Chosen(s, t) EXCEPT !.ping = 1] \in SdkType
              /\ Success(s, t) = Send([Chosen(s, t) EXCEPT !.ping = 1], "LOGIN")
<1>1. Chosen(s, t) \in SdkType /\ Chosen(s, t).ping = s.ping
  BY ChosenEffect
<1>2. [Chosen(s, t) EXCEPT !.ping = 1] \in SdkType
  <2>1. 1 \in 0 .. 3
    OBVIOUS
  <2> QED
    BY <1>1, <2>1, PingKeepsType
<1> QED
  BY <1>1, <1>2 DEF Success, Chosen

LEMMA LifeSuccess ==
    ASSUME NEW s \in SdkType, NEW w, NEW g, NEW t \in Threads, Life(s, w, g), Taken(s, t, w, g)
    PROVE  Life(Success(s, t), w, g)
<1> DEFINE r == Chosen(s, t)
<1>1. /\ r \in SdkType
      /\ r.current = IF s.current # NoThread THEN s.current ELSE t
      /\ r.queue = s.queue
      /\ \A x \in Threads : r.rs[x] \in {s.rs[x], "stopping"}
  BY ChosenEffect
<1> HIDE DEF r
<1>2. Life(r, w, g)
  BY <1>1, ClientAssumption DEF Life, Young, Over, One, Reported, Holds, Taken
<1>3. CASE Success(s, t) = r
  BY <1>2, <1>3
<1>4. CASE [r EXCEPT !.ping = 1] \in SdkType /\ Success(s, t) = Send([r EXCEPT !.ping = 1], "LOGIN")
  <2> DEFINE q == [r EXCEPT !.ping = 1]
  <2>1. Alike(r, q)
    BY <1>1 DEF Alike, SdkType
  <2>2. q \in SdkType
    BY <1>4
  <2> HIDE DEF q
  <2>3. Life(Send(q, "LOGIN"), w, g)
    BY <1>2, <2>1, <2>2, LifeAlike, LifeSend DEF Requests
  <2> QED
    BY <1>4, <2>3 DEF q
<1> QED
  BY <1>3, <1>4, SuccessEffect DEF r

LEMMA LifeExit ==
    ASSUME NEW s \in SdkType, NEW w, NEW g, Life(s, w, g)
    PROVE  Life([Stop(s, Threads) EXCEPT !.status = "None", !.current = NoThread], w, g)
<1> DEFINE q == Stop(s, Threads)
           r == [q EXCEPT !.status = "None", !.current = NoThread]
<1>1. q \in SdkType /\ Life(q, w, g)
  BY StopKeepsType, LifeStop
<1>2. \A t \in Threads : q.rs[t] \notin Live
  BY DEF Stop, SdkType, Live
<1> HIDE DEF q
<1>3. r.current = NoThread /\ r.rs = q.rs /\ r.queue = q.queue
  BY <1>1 DEF SdkType
<1> HIDE DEF r
<1>4. Life(r, w, g)
  BY <1>1, <1>2, <1>3, ClientAssumption DEF Life, Young, Over, One, Reported, Holds, Live
<1> QED
  BY <1>4 DEF q, r

LEMMA LifeReceive ==
    ASSUME NEW s \in SdkType, NEW w, NEW g, NEW what, Free(s) # {}, Life(s, w, g)
    PROVE  Life(Receive(s, what), w, g)
<1> DEFINE heard == Heard(s)
           asking == [s EXCEPT !.status = "Recving", !.offMsgCountOk = FALSE]
<1>1. heard \in SdkType /\ Free(heard) # {} /\ Alike(s, heard)
  BY HeardKeepsType DEF Alike, Heard, SdkType
<1>2. Life(heard, w, g)
  BY <1>1, LifeAlike
<1>3. asking \in SdkType /\ Alike(s, asking)
  BY DEF SdkType, Statuses, Alike
<1> HIDE DEF heard, asking
<1>4. Life(Send(asking, "HOTSESSION"), w, g)
  BY <1>3, LifeAlike, LifeSend DEF Requests
<1>5. Life(Send(heard, "HOTSESSION"), w, g)
  BY <1>1, <1>2, LifeSend DEF Requests
<1>6. Life(Reconnect([heard EXCEPT !.status = "None"]), w, g)
  BY <1>1, <1>2, LifeRenew
<1>7. \A status : Alike(s, [s EXCEPT !.status = status])
  BY DEF Alike, SdkType
<1>8. \A status : Life([s EXCEPT !.status = status], w, g)
  BY <1>7, LifeAlike
<1>9. \A status : Alike(heard, [heard EXCEPT !.status = status])
  BY <1>1 DEF Alike, SdkType
<1>10. Alike(heard, [heard EXCEPT !.status = "Connected", !.offMsgCountOk = TRUE])
  BY <1>1 DEF Alike, SdkType
<1>11. /\ Life([heard EXCEPT !.status = "Logout"], w, g)
       /\ Life([heard EXCEPT !.status = "Connected", !.offMsgCountOk = TRUE], w, g)
  BY <1>2, <1>9, <1>10, LifeAlike
<1> QED
  BY <1>2, <1>4, <1>5, <1>6, <1>8, <1>11 DEF Receive, heard, asking

\* What is done with an item that has been taken.
LEMMA LifeDone ==
    ASSUME NEW s \in SdkType, NEW w, NEW g, NEW item \in Items, Free(s) # {}, Life(s, w, g),
           item.type = "SUCCESS" => Taken(s, item.thread, w, g)
    PROVE  Life(Done(s, item), w, g)
<1>1. CASE item.type = "SUCCESS"
  <2>1. item.thread \in Threads
    BY <1>1 DEF Items
  <2> QED
    BY <1>1, <2>1, LifeSuccess DEF Done
<1>2. CASE item.type = "FAILED"
  BY <1>2, LifeRenew DEF Done, Failed
<1>3. CASE item.type = "CLOSED"
  BY <1>3, LifeRenew, LifeReconnect DEF Done, Closed
<1>4. CASE item.type = "RECV"
  BY <1>4, LifeReceive DEF Done
<1>5. CASE item.type \notin {"SUCCESS", "FAILED", "CLOSED", "RECV"}
  BY <1>5, LifeReconnect DEF Done
<1> QED
  BY <1>1, <1>2, <1>3, <1>4, <1>5

LEMMA LifeCheckPing ==
    ASSUME NEW s \in SdkType, NEW w, NEW g, Free(s) # {}, Life(s, w, g)
    PROVE  Life(CheckPing(s), w, g)
<1> DEFINE asked == IF s.offMsgCountOk THEN Send(s, "PING") ELSE Send(Send(s, "PING"), "HOTSESSION")
           pinged == [asked EXCEPT !.ping = IF @ = 0 THEN 1 ELSE @]
<1>1. Send(s, "PING") \in SdkType /\ Life(Send(s, "PING"), w, g)
  BY SendKeepsType, LifeSend DEF Requests
<1>2. asked \in SdkType /\ Life(asked, w, g)
  BY <1>1, SendKeepsType, LifeSend DEF Requests
<1>3. CheckPing(s) \in {Reconnect([s EXCEPT !.status = "None"]), s, pinged}
  BY DEF CheckPing
<1> HIDE DEF asked
<1>4. Alike(asked, pinged)
  BY <1>2 DEF Alike, SdkType
<1>5. Life(pinged, w, g)
  BY <1>2, <1>4, LifeAlike
<1> HIDE DEF pinged
<1> QED
  BY <1>3, <1>5, LifeRenew

LEMMA LifeDestroy ==
    ASSUME NEW s \in SdkType, NEW w, NEW g, Life(s, w, g)
    PROVE  Life(DestroyThreads(s), w, g)
BY LifeStop DEF DestroyThreads

-----------------------------------------------------------------------------
(***************************************************************************)
(* What is under way while the client connects, through the functions on   *)
(* sdk.                                                                    *)
(***************************************************************************)
LEMMA ReconnectEffect ==
    ASSUME NEW s \in SdkType, Free(s) # {}
    PROVE  /\ s.status = "Connecting" => Reconnect(s) = s
           /\ s.status # "Connecting" =>
                 /\ Reconnect(s).current = NoThread
                 /\ \E t \in Threads : Reconnect(s).rs[t] = "connecting"
<1>1. CASE s.status = "Connecting"
  BY <1>1 DEF Reconnect
<1>2. CASE s.status # "Connecting"
  <2> DEFINE r == [s EXCEPT !.status = "Connecting"]
  <2>1. r \in SdkType /\ Free(r) # {}
    BY FreeStatus DEF Statuses
  <2>2. Reconnect(s) = CreateSocketThread(r)
    BY <1>2 DEF Reconnect
  <2> HIDE DEF r
  <2>3. PICK u \in Free(r) :
            CreateSocketThread(r) =
                [r EXCEPT !.current = NoThread, !.ping = 0,
                          !.rs = [t \in Threads |->
                                     IF t = u THEN "connecting"
                                     ELSE IF t = r.current /\ r.rs[t] \in Live THEN "stopping"
                                     ELSE r.rs[t]]]
    BY <2>1, CreateEffect
  <2>4. u \in Threads
    BY DEF Free
  <2>5. CreateSocketThread(r).current = NoThread /\ CreateSocketThread(r).rs[u] = "connecting"
    BY <2>1, <2>3, <2>4 DEF SdkType
  <2> QED
    BY <1>2, <2>2, <2>4, <2>5
<1> QED
  BY <1>1, <1>2

LEMMA RenewEffect ==
    ASSUME NEW s \in SdkType, Free(s) # {}
    PROVE  /\ Reconnect([s EXCEPT !.status = "None"]).current = NoThread
           /\ \E t \in Threads : Reconnect([s EXCEPT !.status = "None"]).rs[t] = "connecting"
<1> DEFINE r == [s EXCEPT !.status = "None"]
<1>1. r \in SdkType /\ Free(r) # {} /\ r.status # "Connecting"
  BY FreeStatus, ZenonT(60) DEF Statuses, SdkType
<1> HIDE DEF r
<1>2. Reconnect(r).current = NoThread /\ \E t \in Threads : Reconnect(r).rs[t] = "connecting"
  BY <1>1, ReconnectEffect
<1> QED
  BY <1>2 DEF r

\* No thread is chosen, or one that is starting: nothing has come from it.
LEMMA FirstOfNone ==
    ASSUME NEW s, NEW g, s.status # "Connecting" \/ s.current = NoThread
    PROVE  First(s, g)
BY ClientAssumption DEF First

LEMMA WayOfNew ==
    ASSUME NEW s, s.current = NoThread, \E t \in Threads : s.rs[t] = "connecting"
    PROVE  Way(s)
BY DEF Way

LEMMA SendEffect ==
    ASSUME NEW s \in SdkType, NEW what \in Requests
    PROVE  /\ Send(s, what) \in SdkType
           /\ Send(s, what).current = s.current
           /\ Send(s, what).rs = s.rs
           /\ Send(s, what).status = s.status
           /\ Send(s, what).ping = s.ping
           /\ \A i \in 1 .. Len(s.queue) :
                 i \in 1 .. Len(Send(s, what).queue) /\ Send(s, what).queue[i] = s.queue[i]
           /\ \A i \in 1 .. Len(Send(s, what).queue) :
                 \/ i \in 1 .. Len(s.queue) /\ Send(s, what).queue[i] = s.queue[i]
                 \/ Send(s, what).queue[i].thread = NoThread
<1> DEFINE item == Item("SEND", NoThread, what)
           r == Post(s, item)
<1>1. Send(s, what) \in SdkType
  BY SendKeepsType
<1>2. /\ r.current = s.current /\ r.rs = s.rs /\ r.status = s.status /\ r.ping = s.ping
      /\ r.queue = Append(s.queue, item)
      /\ s.queue \in Seq(Items)
  BY DEF Post, SdkType
<1>3. item.thread = NoThread
  BY DEF Item
<1>4. Send(s, what) = s \/ Send(s, what) = r
  BY DEF Send
<1> HIDE DEF item, r, Items
<1>5. /\ \A i \in 1 .. Len(s.queue) : i \in 1 .. Len(r.queue) /\ r.queue[i] = s.queue[i]
      /\ \A i \in 1 .. Len(r.queue) :
            \/ i \in 1 .. Len(s.queue) /\ r.queue[i] = s.queue[i]
            \/ r.queue[i].thread = NoThread
  BY <1>2, <1>3
<1>6. CASE Send(s, what) = s
  BY <1>1, <1>6
<1>7. CASE Send(s, what) = r
  BY <1>1, <1>2, <1>5, <1>7
<1> QED
  BY <1>4, <1>6, <1>7

LEMMA FirstSend ==
    ASSUME NEW s \in SdkType, NEW g, NEW what \in Requests, First(s, g)
    PROVE  First(Send(s, what), g)
<1> DEFINE r == Send(s, what)
<1>1. /\ r.current = s.current /\ r.status = s.status
      /\ \A i \in 1 .. Len(s.queue) : i \in 1 .. Len(r.queue) /\ r.queue[i] = s.queue[i]
      /\ \A i \in 1 .. Len(r.queue) :
            \/ i \in 1 .. Len(s.queue) /\ r.queue[i] = s.queue[i]
            \/ r.queue[i].thread = NoThread
      /\ s.queue \in Seq(Items)
  BY SendEffect DEF SdkType
<1> HIDE DEF r
<1> SUFFICES ASSUME r.status = "Connecting", NEW t \in Threads, r.current = t
             PROVE  /\ t \in g => \E i \in 1 .. Len(r.queue) : Answered(r, i, t)
                    /\ \A i \in 1 .. Len(r.queue) : Holds(r, i, "RECV", t) =>
                          \E j \in 1 .. i : Answered(r, j, t)
  BY DEF First, r
<1>2. /\ t \in g => \E i \in 1 .. Len(s.queue) : Answered(s, i, t)
      /\ \A i \in 1 .. Len(s.queue) : Holds(s, i, "RECV", t) =>
            \E j \in 1 .. i : Answered(s, j, t)
  BY <1>1 DEF First
<1>3. \A i \in 1 .. Len(s.queue) : Answered(s, i, t) => Answered(r, i, t)
  BY <1>1 DEF Answered, Holds
<1>4. t \in g => \E i \in 1 .. Len(r.queue) : Answered(r, i, t)
  BY <1>1, <1>2, <1>3
<1>5. ASSUME NEW i \in 1 .. Len(r.queue), Holds(r, i, "RECV", t)
      PROVE  \E j \in 1 .. i : Answered(r, j, t)
  <2>1. i \in 1 .. Len(s.queue) /\ Holds(s, i, "RECV", t)
    BY <1>1, <1>5, ClientAssumption DEF Holds
  <2>2. PICK j \in 1 .. i : Answered(s, j, t)
    BY <1>2, <2>1
  <2>3. Len(s.queue) \in Nat
    BY <1>1
  <2>4. j \in 1 .. Len(s.queue)
    BY <2>1, <2>3
  <2> QED
    BY <1>3, <2>2, <2>4
<1> QED
  BY <1>4, <1>5

LEMMA WaySend ==
    ASSUME NEW s \in SdkType, NEW what \in Requests, Way(s)
    PROVE  Way(Send(s, what))
<1> DEFINE r == Send(s, what)
<1>1. /\ r.current = s.current /\ r.rs = s.rs /\ r.status = s.status /\ r.ping = s.ping
      /\ \A i \in 1 .. Len(s.queue) : i \in 1 .. Len(r.queue) /\ r.queue[i] = s.queue[i]
  BY SendEffect
<1> HIDE DEF r
<1> QED
  BY <1>1 DEF Way, Holds, r

LEMMA FirstPop ==
    ASSUME NEW s \in SdkType, NEW g, s.queue # <<>>, First(s, g),
           ~ (/\ Head(s.queue).type = "RECV"
              /\ Head(s.queue).thread = s.current
              /\ Head(s.queue).what \in Logins)
    PROVE  First([s EXCEPT !.queue = Tail(@)], g)
<1> DEFINE r == [s EXCEPT !.queue = Tail(@)]
<1>1. /\ r.current = s.current /\ r.status = s.status
      /\ 1 \in 1 .. Len(s.queue) /\ s.queue[1] = Head(s.queue)
      /\ \A i \in 1 .. Len(r.queue) : i + 1 \in 1 .. Len(s.queue) /\ r.queue[i] = s.queue[i + 1]
      /\ \A i \in 1 .. Len(s.queue) : i # 1 => i - 1 \in 1 .. Len(r.queue) /\ s.queue[i] = r.queue[i - 1]
  BY PopPlaces
<1> HIDE DEF r
<1> SUFFICES ASSUME r.status = "Connecting", NEW t \in Threads, r.current = t
             PROVE  /\ t \in g => \E i \in 1 .. Len(r.queue) : Answered(r, i, t)
                    /\ \A i \in 1 .. Len(r.queue) : Holds(r, i, "RECV", t) =>
                          \E j \in 1 .. i : Answered(r, j, t)
  BY DEF First, r
<1>2. /\ t \in g => \E i \in 1 .. Len(s.queue) : Answered(s, i, t)
      /\ \A i \in 1 .. Len(s.queue) : Holds(s, i, "RECV", t) =>
            \E j \in 1 .. i : Answered(s, j, t)
  BY <1>1 DEF First
<1>3. ~ Answered(s, 1, t)
  BY <1>1 DEF Answered, Holds
<1>4. \A i \in 1 .. Len(s.queue) : Answered(s, i, t) => i # 1 /\ Answered(r, i - 1, t)
  BY <1>1, <1>3 DEF Answered, Holds
<1>5. t \in g => \E i \in 1 .. Len(r.queue) : Answered(r, i, t)
  BY <1>1, <1>2, <1>4
<1>6. ASSUME NEW i \in 1 .. Len(r.queue), Holds(r, i, "RECV", t)
      PROVE  \E j \in 1 .. i : Answered(r, j, t)
  <2>1. i + 1 \in 1 .. Len(s.queue) /\ Holds(s, i + 1, "RECV", t)
    BY <1>1, <1>6 DEF Holds
  <2>2. PICK j \in 1 .. i + 1 : Answered(s, j, t)
    BY <1>2, <2>1
  <2>3. j \in 1 .. Len(s.queue)
    BY <2>1
  <2>4. j # 1 /\ Answered(r, j - 1, t)
    BY <1>4, <2>2, <2>3
  <2>5. j - 1 \in 1 .. i
    BY <2>4
  <2> QED
    BY <2>4, <2>5
<1> QED
  BY <1>5, <1>6

LEMMA FirstSuccess ==
    ASSUME NEW s \in SdkType, NEW w, NEW g, NEW t \in Threads, First(s, g), Taken(s, t, w, g)
    PROVE  First(Success(s, t), g)
<1> DEFINE r == Chosen(s, t)
<1>1. /\ r \in SdkType
      /\ r.current = IF s.current # NoThread THEN s.current ELSE t
      /\ r.queue = s.queue
      /\ r.status = s.status
  BY ChosenEffect
<1> HIDE DEF r
<1>2. First(r, g)
  <2>1. CASE s.current # NoThread
    BY <1>1, <2>1 DEF First, Answered, Holds
  <2>2. CASE s.current = NoThread
    BY <1>1, <2>2 DEF First, Taken, Unused, Holds
  <2> QED
    BY <2>1, <2>2
<1>3. CASE Success(s, t) = r
  BY <1>2, <1>3
<1>4. CASE [r EXCEPT !.ping = 1] \in SdkType /\ Success(s, t) = Send([r EXCEPT !.ping = 1], "LOGIN")
  <2> DEFINE q == [r EXCEPT !.ping = 1]
  <2>1. q.status = r.status /\ q.current = r.current /\ q.queue = r.queue
    BY <1>1 DEF SdkType
  <2>2. q \in SdkType
    BY <1>4
  <2> HIDE DEF q
  <2>3. First(q, g)
    BY <1>2, <2>1 DEF First, Answered, Holds
  <2>4. First(Send(q, "LOGIN"), g)
    BY <2>2, <2>3, FirstSend DEF Requests
  <2> QED
    BY <1>4, <2>4 DEF q
<1> QED
  BY <1>3, <1>4, SuccessEffect DEF r

LEMMA WaySuccess ==
    ASSUME NEW s \in SdkType, NEW t \in Threads
    PROVE  Way(Success(s, t))
<1> DEFINE r == Chosen(s, t)
<1>1. r \in SdkType /\ r.current # NoThread /\ r.ping = s.ping
  BY ChosenEffect
<1>2. s.ping \in 0 .. 3
  BY DEF SdkType
<1> HIDE DEF r
<1>3. CASE Success(s, t) = r /\ s.ping # 0
  BY <1>1, <1>2, <1>3 DEF Way
<1>4. CASE [r EXCEPT !.ping = 1] \in SdkType /\ Success(s, t) = Send([r EXCEPT !.ping = 1], "LOGIN")
  <2> DEFINE q == [r EXCEPT !.ping = 1]
  <2>1. q.current # NoThread /\ q.ping = 1
    BY <1>1 DEF SdkType
  <2>2. q \in SdkType
    BY <1>4
  <2> HIDE DEF q
  <2>3. Way(q)
    BY <2>1 DEF Way
  <2>4. Way(Send(q, "LOGIN"))
    BY <2>2, <2>3, WaySend DEF Requests
  <2> QED
    BY <1>4, <2>4 DEF q
<1> QED
  BY <1>3, <1>4, SuccessEffect DEF r

\* What an item does to the status it finds.
LEMMA ReceiveEffect ==
    ASSUME NEW s \in SdkType, NEW what, Free(s) # {}
    PROVE  \/ Receive(s, what).status # "Connecting"
           \/ /\ Receive(s, what).current = NoThread
              /\ \E t \in Threads : Receive(s, what).rs[t] = "connecting"
           \/ /\ what \notin Logins
              /\ Receive(s, what) \in {Heard(s), Send(Heard(s), "HOTSESSION")}
<1>1. Heard(s) \in SdkType /\ Free(Heard(s)) # {}
  BY HeardKeepsType
<1> DEFINE heard == Heard(s)
           asking == [s EXCEPT !.status = "Recving", !.offMsgCountOk = FALSE]
<1>2. asking \in SdkType /\ asking.status = "Recving"
  BY DEF SdkType, Statuses
<1> HIDE DEF heard, asking
<1>3. Send(asking, "HOTSESSION").status = "Recving"
  BY <1>2, SendEffect DEF Requests
<1>4. [s EXCEPT !.status = "None"].status = "None" /\ [s EXCEPT !.status = "Logout"].status = "Logout"
  BY DEF SdkType
<1>5. /\ [heard EXCEPT !.status = "Connected", !.offMsgCountOk = TRUE].status = "Connected"
      /\ [heard EXCEPT !.status = "Logout"].status = "Logout"
  BY <1>1 DEF SdkType, heard
<1>6. /\ Reconnect([heard EXCEPT !.status = "None"]).current = NoThread
      /\ \E t \in Threads : Reconnect([heard EXCEPT !.status = "None"]).rs[t] = "connecting"
  BY <1>1, RenewEffect DEF heard
<1>7. CASE what = "login_ok"
  BY <1>3, <1>7 DEF Receive, asking
<1>8. CASE what \in {"login_busy", "login_no", "hot_ok", "kickout"}
  BY <1>4, <1>5, <1>8 DEF Receive, heard
<1>9. CASE what = "hot_no"
  BY <1>6, <1>9 DEF Receive, heard
<1>10. CASE what \notin {"login_ok", "login_busy", "login_no", "hot_ok", "kickout", "hot_no"}
  BY <1>10 DEF Receive, Logins
<1> QED
  BY <1>7, <1>8, <1>9, <1>10

LEMMA HeardEffect ==
    ASSUME NEW s \in SdkType
    PROVE  /\ Heard(s) \in SdkType
           /\ Heard(s).current = s.current /\ Heard(s).rs = s.rs /\ Heard(s).status = s.status
           /\ Heard(s).queue = s.queue
<1>1. Heard(s) \in SdkType
  BY HeardKeepsType
<1> QED
  BY <1>1 DEF Heard, SdkType

LEMMA HeardKeepsFirst ==
    ASSUME NEW s \in SdkType, NEW g, First(s, g)
    PROVE  First(Heard(s), g)
<1> DEFINE r == Heard(s)
<1>1. r.current = s.current /\ r.status = s.status /\ r.queue = s.queue
  BY HeardEffect
<1> HIDE DEF r
<1>2. First(r, g)
  BY <1>1 DEF First, Answered, Holds
<1> QED
  BY <1>2 DEF r

LEMMA HeardKeepsWay ==
    ASSUME NEW s \in SdkType, Way(s), s.status # "Connecting" \/ s.current = NoThread
    PROVE  Way(Heard(s))
<1> DEFINE r == Heard(s)
<1>1. r.current = s.current /\ r.status = s.status /\ r.queue = s.queue /\ r.rs = s.rs
  BY HeardEffect
<1> HIDE DEF r
<1>2. Way(r)
  BY <1>1 DEF Way, Holds
<1> QED
  BY <1>2 DEF r

LEMMA FirstDone ==
    ASSUME NEW a \in SdkType, NEW w, NEW g, a.queue # <<>>, Life(a, w, g), First(a, g),
           NEW item \in Items, item = Head(a.queue),
           NEW s \in SdkType, s = [a EXCEPT !.queue = Tail(@)], Free(s) # {}
    PROVE  First(Done(s, item), g)
<1>1. item.type # "RECV" \/ item.what \notin Logins => First(s, g)
  BY FirstPop
<1>2. CASE item.type = "SUCCESS"
  <2>1. item.thread \in Threads
    BY <1>2 DEF Items
  <2>2. Taken(s, item.thread, w, g)
    BY <1>2, <2>1, ReportTaken
  <2>3. First(Success(s, item.thread), g)
    BY <1>1, <1>2, <2>1, <2>2, FirstSuccess
  <2> QED
    BY <1>2, <2>3 DEF Done
<1>3. CASE item.type = "FAILED"
  <2>1. Done(s, item) = Reconnect([s EXCEPT !.status = "None"])
    BY <1>3 DEF Done, Failed
  <2> QED
    BY <2>1, RenewEffect, FirstOfNone
<1>4. CASE item.type = "CLOSED"
  <2>1. \/ Done(s, item) \in {s, Reconnect([s EXCEPT !.status = "None"])}
        \/ s.status = "Logout" /\ Done(s, item) = Reconnect(s)
    BY <1>4 DEF Done, Closed
  <2>2. First(Reconnect([s EXCEPT !.status = "None"]), g)
    BY RenewEffect, FirstOfNone
  <2>3. s.status = "Logout" => First(Reconnect(s), g)
    BY ReconnectEffect, FirstOfNone
  <2> QED
    BY <1>1, <1>4, <2>1, <2>2, <2>3
<1>5. CASE item.type = "RECV"
  <2> DEFINE r == Receive(s, item.what)
  <2>1. Done(s, item) = r
    BY <1>5 DEF Done
  <2>2. CASE r.status # "Connecting" \/ r.current = NoThread
    <3> HIDE DEF r
    <3> QED
      BY <2>1, <2>2, FirstOfNone
  <2>3. CASE item.what \notin Logins /\ r \in {Heard(s), Send(Heard(s), "HOTSESSION")}
    <3>1. First(s, g)
      BY <1>1, <2>3
    <3>2. First(Heard(s), g)
      BY <3>1, HeardEffect, HeardKeepsFirst
    <3>3. First(Send(Heard(s), "HOTSESSION"), g)
      BY <3>2, HeardEffect, FirstSend DEF Requests
    <3> QED
      BY <2>1, <2>3, <3>2, <3>3
  <2> QED
    BY <2>2, <2>3, ReceiveEffect
<1>6. CASE item.type \notin {"SUCCESS", "FAILED", "CLOSED", "RECV"}
  <2>1. Done(s, item) \in {s, Reconnect(s)}
    BY <1>6 DEF Done
  <2>2. First(Reconnect(s), g)
    BY <1>1, <1>6, ReconnectEffect, FirstOfNone
  <2> QED
    BY <1>1, <1>6, <2>1, <2>2
<1> QED
  BY <1>2, <1>3, <1>4, <1>5, <1>6

LEMMA WayPop ==
    ASSUME NEW a \in SdkType, a.queue # <<>>, Way(a),
           Head(a.queue).type \notin {"SUCCESS", "FAILED"}
    PROVE  Way([a EXCEPT !.queue = Tail(@)])
<1> DEFINE r == [a EXCEPT !.queue = Tail(@)]
<1>1. /\ r.current = a.current /\ r.rs = a.rs /\ r.status = a.status /\ r.ping = a.ping
      /\ 1 \in 1 .. Len(a.queue) /\ a.queue[1] = Head(a.queue)
      /\ \A i \in 1 .. Len(a.queue) : i # 1 => i - 1 \in 1 .. Len(r.queue) /\ a.queue[i] = r.queue[i - 1]
  BY PopPlaces
<1> HIDE DEF r
<1>2. \A t \in Threads, i \in 1 .. Len(a.queue) :
          Holds(a, i, "SUCCESS", t) \/ Holds(a, i, "FAILED", t) =>
             /\ i - 1 \in 1 .. Len(r.queue)
             /\ Holds(r, i - 1, "SUCCESS", t) \/ Holds(r, i - 1, "FAILED", t)
  BY <1>1 DEF Holds
<1> QED
  BY <1>1, <1>2 DEF Way, r

\* A packet that stops the clock of a login comes from a replaced connection:
\* from the chosen one the answer to the login comes first.
LEMMA WayDone ==
    ASSUME NEW a \in SdkType, NEW g, a.queue # <<>>, First(a, g), Way(a),
           NEW item \in Items, item = Head(a.queue),
           NEW s \in SdkType, s = [a EXCEPT !.queue = Tail(@)], Free(s) # {}
    PROVE  Misled(s, item) \/ Way(Done(s, item))
<1>1. item.type \notin {"SUCCESS", "FAILED"} => Way(s)
  BY WayPop
<1>2. CASE item.type = "SUCCESS"
  <2>1. item.thread \in Threads
    BY <1>2 DEF Items
  <2>2. Way(Success(s, item.thread))
    BY <2>1, WaySuccess
  <2> QED
    BY <1>2, <2>2 DEF Done
<1>3. CASE item.type = "FAILED"
  <2>1. Done(s, item) = Reconnect([s EXCEPT !.status = "None"])
    BY <1>3 DEF Done, Failed
  <2> QED
    BY <2>1, RenewEffect, WayOfNew
<1>4. CASE item.type = "CLOSED"
  <2>1. \/ Done(s, item) \in {s, Reconnect([s EXCEPT !.status = "None"])}
        \/ s.status = "Logout" /\ Done(s, item) = Reconnect(s)
    BY <1>4 DEF Done, Closed
  <2>2. Way(Reconnect([s EXCEPT !.status = "None"]))
    BY RenewEffect, WayOfNew
  <2>3. s.status = "Logout" => Way(Reconnect(s))
    BY ReconnectEffect, WayOfNew
  <2> QED
    BY <1>1, <1>4, <2>1, <2>2, <2>3
<1>5. CASE item.type = "RECV"
  <2> DEFINE r == Receive(s, item.what)
  <2>1. Done(s, item) = r
    BY <1>5 DEF Done
  <2>2. CASE r.status # "Connecting"
    <3> HIDE DEF r
    <3> QED
      BY <2>1, <2>2 DEF Way
  <2>3. CASE r.current = NoThread /\ \E t \in Threads : r.rs[t] = "connecting"
    <3> HIDE DEF r
    <3> QED
      BY <2>1, <2>3, WayOfNew
  <2>4. CASE item.what \notin Logins /\ r \in {Heard(s), Send(Heard(s), "HOTSESSION")}
    <3>1. Way(s)
      BY <1>1, <1>5
    <3>2. CASE s.status # "Connecting" \/ s.current = NoThread
      <4>1. Way(Heard(s))
        BY <3>1, <3>2, HeardKeepsWay
      <4>2. Way(Send(Heard(s), "HOTSESSION"))
        BY <4>1, HeardEffect, WaySend DEF Requests
      <4> QED
        BY <2>1, <2>4, <4>1, <4>2
    <3>3. CASE s.status = "Connecting" /\ s.current # NoThread
      <4>1. s.ping > 0
        BY <3>1, <3>3 DEF Way
      <4>2. a.status = s.status /\ a.current = s.current
        BY DEF SdkType
      <4>3. item.thread # s.current
        <5> SUFFICES ASSUME item.thread = s.current PROVE FALSE
          OBVIOUS
        <5>1. s.current \in Threads
          BY <3>3 DEF SdkType
        <5>2. 1 \in 1 .. Len(a.queue) /\ a.queue[1] = item
          BY PopPlaces
        <5>3. Holds(a, 1, "RECV", s.current)
          BY <1>5, <5>2 DEF Holds
        <5>4. PICK j \in 1 .. 1 : Answered(a, j, s.current)
          BY <3>3, <4>2, <5>1, <5>2, <5>3 DEF First
        <5>5. j = 1
          OBVIOUS
        <5> QED
          BY <2>4, <5>2, <5>4, <5>5 DEF Answered
      <4> QED
        BY <1>5, <3>3, <4>1, <4>3 DEF Misled
    <3> QED
      BY <3>2, <3>3
  <2> QED
    BY <2>2, <2>3, <2>4, ReceiveEffect
<1>6. CASE item.type \notin {"SUCCESS", "FAILED", "CLOSED", "RECV"}
  <2>1. Done(s, item) \in {s, Reconnect(s)}
    BY <1>6 DEF Done
  <2>2. Way(Reconnect(s))
    BY <1>1, <1>6, ReconnectEffect, WayOfNew
  <2> QED
    BY <1>1, <1>6, <2>1, <2>2
<1> QED
  BY <1>2, <1>3, <1>4, <1>5, <1>6

-----------------------------------------------------------------------------
(***************************************************************************)
(* The invariant, through the actions.                                     *)
(***************************************************************************)
\* The queue of r is that of s, or that and one item more.
Longer(s, r, item) ==
    /\ \A i \in 1 .. Len(s.queue) : i \in 1 .. Len(r.queue) /\ r.queue[i] = s.queue[i]
    /\ \A i \in 1 .. Len(r.queue) :
          \/ i \in 1 .. Len(s.queue) /\ r.queue[i] = s.queue[i]
          \/ i = Len(s.queue) + 1 /\ r.queue[i] = item

LEMMA PostEffect ==
    ASSUME NEW s \in SdkType, NEW item \in Items
    PROVE  /\ Post(s, item) \in SdkType
           /\ Post(s, item).current = s.current
           /\ Post(s, item).rs = s.rs
           /\ Post(s, item).status = s.status
           /\ Post(s, item).ping = s.ping
           /\ Longer(s, Post(s, item), item)
           /\ Len(Post(s, item).queue) = Len(s.queue) + 1
           /\ Post(s, item).queue[Len(s.queue) + 1] = item
           /\ Len(s.queue) \in Nat
<1> DEFINE r == Post(s, item)
<1>1. r \in SdkType
  BY PostKeepsType
<1>2. /\ r.current = s.current /\ r.rs = s.rs /\ r.status = s.status /\ r.ping = s.ping
      /\ r.queue = Append(s.queue, item) /\ s.queue \in Seq(Items)
  BY DEF Post, SdkType
<1> HIDE DEF r, Items
<1>3. /\ Len(r.queue) = Len(s.queue) + 1 /\ r.queue[Len(s.queue) + 1] = item
      /\ Len(s.queue) \in Nat
  BY <1>2
<1>4. Longer(s, r, item)
  BY <1>2 DEF Longer
<1> QED
  BY <1>1, <1>2, <1>3, <1>4 DEF r

\* An item of the application, or none.
LEMMA QuietKeepsLife ==
    ASSUME NEW s, NEW r, NEW w, NEW g, NEW item, Life(s, w, g),
           r.current = s.current, r.rs = s.rs, Longer(s, r, item), item.thread = NoThread
    PROVE  Life(r, w, g)
<1>1. \A i \in 1 .. Len(r.queue) :
          \/ i \in 1 .. Len(s.queue) /\ r.queue[i] = s.queue[i]
          \/ r.queue[i].thread \notin Threads
  BY ClientAssumption DEF Longer
<1> QED
  BY <1>1 DEF Life, Young, Over, One, Reported, Holds

\* One item more is no answer undone.
LEMMA LongerKeepsFirst ==
    ASSUME NEW s, NEW r, NEW g, NEW item, First(s, g), Len(s.queue) \in Nat,
           r.current = s.current, r.status = s.status, Longer(s, r, item),
           ~ (item.type = "RECV" /\ item.thread = s.current)
    PROVE  First(r, g)
<1> SUFFICES ASSUME r.status = "Connecting", NEW t \in Threads, r.current = t
             PROVE  /\ t \in g => \E i \in 1 .. Len(r.queue) : Answered(r, i, t)
                    /\ \A i \in 1 .. Len(r.queue) : Holds(r, i, "RECV", t) =>
                          \E j \in 1 .. i : Answered(r, j, t)
  BY DEF First
<1>1. /\ t \in g => \E i \in 1 .. Len(s.queue) : Answered(s, i, t)
      /\ \A i \in 1 .. Len(s.queue) : Holds(s, i, "RECV", t) =>
            \E j \in 1 .. i : Answered(s, j, t)
  BY DEF First
<1>2. \A i \in 1 .. Len(s.queue) : i \in 1 .. Len(r.queue) /\ (Answered(s, i, t) => Answered(r, i, t))
  BY DEF Longer, Answered, Holds
<1>3. t \in g => \E i \in 1 .. Len(r.queue) : Answered(r, i, t)
  BY <1>1, <1>2
<1>4. ASSUME NEW i \in 1 .. Len(r.queue), Holds(r, i, "RECV", t)
      PROVE  \E j \in 1 .. i : Answered(r, j, t)
  <2>1. i \in 1 .. Len(s.queue) /\ Holds(s, i, "RECV", t)
    BY <1>4 DEF Longer, Holds
  <2>2. PICK j \in 1 .. i : Answered(s, j, t)
    BY <1>1, <2>1
  <2>3. j \in 1 .. Len(s.queue)
    BY <2>1
  <2> QED
    BY <1>2, <2>2, <2>3
<1> QED
  BY <1>3, <1>4

LEMMA LongerKeepsWay ==
    ASSUME NEW s, NEW r, NEW item, Way(s), Longer(s, r, item),
           r.current = s.current, r.status = s.status, r.ping = s.ping,
           \A t \in Threads : s.rs[t] = "connecting" => r.rs[t] = "connecting"
    PROVE  Way(r)
BY DEF Way, Longer, Holds

\* A connection answers, or brings something of its own.
LEMMA RecvKeepsLife ==
    ASSUME NEW s, NEW r, NEW w, NEW g, NEW w2, NEW g2, NEW item, NEW t \in Threads, Life(s, w, g),
           r.current = s.current, r.rs = s.rs, Longer(s, r, item),
           item.thread = t, item.type = "RECV",
           s.rs[t] \in {"open", "stopping"}, ~ Unused(t, w, g),
           \A x \in Threads : x # t => w2[x] = w[x] /\ (x \in g2 <=> x \in g)
    PROVE  Life(r, w2, g2)
<1>1. \A x \in Threads : x # t => (Unused(x, w2, g2) <=> Unused(x, w, g))
  BY DEF Unused
<1>2. \A i \in 1 .. Len(r.queue) :
          \/ i \in 1 .. Len(s.queue) /\ r.queue[i] = s.queue[i]
          \/ r.queue[i].thread = t /\ r.queue[i].type = "RECV"
  BY DEF Longer
<1>3. Young(r, w2, g2)
  BY <1>1, <1>2 DEF Life, Young
<1>4. Over(r, w2, g2)
  BY <1>1 DEF Life, Over
<1>5. One(r, w2, g2)
  BY <1>1 DEF Life, One
<1>6. Reported(r, w2, g2)
  <2>1. \A i \in 1 .. Len(s.queue) : ~ Holds(s, i, "SUCCESS", t)
    BY DEF Life, Reported
  <2>2. \A i \in 1 .. Len(r.queue) : ~ Holds(r, i, "SUCCESS", t)
    BY <1>2, <2>1 DEF Holds
  <2> QED
    BY <1>1, <1>2, <2>2 DEF Life, Reported, Holds
<1> QED
  BY <1>3, <1>4, <1>5, <1>6 DEF Life

\* A socket thread ends.
LEMMA EndKeepsLife ==
    ASSUME NEW s, NEW r, NEW w, NEW g, NEW w2, NEW g2, NEW item, NEW t \in Threads, Life(s, w, g),
           r.current = s.current, Longer(s, r, item),
           item.thread = t, item.type \in {"FAILED", "CLOSED"},
           r.rs[t] = "ended", \A x \in Threads : x # t => r.rs[x] = s.rs[x],
           Unused(t, w2, g2),
           \A x \in Threads : x # t => w2[x] = w[x] /\ (x \in g2 <=> x \in g)
    PROVE  Life(r, w2, g2)
<1>1. \A x \in Threads : Unused(x, w, g) => Unused(x, w2, g2)
  BY DEF Unused
<1>2. \A x \in Threads : x # t => (Unused(x, w2, g2) <=> Unused(x, w, g))
  BY DEF Unused
<1>3. \A i \in 1 .. Len(r.queue) :
          \/ i \in 1 .. Len(s.queue) /\ r.queue[i] = s.queue[i]
          \/ r.queue[i].thread = t /\ r.queue[i].type \in {"FAILED", "CLOSED"}
  BY DEF Longer
<1>4. Young(r, w2, g2)
  BY <1>2, <1>3 DEF Life, Young
<1>5. Over(r, w2, g2)
  BY <1>2 DEF Life, Over
<1>6. One(r, w2, g2)
  BY <1>2 DEF Life, One
<1>7. Reported(r, w2, g2)
  BY <1>1, <1>3 DEF Life, Reported, Holds
<1> QED
  BY <1>4, <1>5, <1>6, <1>7 DEF Life

LEMMA InvInit ==
    Init => ClientInv
<1> SUFFICES ASSUME Init PROVE ClientInv
  OBVIOUS
<1> DEFINE first == CHOOSE t \in Threads : TRUE
<1>1. /\ sdk.current = NoThread /\ sdk.queue = <<>> /\ sdk.status = "Connecting"
      /\ \A t \in Threads : sdk.rs[t] = IF t = first THEN "connecting" ELSE "ended"
      /\ \A t \in Threads : wire[t] = <<>>
      /\ signed = {}
  BY DEF Init
<1>2. Len(sdk.queue) = 0
  BY <1>1
<1> HIDE DEF first
<1>3. \A t \in Threads : Unused(t, wire, signed) /\ sdk.current # t
  BY <1>1, ClientAssumption DEF Unused
<1>4. Life(sdk, wire, signed)
  BY <1>2, <1>3 DEF Life, Young, Over, One, Reported
<1>5. First(sdk, signed)
  BY <1>1, FirstOfNone
<1>6. Way(sdk)
  <2>1. first \in Threads
    BY ClientAssumption DEF first
  <2> QED
    BY <1>1, <2>1 DEF Way
<1> QED
  BY <1>4, <1>5, <1>6 DEF ClientInv, LifeInv

LEMMA NetworkKeepsInv ==
    ASSUME TypeOK, ClientInv, NEW t \in Threads, Network(t)
    PROVE  ClientInv'
<1>1. /\ sdk \in SdkType /\ sdk.queue \in Seq(Items) /\ Len(sdk.queue) \in Nat
      /\ wire \in [Threads -> Seq(Requests)]
      /\ Life(sdk, wire, signed) /\ First(sdk, signed)
  BY DEF TypeOK, SdkType, ClientInv, LifeInv
<1>2. \A state \in {"open", "ended"} :
          LET r == [sdk EXCEPT !.rs[t] = state]
          IN  /\ r \in SdkType
              /\ r.current = sdk.current /\ r.status = sdk.status /\ r.ping = sdk.ping
              /\ r.queue = sdk.queue
              /\ r.rs[t] = state
              /\ \A x \in Threads : x # t => r.rs[x] = sdk.rs[x]
  <2>1. {"open", "ended"} \subseteq Live \cup {"stopping", "ended"}
    BY DEF Live
  <2>2. \A state \in {"open", "ended"} : [sdk EXCEPT !.rs[t] = state] \in SdkType
    BY <1>1, <2>1, EndedKeepsType
  <2> QED
    BY <1>1, <2>2 DEF SdkType
<1>3. \A item : Longer(sdk, sdk, item)
  BY DEF Longer
<1>4. t # NoThread
  BY ClientAssumption
\* A thread has its connection.
<1>5. CASE Connects(t)
  <2> DEFINE item == Item("SUCCESS", t, "nothing")
             s == [sdk EXCEPT !.rs[t] = "open"]
             r == Post(s, item)
  <2>1. item \in Items /\ item.type = "SUCCESS" /\ item.thread = t
    BY ItemTypes DEF Item
  <2>2. /\ s \in SdkType /\ s.current = sdk.current /\ s.status = sdk.status /\ s.ping = sdk.ping
        /\ s.queue = sdk.queue /\ s.rs[t] = "open"
        /\ \A x \in Threads : x # t => s.rs[x] = sdk.rs[x]
    BY <1>2
  <2> HIDE DEF item, s
  <2>3. /\ r.current = sdk.current /\ r.status = sdk.status /\ r.ping = sdk.ping
        /\ r.rs[t] = "open" /\ \A x \in Threads : x # t => r.rs[x] = sdk.rs[x]
        /\ Longer(sdk, r, item)
        /\ Len(sdk.queue) + 1 \in 1 .. Len(r.queue) /\ r.queue[Len(sdk.queue) + 1] = item
    <3>1. /\ r.current = s.current /\ r.rs = s.rs /\ r.status = s.status /\ r.ping = s.ping
          /\ Longer(s, r, item)
          /\ Len(r.queue) = Len(s.queue) + 1 /\ r.queue[Len(s.queue) + 1] = item
      BY <2>1, <2>2, PostEffect
    <3> HIDE DEF r
    <3>2. Longer(sdk, r, item)
      BY <2>2, <3>1 DEF Longer
    <3>3. Len(sdk.queue) + 1 \in 1 .. Len(r.queue)
      BY <1>1, <2>2, <3>1
    <3> QED
      BY <2>2, <3>1, <3>2, <3>3
  <2> HIDE DEF r
  <2>4. sdk' = r /\ UNCHANGED <<wire, signed, astray>> /\ sdk.rs[t] = "connecting"
    BY <1>5 DEF Connects, r, s, item
  <2>5. /\ Unused(t, wire, signed) /\ sdk.current # t
        /\ \A i \in 1 .. Len(sdk.queue) : sdk.queue[i].thread # t
    BY <1>1, <2>4 DEF Life, Young
  <2>6. \A i \in 1 .. Len(r.queue) :
            \/ i \in 1 .. Len(sdk.queue) /\ r.queue[i] = sdk.queue[i] /\ r.queue[i].thread # t
            \/ i = Len(sdk.queue) + 1 /\ r.queue[i] = item
    BY <2>3, <2>5 DEF Longer
  <2>7. Young(r, wire, signed) /\ Over(r, wire, signed) /\ One(r, wire, signed)
    <3>1. Young(r, wire, signed)
      <4>1. \A x \in Threads : r.rs[x] = "connecting" => x # t /\ sdk.rs[x] = "connecting"
        BY <2>3
      <4> QED
        BY <1>1, <2>1, <2>3, <2>6, <4>1, SMTT(60) DEF Life, Young
    <3>2. Over(r, wire, signed)
      BY <1>1, <2>3 DEF Life, Over
    <3>3. One(r, wire, signed)
      BY <1>1, <2>3, <2>5 DEF Life, One
    <3> QED
      BY <3>1, <3>2, <3>3
  <2>8. Reported(r, wire, signed)
    <3> SUFFICES ASSUME NEW x \in Threads, NEW i \in 1 .. Len(r.queue), Holds(r, i, "SUCCESS", x)
                 PROVE  /\ Unused(x, wire, signed)
                        /\ r.current # x
                        /\ \A j \in 1 .. Len(r.queue) :
                              Holds(r, j, "SUCCESS", x) \/ Holds(r, j, "RECV", x) => j = i
      BY DEF Reported
    <3>1. CASE x = t
      <4>1. \A j \in 1 .. Len(r.queue) : r.queue[j].thread = t => j = Len(sdk.queue) + 1
        BY <2>6
      <4> QED
        BY <2>3, <2>5, <3>1, <4>1 DEF Holds
    <3>2. CASE x # t
      <4>1. \A j \in 1 .. Len(r.queue) : r.queue[j].thread = x =>
                j \in 1 .. Len(sdk.queue) /\ r.queue[j] = sdk.queue[j]
        BY <2>1, <2>6, <3>2
      <4>2. i \in 1 .. Len(sdk.queue) /\ Holds(sdk, i, "SUCCESS", x)
        BY <4>1 DEF Holds
      <4>3. /\ Unused(x, wire, signed)
            /\ sdk.current # x
            /\ \A j \in 1 .. Len(sdk.queue) :
                  Holds(sdk, j, "SUCCESS", x) \/ Holds(sdk, j, "RECV", x) => j = i
        BY <1>1, <4>2 DEF Life, Reported
      <4> QED
        BY <2>3, <4>1, <4>3 DEF Holds
    <3> QED
      BY <3>1, <3>2
  <2>9. First(r, signed)
    BY <1>1, <2>1, <2>3, LongerKeepsFirst
  <2>10. astray \/ Way(r)
    <3>1. Holds(r, Len(sdk.queue) + 1, "SUCCESS", t)
      BY <2>1, <2>3 DEF Holds
    <3>2. CASE r.current = NoThread
      BY <2>3, <3>1, <3>2 DEF Way
    <3>3. CASE r.current # NoThread /\ ~ astray
      BY <2>3, <3>3 DEF Way, ClientInv
    <3>4. CASE astray
      BY <3>4
    <3> QED
      BY <3>2, <3>3, <3>4
  <2> QED
    BY <2>4, <2>7, <2>8, <2>9, <2>10 DEF Life, LifeInv, ClientInv
\* A thread ends, and says so or not.
<1>6. ASSUME NEW r, NEW item, item.thread = t, item.type \in {"FAILED", "CLOSED"},
             r.current = sdk.current, r.status = sdk.status, r.ping = sdk.ping,
             Longer(sdk, r, item),
             r.rs[t] = "ended", \A x \in Threads : x # t => r.rs[x] = sdk.rs[x],
             sdk' = r, astray' = astray,
             \/ Gone(t)
             \/ Unused(t, wire, signed) /\ UNCHANGED <<wire, signed>>,
             \/ sdk.rs[t] # "connecting"
             \/ \E i \in 1 .. Len(r.queue) : Holds(r, i, "FAILED", t)
      PROVE  ClientInv'
  <2>1. /\ Unused(t, wire', signed')
        /\ \A x \in Threads : x # t => wire'[x] = wire[x] /\ (x \in signed' <=> x \in signed)
        /\ signed' \subseteq signed
    <3>1. CASE Gone(t)
      BY <1>1, <3>1 DEF Gone, Unused
    <3>2. CASE Unused(t, wire, signed) /\ UNCHANGED <<wire, signed>>
      BY <3>2
    <3> QED
      BY <1>6, <3>1, <3>2
  <2>2. Life(r, wire', signed')
    BY <1>1, <1>6, <2>1, EndKeepsLife
  <2>3. First(r, signed)
    BY <1>1, <1>6, LongerKeepsFirst
  <2>4. First(r, signed')
    BY <2>1, <2>3 DEF First
  <2>5. astray \/ Way(r)
    <3>1. CASE sdk.rs[t] # "connecting" /\ ~ astray
      <4>1. Way(sdk) /\ \A x \in Threads : sdk.rs[x] = "connecting" => r.rs[x] = "connecting"
        BY <1>6, <3>1 DEF ClientInv
      <4> QED
        BY <1>6, <4>1, LongerKeepsWay
    <3>2. CASE (\E i \in 1 .. Len(r.queue) : Holds(r, i, "FAILED", t)) /\ ~ astray
      BY <1>6, <3>2 DEF Way, ClientInv
    <3>3. CASE astray
      BY <3>3
    <3> QED
      BY <1>6, <3>1, <3>2, <3>3
  <2> QED
    BY <1>6, <2>2, <2>4, <2>5 DEF LifeInv, ClientInv
<1>7. ASSUME NEW type \in {"FAILED", "CLOSED"}, Ended(sdk, t).queue = sdk.queue
      PROVE  LET item == Item(type, t, "nothing")
                 r == Post(Ended(sdk, t), item)
             IN  /\ item.thread = t /\ item.type = type
                 /\ r.current = sdk.current /\ r.status = sdk.status /\ r.ping = sdk.ping
                 /\ r.rs = Ended(sdk, t).rs
                 /\ Longer(sdk, r, item)
                 /\ \E i \in 1 .. Len(r.queue) : Holds(r, i, type, t)
  <2> DEFINE item == Item(type, t, "nothing")
             s == Ended(sdk, t)
             r == Post(s, item)
  <2>1. item \in Items /\ item.thread = t /\ item.type = type
    BY ItemTypes DEF Item
  <2>2. /\ s \in SdkType /\ s.current = sdk.current /\ s.status = sdk.status /\ s.ping = sdk.ping
        /\ s.queue = sdk.queue
    BY <1>2 DEF Ended
  <2> HIDE DEF item, s
  <2>3. /\ r.current = s.current /\ r.rs = s.rs /\ r.status = s.status /\ r.ping = s.ping
        /\ Longer(s, r, item)
        /\ Len(r.queue) = Len(s.queue) + 1 /\ r.queue[Len(s.queue) + 1] = item
    BY <2>1, <2>2, PostEffect
  <2> HIDE DEF r
  <2>4. Longer(sdk, r, item)
    BY <2>2, <2>3 DEF Longer
  <2>5. Len(sdk.queue) + 1 \in 1 .. Len(r.queue) /\ Holds(r, Len(sdk.queue) + 1, type, t)
    BY <1>1, <2>1, <2>2, <2>3 DEF Holds
  <2>6. /\ item.thread = t /\ item.type = type
        /\ r.current = sdk.current /\ r.status = sdk.status /\ r.ping = sdk.ping
        /\ r.rs = s.rs
        /\ Longer(sdk, r, item)
        /\ \E i \in 1 .. Len(r.queue) : Holds(r, i, type, t)
    BY <2>1, <2>2, <2>3, <2>4, <2>5
  <2> QED
    BY <2>6 DEF item, s, r
<1>8. /\ Ended(sdk, t).queue = sdk.queue /\ Ended(sdk, t).rs[t] = "ended"
      /\ \A x \in Threads : x # t => Ended(sdk, t).rs[x] = sdk.rs[x]
      /\ Ended(sdk, t).current = sdk.current /\ Ended(sdk, t).status = sdk.status
      /\ Ended(sdk, t).ping = sdk.ping
  BY <1>2 DEF Ended
<1>9. CASE ConnectFails(t)
  <2> DEFINE item == Item("FAILED", t, "nothing")
             r == Post(Ended(sdk, t), item)
  <2>1. sdk' = r /\ UNCHANGED <<wire, signed, astray>> /\ sdk.rs[t] = "connecting"
    BY <1>9 DEF ConnectFails
  <2>2. Unused(t, wire, signed)
    BY <1>1, <2>1 DEF Life, Young
  <2>3. /\ item.thread = t /\ item.type = "FAILED"
        /\ r.current = sdk.current /\ r.status = sdk.status /\ r.ping = sdk.ping
        /\ r.rs = Ended(sdk, t).rs /\ Longer(sdk, r, item)
        /\ \E i \in 1 .. Len(r.queue) : Holds(r, i, "FAILED", t)
    BY <1>7, <1>8
  <2> HIDE DEF item, r
  <2> QED
    BY <1>6, <1>8, <2>1, <2>2, <2>3
<1>10. ASSUME Gone(t), sdk.rs[t] # "connecting", astray' = astray,
              sdk' \in {Ended(sdk, t), Post(Ended(sdk, t), Item("CLOSED", t, "nothing"))}
       PROVE  ClientInv'
  <2> DEFINE item == Item("CLOSED", t, "nothing")
             r == Post(Ended(sdk, t), item)
  <2>1. /\ item.thread = t /\ item.type = "CLOSED"
        /\ r.current = sdk.current /\ r.status = sdk.status /\ r.ping = sdk.ping
        /\ r.rs = Ended(sdk, t).rs /\ Longer(sdk, r, item)
    BY <1>7, <1>8
  <2>2. sdk' = Ended(sdk, t) \/ sdk' = r
    BY <1>10
  <2>3. Longer(sdk, Ended(sdk, t), item)
    BY <1>8 DEF Longer
  <2> HIDE DEF item, r
  <2>4. CASE sdk' = r
    BY <1>6, <1>8, <1>10, <2>1, <2>4
  <2>5. CASE sdk' = Ended(sdk, t)
    BY <1>6, <1>8, <1>10, <2>1, <2>3, <2>5
  <2> QED
    BY <2>2, <2>4, <2>5
<1>11. CASE GoesDown(t) \/ Ends(t) \/ Refuses(t)
  <2>1. Gone(t) /\ astray' = astray
    BY <1>11 DEF GoesDown, Ends, Refuses
  <2>2. sdk.rs[t] # "connecting"
    BY <1>11 DEF GoesDown, Ends, Refuses, Asks
  <2>3. sdk' \in {Ended(sdk, t), Post(Ended(sdk, t), Item("CLOSED", t, "nothing"))}
    BY <1>11 DEF GoesDown, Ends, Refuses
  <2> QED
    BY <1>10, <2>1, <2>2, <2>3
\* A connection answers, or brings something of its own.
<1>12. ASSUME NEW what \in Answers, sdk' = Post(sdk, Item("RECV", t, what)), astray' = astray,
              sdk.rs[t] \in {"open", "stopping"}, ~ Unused(t, wire, signed),
              \A x \in Threads : x # t => wire'[x] = wire[x],
              signed' = signed \/ (what = "login_ok" /\ signed' = signed \cup {t}),
              what \in Logins \/ t \in signed
       PROVE  ClientInv'
  <2> DEFINE item == Item("RECV", t, what)
             r == Post(sdk, item)
  <2>1. item \in Items /\ item.thread = t /\ item.type = "RECV" /\ item.what = what
    BY ItemTypes DEF Item
  <2> HIDE DEF item
  <2>2. /\ r.current = sdk.current /\ r.rs = sdk.rs /\ r.status = sdk.status /\ r.ping = sdk.ping
        /\ Longer(sdk, r, item)
        /\ Len(r.queue) = Len(sdk.queue) + 1 /\ r.queue[Len(sdk.queue) + 1] = item
    BY <1>1, <2>1, PostEffect
  <2>3. sdk' = r
    BY <1>12 DEF item
  <2> HIDE DEF r
  <2>4. Life(r, wire', signed')
    <3>1. \A x \in Threads : x # t => wire'[x] = wire[x] /\ (x \in signed' <=> x \in signed)
      BY <1>12
    <3> QED
      BY <1>1, <1>12, <2>1, <2>2, <3>1, RecvKeepsLife
  <2>5. First(r, signed')
    <3>1. CASE sdk.current # t
      <4>1. First(r, signed)
        BY <1>1, <2>1, <2>2, <3>1, LongerKeepsFirst
      <4> QED
        BY <1>12, <2>2, <3>1, <4>1 DEF First
    <3>2. CASE sdk.current = t
      <4> SUFFICES ASSUME r.status = "Connecting"
                   PROVE  /\ t \in signed' => \E i \in 1 .. Len(r.queue) : Answered(r, i, t)
                          /\ \A i \in 1 .. Len(r.queue) : Holds(r, i, "RECV", t) =>
                                \E j \in 1 .. i : Answered(r, j, t)
        BY <2>2, <3>2 DEF First
      <4> DEFINE last == Len(sdk.queue) + 1
      <4>1. last \in 1 .. Len(r.queue) /\ last \in 1 .. last
        BY <1>1, <2>2
      <4>2. /\ t \in signed => \E i \in 1 .. Len(sdk.queue) : Answered(sdk, i, t)
            /\ \A i \in 1 .. Len(sdk.queue) : Holds(sdk, i, "RECV", t) =>
                  \E j \in 1 .. i : Answered(sdk, j, t)
        BY <1>1, <2>2, <3>2 DEF First
      <4>3. \A i \in 1 .. Len(sdk.queue) :
                i \in 1 .. Len(r.queue) /\ i \in 1 .. last /\ (Answered(sdk, i, t) => Answered(r, i, t))
        BY <1>1, <2>2 DEF Longer, Answered, Holds
      <4>4. what \in Logins => Answered(r, last, t)
        BY <2>1, <2>2 DEF Answered, Holds
      <4>5. \E j \in 1 .. last : Answered(r, j, t)
        BY <1>12, <4>1, <4>2, <4>3, <4>4
      <4>6. t \in signed' => \E i \in 1 .. Len(r.queue) : Answered(r, i, t)
        <5>1. t \in signed' => what \in Logins \/ t \in signed
          BY <1>12
        <5> QED
          BY <4>1, <4>2, <4>3, <4>4, <5>1
      <4>7. ASSUME NEW i \in 1 .. Len(r.queue), Holds(r, i, "RECV", t)
            PROVE  \E j \in 1 .. i : Answered(r, j, t)
        <5>1. CASE i = last
          BY <4>5, <5>1
        <5>2. CASE i \in 1 .. Len(sdk.queue) /\ r.queue[i] = sdk.queue[i]
          <6>1. Holds(sdk, i, "RECV", t)
            BY <4>7, <5>2 DEF Holds
          <6>2. PICK j \in 1 .. i : Answered(sdk, j, t)
            BY <4>2, <5>2, <6>1
          <6>3. j \in 1 .. Len(sdk.queue)
            BY <1>1, <5>2
          <6> QED
            BY <4>3, <6>2, <6>3
        <5> QED
          BY <2>2, <5>1, <5>2 DEF Longer
      <4> QED
        BY <4>6, <4>7
    <3> QED
      BY <3>1, <3>2
  <2>6. astray \/ Way(r)
    <3>1. CASE ~ astray
      <4>1. Way(sdk)
        BY <3>1 DEF ClientInv
      <4> QED
        BY <2>2, <4>1, LongerKeepsWay
    <3>2. CASE astray
      BY <3>2
    <3> QED
      BY <3>1, <3>2
  <2> QED
    BY <1>12, <2>3, <2>4, <2>5, <2>6 DEF LifeInv, ClientInv
<1>13. {"login_ok", "login_busy", "login_no", "hot_ok", "hot_more", "hot_no",
        "ping", "pushed", "kickout"} \cup Messages \subseteq Answers
  BY DEF Answers
<1>14. /\ \A i, what : Asks(t, i, what) => sdk.rs[t] \in {"open", "stopping"} /\ ~ Unused(t, wire, signed)
       /\ t \in signed => ~ Unused(t, wire, signed)
       /\ \A i, what : Answer(t, i, what) =>
             /\ sdk' = Post(sdk, Item("RECV", t, what))
             /\ \A x \in Threads : x # t => wire'[x] = wire[x]
  BY <1>1 DEF Asks, Unused, Answer
<1>15. CASE SignsIn(t)
  <2>1. astray' = astray
    BY <1>15 DEF SignsIn
  <2>2. PICK what \in Logins, i \in 1 .. Len(wire[t]) :
            /\ Asks(t, i, "LOGIN") /\ Answer(t, i, what)
            /\ signed' = signed \/ (what = "login_ok" /\ signed' = signed \cup {t})
    BY <1>15 DEF SignsIn, Logins
  <2>3. what \in Answers
    BY <1>13 DEF Logins
  <2> QED
    BY <1>12, <1>14, <2>1, <2>2, <2>3
<1>16. CASE Serves(t)
  <2>1. astray' = astray /\ signed' = signed /\ t \in signed
    BY <1>16 DEF Serves
  <2>2. PICK what \in {"hot_ok", "hot_more", "hot_no", "ping"} \cup Messages, asked \in Requests,
             i \in 1 .. Len(wire[t]) :
            Asks(t, i, asked) /\ Answer(t, i, what)
    BY <1>16 DEF Serves, Requests
  <2>3. what \in Answers
    BY <1>13
  <2> QED
    BY <1>12, <1>14, <2>1, <2>2, <2>3
<1>17. CASE Pushes(t)
  <2>1. astray' = astray /\ signed' = signed /\ t \in signed /\ wire' = wire /\ sdk.rs[t] = "open"
    BY <1>17 DEF Pushes
  <2>2. PICK what \in {"pushed", "kickout"} : sdk' = Post(sdk, Item("RECV", t, what))
    BY <1>17 DEF Pushes
  <2>3. what \in Answers
    BY <1>13
  <2> QED
    BY <1>12, <1>14, <2>1, <2>2, <2>3
<1>18. CASE AnswerLost(t)
  <2>1. /\ UNCHANGED <<sdk, signed>> /\ astray'
        /\ t \in signed
        /\ \A x \in Threads : x # t => wire'[x] = wire[x]
    BY <1>1, <1>18 DEF AnswerLost
  <2>2. Life(sdk, wire', signed)
    <3>1. \A x \in Threads : Unused(x, wire', signed) <=> Unused(x, wire, signed)
      BY <2>1 DEF Unused
    <3> QED
      BY <1>1, <3>1 DEF Life, Young, Over, One, Reported
  <2> QED
    BY <1>1, <2>1, <2>2 DEF LifeInv, ClientInv
<1> QED
  BY <1>5, <1>9, <1>11, <1>15, <1>16, <1>17, <1>18 DEF Network, Resolves

\* What reconnect() does at the start of a round.
LEMMA AwakeKeepsInv ==
    ASSUME NEW s \in SdkType, NEW w, NEW g, Free(s) # {}, Life(s, w, g), First(s, g)
    PROVE  /\ Life(Awake(s), w, g)
           /\ First(Awake(s), g)
           /\ Way(s) => Way(Awake(s))
<1>1. Life(Awake(s), w, g)
  BY LifeAwake
<1>2. CASE s.status = "None"
  <2>1. /\ Awake(s) = Reconnect(s)
        /\ Reconnect(s).current = NoThread /\ \E t \in Threads : Reconnect(s).rs[t] = "connecting"
    BY <1>2, ReconnectEffect DEF Awake
  <2> QED
    BY <1>1, <2>1, FirstOfNone, WayOfNew
<1>3. CASE s.status # "None"
  BY <1>1, <1>3 DEF Awake
<1> QED
  BY <1>2, <1>3

LEMMA CheckPingKeepsInv ==
    ASSUME NEW s \in SdkType, NEW g, Free(s) # {}, First(s, g)
    PROVE  First(CheckPing(s), g) /\ (Way(s) => Way(CheckPing(s)))
<1> DEFINE asked == IF s.offMsgCountOk THEN Send(s, "PING") ELSE Send(Send(s, "PING"), "HOTSESSION")
           pinged == [asked EXCEPT !.ping = IF @ = 0 THEN 1 ELSE @]
<1>1. \/ CheckPing(s) = Reconnect([s EXCEPT !.status = "None"])
      \/ CheckPing(s) = s
      \/ CheckPing(s) = pinged /\ s.status = "Connected"
  BY DEF CheckPing
<1>2. asked \in SdkType /\ asked.status = s.status
  BY SendEffect DEF Requests
<1> HIDE DEF asked
<1>3. pinged.status = s.status
  BY <1>2 DEF SdkType
<1> HIDE DEF pinged
<1>4. CASE CheckPing(s) = Reconnect([s EXCEPT !.status = "None"])
  BY <1>4, RenewEffect, FirstOfNone, WayOfNew
<1>5. CASE CheckPing(s) = s
  BY <1>5
<1>6. CASE CheckPing(s) = pinged /\ s.status = "Connected"
  BY <1>3, <1>6, FirstOfNone DEF Way
<1> QED
  BY <1>1, <1>4, <1>5, <1>6

LEMMA DestroyKeepsInv ==
    ASSUME NEW s \in SdkType, NEW g, First(s, g)
    PROVE  First(DestroyThreads(s), g) /\ (Way(s) => Way(DestroyThreads(s)))
<1>1. CASE s.status = "Connecting"
  BY <1>1 DEF DestroyThreads
<1>2. CASE s.status # "Connecting"
  <2>1. DestroyThreads(s).status = s.status
    BY <1>2 DEF DestroyThreads, Stop, SdkType
  <2> QED
    BY <1>2, <2>1, FirstOfNone DEF Way
<1> QED
  BY <1>1, <1>2

LEMMA ExitKeepsInv ==
    ASSUME NEW s \in SdkType, Life(s, wire, signed), Exit(s), UNCHANGED <<wire, signed>>
    PROVE  ClientInv'
<1>1. Life(sdk', wire, signed)
  BY LifeExit DEF Exit
<1>2. sdk'.status = "None"
  <2>1. Stop(s, Threads) \in SdkType
    BY StopKeepsType
  <2> QED
    BY <2>1 DEF Exit, SdkType
<1>3. First(sdk', signed) /\ Way(sdk')
  BY <1>2, FirstOfNone DEF Way
<1> QED
  BY <1>1, <1>3 DEF LifeInv, ClientInv

LEMMA ProcessKeepsInv ==
    ASSUME TypeOK, ClientInv, Process
    PROVE  ClientInv'
<1>1. sdk \in SdkType /\ Life(sdk, wire, signed) /\ First(sdk, signed)
  BY DEF TypeOK, ClientInv, LifeInv
<1>2. PICK item \in Items, s \in SdkType :
          /\ sdk.queue # <<>>
          /\ item = Head(sdk.queue)
          /\ Free(sdk) # {}
          /\ Awake(sdk) \in SdkType
          /\ Awake(sdk).queue = sdk.queue
          /\ s = [Awake(sdk) EXCEPT !.queue = Tail(@)]
          /\ Free(s) # {}
          /\ astray' = (astray \/ Misled(s, item))
          /\ wire' = IF item.type = "SEND" /\ s.current # NoThread /\ s.rs[s.current] = "open"
                     THEN [wire EXCEPT ![s.current] = Append(@, item.what)] ELSE wire
          /\ \/ item.type = "LOGOUT" /\ Exit(s)
             \/ item.type # "LOGOUT" /\ sdk' = Done(s, item) /\ UNCHANGED running
          /\ UNCHANGED <<signed, sending, trouble>>
  BY ProcessEffect
<1> DEFINE a == Awake(sdk)
<1>3. /\ Life(a, wire, signed) /\ First(a, signed) /\ (Way(sdk) => Way(a))
      /\ a \in SdkType /\ a.queue # <<>> /\ item = Head(a.queue)
      /\ s = [a EXCEPT !.queue = Tail(@)]
  BY <1>1, <1>2, AwakeKeepsInv
<1> HIDE DEF a
<1>4. Life(s, wire, signed)
  BY <1>3, LifePop
<1>5. CASE item.type = "LOGOUT" /\ Exit(s)
  BY <1>2, <1>4, <1>5, ExitKeepsInv
<1>6. CASE item.type # "LOGOUT" /\ sdk' = Done(s, item)
  <2>1. item.type = "SUCCESS" => Taken(s, item.thread, wire, signed)
    <3>1. item.type = "SUCCESS" => item.thread \in Threads
      BY DEF Items
    <3> QED
      BY <1>3, <3>1, ReportTaken
  <2>2. Life(Done(s, item), wire, signed)
    BY <1>2, <1>4, <2>1, LifeDone
  <2>3. First(Done(s, item), signed)
    BY <1>2, <1>3, FirstDone
  <2>4. astray' \/ Way(Done(s, item))
    <3>1. CASE ~ astray
      <4>1. Way(a)
        BY <1>3, <3>1 DEF ClientInv
      <4>2. Misled(s, item) \/ Way(Done(s, item))
        BY <1>2, <1>3, <4>1, WayDone
      <4> QED
        BY <1>2, <4>2
    <3>2. CASE astray
      BY <1>2, <3>2
    <3> QED
      BY <3>1, <3>2
  <2>5. Life(Done(s, item), wire', signed)
    <3>1. CASE wire' = wire
      BY <2>2, <3>1
    <3>2. CASE /\ item.type = "SEND" /\ s.current # NoThread /\ s.rs[s.current] = "open"
               /\ wire' = [wire EXCEPT ![s.current] = Append(@, item.what)]
      <4>1. Done(s, item) = s
        BY <3>2 DEF Done
      <4>2. \A t \in Threads : t # s.current => wire'[t] = wire[t]
        BY <3>2 DEF TypeOK
      <4>3. \A t \in Threads : t # s.current => (Unused(t, wire', signed) <=> Unused(t, wire, signed))
        BY <4>2 DEF Unused
      <4>4. Life(s, wire', signed)
        BY <1>4, <3>2, <4>3 DEF Life, Young, Over, One, Reported
      <4> QED
        BY <4>1, <4>4
    <3> QED
      BY <1>2, <3>1, <3>2
  <2> QED
    BY <1>2, <1>6, <2>3, <2>4, <2>5 DEF LifeInv, ClientInv
<1> QED
  BY <1>2, <1>5, <1>6

LEMMA TimeKeepsInv ==
    ASSUME TypeOK, ClientInv, LoopEnds \/ Timeout \/ TimePasses
    PROVE  ClientInv'
<1>1. sdk \in SdkType /\ Life(sdk, wire, signed) /\ First(sdk, signed) /\ (astray \/ Way(sdk))
  BY DEF TypeOK, ClientInv, LifeInv
<1>2. CASE LoopEnds
  BY <1>1, <1>2, ExitKeepsInv DEF LoopEnds
<1>3. CASE Timeout
  <2>1. /\ Free(sdk) # {} /\ sdk' = DestroyThreads(CheckPing(Awake(sdk)))
        /\ UNCHANGED <<wire, signed, astray>>
    BY <1>3 DEF Timeout, Turns
  <2> DEFINE a == Awake(sdk)
             c == CheckPing(a)
  <2>2. a \in SdkType /\ Life(a, wire, signed) /\ First(a, signed) /\ (Way(sdk) => Way(a))
    BY <1>1, <2>1, AwakeKeepsType, AwakeKeepsInv
  <2>3. c \in SdkType /\ Life(c, wire, signed) /\ First(c, signed) /\ (Way(a) => Way(c))
    <3>1. CASE sdk.status = "None"
      <4>1. a.status = "Connecting" /\ a.ping = 0
        BY <1>1, <2>1, <3>1, AwakeKeepsType
      <4>2. c = a
        BY <4>1 DEF CheckPing
      <4> QED
        BY <2>2, <4>2
    <3>2. CASE sdk.status # "None"
      <4>1. Free(a) # {}
        BY <1>1, <2>1, <3>2, AwakeKeepsType
      <4> QED
        BY <2>2, <4>1, CheckPingKeepsType, LifeCheckPing, CheckPingKeepsInv
    <3> QED
      BY <3>1, <3>2
  <2>4. sdk' = DestroyThreads(c)
    BY <2>1
  <2> HIDE DEF a, c
  <2>5. Life(sdk', wire, signed) /\ First(sdk', signed) /\ (Way(c) => Way(sdk'))
    BY <2>3, <2>4, LifeDestroy, DestroyKeepsInv
  <2> QED
    BY <1>1, <2>1, <2>2, <2>3, <2>5 DEF LifeInv, ClientInv
<1>4. CASE TimePasses
  <2>1. /\ sdk.ping \in {1, 2} /\ UNCHANGED <<wire, signed, astray>>
        /\ sdk' = [sdk EXCEPT !.ping = @ + 1]
    BY <1>4 DEF TimePasses
  <2>2. /\ Alike(sdk, sdk') /\ sdk'.status = sdk.status /\ sdk'.ping > 0
    BY <1>1, <2>1 DEF Alike, SdkType
  <2>3. Life(sdk', wire, signed)
    BY <1>1, <2>2, LifeAlike
  <2>4. First(sdk', signed)
    BY <1>1, <2>2 DEF Alike, First, Answered, Holds
  <2>5. Way(sdk) => Way(sdk')
    BY <2>2 DEF Alike, Way, Holds
  <2> QED
    BY <1>1, <2>1, <2>3, <2>4, <2>5 DEF LifeInv, ClientInv
<1> QED
  BY <1>2, <1>3, <1>4

LEMMA ApplicationKeepsInv ==
    ASSUME TypeOK, ClientInv, Logout \/ \E m \in Messages : SendMsg(m) \/ AddToInflight(m)
    PROVE  ClientInv'
<1>1. sdk \in SdkType /\ Life(sdk, wire, signed) /\ First(sdk, signed) /\ (astray \/ Way(sdk))
  BY DEF TypeOK, ClientInv, LifeInv
<1>2. UNCHANGED <<wire, signed, astray>>
  BY DEF Logout, SendMsg, AddToInflight
<1>3. CASE Logout
  <2> DEFINE s == [sdk EXCEPT !.status = "Logouting"]
             item == Item("LOGOUT", NoThread, "nothing")
  <2>1. s \in SdkType /\ s.status = "Logouting" /\ Alike(sdk, s)
    BY <1>1, FreeStatus DEF Statuses, Alike, SdkType
  <2>2. item \in Items /\ item.thread = NoThread
    BY ItemTypes DEF Item
  <2>3. sdk' = Post(s, item)
    BY <1>3 DEF Logout
  <2> HIDE DEF s, item
  <2>4. Life(s, wire, signed)
    BY <1>1, <2>1, LifeAlike
  <2>5. /\ Post(s, item).current = s.current /\ Post(s, item).rs = s.rs
        /\ Post(s, item).status = s.status /\ Longer(s, Post(s, item), item)
    BY <2>1, <2>2, PostEffect
  <2>6. Life(sdk', wire, signed)
    BY <2>2, <2>3, <2>4, <2>5, QuietKeepsLife
  <2>7. First(sdk', signed) /\ Way(sdk')
    BY <2>1, <2>3, <2>5, FirstOfNone DEF Way
  <2> QED
    BY <1>2, <2>6, <2>7 DEF LifeInv, ClientInv
<1>4. CASE sdk' = sdk
  BY <1>1, <1>2, <1>4 DEF LifeInv, ClientInv
<1>5. ASSUME NEW m \in Messages, sdk' = Post(sdk, Item("SEND", NoThread, m))
      PROVE  ClientInv'
  <2> DEFINE item == Item("SEND", NoThread, m)
             r == Post(sdk, item)
  <2>1. item \in Items /\ item.thread = NoThread /\ item.type = "SEND"
    BY ItemTypes DEF Item, Requests
  <2>2. sdk' = r
    BY <1>5
  <2> HIDE DEF item
  <2>3. /\ r.current = sdk.current /\ r.rs = sdk.rs
        /\ r.status = sdk.status /\ r.ping = sdk.ping
        /\ Longer(sdk, r, item) /\ Len(sdk.queue) \in Nat
    BY <1>1, <2>1, PostEffect
  <2> HIDE DEF r
  <2>4. Life(r, wire, signed)
    BY <1>1, <2>1, <2>3, QuietKeepsLife
  <2>5. First(r, signed)
    BY <1>1, <2>1, <2>3, LongerKeepsFirst
  <2>6. Way(sdk) => Way(r)
    BY <2>3, LongerKeepsWay
  <2> QED
    BY <1>1, <1>2, <2>2, <2>4, <2>5, <2>6 DEF LifeInv, ClientInv
<1> QED
  BY <1>3, <1>4, <1>5 DEF SendMsg, AddToInflight

LEMMA InvStep ==
    TypeOK /\ ClientInv /\ [Next]_vars => ClientInv'
<1> SUFFICES ASSUME TypeOK, ClientInv, [Next]_vars PROVE ClientInv'
  OBVIOUS
<1>1. CASE Process
  BY <1>1, ProcessKeepsInv
<1>2. CASE LoopEnds \/ Timeout \/ TimePasses
  BY <1>2, TimeKeepsInv
<1>3. CASE Logout \/ \E m \in Messages : SendMsg(m) \/ AddToInflight(m)
  BY <1>3, ApplicationKeepsInv
<1>4. ASSUME NEW t \in Threads, Network(t)
      PROVE  ClientInv'
  BY <1>4, NetworkKeepsInv
<1>5. CASE UNCHANGED vars
  BY <1>5 DEF vars, ClientInv, LifeInv
<1> QED
  BY <1>1, <1>2, <1>3, <1>4, <1>5 DEF Next, Network

LEMMA InvAlways == Spec => []ClientInv
<1> QED
  BY InvInit, InvStep, TypeAlways, PTL DEF Spec

\* However many attempts and reports overlap (reconnect, processSuccessRSThread,
\* destoryRSThread), a socket thread that has carried a request and was not
\* stopped is the chosen one.
THEOREM OneInUseAlways == Spec => []OneInUse
<1>1. TypeOK /\ ClientInv => OneInUse
  <2> SUFFICES ASSUME TypeOK, ClientInv, NEW t \in Threads,
                      sdk.rs[t] = "open", wire[t] # <<>> \/ t \in signed
               PROVE  sdk.current = t
    BY DEF OneInUse
  <2> QED
    BY DEF ClientInv, LifeInv, Life, One, Unused
<1> QED
  BY <1>1, TypeAlways, InvAlways, PTL

\* While the client connects something is under way that ends it (reconnect
\* does nothing then): an attempt, its report, or the clock of the login.
THEOREM WayOutAlways == Spec => []WayOut
<1>1. TypeOK /\ ClientInv => WayOut
  <2> SUFFICES ASSUME TypeOK, ClientInv, running, sdk.status = "Connecting", ~ astray
               PROVE  IF sdk.current = NoThread
                      THEN \E t \in Threads :
                               sdk.rs[t] = "connecting" \/ InQueue("SUCCESS", t) \/ InQueue("FAILED", t)
                      ELSE sdk.ping > 0
    BY DEF WayOut
  <2>1. Way(sdk)
    BY DEF ClientInv
  <2>2. ASSUME NEW t \in Threads, NEW i \in 1 .. Len(sdk.queue), NEW type \in {"SUCCESS", "FAILED"},
               Holds(sdk, i, type, t)
        PROVE  InQueue(type, t)
    <3>1. sdk.queue[i] \in Items
      BY DEF TypeOK, SdkType
    <3>2. sdk.queue[i] = Item(type, t, "nothing")
      BY <2>2, <3>1 DEF Items, Item, Holds
    <3> QED
      BY <3>2 DEF InQueue
  <2> QED
    BY <2>1, <2>2 DEF Way
<1> QED
  BY <1>1, TypeAlways, InvAlways, PTL
=============================================================================
