------------------------------- MODULE Client -------------------------------
(***************************************************************************)
(* The connection of a client (client/source: CTNProcessThread with its    *)
(* CTNSendRecvThreads and the vector of messages in flight) to a broker.   *)
(*                                                                         *)
(* One process thread takes items from a queue: what the socket threads    *)
(* report and receive, what the application sends, and its own requests.   *)
(* It holds the status of the connection, the socket thread it has chosen  *)
(* (m_pSRThread) and the time of the oldest unanswered request             *)
(* (m_pingReqTime).  Socket threads connect, fail, receive and die at any  *)
(* moment, and an item may be about a thread that has been given up since. *)
(*                                                                         *)
(* Everything the process thread does with one item is one step; what it   *)
(* does is a function on the record sdk.  Its sleeps are left out.         *)
(***************************************************************************)
EXTENDS Integers, Sequences, FiniteSets, SequencesExt

CONSTANTS
    Threads,        \* socket threads alive at a time
    NoThread,
    Messages,       \* what the application sends
    Troubles,       \* what may go wrong ...
    MaxTrouble,     \* ... and how often (a bound)
    MaxRetries      \* RETRY_MAXTIMES

ASSUME ClientAssumption ==
    /\ Threads # {} /\ NoThread \notin Threads
    /\ Troubles \subseteq {"fail", "down", "busy", "denied", "more", "no_session", "late",
                           "pushed", "kicked", "lost", "logout"}
    /\ MaxTrouble \in Nat
    /\ MaxRetries \in Nat

VARIABLES
    sdk,        \* the process thread's state, the socket threads, the queue
    running,    \* the loop of the process thread has not ended
    wire,       \* requests a socket thread has taken, on their way to the broker
    signed,     \* connections the broker has signed in
    sending,    \* what sendMsgReq has done with each message
    inflight,   \* the vector: how often a message in it was marked
    trouble,    \* how much has gone wrong so far
    astray      \* history: the client was misled (see Recovers)

vars == <<sdk, running, wire, signed, sending, inflight, trouble, astray>>

Requests == {"LOGIN", "HOTSESSION", "PING"} \cup Messages
Answers == {"login_ok", "login_busy", "login_no", "hot_ok", "hot_more", "hot_no",
            "ping", "pushed", "kickout"} \cup Messages
Item(type, thread, what) == [type |-> type, thread |-> thread, what |-> what]
Items ==
    [type : {"SUCCESS", "FAILED", "CLOSED"}, thread : Threads, what : {"nothing"}]
    \cup [type : {"RECV"}, thread : Threads, what : Answers]
    \cup [type : {"SEND"}, thread : {NoThread}, what : Requests]
    \cup [type : {"LOGOUT"}, thread : {NoThread}, what : {"nothing"}]

Statuses == {"None", "Connecting", "Connected", "Recving", "Logout", "Logouting"}
Live == {"connecting", "open"}

\* ping: 0, or the age of m_pingReqTime: 1 at first, 2 after a keep-alive
\* period, 3 after two.
SdkType ==
    [status : Statuses, current : Threads \cup {NoThread}, ping : 0 .. 3,
     offMsgCountOk : BOOLEAN, rs : [Threads -> Live \cup {"stopping", "ended"}],
     queue : Seq(Items)]

TypeOK ==
    /\ sdk \in SdkType
    /\ running \in BOOLEAN
    /\ wire \in [Threads -> Seq(Requests)]
    /\ signed \subseteq Threads
    /\ sending \in [Messages -> {"new", "posted", "done"}]
    /\ inflight \in [Messages -> -1 .. MaxRetries]
    /\ trouble \in 0 .. MaxTrouble
    /\ astray \in BOOLEAN

-----------------------------------------------------------------------------
(***************************************************************************)
(* What the process thread does, as functions on sdk.                      *)
(***************************************************************************)
Post(s, item) == [s EXCEPT !.queue = Append(@, item)]

\* sendReq, sendPacket: nothing is sent without a chosen thread.
Send(s, what) ==
    IF s.current = NoThread \/ s.status = "Logout" THEN s
    ELSE Post(s, Item("SEND", NoThread, what))

\* CTNSendRecvThread::stop; the thread ends when it notices.
Stop(s, T) ==
    [s EXCEPT !.rs = [t \in Threads |-> IF t \in T /\ @[t] \in Live THEN "stopping" ELSE @[t]]]

\* A socket thread that is over and that nothing in the queue is about: its
\* place is taken by the next one.
Free(s) ==
    {t \in Threads \ {s.current} :
        /\ s.rs[t] = "ended"
        /\ \A i \in 1 .. Len(s.queue) : s.queue[i].thread # t}

\* Fault: the thread in use is forgotten, not stopped.
CreateSocketThreadOnly(s) ==
    [s EXCEPT !.rs[CHOOSE t \in Free(s) : TRUE] = "connecting", !.current = NoThread, !.ping = 0]

\* Only the chosen thread is stopped: others that are still connecting go on.
CreateSocketThread(s) ==
    [Stop(s, {s.current}) EXCEPT
        !.rs[CHOOSE t \in Free(s) : TRUE] = "connecting", !.current = NoThread, !.ping = 0]

Reconnect(s) ==
    IF s.status = "Connecting" THEN s
    ELSE CreateSocketThread([s EXCEPT !.status = "Connecting"])

\* Fault: the status stays what it was.
FailedAttempt(s) == Reconnect(s)

\* Whichever thread it is that could not connect.
Failed(s) == Reconnect([s EXCEPT !.status = "None"])

\* processSuccessRSThread, and the login if nothing is waited for.  The first
\* thread that reports is chosen, stopped or not, and the others are stopped.
Success(s, t) ==
    LET chosen == IF s.current # NoThread THEN s
                  ELSE Stop([s EXCEPT !.current = t], Threads \ {t})
    IN  IF chosen.ping = 0 THEN Send([chosen EXCEPT !.ping = 1], "LOGIN") ELSE chosen

Closed(s, t) ==
    IF s.current # t THEN s
    ELSE Reconnect(IF s.status = "Logout" THEN s ELSE [s EXCEPT !.status = "None"])

\* processRecvPack: every packet but the answer to the login ends the waiting.
Heard(s) == [s EXCEPT !.ping = 0]
Receive(s, what) ==
    CASE what = "login_ok"   -> Send([s EXCEPT !.status = "Recving", !.offMsgCountOk = FALSE], "HOTSESSION")
      [] what = "login_busy" -> [s EXCEPT !.status = "None"]
      [] what = "login_no"   -> [s EXCEPT !.status = "Logout"]
      [] what = "hot_ok"     -> [Heard(s) EXCEPT !.status = "Connected", !.offMsgCountOk = TRUE]
      [] what = "hot_more"   -> Send(Heard(s), "HOTSESSION")
      [] what = "hot_no"     -> Reconnect([Heard(s) EXCEPT !.status = "None"])
      [] what = "kickout"    -> [Heard(s) EXCEPT !.status = "Logout"]
      [] OTHER               -> Heard(s)

\* checkPing, when there was nothing to do for a keep-alive period.
CheckPing(s) ==
    IF \/ s.status = "None"
       \/ s.status = "Connecting" /\ s.ping >= 2
       \/ s.ping = 3
    THEN Reconnect([s EXCEPT !.status = "None"])
    ELSE IF s.status = "Connected"
    THEN LET asked == IF s.offMsgCountOk THEN Send(s, "PING")
                      ELSE Send(Send(s, "PING"), "HOTSESSION")
         IN  [asked EXCEPT !.ping = IF @ = 0 THEN 1 ELSE @]
    ELSE s

\* destoryRSThread(false)
DestroyThreads(s) ==
    IF s.status = "Connecting" THEN s ELSE Stop(s, Threads \ {s.current})

-----------------------------------------------------------------------------
Init ==
    /\ LET first == CHOOSE t \in Threads : TRUE
       IN  sdk = [status |-> "Connecting", current |-> NoThread, ping |-> 0,
                  offMsgCountOk |-> FALSE,
                  rs |-> [t \in Threads |-> IF t = first THEN "connecting" ELSE "ended"],
                  queue |-> <<>>]
    /\ running = TRUE
    /\ wire = [t \in Threads |-> <<>>]
    /\ signed = {}
    /\ sending = [m \in Messages |-> "new"]
    /\ inflight = [m \in Messages |-> -1]
    /\ trouble = 0
    /\ astray = FALSE

Happens(what) == what \in Troubles /\ trouble < MaxTrouble /\ trouble' = trouble + 1

\* Fault: nobody looks how often a message was counted.
CheckedUnlimited(m, due) ==
    IF due /\ inflight[m] # -1 THEN inflight[m] + 1 ELSE inflight[m]

\* CTNInflightVector::checkInflight.  A message that is due is marked as a
\* duplicate and counted, but not sent again; one that was counted often enough
\* goes.  The timestamp of a message is not set before it is counted, so any
\* check may find one that was not counted yet due, or none ever.
Checked(m, due) ==
    IF inflight[m] \in {-1, MaxRetries} THEN -1
    ELSE IF due THEN inflight[m] + 1 ELSE inflight[m]

\* The first part of a round: messages are checked in a connection, and a
\* connection is sought where there is none.
Awake(s) == IF s.status = "None" THEN Reconnect(s) ELSE s

\* processRecvPack does not look where a packet comes from: one from a connection
\* the client has replaced passes for the answer of the new one, or ends the
\* waiting for the answer to its login.
Misled(s, item) ==
    /\ item.type = "RECV"
    /\ item.thread # s.current
    /\ \/ item.what \in {"login_ok", "hot_ok"}
       \/ s.status = "Connecting" /\ s.ping > 0

\* Fault: a thread that is still connecting is left alone.
ExitCurrent(s) ==
    /\ running' = FALSE
    /\ sdk' = [Stop(s, {s.current}) EXCEPT !.status = "None", !.current = NoThread]

\* The loop ends; m_pSRThread and the other threads are stopped.
Exit(s) ==
    /\ running' = FALSE
    /\ sdk' = [Stop(s, Threads) EXCEPT !.status = "None", !.current = NoThread]

\* The loop goes round.  At most so many threads are alive at a time that there
\* is a place for the next one whenever one may be created (a bound).
Turns == running /\ sdk.status # "Logout" /\ Free(sdk) # {}

Process ==
    /\ Turns
    /\ sdk.queue # <<>>
    /\ LET item == Head(sdk.queue)
           s == [Awake(sdk) EXCEPT !.queue = Tail(@)]
           acked == IF item.type = "RECV" /\ item.what \in Messages THEN {item.what} ELSE {}
       IN  /\ Free(s) # {}
           /\ \E due \in SUBSET Messages :
                 inflight' = [m \in Messages |->
                     IF m \in acked THEN -1
                     ELSE IF sdk.status # "Connected" THEN inflight[m]
                     ELSE Checked(m, m \in due)]
           /\ astray' = (astray \/ Misled(s, item))
           /\ wire' = IF item.type = "SEND" /\ s.current # NoThread /\ s.rs[s.current] = "open"
                      THEN [wire EXCEPT ![s.current] = Append(@, item.what)] ELSE wire
           /\ \/ item.type = "LOGOUT" /\ Exit(s)
              \/ /\ item.type # "LOGOUT"
                 /\ sdk' = CASE item.type = "SUCCESS" -> Success(s, item.thread)
                             [] item.type = "FAILED"  -> Failed(s)
                             [] item.type = "CLOSED"  -> Closed(s, item.thread)
                             [] item.type = "RECV"    -> Receive(s, item.what)
                             [] OTHER -> IF s.current = NoThread THEN Reconnect(s) ELSE s
                 /\ UNCHANGED running
    /\ UNCHANGED <<signed, sending, trouble>>

\* The connection is given up for good; the loop ends before the next item.
LoopEnds ==
    /\ running
    /\ sdk.status = "Logout"
    /\ Exit(sdk)
    /\ UNCHANGED <<wire, signed, sending, inflight, trouble, astray>>

\* Nothing in the queue for a keep-alive period, which is longer than
\* RESEND_TIMER: a message that was counted is due.  It is no trouble when no
\* answer is due.
Timeout ==
    /\ Turns
    /\ sdk.queue = <<>>
    /\ IF \A t \in Threads : wire[t] = <<>> THEN UNCHANGED trouble ELSE Happens("late")
    /\ sdk' = DestroyThreads(CheckPing(Awake(sdk)))
    /\ \E due \in SUBSET Messages :
          /\ {m \in Messages : inflight[m] > 0} \subseteq due
          /\ inflight' = [m \in Messages |->
                IF sdk.status = "Connected" THEN Checked(m, m \in due) ELSE inflight[m]]
    /\ UNCHANGED <<running, wire, signed, sending, astray>>

\* A keep-alive period has gone since m_pingReqTime.
TimePasses ==
    /\ running
    /\ sdk.ping \in {1, 2}
    /\ IF sdk.queue = <<>> /\ \A t \in Threads : wire[t] = <<>>
       THEN UNCHANGED trouble ELSE Happens("late")
    /\ sdk' = [sdk EXCEPT !.ping = @ + 1]
    /\ UNCHANGED <<running, wire, signed, sending, inflight, astray>>

-----------------------------------------------------------------------------
(***************************************************************************)
(* The socket threads, the network and the broker.                         *)
(***************************************************************************)
\* The thread ends; what it had still to send is lost.
Ended(s, t) == [s EXCEPT !.rs[t] = "ended"]
Gone(t) ==
    /\ wire' = [wire EXCEPT ![t] = <<>>]
    /\ signed' = signed \ {t}

Connects(t) ==
    /\ sdk.rs[t] = "connecting"
    /\ sdk' = Post([sdk EXCEPT !.rs[t] = "open"], Item("SUCCESS", t, "nothing"))
    /\ UNCHANGED <<running, wire, signed, sending, inflight, trouble, astray>>

ConnectFails(t) ==
    /\ sdk.rs[t] = "connecting"
    /\ Happens("fail")
    /\ sdk' = Post(Ended(sdk, t), Item("FAILED", t, "nothing"))
    /\ UNCHANGED <<running, wire, signed, sending, inflight, astray>>

GoesDown(t) ==
    /\ sdk.rs[t] = "open"
    /\ Happens("down")
    /\ sdk' = Post(Ended(sdk, t), Item("CLOSED", t, "nothing"))
    /\ Gone(t)
    /\ UNCHANGED <<running, sending, inflight, astray>>

\* A thread that was stopped notices.
Ends(t) ==
    /\ sdk.rs[t] = "stopping"
    /\ sdk' = Ended(sdk, t)
    /\ Gone(t)
    /\ UNCHANGED <<running, sending, inflight, trouble, astray>>

\* The broker takes the requests as they come and answers them in any order; a
\* thread that was stopped while it received still posts what it has got.
Asks(t, i, what) ==
    /\ sdk.rs[t] \in {"open", "stopping"}
    /\ i \in 1 .. Len(wire[t])
    /\ wire[t][i] = what

Answer(t, i, what) ==
    /\ sdk' = Post(sdk, Item("RECV", t, what))
    /\ wire' = [wire EXCEPT ![t] = RemoveAt(@, i)]

\* A request before the login closes the connection; what is behind it, a login
\* included, has no answer.
SignsIn(t) ==
    /\ \E i \in 1 .. Len(wire[t]) :
          /\ Asks(t, i, "LOGIN")
          /\ i = 1 \/ t \in signed
          /\ \/ Answer(t, i, "login_ok") /\ signed' = signed \cup {t} /\ UNCHANGED trouble
             \/ Answer(t, i, "login_busy") /\ Happens("busy") /\ UNCHANGED signed
             \/ Answer(t, i, "login_no") /\ Happens("denied") /\ UNCHANGED signed
    /\ UNCHANGED <<running, sending, inflight, astray>>

Serves(t) ==
    /\ t \in signed
    /\ \E i \in 1 .. Len(wire[t]) :
          \/ /\ Asks(t, i, "HOTSESSION")
             /\ \/ Answer(t, i, "hot_ok") /\ UNCHANGED trouble
                \/ Answer(t, i, "hot_more") /\ Happens("more")
                \/ Answer(t, i, "hot_no") /\ Happens("no_session")
          \/ Asks(t, i, "PING") /\ Answer(t, i, "ping") /\ UNCHANGED trouble
          \/ \E m \in Messages : Asks(t, i, m) /\ Answer(t, i, m) /\ UNCHANGED trouble
    /\ UNCHANGED <<running, signed, sending, inflight, astray>>

\* The broker could not get the answer from the business server (its
\* exception callback only logs it); the connection stays.
AnswerLost(t) ==
    /\ t \in signed
    /\ \E i \in 1 .. Len(wire[t]) :
          /\ Asks(t, i, "HOTSESSION")
          /\ wire' = [wire EXCEPT ![t] = RemoveAt(@, i)]
    /\ Happens("lost")
    /\ astray' = TRUE
    /\ UNCHANGED <<sdk, running, signed, sending, inflight>>

\* The broker closes a connection that asks for something before its login has
\* been answered: what is ahead can only be logins still being authenticated.
Refuses(t) ==
    /\ t \notin signed
    /\ \E i \in 1 .. Len(wire[t]), what \in Requests \ {"LOGIN"} : Asks(t, i, what)
    /\ sdk' = IF sdk.rs[t] = "open" THEN Post(Ended(sdk, t), Item("CLOSED", t, "nothing")) ELSE Ended(sdk, t)
    /\ Gone(t)
    /\ UNCHANGED <<running, sending, inflight, trouble, astray>>

\* The broker pushes a message, or the client's place is taken.
Pushes(t) ==
    /\ t \in signed
    /\ sdk.rs[t] = "open"
    /\ \/ Happens("pushed") /\ sdk' = Post(sdk, Item("RECV", t, "pushed"))
       \/ Happens("kicked") /\ sdk' = Post(sdk, Item("RECV", t, "kickout"))
    /\ UNCHANGED <<running, wire, signed, sending, inflight, astray>>

-----------------------------------------------------------------------------
(***************************************************************************)
(* The application.                                                        *)
(***************************************************************************)
\* sendMsgReq posts the message and only then puts it into the vector: the
\* acknowledgement may come in between.
SendMsg(m) ==
    /\ running
    /\ sending[m] = "new"
    /\ sending' = [sending EXCEPT ![m] = "posted"]
    /\ sdk' = IF sdk.current = NoThread THEN sdk ELSE Post(sdk, Item("SEND", NoThread, m))
    /\ UNCHANGED <<running, wire, signed, inflight, trouble, astray>>

AddToInflight(m) ==
    /\ sending[m] = "posted"
    /\ sending' = [sending EXCEPT ![m] = "done"]
    /\ inflight' = [inflight EXCEPT ![m] = 0]
    /\ UNCHANGED <<sdk, running, wire, signed, trouble, astray>>

Logout ==
    /\ running
    /\ Happens("logout")
    /\ sdk' = Post([sdk EXCEPT !.status = "Logouting"], Item("LOGOUT", NoThread, "nothing"))
    /\ UNCHANGED <<running, wire, signed, sending, inflight, astray>>

-----------------------------------------------------------------------------
Resolves(t) == Connects(t) \/ Ends(t) \/ SignsIn(t) \/ Serves(t) \/ Refuses(t)

Next ==
    \/ Process \/ LoopEnds \/ Timeout \/ TimePasses \/ Logout
    \/ \E t \in Threads : Resolves(t) \/ ConnectFails(t) \/ GoesDown(t) \/ Pushes(t) \/ AnswerLost(t)
    \/ \E m \in Messages : SendMsg(m) \/ AddToInflight(m)

\* The threads run, the network and the broker answer (every trouble is
\* counted), and time passes.
Fairness ==
    /\ WF_vars(Process) /\ WF_vars(LoopEnds) /\ WF_vars(Timeout) /\ WF_vars(TimePasses)
    /\ \A t \in Threads : WF_vars(Resolves(t))
    /\ \A m \in Messages : WF_vars(AddToInflight(m))

Spec == Init /\ [][Next]_vars /\ Fairness

-----------------------------------------------------------------------------
InQueue(type, t) == \E i \in 1 .. Len(sdk.queue) : sdk.queue[i] = Item(type, t, "nothing")

\* However attempts overlap, the client has one connection in use at most: a
\* thread that has carried a request and has not been stopped is the chosen
\* one.  (Two would be two links of the same user and device to the broker.)
OneInUse ==
    \A t \in Threads :
        sdk.rs[t] = "open" /\ (wire[t] # <<>> \/ t \in signed) => sdk.current = t

\* reconnect() does nothing while the status is Connecting; so while it is,
\* something must be under way that ends it: an attempt or its report, or the
\* clock of a login that is waited for (checkPing gives up when it has run for a
\* keep-alive period) - unless a packet of a connection it had replaced has
\* stopped the clock.
WayOut ==
    running /\ sdk.status = "Connecting" /\ ~ astray =>
        IF sdk.current = NoThread
        THEN \E t \in Threads :
                 sdk.rs[t] = "connecting" \/ InQueue("SUCCESS", t) \/ InQueue("FAILED", t)
        ELSE sdk.ping > 0

Usable == sdk.status = "Connected" /\ sdk.current \in signed /\ sdk.rs[sdk.current] = "open"

\* When troubles cease the client comes to a connection the broker has signed
\* in, or has given up - unless it was misled by a packet of a connection it had
\* replaced, or an answer was lost on a connection that stays up.
Recovers == []<>(~ running \/ Usable \/ astray)

\* After logout() the loop ends and no socket thread stays, whatever connection
\* attempts were under way.
LogoutEnds ==
    (\E i \in 1 .. Len(sdk.queue) : sdk.queue[i].type = "LOGOUT")
        ~> (~ running /\ \A t \in Threads : sdk.rs[t] = "ended")
=============================================================================
