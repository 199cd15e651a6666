----------------------------- MODULE HttpServer -----------------------------
(***************************************************************************)
(* HttpServer: the interface for other applications.  A friend request is  *)
(* passed on to UserFriendServer (Friends) while the caller waits; a       *)
(* message or a command for clients becomes a task in a list in Redis that *)
(* all HttpServers share, and the caller is told of success.               *)
(*                                                                         *)
(* Each server has one task thread: it takes a task and hands it to        *)
(* BizMsgServer or to the brokers, or waits 60 seconds on a semaphore      *)
(* without a count - a signal nobody is waiting for is lost.               *)
(***************************************************************************)
EXTENDS Friends

CONSTANTS
    Servers,
    Tasks,
    NoTask,
    MaxCrashes      \* bound

ASSUME HttpAssumption == NoTask \notin Tasks /\ MaxCrashes \in Nat

VARIABLES
    queue,      \* the list of tasks, oldest first
    thread,     \* of each server: where its task thread is
    hand,       \* the task it has taken
    signals,    \* servers a handler of which has queued and not yet signalled
    fresh,      \* tasks nobody has asked for yet
    crashes,
    done,       \* history: tasks that were handed on
    lost        \* history: tasks that a failure or a crash took

taskVars == <<queue, thread, hand, signals, fresh, crashes, done, lost>>
vars == <<friends, attrs, plan, kind, about, began, failures, asked, crossed,
          queue, thread, hand, signals, fresh, crashes, done, lost>>

Queued == ToSet(queue)
Held == {hand[s] : s \in Servers} \ {NoTask}

\* A task is in one place, and there once.
OnePlace ==
    /\ fresh \cup Queued \cup Held \cup done \cup lost = Tasks
    /\ fresh \cap (Queued \cup Held \cup done \cup lost) = {}
    /\ Queued \cap (Held \cup done \cup lost) = {}
    /\ Held \cap (done \cup lost) = {}
    /\ done \cap lost = {}
    /\ IsInjective(queue)
    /\ \A s, z \in Servers : hand[s] = hand[z] /\ hand[s] # NoTask => s = z

TypeOK ==
    /\ FriendsTypeOK
    /\ queue \in Seq(Tasks)
    /\ thread \in [Servers -> {"take", "none", "waiting", "hand", "down"}]
    /\ hand \in [Servers -> Tasks \cup {NoTask}]
    /\ signals \subseteq Servers
    /\ crashes \in 0 .. MaxCrashes
    /\ \A s \in Servers : hand[s] # NoTask <=> thread[s] = "hand"
    /\ OnePlace

Init ==
    /\ FriendsInit
    /\ queue = <<>>
    /\ thread = [s \in Servers |-> "take"]
    /\ hand = [s \in Servers |-> NoTask]
    /\ signals = {}
    /\ fresh = Tasks
    /\ crashes = 0
    /\ done = {} /\ lost = {}

-----------------------------------------------------------------------------
Fails == failures < MaxFailures /\ failures' = failures + 1
Works == UNCHANGED failures

\* addTask: the task is pushed, and whether that worked is not looked at ...
AddTask(s) ==
    /\ thread[s] # "down"
    /\ \E t \in fresh :
          /\ fresh' = fresh \ {t}
          /\ \/ Works /\ queue' = Append(queue, t) /\ UNCHANGED lost
             \/ Fails /\ lost' = lost \cup {t} /\ UNCHANGED queue
    /\ signals' = signals \cup {s}
    /\ UNCHANGED <<thread, hand, crashes, done>>

\* ... and the thread of this server is woken if it is waiting just then.
Signal(s) ==
    /\ s \in signals
    /\ signals' = signals \ {s}
    /\ thread' = [thread EXCEPT ![s] = IF @ = "waiting" THEN "take" ELSE @]
    /\ UNCHANGED <<queue, hand, fresh, crashes, done, lost, failures>>

-----------------------------------------------------------------------------
(***************************************************************************)
(* RequestTaskThread::run.                                                 *)
(***************************************************************************)
\* Fault: the oldest task is looked at and not taken.
PopTaskKept(s) ==
    /\ thread[s] = "take"
    /\ queue # <<>> /\ Works
    /\ thread' = [thread EXCEPT ![s] = "hand"]
    /\ hand' = [hand EXCEPT ![s] = Head(queue)]
    /\ UNCHANGED <<queue, signals, fresh, crashes, done, lost>>

\* A task is taken, or there is none, or Redis fails.
PopTask(s) ==
    /\ thread[s] = "take"
    /\ \/ /\ queue # <<>> /\ Works
          /\ thread' = [thread EXCEPT ![s] = "hand"]
          /\ hand' = [hand EXCEPT ![s] = Head(queue)]
          /\ queue' = Tail(queue)
       \/ /\ IF queue = <<>> THEN Works ELSE Fails
          /\ thread' = [thread EXCEPT ![s] = "none"]
          /\ UNCHANGED <<hand, queue>>
    /\ UNCHANGED <<signals, fresh, crashes, done, lost>>

\* It starts to wait: a signal that came since it looked is lost.
Wait(s) ==
    /\ thread[s] = "none"
    /\ thread' = [thread EXCEPT ![s] = "waiting"]
    /\ UNCHANGED <<queue, hand, signals, fresh, crashes, done, lost, failures>>

\* Fault: the thread waits until it is woken.
NoTimeout(s) == FALSE

\* 60 seconds are over.
Timeout(s) ==
    /\ thread[s] = "waiting"
    /\ thread' = [thread EXCEPT ![s] = "take"]
    /\ UNCHANGED <<queue, hand, signals, fresh, crashes, done, lost, failures>>

\* sendBizMsgReq or sendSyncCmdReq: a failure is logged, the task not put back.
SendTask(s) ==
    /\ thread[s] = "hand"
    /\ \/ Works /\ done' = done \cup {hand[s]} /\ UNCHANGED lost
       \/ Fails /\ lost' = lost \cup {hand[s]} /\ UNCHANGED done
    /\ thread' = [thread EXCEPT ![s] = "take"]
    /\ hand' = [hand EXCEPT ![s] = NoTask]
    /\ UNCHANGED <<queue, signals, fresh, crashes>>

-----------------------------------------------------------------------------
\* A server dies with the task its thread has in hand; the list stays.
Crash(s) ==
    /\ thread[s] # "down"
    /\ crashes < MaxCrashes
    /\ crashes' = crashes + 1
    /\ thread' = [thread EXCEPT ![s] = "down"]
    /\ lost' = lost \cup ({hand[s]} \ {NoTask})
    /\ hand' = [hand EXCEPT ![s] = NoTask]
    /\ signals' = signals \ {s}
    /\ UNCHANGED <<queue, fresh, done, failures>>

Restart(s) ==
    /\ thread[s] = "down"
    /\ thread' = [thread EXCEPT ![s] = "take"]
    /\ UNCHANGED <<queue, hand, signals, fresh, crashes, done, lost, failures>>

FriendsRest == <<friends, attrs, plan, kind, about, began, asked, crossed>>

TaskThread(s) == PopTask(s) \/ Wait(s) \/ Timeout(s) \/ SendTask(s)

TaskNext ==
    \E s \in Servers : AddTask(s) \/ Signal(s) \/ TaskThread(s) \/ Crash(s) \/ Restart(s)

Next ==
    \/ TaskNext /\ UNCHANGED FriendsRest
    \/ FriendsNext /\ UNCHANGED taskVars

\* A server that runs keeps its thread going, and one that died is started
\* again.  Nothing is assumed of callers, of Redis, or of the signals.
Spec ==
    /\ Init /\ [][Next]_vars
    /\ \A s \in Servers : /\ WF_vars(TaskThread(s) /\ UNCHANGED FriendsRest)
                          /\ WF_vars(Restart(s) /\ UNCHANGED FriendsRest)

-----------------------------------------------------------------------------
\* A task in the list is handed on, or goes down with a server or a failed
\* call - whichever signals get lost, and whichever server it was queued on.
TaskTaken == \A t \in Tasks : t \in Queued ~> t \in done \cup lost
=============================================================================
