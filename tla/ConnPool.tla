------------------------------ MODULE ConnPool ------------------------------
(***************************************************************************)
(* The pool of Redis connections that every server process shares between  *)
(* its handle threads (src/server/Common/ConnPool.h).  A handler takes a   *)
(* connection by constructing a RedisConnPtr on its stack and gives it     *)
(* back when the RedisConnPtr goes out of scope; helpers it calls          *)
(* construct their own, so gets nest.  The pool remembers the connection   *)
(* of each thread and hands the same one to a nested get.                  *)
(*                                                                         *)
(* get() and release() run under m_mutex, so each is one step, except that *)
(* a get() that finds no connection waits outside the mutex.  Connections  *)
(* are numbered in the order in which they are established.                *)
(***************************************************************************)
EXTENDS Integers, Sequences

CONSTANTS
    Threads,    \* the threads that call the pool
    CountMin,   \* open()'s count_min
    CountMax,   \* open()'s count_max
    MaxDepth    \* bound: RedisConnPtr objects alive on one stack

ASSUME CountAssumption == CountMin \in Int /\ CountMax \in Int
ASSUME DepthAssumption == MaxDepth \in Nat

VARIABLES
    m_conns,         \* the idle connections, the last one is taken first
    m_capacity,      \* connections established
    m_thread_cache,  \* the connection of each thread and its count
    waiting,         \* threads in the wait loop of get()
    held             \* the RedisConnPtr objects on the stack of each thread

vars == <<m_conns, m_capacity, m_thread_cache, waiting, held>>

None == 0                                  \* nullptr
m_count_min == IF CountMin <= 0 THEN 1 ELSE CountMin
m_count_max == IF CountMax < m_count_min THEN m_count_min ELSE CountMax

(***************************************************************************)
(* open() establishes the first connections.  When one of them fails it    *)
(* drops them all and the process starts with a pool that has none.        *)
(***************************************************************************)
OpenSucceeds == /\ m_conns = [i \in 1..m_count_min |-> i]
                /\ m_capacity = m_count_min

OpenFails == m_conns = << >> /\ m_capacity = 0

Init ==
    /\ OpenSucceeds \/ OpenFails
    /\ m_thread_cache = [t \in Threads |-> [t |-> None, count |-> 0]]
    /\ waiting = {}
    /\ held = [t \in Threads |-> << >>]

(***************************************************************************)
(* The bookkeeping of a thread.                                            *)
(***************************************************************************)
(* Fault: a pool without the per-thread cache. *)
NeverCached(t) == FALSE

Cached(t) == m_thread_cache[t].t # None

addCache(t, c) ==
    m_thread_cache' = [m_thread_cache EXCEPT ![t] = [t |-> c, count |-> 1]]

Count(t) == m_thread_cache[t].count

(* The last connection of s goes to thread t, the others stay idle. *)
Take(t, s) ==
    /\ m_conns' = [i \in 1..(Len(s) - 1) |-> s[i]]
    /\ addCache(t, s[Len(s)])
    /\ held' = [held EXCEPT ![t] = Append(@, s[Len(s)])]

(***************************************************************************)
(* get().                                                                  *)
(***************************************************************************)
Calls(t) == t \notin waiting /\ Len(held[t]) < MaxDepth

GetCached(t) ==
    /\ Calls(t) /\ Cached(t)
    /\ m_thread_cache' = [m_thread_cache EXCEPT ![t].count = Count(t) + 1]
    /\ held' = [held EXCEPT ![t] = Append(@, m_thread_cache[t].t)]
    /\ UNCHANGED <<m_conns, m_capacity, waiting>>

GetIdle(t) ==
    /\ Calls(t) /\ ~Cached(t)
    /\ m_conns # << >>
    /\ Take(t, m_conns)
    /\ UNCHANGED <<m_capacity, waiting>>

(* An open pool that is not at its limit establishes another connection. *)
GetNew(t) ==
    /\ Calls(t) /\ ~Cached(t)
    /\ m_conns = << >>
    /\ m_capacity # 0 /\ m_capacity < m_count_max
    /\ m_capacity' = m_capacity + 1
    /\ Take(t, <<m_capacity + 1>>)
    /\ UNCHANGED waiting

(* The pool is not open, is at its limit, or m_init() fails. *)
GetWaits(t) ==
    /\ Calls(t) /\ ~Cached(t)
    /\ m_conns = << >>
    /\ waiting' = waiting \cup {t}
    /\ UNCHANGED <<m_conns, m_capacity, m_thread_cache, held>>

(* Notified or timed out: the wait loop looks at m_conns only. *)
WaitEnds(t) ==
    /\ t \in waiting
    /\ m_conns # << >>
    /\ waiting' = waiting \ {t}
    /\ Take(t, m_conns)
    /\ UNCHANGED m_capacity

(***************************************************************************)
(* ~RedisConnPtr() calls release() with the connection it holds.  It is a  *)
(* local of the handler, so the calling thread always has a cache entry.   *)
(***************************************************************************)
releaseCache(t) ==
    m_thread_cache' = [m_thread_cache EXCEPT ![t] =
        [t |-> IF Count(t) = 1 THEN None ELSE @.t, count |-> Count(t) - 1]]

(* Fault: every release gives the connection back. *)
GivesBackAlways(t) == TRUE

(* Fault: only releases of nested gets give it back. *)
GivesBackNested(t) == Count(t) = 2

(* releaseCache() returns 0. *)
GivesBack(t) == Count(t) = 1

Release(t) ==
    /\ t \notin waiting
    /\ held[t] # << >>
    /\ releaseCache(t)
    /\ m_conns' = IF GivesBack(t) THEN Append(m_conns, held[t][Len(held[t])])
                                  ELSE m_conns
    /\ held' = [held EXCEPT ![t] = [i \in 1..(Len(held[t]) - 1) |-> held[t][i]]]
    /\ UNCHANGED <<m_capacity, waiting>>

Next == \E t \in Threads : \/ GetCached(t) \/ GetIdle(t) \/ GetNew(t)
                           \/ GetWaits(t) \/ WaitEnds(t) \/ Release(t)

Spec == Init /\ [][Next]_vars

(***************************************************************************)
(* A handler is a finite program: whatever it nests, each of its scopes    *)
(* ends.  The wait loop looks again every m_wait_interval.                 *)
(***************************************************************************)
ScopeEnds(t, d) == Len(held[t]) = d /\ Release(t)

Fairness ==
    /\ \A t \in Threads : WF_vars(WaitEnds(t))
    /\ \A t \in Threads, d \in 1..MaxDepth : SF_vars(ScopeEnds(t, d))

FairSpec == Spec /\ Fairness

-----------------------------------------------------------------------------
Idle == {m_conns[i] : i \in 1..Len(m_conns)}
Holds(t) == {held[t][i] : i \in 1..Len(held[t])}

TypeOK ==
    /\ m_conns \in Seq(1..m_count_max)
    /\ m_capacity \in 0..m_count_max
    /\ m_thread_cache \in [Threads -> [t : 0..m_count_max, count : Nat]]
    /\ waiting \subseteq Threads
    /\ held \in [Threads -> Seq(1..m_count_max)]

(* A Redis connection is used by one thread at a time: what a thread holds *)
(* is held by no other thread and is not idle, and no connection is twice  *)
(* in m_conns.  (hiredis contexts are not thread safe.)                    *)
Exclusive ==
    /\ \A t, u \in Threads : t # u => Holds(t) \cap Holds(u) = {}
    /\ \A t \in Threads : Holds(t) \cap Idle = {}
    /\ \A i, j \in 1..Len(m_conns) : i # j => m_conns[i] # m_conns[j]

(* No connection is lost, whatever the nesting of gets and releases: each  *)
(* one that was established is idle or on some thread's stack.             *)
NoneLost ==
    1..m_capacity = Idle \cup UNION {Holds(t) : t \in Threads}

(* All RedisConnPtr objects on one stack hold the same connection, so a    *)
(* handler and its helpers talk to Redis in order.                         *)
OneEach == \A t \in Threads : \A c, d \in Holds(t) : c = d

(* No hold and wait: a thread in the wait loop holds no connection, and    *)
(* when one waits on an open pool a connection is idle or is held by a     *)
(* thread that is not waiting, so the threads never all wait.              *)
NoHoldAndWait ==
    /\ \A t \in waiting : held[t] = << >>
    /\ waiting # {} /\ m_capacity > 0 =>
          \/ m_conns # << >>
          \/ \E t \in Threads \ waiting : held[t] # << >>

(* When threads wait on an open pool a connection becomes idle, however    *)
(* the threads that hold one nest their gets.                              *)
Relieved == waiting # {} /\ m_capacity > 0 ~> m_conns # << >>
=============================================================================
