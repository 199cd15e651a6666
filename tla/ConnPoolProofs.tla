--------------------------- MODULE ConnPoolProofs ---------------------------
(***************************************************************************)
(* The safety of the connection pool for any number of threads, any limits *)
(* and any depth of nesting.                                               *)
(*                                                                         *)
(* The properties speak of the RedisConnPtr objects on the stacks; the     *)
(* code decides by its cache alone.  The inductive invariant ties the two  *)
(* together (Books) and states that the idle connections and the cached    *)
(* ones partition 1..m_capacity (Sound).                                   *)
(***************************************************************************)
EXTENDS ConnPool, TLAPS

conn(t) == m_thread_cache[t].t

(* The cache entry of a thread describes its stack. *)
BooksOf(t) ==
    /\ Count(t) = Len(held[t])
    /\ Count(t) = 0 <=> conn(t) = None
    /\ \A i \in 1..Len(held[t]) : held[t][i] = conn(t)
    /\ t \in waiting => Count(t) = 0

Books == \A t \in Threads : BooksOf(t)

(* With n connections established, those in s are the ones not cached. *)
Sound(s, n) ==
    /\ s \in Seq(1..m_count_max)
    /\ n \in 0..m_count_max
    /\ \A i \in 1..Len(s) : s[i] <= n
    /\ \A i, j \in 1..Len(s) : i # j => s[i] # s[j]
    /\ \A t \in Threads : \A i \in 1..Len(s) : s[i] # conn(t)
    /\ \A t \in Threads : conn(t) <= n
    /\ \A t, u \in Threads : t # u /\ conn(t) # None => conn(t) # conn(u)
    /\ \A c \in 1..n : \/ \E i \in 1..Len(s) : s[i] = c
                       \/ \E t \in Threads : conn(t) = c

IInv == TypeOK /\ Books /\ Sound(m_conns, m_capacity)

(* The limits are numbers, and at least one connection is allowed. *)
LEMMA Limits ==
    m_count_min \in Nat \ {0} /\ m_count_max \in Nat \ {0} /\ m_count_min <= m_count_max
BY CountAssumption DEF m_count_min, m_count_max

(* The sequence without its last element. *)
LEMMA AllButLast ==
    ASSUME NEW S, NEW s \in Seq(S), s # << >>
    PROVE  /\ [i \in 1..(Len(s) - 1) |-> s[i]] \in Seq(S)
           /\ Len([i \in 1..(Len(s) - 1) |-> s[i]]) = Len(s) - 1
           /\ \A j \in 1..(Len(s) - 1) : [i \in 1..(Len(s) - 1) |-> s[i]][j] = s[j]
           /\ Len(s) \in Nat \ {0}
           /\ s[Len(s)] \in S
<1>1. Len(s) \in Nat \ {0}
  OBVIOUS
<1>2. Len(s) - 1 \in Nat
  BY <1>1
<1>3. \A j \in 1..Len(s) : s[j] \in S
  OBVIOUS
<1> QED
  BY <1>1, <1>2, <1>3

(* Handing the last connection of s to a thread that has none. *)
LEMMA TakeIsSound ==
    ASSUME IInv, NEW t \in Threads, NEW s, NEW n, n = m_capacity', Sound(s, n),
           s # << >>, ~Cached(t), t \notin waiting', waiting' \subseteq waiting,
           Take(t, s)
    PROVE  IInv'
<1> DEFINE c == s[Len(s)]
           r == [i \in 1..(Len(s) - 1) |-> s[i]]
<1>1. /\ m_conns' = r
      /\ m_thread_cache' = [m_thread_cache EXCEPT ![t] = [t |-> c, count |-> 1]]
      /\ held' = [held EXCEPT ![t] = Append(held[t], c)]
  BY DEF Take, addCache
<1>2. /\ r \in Seq(1..m_count_max)
      /\ Len(r) = Len(s) - 1
      /\ \A i \in 1..(Len(s) - 1) : r[i] = s[i]
      /\ Len(s) \in Nat \ {0}
      /\ c \in 1..m_count_max
  BY AllButLast DEF Sound
<1> HIDE DEF c, r
<1>3. TypeOK'
  BY <1>1, <1>2 DEF IInv, TypeOK, Sound
<1>4. /\ \A u \in Threads \ {t} : /\ m_thread_cache'[u] = m_thread_cache[u]
                                  /\ held'[u] = held[u]
      /\ m_thread_cache'[t] = [t |-> c, count |-> 1]
      /\ held'[t] = Append(held[t], c)
  BY <1>1 DEF IInv, TypeOK
<1>5. held[t] = << >>
  BY DEF IInv, TypeOK, Books, BooksOf, Cached, conn
<1>6. Books'
  <2> SUFFICES ASSUME NEW u \in Threads PROVE BooksOf(u)'
    BY DEF Books
  <2>1. CASE u = t
    <3>1. held'[t] = <<c>>
      BY <1>4, <1>5
    <3> QED
      BY <2>1, <3>1, <1>2, <1>4 DEF BooksOf, conn, Count, None
  <2>2. CASE u # t
    BY <2>2, <1>4 DEF IInv, Books, BooksOf, conn, Count
  <2> QED
    BY <2>1, <2>2
<1>7. c = s[Len(s)]
  BY DEF c
<1>8. Sound(m_conns, m_capacity)'
  <2>1. (m_conns \in Seq(1..m_count_max) /\ m_capacity \in 0..m_count_max)'
    BY <1>1, <1>2 DEF Sound
  <2>2. \A i \in 1..Len(r) : r[i] <= n
    BY <1>2 DEF Sound
  <2>3. \A i, j \in 1..Len(r) : i # j => r[i] # r[j]
    BY <1>2 DEF Sound
  <2>4. \A u \in Threads : \A i \in 1..Len(r) : r[i] # conn(u)'
    BY <1>2, <1>4, <1>7 DEF Sound, conn
  <2>5. \A u \in Threads : conn(u)' <= n
    BY <1>2, <1>4, <1>7 DEF Sound, conn
  <2>6. \A u, v \in Threads : u # v /\ conn(u)' # None => conn(u)' # conn(v)'
    <3> SUFFICES ASSUME NEW u \in Threads, NEW v \in Threads, u # v,
                        conn(u)' # None
                 PROVE  conn(u)' # conn(v)'
      OBVIOUS
    <3>1. \A w \in Threads : conn(w) # c
      BY <1>2, <1>7 DEF Sound
    <3>2. CASE u = t
      BY <3>1, <3>2, <1>4 DEF conn
    <3>3. CASE v = t
      BY <3>1, <3>3, <1>4 DEF conn
    <3>4. CASE u # t /\ v # t
      BY <3>4, <1>4 DEF conn, Sound
    <3> QED
      BY <3>2, <3>3, <3>4
  <2>7. \A d \in 1..n : \/ \E i \in 1..Len(r) : r[i] = d
                        \/ \E u \in Threads : conn(u)' = d
    <3> SUFFICES ASSUME NEW d \in 1..n
                 PROVE  \/ \E i \in 1..Len(r) : r[i] = d
                        \/ \E u \in Threads : conn(u)' = d
      OBVIOUS
    <3>1. CASE d = c
      BY <3>1, <1>4 DEF conn
    <3>2. CASE d # c /\ \E i \in 1..Len(s) : s[i] = d
      BY <3>2, <1>2, <1>7
    <3>3. CASE \E u \in Threads : conn(u) = d
      <4>1. PICK u \in Threads : conn(u) = d
        BY <3>3
      <4>2. u # t
        BY <4>1 DEF Cached, conn, None
      <4> QED
        BY <4>1, <4>2, <1>4 DEF conn
    <3> QED
      BY <3>1, <3>2, <3>3 DEF Sound
  <2> QED
    BY <1>1, <2>1, <2>2, <2>3, <2>4, <2>5, <2>6, <2>7 DEF Sound
<1> QED
  BY <1>3, <1>6, <1>8 DEF IInv

(* Sound is a matter of the two sequences and the cached connections. *)
LEMMA SoundUnchanged ==
    ASSUME Sound(m_conns, m_capacity), m_conns' = m_conns, m_capacity' = m_capacity,
           \A u \in Threads : conn(u)' = conn(u)
    PROVE  Sound(m_conns, m_capacity)'
<1> DEFINE s == m_conns
           n == m_capacity
<1>1. \A t \in Threads : \A i \in 1..Len(s) : s[i] # conn(t)'
  BY DEF Sound
<1>2. \A t \in Threads : conn(t)' <= n
  BY DEF Sound
<1>3. \A t, u \in Threads : t # u /\ conn(t)' # None => conn(t)' # conn(u)'
  BY DEF Sound
<1>4. \A c \in 1..n : \/ \E i \in 1..Len(s) : s[i] = c
                      \/ \E t \in Threads : conn(t)' = c
  <2> SUFFICES ASSUME NEW c \in 1..n, \A i \in 1..Len(s) : s[i] # c
               PROVE  \E t \in Threads : conn(t)' = c
    OBVIOUS
  <2>1. PICK t \in Threads : conn(t) = c
    BY DEF Sound
  <2> QED
    BY <2>1
<1> QED
  BY <1>1, <1>2, <1>3, <1>4 DEF Sound

LEMMA InitIsSound == Init => IInv
<1> SUFFICES ASSUME Init PROVE IInv
  OBVIOUS
<1>1. /\ m_conns \in Seq(1..m_count_max)
      /\ m_capacity \in 0..m_count_max
      /\ Len(m_conns) = m_capacity
      /\ \A i \in 1..m_capacity : m_conns[i] = i
  <2>1. CASE OpenSucceeds
    <3> DEFINE s == [i \in 1..m_count_min |-> i]
    <3>1. /\ s \in Seq(1..m_count_max) /\ Len(s) = m_count_min
          /\ \A i \in 1..m_count_min : s[i] = i
      BY Limits
    <3> HIDE DEF s
    <3>2. m_conns = s /\ m_capacity = m_count_min
      BY <2>1 DEF OpenSucceeds, s
    <3> QED
      BY <3>1, <3>2, Limits
  <2>2. CASE OpenFails
    BY <2>2, Limits DEF OpenFails
  <2> QED
    BY <2>1, <2>2 DEF Init
<1>2. /\ \A t \in Threads : Count(t) = 0 /\ conn(t) = None /\ held[t] = << >>
      /\ waiting = {}
  BY DEF Init, Count, conn
<1>3. TypeOK
  <2>1. held \in [Threads -> Seq(1..m_count_max)]
    BY DEF Init
  <2>2. m_thread_cache \in [Threads -> [t : 0..m_count_max, count : Nat]]
    BY Limits DEF Init, None
  <2> QED
    BY <1>1, <1>2, <2>1, <2>2 DEF TypeOK
<1>5. Books
  <2> SUFFICES ASSUME NEW t \in Threads PROVE BooksOf(t)
    BY DEF Books
  <2>1. Len(held[t]) = 0
    BY <1>2
  <2> QED
    BY <1>2, <2>1 DEF BooksOf, None
<1>4. Sound(m_conns, m_capacity)
  BY <1>1, <1>2 DEF Sound, None
<1> QED
  BY <1>3, <1>4, <1>5 DEF IInv

LEMMA StepIsSound == IInv /\ [Next]_vars => IInv'
<1> SUFFICES ASSUME IInv, [Next]_vars PROVE IInv'
  OBVIOUS
<1> USE Limits
<1>1. ASSUME NEW t \in Threads, GetCached(t) PROVE IInv'
  <2> DEFINE c == conn(t)
  <2>1. /\ \A u \in Threads : conn(u)' = conn(u)
        /\ Count(t)' = Count(t) + 1
        /\ held'[t] = Append(held[t], c)
        /\ \A u \in Threads \ {t} : Count(u)' = Count(u) /\ held'[u] = held[u]
    BY <1>1 DEF GetCached, IInv, TypeOK, conn, Count
  <2>2. c \in 1..m_count_max
    BY <1>1 DEF GetCached, Cached, IInv, TypeOK, conn, None
  <2>0. m_conns' = m_conns /\ m_capacity' = m_capacity /\ waiting' = waiting
    BY <1>1 DEF GetCached
  <2>3. TypeOK'
    <3>1. /\ m_thread_cache \in [Threads -> [t : 0..m_count_max, count : Nat]]
          /\ held \in [Threads -> Seq(1..m_count_max)]
      BY DEF IInv, TypeOK
    <3>2. Count(t) + 1 \in Nat
      BY <3>1 DEF Count
    <3>3. m_thread_cache' \in [Threads -> [t : 0..m_count_max, count : Nat]]
      BY <1>1, <3>1, <3>2 DEF GetCached
    <3>4. held' = [held EXCEPT ![t] = Append(held[t], c)]
      BY <1>1 DEF GetCached, conn
    <3>5. Append(held[t], c) \in Seq(1..m_count_max)
      BY <2>2, <3>1
    <3>6. held' \in [Threads -> Seq(1..m_count_max)]
      BY <3>1, <3>4, <3>5
    <3> QED
      BY <2>0, <3>3, <3>6 DEF IInv, TypeOK
  <2> HIDE DEF c
  <2>4. Books'
    <3> SUFFICES ASSUME NEW u \in Threads PROVE BooksOf(u)'
      BY DEF Books
    <3>1. CASE u # t
      BY <3>1, <1>1, <2>1 DEF GetCached, IInv, Books, BooksOf
    <3>2. CASE u = t
      <4>1. held[t] \in Seq(1..m_count_max) /\ BooksOf(t) /\ Count(t) \in Nat
        BY DEF IInv, Books, TypeOK, Count
      <4>2. \A i \in 1..Len(held'[t]) : held'[t][i] = conn(t)'
        BY <2>1, <4>1 DEF BooksOf, c
      <4> QED
        BY <1>1, <3>2, <2>1, <2>2, <4>1, <4>2 DEF GetCached, Calls, BooksOf, c, None
    <3> QED
      BY <3>1, <3>2
  <2>5. Sound(m_conns, m_capacity)'
    <3>1. Sound(m_conns, m_capacity)
      BY DEF IInv
    <3> QED
      BY <2>0, <2>1, <3>1, SoundUnchanged
  <2> QED
    BY <2>3, <2>4, <2>5 DEF IInv
<1>2. ASSUME NEW t \in Threads, GetIdle(t) PROVE IInv'
  BY <1>2, TakeIsSound DEF GetIdle, Calls, IInv
<1>3. ASSUME NEW t \in Threads, GetNew(t) PROVE IInv'
  <2> DEFINE n == m_capacity + 1
             s == <<n>>
  <2>1. /\ s \in Seq(1..m_count_max) /\ Len(s) = 1 /\ s[1] = n
        /\ n \in 1..m_count_max
        /\ n = m_capacity' /\ Take(t, s)
    BY <1>3 DEF GetNew, IInv, TypeOK
  <2>2. \A u \in Threads : conn(u) \in 0..m_capacity
    BY DEF IInv, TypeOK, Sound, conn
  <2>3. \A d \in 1..m_capacity : \E u \in Threads : conn(u) = d
    BY <1>3 DEF GetNew, IInv, Sound
  <2>4. \A u, v \in Threads : u # v /\ conn(u) # None => conn(u) # conn(v)
    BY DEF IInv, Sound
  <2>5. m_capacity \in Nat
    BY DEF IInv, TypeOK
  <2>6. \A d \in 1..n : d = n \/ d \in 1..m_capacity
    BY <2>5
  <2> HIDE DEF s
  <2>7. Sound(s, n)
    BY <2>1, <2>2, <2>3, <2>4, <2>5, <2>6 DEF Sound
  <2> QED
    <3>1. s # << >>
      BY <2>1
    <3>2. ~Cached(t) /\ t \notin waiting /\ waiting' = waiting
      BY <1>3 DEF GetNew, Calls
    <3> HIDE DEF n
    <3> QED
      BY <2>1, <2>7, <3>1, <3>2, TakeIsSound
<1>4. ASSUME NEW t \in Threads, GetWaits(t) PROVE IInv'
  <2>1. Count(t) = 0
    BY <1>4 DEF GetWaits, Cached, IInv, Books, BooksOf, conn
  <2>2. /\ \A u \in Threads : conn(u)' = conn(u) /\ Count(u)' = Count(u)
        /\ UNCHANGED <<m_conns, m_capacity, m_thread_cache, held>>
        /\ waiting' = waiting \cup {t}
    BY <1>4 DEF GetWaits, conn, Count
  <2>3. Books'
    <3> SUFFICES ASSUME NEW u \in Threads PROVE BooksOf(u)'
      BY DEF Books
    <3> QED
      BY <2>1, <2>2 DEF IInv, Books, BooksOf
  <2>4. TypeOK'
    BY <2>2 DEF IInv, TypeOK
  <2> QED
    BY <2>2, <2>3, <2>4, SoundUnchanged DEF IInv
<1>5. ASSUME NEW t \in Threads, WaitEnds(t) PROVE IInv'
  <2>1. ~Cached(t)
    BY <1>5 DEF WaitEnds, Cached, IInv, Books, BooksOf, conn
  <2> QED
    BY <1>5, <2>1, TakeIsSound DEF WaitEnds, IInv
<1>6. ASSUME NEW t \in Threads, Release(t) PROVE IInv'
  <2> DEFINE h == held[t]
             k == Len(h)
             r == [i \in 1..(k - 1) |-> h[i]]
             c == conn(t)
  <2>1. /\ h \in Seq(1..m_count_max) /\ h # << >> /\ t \notin waiting
        /\ k \in Nat \ {0}
        /\ Count(t) = k /\ h[k] = c /\ c \in 1..m_count_max
    <3>1. h \in Seq(1..m_count_max) /\ h # << >> /\ t \notin waiting
      BY <1>6 DEF Release, IInv, TypeOK
    <3>2. k \in Nat \ {0} /\ h[k] \in 1..m_count_max
      BY <3>1, AllButLast
    <3>3. BooksOf(t)
      BY DEF IInv, Books
    <3>4. Count(t) = k /\ h[k] = c
      BY <3>2, <3>3 DEF BooksOf
    <3> QED
      BY <3>1, <3>2, <3>4
  <2>2. /\ r \in Seq(1..m_count_max) /\ Len(r) = k - 1
        /\ \A i \in 1..(k - 1) : r[i] = c
    BY <2>1, AllButLast DEF IInv, Books, BooksOf
  <2>3. /\ \A u \in Threads \ {t} : /\ m_thread_cache'[u] = m_thread_cache[u]
                                    /\ held'[u] = held[u]
        /\ m_thread_cache'[t] = [t |-> IF k = 1 THEN None ELSE c, count |-> k - 1]
        /\ held'[t] = r
        /\ m_conns' = IF k = 1 THEN Append(m_conns, c) ELSE m_conns
        /\ waiting' = waiting /\ m_capacity' = m_capacity
    BY <1>6, <2>1 DEF Release, releaseCache, GivesBack, IInv, TypeOK, conn
  <2>4. /\ m_thread_cache' \in [Threads -> [t : 0..m_count_max, count : Nat]]
        /\ held' \in [Threads -> Seq(1..m_count_max)]
    BY <1>6, <2>1, <2>2 DEF Release, releaseCache, IInv, TypeOK, conn, None
  <2> HIDE DEF h, k, r, c
  <2>5. TypeOK'
    <3>1. m_conns' \in Seq(1..m_count_max)
      <4>1. m_conns \in Seq(1..m_count_max)
        BY DEF IInv, TypeOK
      <4>2. Append(m_conns, c) \in Seq(1..m_count_max)
        BY <2>1, <4>1
      <4> QED
        BY <2>3, <4>1, <4>2
    <3> QED
      BY <2>3, <2>4, <3>1 DEF IInv, TypeOK
  <2>6. Books'
    <3> SUFFICES ASSUME NEW u \in Threads PROVE BooksOf(u)'
      BY DEF Books
    <3>1. CASE u # t
      BY <3>1, <2>3 DEF IInv, Books, BooksOf, conn, Count
    <3>2. CASE u = t
      BY <3>2, <2>1, <2>2, <2>3 DEF BooksOf, conn, Count, None
    <3> QED
      BY <3>1, <3>2
  <2>7. Sound(m_conns, m_capacity)
    BY DEF IInv
  <2>8. CASE k # 1
    <3>1. \A u \in Threads : conn(u)' = conn(u)
      BY <2>8, <2>3 DEF conn, c
    <3>2. Sound(m_conns, m_capacity)'
      BY <2>3, <2>7, <2>8, <3>1, SoundUnchanged
    <3> QED
      BY <2>5, <2>6, <3>2 DEF IInv
  <2>9. CASE k = 1
    <3>1. /\ \A u \in Threads \ {t} : conn(u)' = conn(u)
          /\ conn(t)' = None /\ conn(t) = c
      BY <2>9, <2>3 DEF conn, c
    <3>2. /\ m_conns' \in Seq(1..m_count_max)
          /\ Len(m_conns') = Len(m_conns) + 1
          /\ \A i \in 1..Len(m_conns) : m_conns'[i] = m_conns[i]
          /\ m_conns'[Len(m_conns) + 1] = c
          /\ Len(m_conns) \in Nat
      BY <2>1, <2>3, <2>7, <2>9 DEF Sound
    <3>4. /\ \A i \in 1..Len(m_conns') : i \in 1..Len(m_conns) \/ i = Len(m_conns) + 1
          /\ \A i \in 1..Len(m_conns) : i \in 1..Len(m_conns')
          /\ Len(m_conns) + 1 \in 1..Len(m_conns')
      BY <3>2
    <3>5. /\ \A i \in 1..Len(m_conns) : m_conns[i] <= m_capacity
          /\ \A i, j \in 1..Len(m_conns) : i # j => m_conns[i] # m_conns[j]
          /\ \A i \in 1..Len(m_conns) : \A u \in Threads : m_conns[i] # conn(u)
          /\ \A u \in Threads : conn(u) <= m_capacity
          /\ \A u \in Threads : u # t => conn(u) # c
      BY <2>1, <2>7, <3>1 DEF Sound, None
    <3>6. \A i \in 1..Len(m_conns) : m_conns[i] # c /\ m_conns[i] \in 1..m_count_max
      BY <2>7, <3>1, <3>5 DEF Sound
    <3>3. Sound(m_conns, m_capacity)'
      <4>1. \A u \in Threads : \A i \in 1..Len(m_conns') : m_conns'[i] # conn(u)'
        <5> SUFFICES ASSUME NEW u \in Threads, NEW i \in 1..Len(m_conns')
                     PROVE  m_conns'[i] # conn(u)'
          OBVIOUS
        <5>1. CASE i \in 1..Len(m_conns)
          <6>1. m_conns'[i] = m_conns[i]
            BY <5>1, <3>2
          <6> QED
            BY <5>1, <6>1, <3>1, <3>5, <3>6 DEF None
        <5>2. CASE i = Len(m_conns) + 1
          <6>1. m_conns'[i] = c
            BY <5>2, <3>2
          <6> QED
            BY <6>1, <2>1, <3>1, <3>5 DEF None
        <5> QED
          BY <3>4, <5>1, <5>2
      <4>2. \A u, v \in Threads : u # v /\ conn(u)' # None => conn(u)' # conn(v)'
        BY <2>7, <3>1 DEF Sound
      <4>3. \A i, j \in 1..Len(m_conns') : i # j => m_conns'[i] # m_conns'[j]
        <5> SUFFICES ASSUME NEW i \in 1..Len(m_conns'), NEW j \in 1..Len(m_conns'),
                            i # j
                     PROVE  m_conns'[i] # m_conns'[j]
          OBVIOUS
        <5>1. CASE i \in 1..Len(m_conns) /\ j \in 1..Len(m_conns)
          BY <5>1, <3>2, <3>5
        <5>2. CASE i = Len(m_conns) + 1 /\ j \in 1..Len(m_conns)
          BY <5>2, <3>2, <3>6
        <5>3. CASE i \in 1..Len(m_conns) /\ j = Len(m_conns) + 1
          BY <5>3, <3>2, <3>6
        <5> QED
          BY <3>4, <5>1, <5>2, <5>3
      <4>4. \A i \in 1..Len(m_conns') : m_conns'[i] <= m_capacity
        <5>1. c <= m_capacity
          BY <3>1, <3>5
        <5> QED
          BY <3>2, <3>4, <3>5, <5>1
      <4>5. \A u \in Threads : conn(u)' <= m_capacity
        BY <2>7, <3>1 DEF Sound, None
      <4>6. \A d \in 1..m_capacity : \/ \E i \in 1..Len(m_conns') : m_conns'[i] = d
                                     \/ \E u \in Threads : conn(u)' = d
        BY <2>7, <3>1, <3>2, <3>4 DEF Sound
      <4> QED
        BY <2>3, <2>7, <3>2, <4>1, <4>2, <4>3, <4>4, <4>5, <4>6 DEF Sound
    <3> QED
      BY <2>5, <2>6, <3>3 DEF IInv
  <2> QED
    BY <2>8, <2>9
<1>7. CASE UNCHANGED vars
  <2>1. /\ \A u \in Threads : conn(u)' = conn(u) /\ Count(u)' = Count(u)
        /\ UNCHANGED <<m_conns, m_capacity, m_thread_cache, waiting, held>>
    BY <1>7 DEF vars, conn, Count
  <2>2. TypeOK' /\ Books'
    BY <2>1 DEF IInv, TypeOK, Books, BooksOf
  <2> QED
    BY <2>1, <2>2, SoundUnchanged DEF IInv
<1> QED
  BY <1>1, <1>2, <1>3, <1>4, <1>5, <1>6, <1>7 DEF Next

(* IInv holds in every reachable state. *)
THEOREM PoolInvariant == Spec => []IInv
BY InitIsSound, StepIsSound, PTL DEF Spec

(***************************************************************************)
(* What the invariant says of the stacks.                                  *)
(***************************************************************************)
(* A thread holds exactly its cached connection, or nothing. *)
LEMMA HoldsIsCached ==
    ASSUME IInv, NEW t \in Threads
    PROVE  /\ conn(t) = None => Holds(t) = {}
           /\ conn(t) # None => Holds(t) = {conn(t)}
<1>1. BooksOf(t) /\ held[t] \in Seq(1..m_count_max) /\ Count(t) \in Nat
  BY DEF IInv, Books, TypeOK, Count
<1>2. Len(held[t]) \in Nat
  BY <1>1
<1>3. CASE conn(t) = None
  BY <1>1, <1>2, <1>3 DEF BooksOf, Holds
<1>4. CASE conn(t) # None
  <2>1. Len(held[t]) \in Nat \ {0}
    BY <1>1, <1>4 DEF BooksOf
  <2>2. 1 \in 1..Len(held[t])
    BY <2>1
  <2> QED
    BY <1>1, <1>4, <2>2 DEF BooksOf, Holds
<1> QED
  BY <1>3, <1>4

(* Two threads never share a connection, and no idle connection is in use. *)
THEOREM ConnectionsExclusive == Spec => []Exclusive
<1>1. ASSUME IInv PROVE Exclusive
  <2>1. Sound(m_conns, m_capacity)
    BY <1>1 DEF IInv
  <2>2. \A t \in Threads : Holds(t) \subseteq {conn(t)} \ {None}
    BY <1>1, HoldsIsCached
  <2>3. \A t, u \in Threads : t # u => Holds(t) \cap Holds(u) = {}
    BY <2>1, <2>2 DEF Sound
  <2>4. \A t \in Threads : Holds(t) \cap Idle = {}
    <3> SUFFICES ASSUME NEW t \in Threads, NEW i \in 1..Len(m_conns)
                 PROVE  m_conns[i] \notin Holds(t)
      BY DEF Idle
    <3>1. m_conns[i] # conn(t)
      BY <2>1 DEF Sound
    <3> QED
      BY <2>2, <3>1
  <2> QED
    BY <2>1, <2>3, <2>4 DEF Sound, Exclusive
<1> QED
  BY <1>1, PoolInvariant, PTL

(* No connection leaves the pool for good. *)
THEOREM ConnectionsKept == Spec => []NoneLost
<1>1. ASSUME IInv PROVE NoneLost
  <2>1. Sound(m_conns, m_capacity)
    BY <1>1 DEF IInv
  <2>2. \A c \in 1..m_capacity : c \in Idle \/ \E t \in Threads : c \in Holds(t)
    <3> SUFFICES ASSUME NEW c \in 1..m_capacity
                 PROVE  c \in Idle \/ \E t \in Threads : c \in Holds(t)
      OBVIOUS
    <3>1. CASE \E i \in 1..Len(m_conns) : m_conns[i] = c
      BY <3>1 DEF Idle
    <3>2. CASE \E t \in Threads : conn(t) = c
      BY <1>1, <3>2, HoldsIsCached DEF None
    <3> QED
      BY <2>1, <3>1, <3>2 DEF Sound
  <2>3. Idle \subseteq 1..m_capacity
    <3> SUFFICES ASSUME NEW i \in 1..Len(m_conns)
                 PROVE  m_conns[i] \in 1..m_capacity
      BY DEF Idle
    <3>1. m_conns \in Seq(1..m_count_max) /\ m_conns[i] <= m_capacity
      BY <2>1 DEF Sound
    <3> DEFINE S == 1..m_count_max
    <3>2. m_conns[i] \in S
      <4>1. m_conns \in Seq(S)
        BY <3>1
      <4> HIDE DEF S
      <4> QED
        BY <4>1
    <3> QED
      BY <3>1, <3>2, <2>1, Limits DEF Sound
  <2>4. \A t \in Threads : Holds(t) \subseteq 1..m_capacity
    <3> SUFFICES ASSUME NEW t \in Threads PROVE Holds(t) \subseteq 1..m_capacity
      OBVIOUS
    <3>1. conn(t) \in 0..m_count_max /\ conn(t) <= m_capacity /\ m_capacity \in Nat
      BY <1>1, <2>1 DEF Sound, IInv, TypeOK, conn
    <3>2. conn(t) # None => conn(t) \in 1..m_capacity
      BY <3>1, Limits DEF None
    <3> QED
      BY <1>1, <3>2, HoldsIsCached
  <2> QED
    BY <2>2, <2>3, <2>4 DEF NoneLost
<1> QED
  BY <1>1, PoolInvariant, PTL

(* A handler and the helpers it calls use one connection. *)
THEOREM OneConnectionEach == Spec => []OneEach
<1>1. IInv => OneEach
  BY HoldsIsCached DEF OneEach
<1> QED
  BY <1>1, PoolInvariant, PTL

(* The threads of a process never all wait for each other's connections. *)
THEOREM NeverAllWaiting == Spec => []NoHoldAndWait
<1>1. ASSUME IInv PROVE NoHoldAndWait
  <2>1. ASSUME NEW t \in waiting PROVE t \in Threads /\ held[t] = << >>
    <3>1. t \in Threads /\ held[t] \in Seq(1..m_count_max)
      BY <1>1, <2>1 DEF IInv, TypeOK
    <3>2. Len(held[t]) = 0
      BY <1>1, <2>1, <3>1 DEF IInv, Books, BooksOf
    <3> QED
      BY <3>1, <3>2
  <2>2. ASSUME m_capacity > 0
        PROVE  \/ m_conns # << >>
               \/ \E t \in Threads \ waiting : held[t] # << >>
    <3>1. 1 \in 1..m_capacity
      BY <1>1, <2>2 DEF IInv, TypeOK
    <3>2. CASE \E i \in 1..Len(m_conns) : m_conns[i] = 1
      BY <3>2
    <3>3. CASE \E t \in Threads : conn(t) = 1
      <4>1. PICK t \in Threads : conn(t) = 1
        BY <3>3
      <4>2. Holds(t) # {}
        BY <1>1, <4>1, HoldsIsCached DEF None
      <4>3. held[t] # << >>
        BY <4>2 DEF Holds
      <4> QED
        BY <2>1, <4>1, <4>3
    <3> QED
      BY <1>1, <3>1, <3>2, <3>3 DEF IInv, Sound
  <2> QED
    BY <2>1, <2>2 DEF NoHoldAndWait
<1> QED
  BY <1>1, PoolInvariant, PTL

(* Every reachable state is well typed: the limit is never exceeded. *)
THEOREM PoolTypeCorrect == Spec => []TypeOK
<1>1. IInv => TypeOK
  BY DEF IInv
<1> QED
  BY <1>1, PoolInvariant, PTL
=============================================================================
