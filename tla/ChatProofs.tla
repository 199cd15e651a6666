----------------------------- MODULE ChatProofs -----------------------------
(***************************************************************************)
(* Theorems about Chat, for every set of users, sessions and packets, and  *)
(* every clock.                                                            *)
(***************************************************************************)
EXTENDS Chat, FiniteSetTheorems, NaturalsInduction, WellFoundedInduction, TLAPS

-----------------------------------------------------------------------------
(***************************************************************************)
(* The largest and the smallest of a set of numbers.                       *)
(***************************************************************************)

LEMMA MinOfSet ==
    ASSUME NEW S \in SUBSET Nat, S # {}
    PROVE  /\ Min(S) \in S
           /\ \A x \in S : Min(S) <= x
<1>1. PICK x \in S : \A y \in S : ~ (<<y, x>> \in OpToRel(<, Nat))
  BY NatLessThanWellFounded, WFMin
<1>2. \A y \in S : ~ (y < x)
  BY <1>1, Zenon DEF OpToRel
<1>3. \A y \in S : x <= y
  BY <1>2
<1>4. QED
  BY <1>3 DEF Min

LEMMA MaxOfSet ==
    ASSUME NEW S \in SUBSET Nat, S # {}, NEW c \in Nat, \A x \in S : x <= c
    PROVE  /\ Max(S) \in S
           /\ \A x \in S : x <= Max(S)
<1> DEFINE Below == {c - x : x \in S}
<1>1. Below \in SUBSET Nat /\ Below # {}
  <2>1. \A x \in S : c - x \in Nat
    OBVIOUS
  <2> QED  BY <2>1
<1>2. Min(Below) \in Below /\ \A d \in Below : Min(Below) <= d
  BY <1>1, MinOfSet
<1>3. PICK m \in S : Min(Below) = c - m
  BY <1>2
<1>4. \A x \in S : c - m <= c - x
  BY <1>2, <1>3
<1>5. \A x \in S : x <= m
  BY <1>4
<1>6. QED
  BY <1>5 DEF Max

LEMMA MaxOfTwo ==
    ASSUME NEW a \in Nat, NEW b \in Nat
    PROVE  /\ Max({a, b}) \in Nat
           /\ Max({a, b}) \in {a, b}
           /\ a <= Max({a, b})
           /\ b <= Max({a, b})
BY DEF Max

-----------------------------------------------------------------------------
(***************************************************************************)
(* Types, and the clock as a bound of the numbers in use.                  *)
(***************************************************************************)

RequestsOK ==
    \A r \in Requests :
        /\ Num(r) <= clock
        /\ Num(r) = 0 <=> request[r].stage \in {"new", "refused"}
StoredOK ==
    /\ \A m \in saves : m.score <= clock
    /\ \A s \in Sessions : \A m \in store[s] : m.score <= clock
PriorityOK ==
    \A u \in Users :
        /\ \A x \in high[u] : x[2] \in 1 .. clock
        /\ prior[u].latest <= clock

UsedType == [connects : Nat, reads : Nat, pulls : Nat, failures : Nat, unsaved : BOOLEAN]
PriorType == [state : {"none", "asked", "done"}, from : Nat, latest : Nat,
              got : SUBSET ((Packs \cup Commands) \X Nat)]

TypeInv == TypeOK /\ RequestsOK /\ StoredOK /\ PriorityOK

LEMMA ClockPasses ==
    ASSUME clock \in Nat, NEW n \in GenSeqId, Passes(n)
    PROVE  /\ n \in Nat /\ n # 0
           /\ clock' \in Nat
           /\ clock <= clock' /\ n <= clock'
BY MaxOfTwo DEF GenSeqId, Passes

LEMMA LastNumberType ==
    ASSUME TypeInv, NEW s \in Sessions
    PROVE  /\ LastNumber(s) \in Nat
           /\ LastNumber(s) <= clock
           /\ \A m \in store[s] : m.score <= LastNumber(s)
           /\ LastNumber(s) # 0 => \E m \in store[s] : m.score = LastNumber(s)
<1>1. Numbers(s) \in SUBSET Nat /\ \A n \in Numbers(s) : n <= clock
  BY DEF TypeInv, TypeOK, StoredOK, Numbers, Entries
<1>2. CASE store[s] = {}
  BY <1>2 DEF LastNumber, TypeInv, TypeOK
<1>3. CASE store[s] # {}
  <2>1. Numbers(s) # {}
    BY <1>3 DEF Numbers
  <2>2. Max(Numbers(s)) \in Numbers(s) /\ \A n \in Numbers(s) : n <= Max(Numbers(s))
    BY <1>1, <2>1, MaxOfSet DEF TypeInv, TypeOK
  <2>3. LastNumber(s) = Max(Numbers(s))
    BY <1>3 DEF LastNumber
  <2>4. QED
    BY <1>1, <2>2, <2>3 DEF Numbers
<1>4. QED
  BY <1>2, <1>3

LEMMA EntryType ==
    ASSUME NEW r \in Requests, NEW n \in Nat
    PROVE  Entry(r, n) \in Entries
BY DEF Entry, Entries, Requests

LEMMA FollowingType ==
    ASSUME NEW p \in Packs, NEW stage \in Stages \ {"new"}
    PROVE  Following(p, stage) \in Stages \ {"new", "refused"}
BY DEF Following, Stages

\* Only the request moves, and keeps its number.
LEMMA ProceedsType ==
    ASSUME TypeOK, RequestsOK, NEW r \in Requests,
           request[r].stage \in Stages \ {"new", "refused"},
           NEW cut \in BOOLEAN, NEW stage \in Stages \ {"new", "refused"},
           request' = [request EXCEPT ![r].stage = stage, ![r].cut = cut],
           clock' = clock
    PROVE  /\ request' \in [Requests -> [stage : Stages, n : Nat, cut : BOOLEAN]]
           /\ RequestsOK'
<1>1. request[r] \in [stage : Stages, n : Nat, cut : BOOLEAN]
  BY DEF TypeOK
<1>2. request'[r].n = request[r].n /\ request'[r].stage = stage
  BY <1>1 DEF TypeOK
<1>3. \A q \in Requests \ {r} : request'[q] = request[q]
  BY DEF TypeOK
<1>4. request' \in [Requests -> [stage : Stages, n : Nat, cut : BOOLEAN]]
  BY <1>1 DEF TypeOK
<1>5. QED
  BY <1>2, <1>3, <1>4 DEF RequestsOK, Num

LEMMA ProceedsKeeps ==
    ASSUME TypeOK, RequestsOK, NEW r \in Requests,
           request[r].stage \in Stages \ {"new", "refused"},
           Proceeds(r), clock' = clock
    PROVE  /\ request' \in [Requests -> [stage : Stages, n : Nat, cut : BOOLEAN]]
           /\ RequestsOK'
<1>1. request[r] \in [stage : Stages, n : Nat, cut : BOOLEAN] /\ r[1] \in Packs
  BY DEF TypeOK, Requests
<1>2. Following(r[1], request[r].stage) \in Stages \ {"new", "refused"}
  BY <1>1, FollowingType
<1>3. request' = [request EXCEPT ![r].stage = Following(r[1], request[r].stage),
                                 ![r].cut = request[r].cut]
  BY <1>1 DEF Proceeds, TypeOK
<1>4. QED
  BY <1>1, <1>2, <1>3, ProceedsType

LEMMA NumberMoves ==
    ASSUME request \in [Requests -> [stage : Stages, n : Nat, cut : BOOLEAN]],
           NEW r \in Requests, NEW stage \in Stages, NEW n \in Nat,
           request' = [request EXCEPT ![r].stage = stage, ![r].n = n]
    PROVE  /\ request' \in [Requests -> [stage : Stages, n : Nat, cut : BOOLEAN]]
           /\ \A q \in Requests \ {r} : request'[q] = request[q]
           /\ request'[r] = [stage |-> stage, n |-> n, cut |-> request[r].cut]
<1>1. /\ \A q \in Requests \ {r} : request'[q] = request[q]
      /\ request'[r] = [[request[r] EXCEPT !.stage = stage] EXCEPT !.n = n]
  OBVIOUS
<1>2. [request[r] EXCEPT !.stage = stage] = [stage |-> stage, n |-> request[r].n, cut |-> request[r].cut]
  OBVIOUS
<1>3. request'[r] = [stage |-> stage, n |-> n, cut |-> request[r].cut]
  BY <1>1, <1>2
<1>4. request' = [request EXCEPT ![r] = request'[r]]
  OBVIOUS
<1>5. QED
  BY <1>1, <1>3, <1>4

LEMMA TypeInit == Init => TypeInv
BY ChatAssumption DEF Init, TypeInv, TypeOK, RequestsOK, StoredOK, PriorityOK, Num, Requests, Stages, NoSync

\* A failure is counted.
LEMMA FailsType ==
    ASSUME TypeOK, Fails
    PROVE  used' \in UsedType
<1>1. used \in UsedType
  BY DEF TypeOK, UsedType
<1>2. QED
  BY <1>1 DEF Fails, UsedType

LEMMA ServerType ==
    ASSUME TypeInv, ServerStep
    PROVE  TypeInv'
<1> USE ChatAssumption DEF TypeInv
<1>0. request \in [Requests -> [stage : Stages, n : Nat, cut : BOOLEAN]] /\ clock \in Nat
  BY DEF TypeOK
<1>1. ASSUME NEW r \in Requests, Refuse(r) PROVE TypeInv'
  <2>1. request' \in [Requests -> [stage : Stages, n : Nat, cut : BOOLEAN]] /\ RequestsOK'
    BY <1>0, <1>1 DEF Refuse, MayStart, At, RequestsOK, Num, Stages
  <2>2. QED
    BY <1>1, <2>1 DEF Refuse, TypeOK, StoredOK, PriorityOK, redis, clients
<1>2. ASSUME NEW r \in Requests, Number(r) PROVE TypeInv'
  <2>1. PICK n \in GenSeqId :
           /\ Passes(n)
           /\ request' = [request EXCEPT ![r].stage = Following(r[1], "new"), ![r].n = n]
           /\ saves' = saves \cup {Entry(r, n)}
    BY <1>2 DEF Number
  <2>2. n \in Nat /\ n # 0 /\ clock' \in Nat /\ clock <= clock' /\ n <= clock'
    BY <2>1, ClockPasses DEF TypeOK
  <2>3. Following(r[1], "new") \in Stages \ {"new", "refused"}
    BY DEF Following, Stages
  <2>4. request' \in [Requests -> [stage : Stages, n : Nat, cut : BOOLEAN]] /\ RequestsOK'
    <3>1. /\ request' \in [Requests -> [stage : Stages, n : Nat, cut : BOOLEAN]]
          /\ \A q \in Requests \ {r} : request'[q] = request[q]
          /\ request'[r] = [stage |-> Following(r[1], "new"), n |-> n, cut |-> request[r].cut]
      BY <1>0, <2>1, <2>2, <2>3, NumberMoves
    <3>2. QED
      BY <1>0, <2>2, <2>3, <3>1 DEF RequestsOK, Num
  <2>5. Entry(r, n) \in Entries /\ Entry(r, n).score = n
    BY <2>2, EntryType DEF Entry
  <2>6. saves \subseteq Entries /\ store' = store
    BY <1>2 DEF TypeOK, Number, redis
  <2>7. \A m \in Entries : m.score \in Nat
    BY DEF Entries
  <2>8. store \in [Sessions -> SUBSET Entries]
    BY DEF TypeOK
  <2>9. saves' \subseteq Entries /\ StoredOK'
    BY <1>0, <2>1, <2>2, <2>5, <2>6, <2>7, <2>8 DEF StoredOK
  <2>10. PriorityOK'
    BY <1>2, <2>2 DEF TypeOK, PriorityOK, Number, redis, clients
  <2>11. raced' \subseteq Users
    BY <1>2 DEF Number, TypeOK, Concerned, Requests
  <2>12. QED
    BY <1>2, <2>2, <2>4, <2>9, <2>10, <2>11 DEF Number, TypeOK, redis, clients
<1>3. ASSUME NEW r \in Requests, SavePriority(r) PROVE TypeInv'
  <2>1. request' \in [Requests -> [stage : Stages, n : Nat, cut : BOOLEAN]] /\ RequestsOK'
    BY <1>3, ProceedsKeeps DEF SavePriority, At, Stages
  <2>2. Num(r) \in 1 .. clock /\ r[1] \in Packs /\ To(r) \in Users
    BY <1>0, <1>3 DEF RequestsOK, Num, SavePriority, At, Requests, To
  <2>3. high' \in [Users -> SUBSET ((Packs \cup Commands) \X Nat)] /\ PriorityOK'
    BY <1>3, <2>2 DEF SavePriority, TypeOK, PriorityOK, clients
  <2>4. QED
    BY <1>3, <2>1, <2>3 DEF SavePriority, TypeOK, StoredOK, clients
<1>4. ASSUME NEW r \in Requests, HotTo(r) PROVE TypeInv'
  <2>1. request' \in [Requests -> [stage : Stages, n : Nat, cut : BOOLEAN]] /\ RequestsOK'
    BY <1>4, ProceedsKeeps DEF HotTo, At, Stages
  <2>2. hot' \in [Users -> [Sessions -> Nat]]
    BY <1>4 DEF HotTo, TypeOK, Num
  <2>3. QED
    BY <1>4, <2>1, <2>2 DEF HotTo, TypeOK, StoredOK, PriorityOK, clients
<1>5. ASSUME NEW r \in Requests, HotFrom(r) PROVE TypeInv'
  <2>1. request' \in [Requests -> [stage : Stages, n : Nat, cut : BOOLEAN]] /\ RequestsOK'
    BY <1>5, ProceedsKeeps DEF HotFrom, At, Stages
  <2>2. hot' \in [Users -> [Sessions -> Nat]]
    BY <1>5 DEF HotFrom, TypeOK, Num
  <2>3. QED
    BY <1>5, <2>1, <2>2 DEF HotFrom, TypeOK, StoredOK, PriorityOK, clients
<1>6. ASSUME NEW r \in Requests, Unread(r) PROVE TypeInv'
  <2>1. request' \in [Requests -> [stage : Stages, n : Nat, cut : BOOLEAN]] /\ RequestsOK'
    BY <1>6, ProceedsKeeps DEF Unread, At, Stages
  <2>2. unread' \in [Packs -> Nat]
    BY <1>6 DEF Unread, TypeOK, Num
  <2>3. QED
    BY <1>6, <2>1, <2>2 DEF Unread, TypeOK, StoredOK, PriorityOK, clients
<1>7. ASSUME NEW r \in Requests, WriteFails(r) PROVE TypeInv'
  <2>1. r[1] \in Packs /\ request[r].stage \in Stages \ {"new", "refused"}
    BY <1>7 DEF WriteFails, Requests, Stages
  <2>2. Following(r[1], request[r].stage) \in Stages \ {"new", "refused"}
    BY <2>1, FollowingType
  <2>3. request' \in [Requests -> [stage : Stages, n : Nat, cut : BOOLEAN]] /\ RequestsOK'
    BY <1>7, <2>1, <2>2, ProceedsType DEF WriteFails
  <2>4. QED
    BY <1>7, <2>3, FailsType DEF WriteFails, TypeOK, UsedType, StoredOK, PriorityOK, redis, clients
<1>8. ASSUME NEW r \in Requests, Dies(r) PROVE TypeInv'
  <2>1. request' \in [Requests -> [stage : Stages, n : Nat, cut : BOOLEAN]] /\ RequestsOK'
    BY <1>0, <1>8 DEF Dies, RequestsOK, Num, Stages
  <2>2. QED
    BY <1>8, <2>1, FailsType DEF Dies, TypeOK, UsedType, StoredOK, PriorityOK, redis, clients
<1>9. ASSUME NEW r \in Requests, Dispatch(r) PROVE TypeInv'
  <2>1. request' \in [Requests -> [stage : Stages, n : Nat, cut : BOOLEAN]] /\ RequestsOK'
    BY <1>9, ProceedsKeeps DEF Dispatch, At, Stages
  <2>2. pushed' \subseteq Users \X (Packs \cup Commands) \X Nat
    BY <1>9 DEF Dispatch, TypeOK, Num, Requests
  <2>3. QED
    BY <1>9, <2>1, <2>2 DEF Dispatch, TypeOK, StoredOK, PriorityOK, redis
<1>10. ASSUME NEW m \in saves, Save(m) PROVE TypeInv'
  <2>1. m \in Entries /\ m.score <= clock
    BY DEF TypeOK, StoredOK
  <2>2. store' \in [Sessions -> SUBSET Entries] /\ saves' \subseteq Entries /\ StoredOK'
    BY <1>10, <2>1 DEF Save, ZAdd, TypeOK, StoredOK
  <2>3. QED
    BY <1>10, <2>2 DEF Save, TypeOK, RequestsOK, PriorityOK, clients, Num
<1>11. ASSUME NEW m \in saves, SaveFails(m) PROVE TypeInv'
  <2>1. used' \in UsedType
    <3>1. used \in UsedType
      BY DEF TypeOK, UsedType
    <3>2. used' = [[used EXCEPT !.failures = used.failures + 1] EXCEPT !.unsaved = TRUE]
      BY <1>11 DEF SaveFails
    <3>3. [used EXCEPT !.failures = used.failures + 1] \in UsedType
      BY <3>1 DEF UsedType
    <3>4. QED
      BY <3>2, <3>3 DEF UsedType
  <2>2. RequestsOK' /\ PriorityOK' /\ StoredOK'
    BY <1>11 DEF SaveFails, StoredOK, RequestsOK, PriorityOK, redis, clients, Num
  <2>3. QED
    BY <1>11, <2>1, <2>2 DEF SaveFails, TypeOK, UsedType, redis, clients
<1>12. QED
  BY <1>1, <1>2, <1>3, <1>4, <1>5, <1>6, <1>7, <1>8, <1>9, <1>10, <1>11 DEF ServerStep

-----------------------------------------------------------------------------
(***************************************************************************)
(* One round of a synchronisation.                                         *)
(***************************************************************************)

LastAfter(u, q, n) == [s \in DOMAIN sync[u].last \cup {q} |->
                          IF s = q THEN n ELSE sync[u].last[s]]

\* The round shows the last message of a session of the lowest score, or none
\* when the reading fails, and leaves the rest of the list or none of it; a user
\* it passes a session over for, or reads one too early for, is on record.
ItemRead(u, x, n) ==
    /\ x \in sync[u].todo
    /\ \A y \in sync[u].todo : x[2] <= y[2]
    /\ \A v \in Users \ {u} : sync'[v] = sync[v]
    /\ IsListing(sync'[u])
    /\ sync'[u].last = LastAfter(u, x[1], n)
    /\ sync'[u].stamp \in {sync[u].stamp, n}
    /\ sync[u].stamp <= sync'[u].stamp
    /\ n <= sync'[u].stamp
    /\ sync'[u].todo \in {{}, sync[u].todo \ {x}}
    /\ raced \subseteq raced' /\ raced' \subseteq raced \cup {u}
    /\ u \notin raced' =>
          /\ sync'[u].todo # sync[u].todo \ {x} => sync'[u].stamp <= x[2]
          /\ \A s \in DOMAIN sync'[u].last :
                LastNumber(s) > sync'[u].last[s] => hot[u][s] > sync'[u].stamp

LEMMA ShowsReads ==
    ASSUME TypeInv, NEW u \in Users, sync[u].state = "listed", NEW x \in sync[u].todo,
           NEW n \in {0, LastNumber(x[1])}, Shows(u, x, n)
    PROVE  /\ DOMAIN sync' = Users
           /\ ItemRead(u, x, n)
<1>0. sync[u] \in {NoSync, [state |-> "asked"]} \/ IsListing(sync[u])
  BY DEF TypeInv, TypeOK
<1>1. IsListing(sync[u]) /\ DOMAIN sync = Users
  BY <1>0 DEF TypeInv, TypeOK, NoSync
<1> DEFINE rest == sync[u].todo \ {x}
           last == LastAfter(u, x[1], n)
           full == Cardinality(DOMAIN last) > sync[u].max
           stamp == Max({sync[u].stamp, n})
           left == IF full THEN {} ELSE rest
<1>2. /\ \A y \in sync[u].todo : x[2] <= y[2]
      /\ sync' = [sync EXCEPT ![u] =
            [state |-> "listed",
             todo |-> left,
             last |-> last,
             stamp |-> stamp,
             max |-> sync[u].max]]
      /\ raced' = IF \/ full /\ rest # {} /\ stamp > x[2]
                     \/ ReadEarly(u, last, stamp)
                  THEN raced \cup {u} ELSE raced
  BY DEF Shows, LastAfter
<1>3. x \in Sessions \X Nat /\ sync[u].stamp \in Nat /\ sync[u].todo \subseteq Sessions \X Nat
  BY <1>1 DEF IsListing
<1>4. n \in Nat
  BY <1>3, LastNumberType
<1>5. stamp \in {sync[u].stamp, n} /\ sync[u].stamp <= stamp /\ n <= stamp
  BY <1>3, <1>4, MaxOfTwo
<1>6. last \in [DOMAIN last -> Nat] /\ DOMAIN last \subseteq Sessions
  BY <1>1, <1>3, <1>4 DEF LastAfter, IsListing
<1>7. left \in {{}, rest} /\ (left # rest => full /\ rest # {})
  OBVIOUS
<1>8. DOMAIN sync' = Users /\ \A v \in Users \ {u} : sync'[v] = sync[v]
  BY <1>1, <1>2
<1>9. sync'[u] = [state |-> "listed", todo |-> left, last |-> last,
                  stamp |-> stamp, max |-> sync[u].max]
  BY <1>1, <1>2
<1>10. IsListing(sync'[u])
  <2> HIDE DEF left, stamp, rest, last
  <2>1. left \in SUBSET (Sessions \X Nat)
    BY <1>3, <1>7 DEF rest
  <2>2. stamp \in Nat /\ sync[u].max \in MaxHotSessionCounts
    BY <1>1, <1>3, <1>4, <1>5 DEF IsListing
  <2>3. QED
    BY <1>6, <1>9, <2>1, <2>2 DEF IsListing
<1>11. \/ u \in raced' /\ raced' = raced \cup {u}
       \/ ~ (full /\ rest # {} /\ stamp > x[2]) /\ ~ ReadEarly(u, last, stamp) /\ raced' = raced
  BY <1>2
<1>12. u \notin raced' =>
          /\ left # rest => stamp <= x[2]
          /\ \A s \in DOMAIN last : LastNumber(s) > last[s] => hot[u][s] > stamp
  <2> HIDE DEF left, stamp, rest, full, last
  <2>1. stamp \in Nat /\ x[2] \in Nat
    BY <1>3, <1>4, <1>5
  <2>2. \A s \in DOMAIN last : hot[u][s] \in Nat
    BY <1>6 DEF TypeInv, TypeOK
  <2>3. QED
    BY <1>7, <1>11, <2>1, <2>2 DEF ReadEarly
<1>13. QED
  <2> HIDE DEF left, stamp, full, last
  <2>1. sync'[u].todo = left /\ sync'[u].last = last /\ sync'[u].stamp = stamp
    BY <1>9
  <2>2. ItemRead(u, x, n)
    BY <1>2, <1>5, <1>7, <1>8, <1>10, <1>11, <1>12, <2>1 DEF ItemRead, last
  <2>3. QED
    BY <1>8, <2>2

\* The steps that make a list, of the sessions beyond the cursor or of none.
MakesList(u, todo) ==
    /\ Lists(u, todo) /\ UNCHANGED raced
    /\ SyncList(u) \/ SyncFails(u)
    /\ todo \in {{}, {<<s, hot[u][s]>> : s \in {s \in Sessions : hot[u][s] > cursor[u]}}}

\* The steps that show a session of the list, or fail to read it.
ReadsItem(u) == \E x \in sync[u].todo : \E n \in {0, LastNumber(x[1])} : ItemRead(u, x, n)

Syncs(u) == SyncList(u) \/ SyncItem(u) \/ SyncFails(u)

LEMMA SyncMoves ==
    ASSUME TypeInv, NEW u \in Users, Syncs(u)
    PROVE  /\ DOMAIN sync' = Users
           /\ \/ sync[u].state = "asked" /\ \E todo \in SUBSET (Sessions \X Nat) : MakesList(u, todo)
              \/ sync[u].state = "listed" /\ ReadsItem(u)
           /\ UNCHANGED <<clock, request, saves, redis, online, cursor, seen, pushed, prior,
                          reading, readMark>>
<1> DEFINE beyond == {<<s, hot[u][s]>> : s \in {s \in Sessions : hot[u][s] > cursor[u]}}
<1>0. beyond \in SUBSET (Sessions \X Nat) /\ DOMAIN sync = Users
  BY DEF TypeInv, TypeOK
<1>1. UNCHANGED <<clock, request, saves, redis, online, cursor, seen, pushed, prior, reading, readMark>>
  BY DEF Syncs, SyncList, SyncItem, SyncFails
<1>2. ASSUME NEW todo \in {{}, beyond}, Lists(u, todo), UNCHANGED raced, SyncList(u) \/ SyncFails(u)
      PROVE  DOMAIN sync' = Users /\ sync[u].state = "asked" /\ MakesList(u, todo)
  BY <1>0, <1>2 DEF Lists, MakesList
<1>3. ASSUME sync[u].state = "listed", NEW x \in sync[u].todo, NEW n \in {0, LastNumber(x[1])},
             Shows(u, x, n)
      PROVE  DOMAIN sync' = Users /\ ReadsItem(u)
  BY <1>3, ShowsReads DEF ReadsItem
<1>4. CASE SyncList(u)
  BY <1>0, <1>1, <1>2, <1>4 DEF SyncList
<1>5. CASE SyncItem(u)
  BY <1>1, <1>3, <1>5 DEF SyncItem
<1>6. CASE SyncFails(u)
  <2>1. CASE Lists(u, {}) /\ UNCHANGED raced
    BY <1>0, <1>1, <1>2, <1>6, <2>1
  <2>2. CASE sync[u].state = "listed" /\ \E s \in sync[u].todo : Shows(u, s, 0)
    BY <1>1, <1>3, <2>2
  <2>3. QED
    BY <1>6, <2>1, <2>2 DEF SyncFails
<1>7. QED
  BY <1>4, <1>5, <1>6 DEF Syncs

-----------------------------------------------------------------------------
\* A read mark is set at a number the client knows.
LEMMA MarksMoves ==
    ASSUME TypeInv, NEW u \in Users, NEW s \in Sessions, NEW n \in Known(u, s), Marks(u, s, n)
    PROVE  /\ n \in Nat
           /\ readMark' \in [Users -> [Sessions -> Nat]]
           /\ n <= readMark'[u][s]
           /\ \A v \in Users, q \in Sessions : readMark[v][q] <= readMark'[v][q]
<1>0. readMark \in [Users -> [Sessions -> Nat]]
  BY DEF TypeInv, TypeOK
<1>2. n \in Nat
  <2>1. seen \in [Users -> [Sessions -> Nat]] /\ pushed \subseteq Users \X (Packs \cup Commands) \X Nat
    BY DEF TypeInv, TypeOK
  <2>2. QED
    BY <2>1 DEF Known
<1>3. readMark[u][s] \in Nat
  BY <1>0
<1>4. Max({readMark[u][s], n}) \in Nat /\ n <= Max({readMark[u][s], n})
      /\ readMark[u][s] <= Max({readMark[u][s], n})
  BY <1>2, <1>3, MaxOfTwo, Zenon
<1>5. readMark' = [readMark EXCEPT ![u][s] = Max({readMark[u][s], n})]
  BY DEF Marks
<1> DEFINE top == Max({readMark[u][s], n})
<1>6. top \in Nat /\ n <= top /\ readMark[u][s] <= top /\ readMark' = [readMark EXCEPT ![u][s] = top]
  BY <1>4, <1>5
<1> HIDE DEF top
<1>7. \A v \in Users, q \in Sessions :
         readMark'[v][q] = IF v = u /\ q = s THEN top ELSE readMark[v][q]
  BY <1>0, <1>6
<1>8. readMark' \in [Users -> [Sessions -> Nat]]
  BY <1>0, <1>6
<1>9. QED
  BY <1>0, <1>2, <1>6, <1>7, <1>8

\* Marking as read zeroes what the number covers.
LEMMA MarkReadMoves ==
    ASSUME TypeInv, NEW u \in Users, NEW s \in Sessions, MarkRead(u, s)
    PROVE  \E n \in Nat :
              /\ n # 0
              /\ n \in Known(u, s)
              /\ readMark' \in [Users -> [Sessions -> Nat]]
              /\ unread' \in [Packs -> Nat]
              /\ n <= readMark'[u][s]
              /\ \A v \in Users, q \in Sessions : readMark[v][q] <= readMark'[v][q]
              /\ \A p \in Packs : \/ unread'[p] = unread[p]
                                  \/ /\ ToOf[p] = u /\ SessionOf[p] = s
                                     /\ unread[p] <= n /\ unread'[p] = 0
<1>0. unread \in [Packs -> Nat]
  BY DEF TypeInv, TypeOK
<1>1. PICK n \in Known(u, s) \ {0} : Marks(u, s, n) /\ ReadUpTo(u, s, n)
  BY DEF MarkRead
<1>2. /\ n \in Nat
      /\ readMark' \in [Users -> [Sessions -> Nat]]
      /\ n <= readMark'[u][s]
      /\ \A v \in Users, q \in Sessions : readMark[v][q] <= readMark'[v][q]
  BY <1>1, MarksMoves
<1>3. unread' \in [Packs -> Nat]
      /\ \A p \in Packs : \/ unread'[p] = unread[p]
                          \/ /\ ToOf[p] = u /\ SessionOf[p] = s
                             /\ unread[p] <= n /\ unread'[p] = 0
  BY <1>0, <1>1 DEF ReadUpTo
<1>4. QED
  BY <1>1, <1>2, <1>3

\* Failing to, it still is the client that has marked it.
LEMMA ReadFailsMoves ==
    ASSUME TypeInv, NEW u \in Users, NEW s \in Sessions, ReadFails(u, s)
    PROVE  /\ readMark' \in [Users -> [Sessions -> Nat]]
           /\ \A v \in Users, q \in Sessions : readMark[v][q] <= readMark'[v][q]
           /\ reading' \subseteq Users \X Sessions
           /\ UNCHANGED <<clock, request, saves, redis, clients, raced>>
<1>0. readMark \in [Users -> [Sessions -> Nat]] /\ reading \subseteq Users \X Sessions
  BY DEF TypeInv, TypeOK
<1>1. UNCHANGED <<clock, request, saves, redis, clients, raced>>
  BY DEF ReadFails
<1>2. CASE \E n \in Known(u, s) \ {0} : Marks(u, s, n)
  <2>1. PICK n \in Known(u, s) : Marks(u, s, n)
    BY <1>2
  <2>2. reading' = reading \cup {<<u, s>>}
    BY <2>1 DEF Marks
  <2>3. QED
    BY <1>0, <1>1, <2>1, <2>2, MarksMoves
<1>3. CASE reading' = reading \ {<<u, s>>} /\ UNCHANGED readMark
  BY <1>0, <1>1, <1>3
<1>4. QED
  BY <1>2, <1>3 DEF ReadFails

\* A page of priority messages, and the state of the client after it.
LEMMA PullPriorityType ==
    ASSUME TypeInv, NEW u \in Users, PullPriority(u)
    PROVE  /\ prior' \in [Users -> PriorType]
           /\ \A v \in Users : prior'[v].latest <= clock
           /\ \A v \in Users \ {u} : prior'[v] = prior[v]
           /\ prior[u].got \subseteq prior'[u].got
           /\ prior'[u].state \in {"asked", "done"}
           \* what is not in the page is below it
           /\ (\A x, y \in high[u] : x[2] = y[2] => x = y) =>
                 \A x \in UpTo(u, prior[u].from) :
                    \/ x \in prior'[u].got
                    \/ prior'[u].state = "asked" /\ x[2] <= prior'[u].from
<1> DEFINE all == UpTo(u, prior[u].from)
<1>0. PICK page \in SUBSET all :
         /\ IsPage(page, all)
         /\ LET numbers == {x[2] : x \in page}
                last == Cardinality(page) < PullCount \/ Min(numbers) = 1
            IN  prior' = [prior EXCEPT ![u] =
                   [state |-> IF last THEN "done" ELSE "asked",
                    from |-> IF last THEN 0 ELSE Min(numbers) - 1,
                    latest |-> Max({@.latest} \cup numbers),
                    got |-> @.got \cup page]]
  BY DEF PullPriority
<1> DEFINE numbers == {x[2] : x \in page}
           last == Cardinality(page) < PullCount \/ Min(numbers) = 1
           latest == Max({prior[u].latest} \cup numbers)
<1>1. /\ prior \in [Users -> PriorType]
      /\ high \in [Users -> SUBSET ((Packs \cup Commands) \X Nat)]
      /\ clock \in Nat
  BY DEF TypeInv, TypeOK, PriorType
<1>2. page \subseteq high[u] /\ all \subseteq high[u]
  BY DEF UpTo
<1>3. numbers \subseteq 1 .. clock /\ \A x \in all : x[2] \in 1 .. clock
  BY <1>2 DEF TypeInv, PriorityOK
<1>4. latest \in Nat /\ latest <= clock
  <2>1. prior[u].latest \in Nat /\ prior[u].latest <= clock
    BY <1>1 DEF TypeInv, PriorityOK, PriorType
  <2>2. {prior[u].latest} \cup numbers \in SUBSET Nat
        /\ \A n \in {prior[u].latest} \cup numbers : n <= clock
    BY <1>1, <1>3, <2>1
  <2>3. latest \in {prior[u].latest} \cup numbers
    BY <1>1, <2>2, MaxOfSet
  <2>4. QED
    BY <2>2, <2>3
<1>5. page # {} => /\ Min(numbers) \in numbers /\ \A n \in numbers : Min(numbers) <= n
                   /\ Min(numbers) \in Nat /\ Min(numbers) - 1 \in Nat
  <2>1. SUFFICES ASSUME page # {}
                 PROVE  /\ Min(numbers) \in numbers /\ \A n \in numbers : Min(numbers) <= n
                        /\ Min(numbers) \in Nat /\ Min(numbers) - 1 \in Nat
    OBVIOUS
  <2>2. numbers # {} /\ numbers \in SUBSET Nat
    BY <1>1, <1>3, <2>1
  <2>3. Min(numbers) \in numbers /\ \A n \in numbers : Min(numbers) <= n
    BY <2>2, MinOfSet
  <2>4. QED
    BY <1>1, <1>3, <2>3
<1>6. ~ last => page # {}
  <2>1. Cardinality({}) = 0 /\ PullCount \in Nat \ {0}
    BY FS_EmptySet, ChatAssumption
  <2>2. QED
    BY <2>1
<1>7. prior' = [prior EXCEPT ![u] =
                  [state |-> IF last THEN "done" ELSE "asked",
                   from |-> IF last THEN 0 ELSE Min(numbers) - 1,
                   latest |-> latest,
                   got |-> prior[u].got \cup page]]
  BY <1>0
<1>8. prior[u].got \cup page \in SUBSET ((Packs \cup Commands) \X Nat)
  BY <1>1, <1>2 DEF PriorType
<1>9. page # all => page # {} /\ ~ Cardinality(page) < PullCount
  <2>1. Cardinality({}) = 0 /\ PullCount \in Nat \ {0}
    BY FS_EmptySet, ChatAssumption
  <2>2. QED
    BY <1>0, <2>1 DEF IsPage
<1>10. ASSUME \A x, y \in high[u] : x[2] = y[2] => x = y,
              NEW x \in all, x \notin page
       PROVE  ~ last /\ x[2] <= Min(numbers) - 1
  <2>1. page # {} /\ ~ Cardinality(page) < PullCount
    BY <1>9, <1>10
  <2>2. Min(numbers) \in numbers /\ Min(numbers) - 1 \in Nat /\ Min(numbers) \in Nat
    BY <1>5, <2>1
  <2>3. PICK z \in page : z[2] = Min(numbers)
    BY <2>2
  <2>4. x[2] <= z[2] /\ x[2] # z[2]
    BY <1>0, <1>2, <1>10 DEF IsPage
  <2>5. x[2] \in Nat /\ x[2] # 0
    BY <1>1, <1>3
  <2>6. QED
    BY <2>1, <2>2, <2>3, <2>4, <2>5
<1> HIDE DEF numbers, last, latest, all
<1>11. [state |-> IF last THEN "done" ELSE "asked",
        from |-> IF last THEN 0 ELSE Min(numbers) - 1,
        latest |-> latest, got |-> prior[u].got \cup page]
          \in PriorType
  BY <1>4, <1>5, <1>6, <1>8 DEF PriorType
<1>12. \A v \in Users : prior[v].latest <= clock
  BY DEF TypeInv, PriorityOK
<1>13. prior'[u] = [state |-> IF last THEN "done" ELSE "asked",
                    from |-> IF last THEN 0 ELSE Min(numbers) - 1,
                    latest |-> latest, got |-> prior[u].got \cup page]
  BY <1>1, <1>7
<1>14. (\A x, y \in high[u] : x[2] = y[2] => x = y) =>
          \A x \in all : \/ x \in prior'[u].got
                         \/ prior'[u].state = "asked" /\ x[2] <= prior'[u].from
  BY <1>10, <1>13
<1>15. prior' \in [Users -> PriorType] /\ \A v \in Users : prior'[v].latest <= clock
  BY <1>1, <1>4, <1>7, <1>11, <1>12, <1>13
<1>16. QED
  BY <1>1, <1>7, <1>13, <1>14, <1>15 DEF all

LEMMA PriorMoves ==
    ASSUME TypeInv, NEW u \in Users, NEW state \in {"none", "asked", "done"}, NEW from \in Nat,
           prior' = [prior EXCEPT ![u].state = state, ![u].from = from],
           high' = high, clock' = clock
    PROVE  /\ prior' \in [Users -> PriorType]
           /\ prior'[u].got = prior[u].got
           /\ PriorityOK'
<1>1. prior \in [Users -> PriorType]
  BY DEF TypeInv, TypeOK, PriorType
<1>2. prior'[u] = [[prior[u] EXCEPT !.state = state] EXCEPT !.from = from]
  BY <1>1
<1>3. [prior[u] EXCEPT !.state = state]
         = [state |-> state, from |-> prior[u].from, latest |-> prior[u].latest, got |-> prior[u].got]
  BY <1>1 DEF PriorType
<1>4. prior'[u] = [state |-> state, from |-> from, latest |-> prior[u].latest, got |-> prior[u].got]
  BY <1>2, <1>3, ZenonT(60)
<1>5. prior'[u] \in PriorType
  BY <1>1, <1>4 DEF PriorType
<1>6. prior' = [prior EXCEPT ![u] = prior'[u]]
  BY <1>1
<1>7. PriorityOK'
  BY <1>1, <1>4, <1>6 DEF PriorityOK, TypeInv
<1>8. QED
  BY <1>1, <1>4, <1>5, <1>6, <1>7

LEMMA ClientType ==
    ASSUME TypeInv, ClientStep
    PROVE  TypeInv'
<1> USE ChatAssumption DEF TypeInv
<1>0. /\ DOMAIN sync = Users
      /\ \A v \in Users : sync[v] \in {NoSync, [state |-> "asked"]} \/ IsListing(sync[v])
      /\ cursor \in [Users -> Nat] /\ clock \in Nat
      /\ seen \in [Users -> [Sessions -> Nat]]
      /\ hot \in [Users -> [Sessions -> Nat]]
      /\ used \in UsedType
      /\ prior \in [Users -> PriorType]
  BY DEF TypeOK, UsedType, PriorType
<1>1. /\ [used EXCEPT !.connects = @ + 1] \in UsedType
      /\ [used EXCEPT !.reads = @ + 1] \in UsedType
      /\ [used EXCEPT !.pulls = @ + 1] \in UsedType
  <2>1. used \in UsedType
    BY <1>0
  <2>2. [used EXCEPT !.connects = @ + 1] \in UsedType
    BY <2>1 DEF UsedType
  <2>3. [used EXCEPT !.reads = @ + 1] \in UsedType
    BY <2>1 DEF UsedType
  <2>4. [used EXCEPT !.pulls = @ + 1] \in UsedType
    BY <2>1 DEF UsedType
  <2>5. QED
    BY <2>2, <2>3, <2>4
<1>2. ASSUME NEW u \in Users, Connect(u) PROVE TypeInv'
  <2>1. used' \in UsedType
    BY <1>1, <1>2 DEF Connect
  <2>2. /\ prior' \in [Users -> PriorType]
        /\ PriorityOK'
    BY <1>2, PriorMoves DEF Connect, redis
  <2>3. DOMAIN sync' = Users
        /\ \A v \in Users : sync'[v] \in {NoSync, [state |-> "asked"]} \/ IsListing(sync'[v])
    BY <1>0, <1>2 DEF Connect
  <2>4. QED
    BY <1>2, <2>1, <2>2, <2>3 DEF Connect, TypeOK, UsedType, PriorType, RequestsOK, StoredOK, Num, redis
<1>3. ASSUME NEW u \in Users, Drop(u) PROVE TypeInv'
  <2>1. /\ prior' \in [Users -> PriorType]
        /\ PriorityOK'
    BY <1>3, PriorMoves DEF Drop, redis
  <2>2. DOMAIN sync' = Users
        /\ \A v \in Users : sync'[v] \in {NoSync, [state |-> "asked"]} \/ IsListing(sync'[v])
    BY <1>0, <1>3 DEF Drop
  <2>3. QED
    BY <1>3, <2>1, <2>2 DEF Drop, TypeOK, UsedType, PriorType, RequestsOK, StoredOK, Num, redis
<1>4. ASSUME NEW u \in Users, Syncs(u) PROVE TypeInv'
  <2>1. DOMAIN sync' = Users
    BY <1>4, SyncMoves
  <2>2. used' \in UsedType
    BY <1>0, <1>4, FailsType DEF Syncs, SyncList, SyncItem, SyncFails
  <2>3. /\ \A v \in Users : sync'[v] \in {NoSync, [state |-> "asked"]} \/ IsListing(sync'[v])
        /\ raced' \subseteq Users
    <3>1. ASSUME NEW todo \in SUBSET (Sessions \X Nat), MakesList(u, todo)
          PROVE  IsListing(sync'[u]) /\ raced' \subseteq Users /\ \A v \in Users \ {u} : sync'[v] = sync[v]
      BY <1>0, <3>1 DEF MakesList, Lists, IsListing, TypeOK
    <3>2. ASSUME ReadsItem(u)
          PROVE  IsListing(sync'[u]) /\ raced' \subseteq Users /\ \A v \in Users \ {u} : sync'[v] = sync[v]
      BY <3>2 DEF ReadsItem, ItemRead, TypeOK
    <3>3. QED
      BY <1>0, <1>4, <3>1, <3>2, SyncMoves
  <2>4. UNCHANGED <<clock, request, saves, redis, online, cursor, seen, pushed, prior, reading, readMark>>
    BY <1>4, SyncMoves
  <2>5. QED
    BY <2>1, <2>2, <2>3, <2>4 DEF TypeOK, UsedType, RequestsOK, StoredOK, PriorityOK, Num, redis
<1>6. ASSUME NEW u \in Users, SyncAnswer(u) PROVE TypeInv'
  <2>0. sync[u] \in {NoSync, [state |-> "asked"]} \/ IsListing(sync[u])
    BY <1>0
  <2>1. IsListing(sync[u])
    BY <1>6, <2>0 DEF SyncAnswer, NoSync
  <2>2. sync[u].stamp \in Nat /\ \A s \in DOMAIN sync[u].last : sync[u].last[s] \in Nat
    BY <2>1 DEF IsListing
  <2>3. cursor' \in [Users -> Nat]
    BY <1>0, <1>6, <2>2 DEF SyncAnswer
  <2>4. \A s \in DOMAIN sync[u].last \cap Sessions : Max({seen[u][s], sync[u].last[s]}) \in Nat
    <3>1. \A s \in DOMAIN sync[u].last \cap Sessions : seen[u][s] \in Nat /\ sync[u].last[s] \in Nat
      BY <1>0, <2>2
    <3>2. QED
      BY <3>1, MaxOfTwo, Zenon
  <2>5. seen' \in [Users -> [Sessions -> Nat]]
    BY <1>0, <1>6, <2>4 DEF SyncAnswer
  <2>6. DOMAIN sync' = Users
        /\ \A v \in Users : sync'[v] \in {NoSync, [state |-> "asked"]} \/ IsListing(sync'[v])
    BY <1>0, <1>6 DEF SyncAnswer
  <2>7. QED
    BY <1>6, <2>3, <2>5, <2>6 DEF SyncAnswer, TypeOK, RequestsOK, StoredOK, PriorityOK, Num, redis
<1>7. ASSUME NEW u \in Users, AskPriority(u) PROVE TypeInv'
  <2>1. used' \in UsedType
    BY <1>1, <1>7 DEF AskPriority
  <2>2. prior[u].latest \in Nat
    BY <1>0 DEF PriorType
  <2>7. prior' \in [Users -> PriorType] /\ PriorityOK'
    BY <1>7, <2>2, PriorMoves DEF AskPriority, redis
  <2>8. QED
    BY <1>7, <2>1, <2>7 DEF AskPriority, TypeOK, UsedType, PriorType, RequestsOK, StoredOK, Num, redis
<1>8. ASSUME NEW u \in Users, PullPriority(u) PROVE TypeInv'
  <2>1. PriorityOK'
    BY <1>8, PullPriorityType DEF PullPriority, PriorityOK, redis
  <2>2. QED
    BY <1>8, <2>1, PullPriorityType DEF PullPriority, TypeOK, UsedType, PriorType, RequestsOK, StoredOK, Num, redis
<1>5. ASSUME NEW u \in Users, PullFails(u) PROVE TypeInv'
  <2>1. prior' \in [Users -> PriorType] /\ PriorityOK'
    BY <1>5, PriorMoves DEF PullFails, redis
  <2>2. used' \in UsedType
    BY <1>5, FailsType DEF PullFails
  <2>3. QED
    BY <1>5, <2>1, <2>2 DEF PullFails, TypeOK, UsedType, PriorType, RequestsOK, StoredOK, Num, redis
<1>9. ASSUME NEW u \in Users, NEW s \in Sessions, MarkRead(u, s) PROVE TypeInv'
  <2>1. used' \in UsedType
    BY <1>1, <1>9 DEF MarkRead
  <2>2. readMark' \in [Users -> [Sessions -> Nat]] /\ unread' \in [Packs -> Nat]
    BY <1>9, MarkReadMoves
  <2>3. reading' \subseteq Users \X Sessions
    BY <1>9 DEF MarkRead, Marks, TypeOK
  <2>4. QED
    BY <1>9, <2>1, <2>2, <2>3 DEF MarkRead, TypeOK, UsedType, PriorType, RequestsOK, StoredOK, PriorityOK, Num, clients
<1>10. ASSUME NEW u \in Users, NEW s \in Sessions, TouchSession(u, s) PROVE TypeInv'
  <2>1. PICK n \in GenSeqId : Passes(n) /\ hot' = [hot EXCEPT ![u][s] = n]
    BY <1>10 DEF TouchSession
  <2>2. n \in Nat /\ clock' \in Nat /\ clock <= clock'
    BY <1>0, <2>1, ClockPasses
  <2>3. hot' \in [Users -> [Sessions -> Nat]]
    BY <1>0, <2>1, <2>2
  <2>4. RequestsOK'
    <3>1. request' = request /\ \A r \in Requests : request[r].n \in Nat
      BY <1>10 DEF TouchSession, TypeOK
    <3>2. QED
      BY <1>0, <2>2, <3>1 DEF RequestsOK, Num
  <2>5. StoredOK'
    <3>1. saves' = saves /\ store' = store /\ saves \subseteq Entries /\ store \in [Sessions -> SUBSET Entries]
      BY <1>10 DEF TouchSession, TypeOK
    <3>2. QED
      BY <1>0, <2>2, <3>1 DEF StoredOK, Entries
  <2>6. PriorityOK'
    <3>1. high' = high /\ prior' = prior
      BY <1>10 DEF TouchSession, clients
    <3>2. \A v \in Users : prior[v].latest \in Nat
      BY <1>0 DEF PriorType
    <3>3. \A v \in Users : \A x \in high[v] : x[2] \in 1 .. clock'
      BY <1>0, <2>2 DEF PriorityOK
    <3>4. QED
      BY <1>0, <2>2, <3>1, <3>2, <3>3 DEF PriorityOK
  <2>7. QED
    BY <1>10, <2>2, <2>3, <2>4, <2>5, <2>6 DEF TouchSession, TypeOK, clients
<1>11. ASSUME NEW u \in Users, NEW s \in Sessions, ReadFails(u, s) PROVE TypeInv'
  <2>1. used' \in UsedType
    BY <1>11, FailsType DEF ReadFails
  <2>2. /\ readMark' \in [Users -> [Sessions -> Nat]] /\ reading' \subseteq Users \X Sessions
        /\ UNCHANGED <<clock, request, saves, redis, clients, raced>>
    BY <1>11, ReadFailsMoves
  <2>3. QED
    BY <2>1, <2>2 DEF TypeOK, UsedType, PriorType, RequestsOK, StoredOK, PriorityOK, Num, redis, clients
<1>12. QED
  BY <1>2, <1>3, <1>4, <1>5, <1>6, <1>7, <1>8, <1>9, <1>10, <1>11 DEF ClientStep, Syncs

LEMMA TypeStep ==
    ASSUME TypeInv, [Next]_vars
    PROVE  TypeInv'
<1>1. CASE UNCHANGED vars
  BY <1>1 DEF vars, redis, clients, TypeInv, TypeOK, RequestsOK, StoredOK, PriorityOK, Num
<1>2. QED
  BY <1>1, ServerType, ClientType DEF Next

\* Every variable keeps to its type, and no number in use is ahead of the clock.
THEOREM TypeAlways == Spec => []TypeInv
BY TypeInit, TypeStep, PTL DEF Spec

-----------------------------------------------------------------------------
(***************************************************************************)
(* What a step does to a request.                                          *)
(***************************************************************************)

Numbering(r) ==
    /\ Number(r)
    /\ Num(r) = 0 /\ Num(r)' # 0
    /\ request'[r].stage \in {"priority", "hot_to"}
Writing(r) ==
    /\ SavePriority(r) \/ HotTo(r) \/ HotFrom(r) \/ Unread(r) \/ Dispatch(r)
    /\ Num(r) # 0 /\ Num(r)' = Num(r)
    /\ request'[r].cut = request[r].cut
    /\ request'[r].stage = Following(r[1], request[r].stage)
Failing(r) ==
    /\ Num(r) # 0 /\ Num(r)' = Num(r)
    /\ \/ WriteFails(r) /\ request'[r].cut /\ request'[r].stage = Following(r[1], request[r].stage)
       \/ Dies(r) /\ request'[r].stage = "dead"

LEMMA RequestMoves ==
    ASSUME TypeInv, [Next]_vars, NEW r \in Requests
    PROVE  \/ request'[r] = request[r]
           \/ Num(r) = 0 /\ Num(r)' = 0 /\ request'[r].stage = "refused"
           \/ Numbering(r) \/ Writing(r) \/ Failing(r)
<1>0. /\ request \in [Requests -> [stage : Stages, n : Nat, cut : BOOLEAN]]
      /\ clock \in Nat
      /\ \A q \in Requests : Num(q) = 0 <=> request[q].stage \in {"new", "refused"}
  BY DEF TypeInv, TypeOK, RequestsOK
<1> DEFINE Moves(q) == \/ q # r /\ request'[r] = request[r]
                       \/ q = r /\ ( \/ Num(r) = 0 /\ Num(r)' = 0 /\ request'[r].stage = "refused"
                                     \/ Numbering(r) \/ Writing(r) \/ Failing(r) )
<1>1. ASSUME NEW q \in Requests, Refuse(q) PROVE Moves(q)
  BY <1>0, <1>1 DEF Refuse, MayStart, At, Num
<1>2. ASSUME NEW q \in Requests, Number(q) PROVE Moves(q)
  <2>1. PICK n \in GenSeqId :
           /\ Passes(n)
           /\ request' = [request EXCEPT ![q].stage = Following(q[1], "new"), ![q].n = n]
    BY <1>2 DEF Number
  <2>2. n \in Nat /\ n # 0
    BY <1>0, <2>1, ClockPasses
  <2>3. Following(q[1], "new") \in {"priority", "hot_to"}
    BY DEF Following
  <2>4. Following(q[1], "new") \in Stages
    BY <2>3 DEF Stages
  <2>5. /\ request'[q] = [stage |-> Following(q[1], "new"), n |-> n, cut |-> request[q].cut]
        /\ \A s \in Requests \ {q} : request'[s] = request[s]
    BY <1>0, <2>1, <2>2, <2>4, NumberMoves, ZenonT(60)
  <2>6. request[q].stage = "new"
    BY <1>2 DEF Number, MayStart, At
  <2>7. QED
    BY <1>0, <1>2, <2>2, <2>3, <2>5, <2>6 DEF Numbering, Num
<1>3. ASSUME NEW q \in Requests,
             SavePriority(q) \/ HotTo(q) \/ HotFrom(q) \/ Unread(q) \/ Dispatch(q)
      PROVE  Moves(q)
  <2>1. /\ request' = [request EXCEPT ![q].stage = Following(q[1], @)]
        /\ request[q].stage \in {"priority", "hot_to", "hot_from", "unread", "dispatch"}
    BY <1>3 DEF SavePriority, HotTo, HotFrom, Unread, Dispatch, Proceeds, At
  <2>2. request' = [request EXCEPT ![q].stage = Following(q[1], request[q].stage)]
    BY <1>0, <2>1
  <2>3. /\ request'[q].stage = Following(q[1], request[q].stage)
        /\ request'[q].n = request[q].n
        /\ request'[q].cut = request[q].cut
        /\ \A s \in Requests \ {q} : request'[s] = request[s]
    BY <1>0, <2>2
  <2>4. Num(q) # 0
    BY <1>0, <2>1
  <2>5. QED
    BY <1>3, <2>3, <2>4 DEF Writing, Num
<1>4. ASSUME NEW q \in Requests, WriteFails(q) PROVE Moves(q)
  <2>1. /\ request' = [request EXCEPT ![q].stage = Following(q[1], @), ![q].cut = TRUE]
        /\ request[q].stage \in {"priority", "hot_to", "hot_from", "unread"}
    BY <1>4 DEF WriteFails
  <2>2. /\ request'[q] = [[request[q] EXCEPT !.stage = Following(q[1], request[q].stage)] EXCEPT !.cut = TRUE]
        /\ \A s \in Requests \ {q} : request'[s] = request[s]
    BY <1>0, <2>1
  <2>3. [request[q] EXCEPT !.stage = Following(q[1], request[q].stage)]
           = [stage |-> Following(q[1], request[q].stage), n |-> request[q].n, cut |-> request[q].cut]
    BY <1>0
  <2>4. /\ request'[q].stage = Following(q[1], request[q].stage)
        /\ request'[q].n = request[q].n
        /\ request'[q].cut
    BY <2>2, <2>3
  <2>5. Num(q) # 0
    BY <1>0, <2>1
  <2>6. QED
    BY <1>4, <2>2, <2>4, <2>5 DEF Failing, Num
<1>5. ASSUME NEW q \in Requests, Dies(q) PROVE Moves(q)
  <2>1. /\ request' = [request EXCEPT ![q].stage = "dead"]
        /\ request[q].stage \notin {"new", "refused"}
    BY <1>5 DEF Dies
  <2>2. /\ request'[q].stage = "dead" /\ request'[q].n = request[q].n
        /\ \A s \in Requests \ {q} : request'[s] = request[s]
    BY <1>0, <2>1
  <2>3. QED
    BY <1>0, <1>5, <2>1, <2>2 DEF Failing, Num
<1>6. \/ request' = request
      \/ \E q \in Requests : \/ Refuse(q) \/ Number(q)
                             \/ SavePriority(q) \/ HotTo(q) \/ HotFrom(q) \/ Unread(q) \/ Dispatch(q)
                             \/ WriteFails(q) \/ Dies(q)
  <2>1. ASSUME NEW m \in saves, Save(m) \/ SaveFails(m) PROVE request' = request
    BY <2>1 DEF Save, SaveFails
  <2>2. CASE ClientStep
    BY <2>2 DEF ClientStep, Connect, Drop, SyncList, SyncItem, SyncFails, SyncAnswer, AskPriority, PullPriority, PullFails,
                MarkRead, TouchSession, ReadFails
  <2>3. CASE UNCHANGED vars
    BY <2>3 DEF vars
  <2>4. QED
    BY <2>1, <2>2, <2>3 DEF Next, ServerStep
<1>7. QED
  BY <1>1, <1>2, <1>3, <1>4, <1>5, <1>6

-----------------------------------------------------------------------------
(***************************************************************************)
(* The unread sets.                                                        *)
(***************************************************************************)

Sent(p) == {r \in Requests : r[1] = p /\ Num(r) # 0}

\* What is in an unread set has the number of an attempt; an attempt that came
\* through to its dispatch with no failure is counted, or some attempt of the
\* packet has been marked as read.
CountedOK(p) ==
    /\ unread[p] # 0 => \E r \in Sent(p) : Num(r) = unread[p]
    /\ \A r \in Sent(p) :
          request[r].stage \in {"dispatch", "done"} /\ ~ request[r].cut =>
              \/ unread[p] # 0
              \/ \E q \in Sent(p) : Num(q) <= readMark[ToOf[p]][SessionOf[p]]

UnreadInv == \A p \in Packs : CountedOK(p)

LEMMA SentKeeps ==
    ASSUME TypeInv, [Next]_vars, NEW r \in Requests, Num(r) # 0
    PROVE  Num(r)' = Num(r)
BY RequestMoves DEF Numbering, Writing, Failing, Num

LEMMA DispatchedByUnread ==
    ASSUME TypeInv, [Next]_vars, NEW r \in Requests,
           request'[r].stage \in {"dispatch", "done"}, ~ request'[r].cut
    PROVE  \/ request[r].stage \in {"dispatch", "done"} /\ ~ request[r].cut
           \/ Unread(r)
<1>1. CASE Writing(r)
  <2>1. request[r].stage \in {"unread", "dispatch"}
    BY <1>1 DEF Writing, SavePriority, HotTo, HotFrom, Unread, Dispatch, At, Following
  <2>2. QED
    BY <1>1, <2>1 DEF Writing, SavePriority, HotTo, HotFrom, Dispatch, At
<1>2. QED
  BY <1>1, RequestMoves DEF Numbering, Failing

LEMMA ReadMarkGrows ==
    ASSUME TypeInv, [Next]_vars
    PROVE  \A u \in Users, s \in Sessions :
              /\ readMark[u][s] \in Nat /\ readMark'[u][s] \in Nat
              /\ readMark[u][s] <= readMark'[u][s]
<1>0. readMark \in [Users -> [Sessions -> Nat]]
  BY DEF TypeInv, TypeOK
<1>1. ASSUME NEW u \in Users, NEW s \in Sessions, MarkRead(u, s) \/ ReadFails(u, s)
      PROVE  /\ readMark' \in [Users -> [Sessions -> Nat]]
             /\ \A v \in Users, q \in Sessions : readMark[v][q] <= readMark'[v][q]
  BY <1>1, MarkReadMoves, ReadFailsMoves
<1>2. \/ readMark' = readMark
      \/ \E u \in Users : \E s \in Sessions : MarkRead(u, s) \/ ReadFails(u, s)
  BY DEF vars, Next, ServerStep, ClientStep, Refuse, Number, SavePriority, HotTo, HotFrom, Unread,
         WriteFails, Dies, Dispatch, Save, SaveFails, Connect, Drop, SyncList, SyncItem, SyncFails,
         SyncAnswer, AskPriority, PullPriority, PullFails, TouchSession
<1>3. QED
  BY <1>0, <1>1, <1>2

LEMMA UnreadMoves ==
    ASSUME TypeInv, [Next]_vars, NEW p \in Packs
    PROVE  \/ unread'[p] = unread[p]
           \/ \E r \in Sent(p) : unread'[p] = Num(r)
           \/ unread'[p] = 0 /\ unread[p] <= readMark'[ToOf[p]][SessionOf[p]]
<1>1. ASSUME NEW r \in Requests, Unread(r)
      PROVE  unread'[p] = unread[p] \/ (r \in Sent(p) /\ unread'[p] = Num(r))
  <2>1. unread' = [unread EXCEPT ![r[1]] = Num(r)] /\ request[r].stage = "unread"
    BY <1>1 DEF Unread, At
  <2>2. Num(r) # 0 /\ unread \in [Packs -> Nat]
    BY <2>1 DEF TypeInv, TypeOK, RequestsOK
  <2>3. QED
    BY <2>1, <2>2 DEF Sent
<1>2. ASSUME NEW u \in Users, NEW s \in Sessions, MarkRead(u, s)
      PROVE  \/ unread'[p] = unread[p]
             \/ unread'[p] = 0 /\ unread[p] <= readMark'[ToOf[p]][SessionOf[p]]
  <2>1. PICK n \in Nat :
              /\ n # 0
              /\ n \in Known(u, s)
              /\ readMark' \in [Users -> [Sessions -> Nat]]
              /\ unread' \in [Packs -> Nat]
              /\ n <= readMark'[u][s]
              /\ \A v \in Users, q \in Sessions : readMark[v][q] <= readMark'[v][q]
              /\ \A x \in Packs : \/ unread'[x] = unread[x]
                                  \/ /\ ToOf[x] = u /\ SessionOf[x] = s
                                     /\ unread[x] <= n /\ unread'[x] = 0
    BY <1>2, MarkReadMoves
  <2>2. unread[p] \in Nat /\ readMark'[u][s] \in Nat
    BY <2>1 DEF TypeInv, TypeOK
  <2>3. QED
    BY <2>1, <2>2
<1>3. \/ unread' = unread
      \/ \E r \in Requests : Unread(r)
      \/ \E u \in Users : \E s \in Sessions : MarkRead(u, s)
  BY DEF vars, redis, Next, ServerStep, ClientStep, Refuse, Number, SavePriority, HotTo, HotFrom,
         WriteFails, Dies, Dispatch, Save, SaveFails, Connect, Drop, SyncList, SyncItem, SyncFails,
         SyncAnswer, AskPriority, PullPriority, PullFails, TouchSession, ReadFails
<1>4. QED
  BY <1>1, <1>2, <1>3

LEMMA UnreadStep ==
    ASSUME TypeInv, TypeInv', UnreadInv, [Next]_vars
    PROVE  UnreadInv'
<1> SUFFICES ASSUME NEW p \in Packs PROVE CountedOK(p)'
  BY DEF UnreadInv
<1>1. CountedOK(p)
  BY DEF UnreadInv
<1>2. \A r \in Sent(p) : r \in Sent(p)' /\ Num(r)' = Num(r)
  BY SentKeeps DEF Sent
<1> DEFINE mark == readMark[ToOf[p]][SessionOf[p]]
<1>3. mark \in Nat /\ mark' \in Nat /\ mark <= mark'
  BY ReadMarkGrows, ChatAssumption
<1>4. (\E q \in Sent(p) : Num(q) <= mark) => (\E q \in Sent(p)' : Num(q)' <= mark')
  <2>1. \A q \in Requests : Num(q) \in Nat
    BY DEF TypeInv, TypeOK, Num
  <2>2. QED
    BY <1>2, <1>3, <2>1 DEF Sent
<1>5. unread'[p] # 0 => \E r \in Sent(p)' : Num(r)' = unread'[p]
  BY <1>1, <1>2, UnreadMoves DEF CountedOK
<1>6. ASSUME NEW r \in Sent(p)', request'[r].stage \in {"dispatch", "done"}, ~ request'[r].cut
      PROVE  unread'[p] # 0 \/ \E q \in Sent(p)' : Num(q)' <= mark'
  <2>0. r \in Requests /\ r[1] = p
    BY DEF Sent
  <2>1. CASE Unread(r)
    <3>1. unread' = [unread EXCEPT ![r[1]] = Num(r)] /\ request[r].stage = "unread"
      BY <2>1 DEF Unread, At
    <3>2. Num(r) # 0 /\ unread \in [Packs -> Nat]
      BY <2>0, <3>1 DEF TypeInv, TypeOK, RequestsOK
    <3>3. QED
      BY <2>0, <3>1, <3>2
  <2>2. CASE request[r].stage \in {"dispatch", "done"} /\ ~ request[r].cut
    <3>1. r \in Sent(p)
      BY <2>0, <2>2 DEF Sent, TypeInv, RequestsOK
    <3>2. unread[p] # 0 \/ \E q \in Sent(p) : Num(q) <= mark
      BY <1>1, <2>2, <3>1 DEF CountedOK
    <3>3. CASE unread[p] # 0 /\ unread'[p] = 0 /\ unread[p] <= mark'
      BY <1>1, <1>2, <3>3 DEF CountedOK
    <3>4. CASE \E q \in Sent(p) : unread'[p] = Num(q)
      BY <3>4 DEF Sent
    <3>5. QED
      BY <1>4, <3>2, <3>3, <3>4, UnreadMoves
  <2>3. QED
    BY <1>6, <2>0, <2>1, <2>2, DispatchedByUnread
<1>7. QED
  BY <1>5, <1>6 DEF CountedOK

\* The unread set loses no message: an acknowledged one, numbered above all its
\* recipient has marked as read, is counted, however its attempts, other
\* messages and read marks interleave.
THEOREM UnreadCountedAlways == Spec => []UnreadCounted
<1>1. Init => UnreadInv
  BY DEF Init, UnreadInv, CountedOK, Sent, Num, Requests
<1>2. TypeInv /\ UnreadInv => UnreadCounted
  <2>1. SUFFICES ASSUME TypeInv, UnreadInv, NEW p \in Packs,
                        NEW r \in Requests, r[1] = p, At(r, "done"), ~ request[r].cut,
                        \A q \in Requests : q[1] = p /\ Num(q) # 0 =>
                            Num(q) > readMark[ToOf[p]][SessionOf[p]]
                 PROVE  unread[p] # 0
    BY DEF UnreadCounted
  <2>2. r \in Sent(p)
    BY <2>1 DEF Sent, TypeInv, RequestsOK, At
  <2>3. readMark[ToOf[p]][SessionOf[p]] \in Nat /\ \A q \in Requests : Num(q) \in Nat
    BY ChatAssumption, <2>1 DEF TypeInv, TypeOK, Num
  <2>4. QED
    BY <2>1, <2>2, <2>3 DEF UnreadInv, CountedOK, Sent, At
<1>3. QED
  BY <1>1, <1>2, TypeAlways, TypeStep, UnreadStep, PTL DEF Spec

-----------------------------------------------------------------------------
(***************************************************************************)
(* No message is missed: the invariants behind it.  They hold where clocks *)
(* agree and sessions are owned by the same users.                         *)
(***************************************************************************)

\* A number is given out once; a hot session moves to a number of its own.
NumberInv ==
    /\ \A q, r \in Requests : Num(q) = Num(r) /\ Num(r) # 0 => q = r
    /\ \A u \in Users, s \in Sessions : hot[u][s] <= clock
    /\ \A u \in Users, s \in Sessions, q \in Requests :
          hot[u][s] = Num(q) /\ Num(q) # 0 => s = Session(q)
    /\ \A r \in Requests : At(r, "hot_from") => KindOf[r[1]] # "biz"

\* What is stored, or on its way there, is a message as it was numbered.
OriginInv ==
    /\ \A s \in Sessions : \A m \in store[s] :
          \E r \in Requests : m = Entry(r, Num(r)) /\ Num(r) # 0 /\ Session(r) = s
    /\ \A m \in saves : \E r \in Requests : m = Entry(r, Num(r)) /\ Num(r) # 0

Listed(u) == sync[u].state = "listed"
Left(u, s) == \E x \in sync[u].todo : x[1] = s
Shown(u, s, n) == s \in DOMAIN sync[u].last /\ n <= sync[u].last[s]

\* A user has to do with a session only if it concerns him.
Concerns(u, s) == \E p \in Packs : SessionOf[p] = s /\ u \in Concerned(p)
Held(u, s) ==
    \/ hot[u][s] # 0
    \/ seen[u][s] # 0
    \/ <<u, s>> \in reading
    \/ \E x \in pushed : x[1] = u /\ x[2] \in Packs /\ SessionOf[x[2]] = s
    \/ Listed(u) /\ (Left(u, s) \/ s \in DOMAIN sync[u].last)
BelongsInv == \A u \in Users, s \in Sessions : Held(u, s) => Concerns(u, s)

PresentInv == \A u \in Users : sync[u].state # "none" => u \in online

Concerning(u) == {r \in Requests : u \in Concerned(r[1])}

\* A message under way has the latest number of all that concern the user.
LatestOK(u) == \A q, r \in Concerning(u) : UnderWay(q) => Num(r) <= Num(q)

\* The cursor is the number of a message that the client was shown.
CursorOK(u) ==
    \/ cursor[u] = 0
    \/ \E q \in Concerning(u) : Num(q) = cursor[u] /\ Num(q) <= seen[u][Session(q)]
StampOK(u) ==
    Listed(u) =>
        \/ sync[u].stamp = 0
        \/ \E q \in Concerning(u) :
              /\ Num(q) = sync[u].stamp
              /\ Num(q) <= seen[u][Session(q)] \/ Shown(u, Session(q), Num(q))

\* A session on the list has not fallen behind what the list says of it.
TodoOK(u) ==
    Listed(u) => \A x \in sync[u].todo :
        /\ x[2] <= clock
        /\ x[1] \notin DOMAIN sync[u].last
        /\ \A y \in sync[u].todo : x[1] = y[1] => x = y
        /\ \A q \in Concerning(u) : Num(q) <= x[2] => Num(q) <= hot[u][x[1]]

\* The recipient's hot session is at the message, once written, or beyond it.
HotOK(u) ==
    \A r \in Requests :
        To(r) = u /\ ~ request[r].cut
            /\ request[r].stage \in {"hot_from", "unread", "dispatch", "done"} =>
        Num(r) <= hot[u][Session(r)]

\* Acknowledged messages: each the user has, or it waits in the synchronisation
\* that is being made, or for the next one.
Ours(u) ==
    {r \in Requests : KindOf[r[1]] # "group" /\ To(r) = u /\ ~ request[r].cut /\ At(r, "done")}
Stored(r) == Entry(r, Num(r)) \in store[Session(r)]
Has(u, r) == <<u, r[1], Num(r)>> \in pushed \/ Num(r) <= seen[u][Session(r)]
ListedOK(u) ==
    Listed(u) => \A r \in Ours(u) :
        /\ Stored(r) \/ Entry(r, Num(r)) \in saves =>
              \/ Has(u, r)
              \/ Session(r) \in DOMAIN sync[u].last
              \/ Left(u, Session(r))
              \/ sync[u].todo = {}
        /\ Stored(r) =>
              \/ Has(u, r)
              \/ Shown(u, Session(r), Num(r))
              \/ Left(u, Session(r))
              \/ hot[u][Session(r)] > sync[u].stamp
ToldOK(u) == \A r \in Ours(u) : Stored(r) => Told(u, r)

UserOK(u) ==
    u \notin raced =>
        /\ LatestOK(u) /\ CursorOK(u) /\ StampOK(u) /\ TodoOK(u)
        /\ HotOK(u) /\ ListedOK(u) /\ ToldOK(u)
UserInv == \A u \in Users : UserOK(u)

-----------------------------------------------------------------------------
LEMMA NumberTypes ==
    ASSUME TypeInv
    PROVE  /\ clock \in Nat
           /\ request \in [Requests -> [stage : Stages, n : Nat, cut : BOOLEAN]]
           /\ \A r \in Requests : /\ Num(r) \in Nat /\ Num(r) <= clock
                                  /\ r[1] \in Packs /\ Session(r) \in Sessions /\ To(r) \in Users
                                  /\ Num(r) = 0 <=> request[r].stage \in {"new", "refused"}
           /\ \A u \in Users : /\ cursor[u] \in Nat
                               /\ \A s \in Sessions : hot[u][s] \in Nat /\ seen[u][s] \in Nat
                               /\ sync[u] \in {NoSync, [state |-> "asked"]} \/ IsListing(sync[u])
<1>1. /\ clock \in Nat /\ request \in [Requests -> [stage : Stages, n : Nat, cut : BOOLEAN]]
      /\ cursor \in [Users -> Nat] /\ hot \in [Users -> [Sessions -> Nat]]
      /\ seen \in [Users -> [Sessions -> Nat]]
  BY DEF TypeInv, TypeOK
<1>2. \A r \in Requests : r[1] \in Packs /\ Session(r) \in Sessions /\ To(r) \in Users
  BY ChatAssumption DEF Requests, Session, To
<1>3. \A r \in Requests : /\ Num(r) \in Nat /\ Num(r) <= clock
                          /\ Num(r) = 0 <=> request[r].stage \in {"new", "refused"}
  BY <1>1 DEF TypeInv, RequestsOK, Num
<1>4. \A u \in Users : sync[u] \in {NoSync, [state |-> "asked"]} \/ IsListing(sync[u])
  BY DEF TypeInv, TypeOK
<1>5. QED
  BY <1>1, <1>2, <1>3, <1>4

LEMMA ListingType ==
    ASSUME TypeInv, NEW u \in Users, Listed(u)
    PROVE  /\ sync[u].stamp \in Nat
           /\ sync[u].todo \subseteq Sessions \X Nat
           /\ DOMAIN sync[u].last \subseteq Sessions
           /\ \A s \in DOMAIN sync[u].last : sync[u].last[s] \in Nat
<1>1. IsListing(sync[u])
  BY NumberTypes DEF Listed, NoSync
<1>2. QED
  BY <1>1 DEF IsListing

LEMMA FreshNumber ==
    ASSUME ClocksAgree, clock \in Nat, NEW n \in GenSeqId, Passes(n)
    PROVE  n \in Nat /\ clock' = n /\ clock < n
<1>1. n \in Nat /\ clock < n
  BY DEF GenSeqId, ClocksAgree
<1>2. Max({clock, n}) = n
  <2>1. Max({clock, n}) \in {clock, n} /\ n <= Max({clock, n})
    BY <1>1, MaxOfTwo, Zenon
  <2>2. QED
    BY <1>1, <2>1
<1>3. QED
  BY <1>1, <1>2 DEF Passes

\* A request that is numbered is the only one to move, and races with every
\* other that concerns one of its users.
LEMMA NumberingMoves ==
    ASSUME TypeInv, ClocksAgree, NEW r \in Requests, Number(r)
    PROVE  /\ Num(r)' = clock' /\ clock < clock'
           /\ \A q \in Requests \ {r} : request'[q] = request[q]
           /\ saves' = saves \cup {Entry(r, Num(r)')}
           /\ UNCHANGED <<redis, clients, reading>>
           /\ \A u \in Users, q \in Requests :
                 u \in Concerned(r[1]) /\ u \in Concerned(q[1]) /\ u \notin raced' => ~ UnderWay(q)
<1>1. PICK n \in GenSeqId :
         /\ Passes(n)
         /\ request' = [request EXCEPT ![r].stage = Following(r[1], "new"), ![r].n = n]
         /\ saves' = saves \cup {Entry(r, n)}
  BY DEF Number
<1>2. n \in Nat /\ clock' = n /\ clock < n
  BY <1>1, FreshNumber, NumberTypes
<1>3. Following(r[1], "new") \in Stages
  BY DEF Following, Stages
<1>4. /\ \A q \in Requests \ {r} : request'[q] = request[q]
      /\ request'[r] = [stage |-> Following(r[1], "new"), n |-> n, cut |-> request[r].cut]
  BY <1>1, <1>2, <1>3, NumberMoves, NumberTypes
<1>5. Num(r)' = n
  BY <1>4 DEF Num
<1>6. QED
  BY <1>1, <1>2, <1>4, <1>5 DEF Number

LEMMA NumMoves ==
    ASSUME TypeInv, [Next]_vars, NEW r \in Requests
    PROVE  \/ Num(r)' = Num(r)
           \/ Number(r) /\ Num(r) = 0
BY RequestMoves DEF Numbering, Writing, Failing, Num

LEMMA HotMoves ==
    ASSUME TypeInv, NumberInv, ClocksAgree, [Next]_vars, NEW u \in Users, NEW s \in Sessions
    PROVE  \/ hot'[u][s] = hot[u][s]
           \/ \E r \in Concerning(u) :
                 /\ Session(r) = s /\ UnderWay(r) /\ Num(r) # 0
                 /\ hot'[u][s] = Num(r)
                 /\ \A q \in Requests : Num(q)' = Num(q)
           \/ /\ <<u, s>> \in reading /\ request' = request
              /\ hot'[u][s] = clock' /\ clock < clock'
<1>0. hot \in [Users -> [Sessions -> Nat]]
  BY DEF TypeInv, TypeOK
<1>1. ASSUME NEW r \in Requests, HotTo(r) \/ HotFrom(r)
      PROVE  \/ hot'[u][s] = hot[u][s]
             \/ /\ r \in Concerning(u) /\ Session(r) = s /\ UnderWay(r) /\ Num(r) # 0
                /\ hot'[u][s] = Num(r)
                /\ \A q \in Requests : Num(q)' = Num(q)
  <2>1. /\ request[r].stage \in {"hot_to", "hot_from"}
        /\ request' = [request EXCEPT ![r].stage = Following(r[1], @)]
    BY <1>1 DEF HotTo, HotFrom, At, Proceeds
  <2>2. UnderWay(r) /\ Num(r) # 0
    BY <2>1, NumberTypes DEF UnderWay
  <2>3. \A q \in Requests : Num(q)' = Num(q)
    BY <2>1, NumberTypes DEF Num
  <2>4. CASE HotTo(r)
    <3>1. hot' = [hot EXCEPT ![To(r)][Session(r)] = Num(r)]
      BY <2>4 DEF HotTo
    <3>2. r \in Concerning(To(r))
      BY DEF Concerning, Concerned, To
    <3>3. QED
      BY <1>0, <2>2, <2>3, <3>1, <3>2
  <2>5. CASE HotFrom(r)
    <3>1. hot' = [hot EXCEPT ![FromOf[r[1]]][Session(r)] = Num(r)]
      BY <2>5 DEF HotFrom
    <3>2. KindOf[r[1]] # "biz"
      BY <2>5 DEF HotFrom, NumberInv
    <3>3. r \in Concerning(FromOf[r[1]])
      BY <3>2 DEF Concerning, Concerned
    <3>4. QED
      BY <1>0, <2>2, <2>3, <3>1, <3>3
  <2>6. QED
    BY <1>1, <2>4, <2>5
<1>2. ASSUME NEW v \in Users, NEW z \in Sessions, TouchSession(v, z)
      PROVE  \/ hot'[u][s] = hot[u][s]
             \/ /\ <<u, s>> \in reading /\ request' = request
                /\ hot'[u][s] = clock' /\ clock < clock'
  <2>1. PICK n \in GenSeqId : Passes(n) /\ hot' = [hot EXCEPT ![v][z] = n]
    BY <1>2 DEF TouchSession
  <2>2. clock' = n /\ clock < n
    BY <2>1, FreshNumber, NumberTypes
  <2>3. QED
    BY <1>0, <1>2, <2>1, <2>2 DEF TouchSession
<1>3. \/ hot' = hot
      \/ \E r \in Requests : HotTo(r) \/ HotFrom(r)
      \/ \E v \in Users : \E z \in Sessions : TouchSession(v, z)
  BY DEF vars, redis, Next, ServerStep, ClientStep, Refuse, Number, SavePriority, Unread,
         WriteFails, Dies, Dispatch, Save, SaveFails, Connect, Drop, SyncList, SyncItem, SyncFails,
         SyncAnswer, AskPriority, PullPriority, PullFails, MarkRead, ReadFails
<1>4. QED
  BY <1>1, <1>2, <1>3

LEMMA NumberStep ==
    ASSUME TypeInv, TypeInv', NumberInv, ClocksAgree, [Next]_vars
    PROVE  NumberInv'
<1>0. /\ clock \in Nat /\ clock' \in Nat
      /\ \A r \in Requests : Num(r) \in Nat /\ Num(r) <= clock /\ Num(r)' \in Nat /\ Num(r)' <= clock'
  BY NumberTypes DEF TypeInv, TypeOK, RequestsOK, Num
<1>1. clock <= clock'
  <2>1. ASSUME NEW n \in GenSeqId, Passes(n) PROVE clock <= clock'
    BY <1>0, <2>1, ClockPasses
  <2>2. \/ clock' = clock
        \/ \E n \in GenSeqId : Passes(n)
    BY ZenonT(60) DEF vars, Next, ServerStep, ClientStep, Refuse, Number, SavePriority, HotTo, HotFrom, Unread,
         WriteFails, Dies, Dispatch, Save, SaveFails, Connect, Drop, SyncList, SyncItem, SyncFails,
         SyncAnswer, AskPriority, PullPriority, PullFails, MarkRead, TouchSession, ReadFails
  <2>3. QED
    BY <1>0, <2>1, <2>2
<1>2. \A q, r \in Requests : Num(q)' = Num(r)' /\ Num(r)' # 0 => q = r
  <2>1. SUFFICES ASSUME NEW q \in Requests, NEW r \in Requests, Num(q)' = Num(r)', Num(r)' # 0, q # r
                 PROVE  FALSE
    OBVIOUS
  <2>2. ASSUME NEW a \in Requests, NEW b \in Requests, a # b, Num(a)' = Num(b)', Number(a)
        PROVE  FALSE
    <3>1. Num(b)' = Num(b) /\ Num(a)' = clock' /\ clock < clock'
      BY <2>2, NumberingMoves DEF Num
    <3>2. Num(b) <= clock /\ Num(b) \in Nat
      BY <1>0
    <3>3. clock \in Nat /\ Num(b) = clock'
      BY <1>0, <2>2, <3>1
    <3>4. QED
      BY <3>1, <3>2, <3>3
  <2>3. ~ Number(q) /\ ~ Number(r)
    BY <2>1, <2>2
  <2>4. Num(q)' = Num(q) /\ Num(r)' = Num(r)
    BY <2>3, NumMoves
  <2>5. QED
    BY <2>1, <2>4 DEF NumberInv
<1>3. \A u \in Users, s \in Sessions : hot'[u][s] <= clock'
  <2>0. SUFFICES ASSUME NEW u \in Users, NEW s \in Sessions PROVE hot'[u][s] <= clock'
    OBVIOUS
  <2>1. hot[u][s] \in Nat /\ hot[u][s] <= clock'
    <3>1. hot[u][s] \in Nat /\ hot[u][s] <= clock
      BY NumberTypes DEF NumberInv
    <3>2. QED
      BY <1>0, <1>1, <3>1
  <2>2. ASSUME NEW r \in Requests, hot'[u][s] = Num(r), Num(r)' = Num(r) PROVE hot'[u][s] <= clock'
    BY <1>0, <2>2
  <2>3. CASE hot'[u][s] = clock'
    BY <1>0, <2>3
  <2>4. \/ hot'[u][s] = hot[u][s]
        \/ \E r \in Requests : hot'[u][s] = Num(r) /\ Num(r)' = Num(r)
        \/ hot'[u][s] = clock'
    BY HotMoves DEF Concerning
  <2>5. QED
    BY <2>1, <2>2, <2>3, <2>4
<1>4. \A u \in Users, s \in Sessions, q \in Requests :
         hot'[u][s] = Num(q)' /\ Num(q)' # 0 => s = Session(q)
  <2>1. SUFFICES ASSUME NEW u \in Users, NEW s \in Sessions, NEW q \in Requests,
                        hot'[u][s] = Num(q)', Num(q)' # 0
                 PROVE  s = Session(q)
    OBVIOUS
  <2>2. CASE Number(q)
    <3>1. hot' = hot /\ Num(q)' = clock' /\ clock < clock'
      BY <2>2, NumberingMoves DEF redis
    <3>2. hot[u][s] \in Nat /\ hot[u][s] <= clock
      BY NumberTypes DEF NumberInv
    <3>3. QED
      BY <1>0, <2>1, <3>1, <3>2
  <2>3. CASE Num(q)' = Num(q)
    <3>1. CASE hot'[u][s] = hot[u][s]
      BY <2>1, <2>3, <3>1 DEF NumberInv
    <3>2. CASE \E r \in Concerning(u) : Session(r) = s /\ Num(r) # 0 /\ hot'[u][s] = Num(r)
      BY <2>1, <2>3, <3>2 DEF NumberInv, Concerning
    <3>3. CASE hot'[u][s] = clock' /\ clock < clock'
      BY <1>0, <2>1, <2>3, <3>3
    <3>4. QED
      BY <3>1, <3>2, <3>3, HotMoves
  <2>4. QED
    BY <2>2, <2>3, NumMoves
<1>5. \A r \in Requests : At(r, "hot_from")' => KindOf[r[1]] # "biz"
  <2>1. SUFFICES ASSUME NEW r \in Requests, request'[r].stage = "hot_from" PROVE KindOf[r[1]] # "biz"
    BY DEF At
  <2>2. CASE request'[r] = request[r]
    BY <2>1, <2>2 DEF NumberInv, At
  <2>3. CASE request'[r].stage = Following(r[1], request[r].stage)
    BY <2>1, <2>3 DEF Following
  <2>4. QED
    BY <2>1, <2>2, <2>3, RequestMoves DEF Numbering, Writing, Failing
<1>6. QED
  BY <1>2, <1>3, <1>4, <1>5 DEF NumberInv

LEMMA StoreMoves ==
    ASSUME TypeInv, OriginInv, [Next]_vars, NEW s \in Sessions
    PROVE  /\ store[s] \subseteq store'[s]
           /\ \A m \in store'[s] : m \in store[s] \/ (m \in saves /\ SessionOf[m.pack] = s)
<1>0. store \in [Sessions -> SUBSET Entries]
  BY DEF TypeInv, TypeOK
<1>1. ASSUME NEW m \in saves, Save(m)
      PROVE  /\ store[s] \subseteq store'[s]
             /\ \A e \in store'[s] : e \in store[s] \/ (e \in saves /\ SessionOf[e.pack] = s)
  <2>1. store' = [store EXCEPT ![SessionOf[m.pack]] = ZAdd(@, m)]
    BY <1>1 DEF Save
  <2>2. ASSUME NEW e \in store[s] PROVE [e EXCEPT !.score = m.score] # m \/ e = m
    <3>1. PICK r \in Requests : e = Entry(r, Num(r))
      BY DEF OriginInv
    <3>2. PICK q \in Requests : m = Entry(q, Num(q))
      BY DEF OriginInv
    <3>3. e.seqId = e.score /\ m.seqId = m.score
      BY <3>1, <3>2 DEF Entry
    <3>4. e \in Entries /\ m \in Entries
      BY <1>0 DEF TypeInv, TypeOK
    <3>5. ASSUME [e EXCEPT !.score = m.score] = m PROVE e = m
      <4>0. [e EXCEPT !.score = m.score] = [pack |-> e.pack, seqId |-> e.seqId, revoked |-> e.revoked,
                                             text |-> e.text, score |-> m.score]
        BY <3>4 DEF Entries
      <4>1. m.pack = e.pack /\ m.seqId = e.seqId /\ m.revoked = e.revoked /\ m.text = e.text
        BY <3>5, <4>0
      <4>2. r[1] = q[1] /\ Num(r) = Num(q)
        BY <3>1, <3>2, <4>1, Zenon DEF Entry
      <4>3. QED
        BY <3>1, <3>2, <4>2 DEF Entry
    <3>6. QED
      BY <3>5
  <2>3. QED
    BY <1>0, <2>1, <2>2 DEF ZAdd
<1>2. \/ store' = store
      \/ \E m \in saves : Save(m)
  BY ZenonT(60) DEF vars, redis, Next, ServerStep, ClientStep, Refuse, Number, SavePriority, HotTo, HotFrom, Unread,
         WriteFails, Dies, Dispatch, SaveFails, Connect, Drop, SyncList, SyncItem, SyncFails,
         SyncAnswer, AskPriority, PullPriority, PullFails, MarkRead, TouchSession, ReadFails
<1>3. QED
  BY <1>1, <1>2

LEMMA SavesMoves ==
    ASSUME TypeInv, ClocksAgree, [Next]_vars, NEW m \in saves'
    PROVE  m \in saves \/ \E r \in Requests : Number(r) /\ m = Entry(r, Num(r)')
<1>1. ASSUME NEW r \in Requests, Number(r)
      PROVE  saves' = saves \cup {Entry(r, Num(r)')}
  BY <1>1, NumberingMoves
<1>2. \/ saves' \subseteq saves
      \/ \E r \in Requests : Number(r)
  BY DEF vars, Next, ServerStep, ClientStep, Refuse, SavePriority, HotTo, HotFrom, Unread,
         WriteFails, Dies, Dispatch, Save, SaveFails, Connect, Drop, SyncList, SyncItem, SyncFails,
         SyncAnswer, AskPriority, PullPriority, PullFails, MarkRead, TouchSession, ReadFails
<1>3. QED
  BY <1>1, <1>2

LEMMA OriginStep ==
    ASSUME TypeInv, OriginInv, ClocksAgree, [Next]_vars
    PROVE  OriginInv'
<1>1. ASSUME NEW r \in Requests, Num(r) # 0 PROVE Num(r)' = Num(r)
  BY <1>1, SentKeeps
<1>2. ASSUME NEW s \in Sessions, NEW m \in store'[s]
      PROVE  \E r \in Requests : m = Entry(r, Num(r)') /\ Num(r)' # 0 /\ Session(r) = s
  <2>1. CASE m \in store[s]
    BY <1>1, <2>1 DEF OriginInv
  <2>2. CASE m \in saves /\ SessionOf[m.pack] = s
    <3>1. PICK r \in Requests : m = Entry(r, Num(r)) /\ Num(r) # 0
      BY <2>2 DEF OriginInv
    <3>2. Session(r) = s
      BY <2>2, <3>1 DEF Entry, Session
    <3>3. QED
      BY <1>1, <3>1, <3>2
  <2>3. QED
    BY <2>1, <2>2, StoreMoves
<1>3. ASSUME NEW m \in saves'
      PROVE  \E r \in Requests : m = Entry(r, Num(r)') /\ Num(r)' # 0
  <2>1. CASE m \in saves
    BY <1>1, <2>1 DEF OriginInv
  <2>2. ASSUME NEW r \in Requests, Number(r), m = Entry(r, Num(r)') PROVE Num(r)' # 0
    BY <2>2, NumberingMoves, NumberTypes
  <2>3. QED
    BY <2>1, <2>2, SavesMoves
<1>4. QED
  BY <1>2, <1>3 DEF OriginInv, Entry

LEMMA PresentStep ==
    ASSUME TypeInv, PresentInv, [Next]_vars
    PROVE  PresentInv'
<1>0. DOMAIN sync = Users /\ online \subseteq Users
  BY DEF TypeInv, TypeOK
<1>1. ASSUME NEW u \in Users, Connect(u) PROVE PresentInv'
  BY <1>0, <1>1 DEF Connect, PresentInv
<1>2. ASSUME NEW u \in Users, Drop(u) PROVE PresentInv'
  BY <1>0, <1>2 DEF Drop, PresentInv, NoSync
<1>3. ASSUME NEW u \in Users, Syncs(u) PROVE PresentInv'
  <2>1. \A v \in Users \ {u} : sync'[v] = sync[v]
    BY <1>0, <1>3, SyncMoves DEF MakesList, Lists, ReadsItem, ItemRead
  <2>2. online' = online /\ sync[u].state \in {"asked", "listed"}
    BY <1>3, SyncMoves
  <2>3. QED
    BY <2>1, <2>2 DEF PresentInv
<1>5. ASSUME NEW u \in Users, SyncAnswer(u) PROVE PresentInv'
  BY <1>0, <1>5 DEF SyncAnswer, PresentInv, NoSync
<1>6. \/ UNCHANGED <<sync, online>>
      \/ \E u \in Users : Connect(u) \/ Drop(u) \/ Syncs(u) \/ SyncAnswer(u)
  BY DEF vars, Syncs, clients, Next, ServerStep, ClientStep, Refuse, Number, SavePriority, HotTo, HotFrom, Unread,
         WriteFails, Dies, Dispatch, Save, SaveFails, AskPriority, PullPriority, PullFails, MarkRead, TouchSession, ReadFails
<1>7. QED
  BY <1>1, <1>2, <1>3, <1>5, <1>6 DEF PresentInv

\* Only a step of a user's own changes his synchronisation, his cursor and what
\* he has seen.
LEMMA SyncFrame ==
    ASSUME TypeInv, [Next]_vars, NEW u \in Users
    PROVE  \/ Connect(u) \/ Drop(u) \/ Syncs(u) \/ SyncAnswer(u)
           \/ sync'[u] = sync[u] /\ cursor'[u] = cursor[u] /\ seen'[u] = seen[u]
<1>0. DOMAIN sync = Users /\ DOMAIN cursor = Users /\ DOMAIN seen = Users
  BY DEF TypeInv, TypeOK
<1>1. ASSUME NEW v \in Users, v # u,
             Connect(v) \/ Drop(v) \/ SyncAnswer(v)
      PROVE  sync'[u] = sync[u] /\ cursor'[u] = cursor[u] /\ seen'[u] = seen[u]
  BY <1>0, <1>1 DEF Connect, Drop, SyncAnswer
<1>2. ASSUME NEW v \in Users, v # u, Syncs(v)
      PROVE  sync'[u] = sync[u] /\ cursor'[u] = cursor[u] /\ seen'[u] = seen[u]
  BY <1>0, <1>2, SyncMoves DEF MakesList, Lists, ReadsItem, ItemRead
<1>3. \/ UNCHANGED <<sync, cursor, seen>>
      \/ \E v \in Users : Connect(v) \/ Drop(v) \/ Syncs(v) \/ SyncAnswer(v)
  BY ZenonT(60) DEF vars, Syncs, clients, Next, ServerStep, ClientStep, Refuse, Number, SavePriority, HotTo, HotFrom, Unread,
         WriteFails, Dies, Dispatch, Save, SaveFails, AskPriority, PullPriority, PullFails, MarkRead, TouchSession, ReadFails
<1>4. QED
  BY <1>1, <1>2, <1>3

LEMMA ListMoves ==
    ASSUME TypeInv, NEW u \in Users, Syncs(u), NEW todo, MakesList(u, todo)
    PROVE  /\ Listed(u)' /\ ~ Listed(u)
           /\ sync'[u].todo = todo
           /\ todo \in {{}, {<<s, hot[u][s]>> : s \in {s \in Sessions : hot[u][s] > cursor[u]}}}
           /\ DOMAIN sync'[u].last = {}
           /\ sync'[u].stamp = cursor[u]
           /\ UNCHANGED <<clock, request, saves, redis, online, cursor, seen, pushed, reading, raced>>
<1>1. PICK max \in MaxHotSessionCounts :
         sync' = [sync EXCEPT ![u] =
             [state |-> "listed",
              todo |-> todo,
              last |-> [s \in {} |-> 0],
              stamp |-> cursor[u],
              max |-> max]]
  BY DEF MakesList, Lists
<1>2. DOMAIN sync = Users
  BY DEF TypeInv, TypeOK
<1>3. sync'[u] = [state |-> "listed", todo |-> todo, last |-> [s \in {} |-> 0],
                  stamp |-> cursor[u], max |-> max]
  BY <1>1, <1>2
<1>4. sync[u].state = "asked"
  BY DEF MakesList, Lists
<1>5. QED
  BY <1>3, <1>4, SyncMoves DEF MakesList, Listed

LEMMA AnswerMoves ==
    ASSUME TypeInv, NEW u \in Users, SyncAnswer(u)
    PROVE  /\ Listed(u) /\ sync[u].todo = {} /\ sync'[u] = NoSync
           /\ cursor'[u] = sync[u].stamp
           /\ \A s \in Sessions :
                 /\ seen'[u][s] \in Nat /\ seen[u][s] <= seen'[u][s]
                 /\ s \in DOMAIN sync[u].last => sync[u].last[s] <= seen'[u][s]
                 /\ s \notin DOMAIN sync[u].last => seen'[u][s] = seen[u][s]
           /\ UNCHANGED <<clock, request, saves, redis, online, pushed, reading, raced>>
<1>0. DOMAIN sync = Users /\ cursor \in [Users -> Nat] /\ seen \in [Users -> [Sessions -> Nat]]
  BY DEF TypeInv, TypeOK
<1>1. Listed(u) /\ \A s \in DOMAIN sync[u].last : sync[u].last[s] \in Nat
  BY ListingType DEF SyncAnswer, Listed
<1>2. ASSUME NEW s \in Sessions
      PROVE  /\ seen'[u][s] \in Nat /\ seen[u][s] <= seen'[u][s]
             /\ s \in DOMAIN sync[u].last => sync[u].last[s] <= seen'[u][s]
             /\ s \notin DOMAIN sync[u].last => seen'[u][s] = seen[u][s]
  <2>0. seen[u][s] \in Nat
    BY <1>0
  <2>1. seen'[u][s] = IF s \in DOMAIN sync[u].last THEN Max({seen[u][s], sync[u].last[s]}) ELSE seen[u][s]
    BY <1>0 DEF SyncAnswer
  <2>2. CASE s \in DOMAIN sync[u].last
    <3>1. sync[u].last[s] \in Nat
      BY <1>1, <2>2
    <3>2. /\ Max({seen[u][s], sync[u].last[s]}) \in {seen[u][s], sync[u].last[s]}
          /\ seen[u][s] <= Max({seen[u][s], sync[u].last[s]})
          /\ sync[u].last[s] <= Max({seen[u][s], sync[u].last[s]})
      BY <2>0, <3>1, MaxOfTwo, Zenon
    <3>3. QED
      BY <2>0, <2>1, <2>2, <3>1, <3>2
  <2>3. CASE s \notin DOMAIN sync[u].last
    BY <2>0, <2>1, <2>3
  <2>4. QED
    BY <2>2, <2>3
<1>3. QED
  BY <1>0, <1>1, <1>2 DEF SyncAnswer

LEMMA BelongsStep ==
    ASSUME TypeInv, NumberInv, BelongsInv, ClocksAgree, [Next]_vars
    PROVE  BelongsInv'
<1> SUFFICES ASSUME NEW u \in Users, NEW s \in Sessions, Held(u, s)'
             PROVE  Concerns(u, s)
  BY DEF BelongsInv, Concerns
<1>0. Held(u, s) => Concerns(u, s)
  BY DEF BelongsInv
<1>1. CASE hot'[u][s] # 0
  <2>1. ASSUME NEW r \in Concerning(u), Session(r) = s PROVE Concerns(u, s)
    BY <2>1, NumberTypes DEF Concerns, Concerning, Session
  <2>2. QED
    BY <1>0, <1>1, <2>1, HotMoves DEF Held
<1>2. CASE seen'[u][s] # 0
  <2>1. CASE SyncAnswer(u)
    BY <1>0, <1>2, <2>1, AnswerMoves DEF Held
  <2>2. CASE seen'[u] = seen[u]
    BY <1>0, <1>2, <2>2 DEF Held
  <2>3. QED
    BY <2>1, <2>2, SyncMoves, SyncFrame DEF Connect, Drop
<1>3. ASSUME NEW x \in pushed', x[1] = u, x[2] \in Packs, SessionOf[x[2]] = s
      PROVE  Concerns(u, s)
  <2>1. ASSUME NEW r \in Requests, Dispatch(r), x \notin pushed
        PROVE  Concerns(u, s)
    <3>1. PICK v \in Recipients(r[1]) : x = <<v, r[1], Num(r)>>
      BY <2>1 DEF Dispatch
    <3>2. u \in Recipients(r[1]) /\ SessionOf[r[1]] = s /\ r[1] \in Packs
      BY <1>3, <3>1
    <3>3. u \in Concerned(r[1])
      BY <3>2 DEF Recipients, Concerned
    <3>4. QED
      BY <3>2, <3>3 DEF Concerns
  <2>2. pushed' = pushed \/ \E r \in Requests : Dispatch(r)
    BY DEF vars, clients, Next, ServerStep, ClientStep, Refuse, Number, SavePriority, HotTo, HotFrom, Unread,
           WriteFails, Dies, Save, SaveFails, Connect, Drop, SyncList, SyncItem, SyncFails,
           SyncAnswer, AskPriority, PullPriority, PullFails, MarkRead, TouchSession, ReadFails
  <2>3. x \in pushed => Concerns(u, s)
    BY <1>0, <1>3 DEF Held
  <2>4. QED
    BY <2>1, <2>2, <2>3
<1>4. CASE <<u, s>> \in reading'
  <2>1. ASSUME NEW n \in Known(u, s) \ {0} PROVE Concerns(u, s)
    BY <1>0, <2>1 DEF Known, Held
  <2>2. ASSUME NEW v \in Users, NEW z \in Sessions, MarkRead(v, z) \/ TouchSession(v, z) \/ ReadFails(v, z),
               ~ (v = u /\ z = s)
        PROVE  <<u, s>> \in reading
    <3>1. reading' \subseteq reading \cup {<<v, z>>}
      BY <2>2 DEF MarkRead, TouchSession, ReadFails, Marks
    <3>2. QED
      BY <1>4, <2>2, <3>1
  <2>3. ASSUME MarkRead(u, s) \/ TouchSession(u, s) \/ ReadFails(u, s) PROVE Concerns(u, s)
    BY <1>4, <2>1, <2>3 DEF MarkRead, TouchSession, ReadFails
  <2>4. \/ reading' = reading
        \/ \E v \in Users : \E z \in Sessions : MarkRead(v, z) \/ TouchSession(v, z) \/ ReadFails(v, z)
    BY DEF vars, Next, ServerStep, ClientStep, Refuse, Number, SavePriority, HotTo, HotFrom, Unread,
           WriteFails, Dies, Dispatch, Save, SaveFails, Connect, Drop, SyncList, SyncItem, SyncFails,
           SyncAnswer, AskPriority, PullPriority, PullFails
  <2>5. QED
    BY <1>0, <1>4, <2>2, <2>3, <2>4 DEF Held
<1>5. CASE Listed(u)' /\ (Left(u, s)' \/ s \in DOMAIN sync'[u].last)
  <2>1. ASSUME NEW todo \in SUBSET (Sessions \X Nat), Syncs(u), MakesList(u, todo) PROVE Concerns(u, s)
    <3>1. hot[u][s] > cursor[u]
      BY <1>5, <2>1, ListMoves DEF Left
    <3>2. hot[u][s] # 0
      BY <3>1, NumberTypes
    <3>3. QED
      BY <1>0, <3>2 DEF Held
  <2>2. CASE sync[u].state = "listed" /\ ReadsItem(u)
    <3>1. PICK x \in sync[u].todo : \E n \in {0, LastNumber(x[1])} : ItemRead(u, x, n)
      BY <2>2 DEF ReadsItem
    <3>2. sync'[u].todo \subseteq sync[u].todo /\ DOMAIN sync'[u].last = DOMAIN sync[u].last \cup {x[1]}
      BY <3>1 DEF ItemRead, LastAfter
    <3>3. QED
      BY <1>0, <1>5, <2>2, <3>1, <3>2 DEF Held, Left, Listed
  <2>3. CASE sync'[u] = sync[u]
    BY <1>0, <1>5, <2>3 DEF Held, Left, Listed
  <2>4. CASE SyncAnswer(u) \/ Connect(u) \/ Drop(u)
    <3>1. sync'[u].state # "listed"
      <4>1. DOMAIN sync = Users
        BY DEF TypeInv, TypeOK
      <4>2. QED
        BY <2>4, <4>1 DEF SyncAnswer, Connect, Drop, NoSync
    <3>2. QED
      BY <1>5, <3>1 DEF Listed
  <2>5. QED
    BY <2>1, <2>2, <2>3, <2>4, SyncMoves, SyncFrame
<1>6. QED
  BY <1>1, <1>2, <1>3, <1>4, <1>5 DEF Held

-----------------------------------------------------------------------------
\* What the steps of others do to what is true of a user.

LEMMA RacedGrows ==
    ASSUME TypeInv, [Next]_vars
    PROVE  raced \subseteq raced' /\ pushed \subseteq pushed'
<1>1. ASSUME NEW u \in Users, Syncs(u) PROVE raced \subseteq raced'
  BY <1>1, SyncMoves DEF MakesList, ReadsItem, ItemRead
<1>2. raced \subseteq raced' \/ \E u \in Users : Syncs(u)
  BY DEF vars, Syncs, Next, ServerStep, ClientStep, Refuse, Number, SavePriority, HotTo, HotFrom, Unread,
         WriteFails, Dies, Dispatch, Save, SaveFails, Connect, Drop, SyncAnswer,
         AskPriority, PullPriority, PullFails, MarkRead, TouchSession, ReadFails
<1>3. pushed \subseteq pushed'
  BY ZenonT(60) DEF vars, clients, Next, ServerStep, ClientStep, Refuse, Number, SavePriority, HotTo, HotFrom, Unread,
         WriteFails, Dies, Dispatch, Save, SaveFails, Connect, Drop, SyncList, SyncItem, SyncFails,
         SyncAnswer, AskPriority, PullPriority, PullFails, MarkRead, TouchSession, ReadFails
<1>4. QED
  BY <1>1, <1>2, <1>3

LEMMA ClockMoves ==
    ASSUME TypeInv, [Next]_vars
    PROVE  clock \in Nat /\ clock' \in Nat /\ clock <= clock'
<1>0. clock \in Nat
  BY NumberTypes
<1>1. ASSUME NEW n \in GenSeqId, Passes(n) PROVE clock' \in Nat /\ clock <= clock'
  BY <1>0, <1>1, ClockPasses
<1>2. \/ clock' = clock
      \/ \E n \in GenSeqId : Passes(n)
  BY ZenonT(60) DEF vars, Next, ServerStep, ClientStep, Refuse, Number, SavePriority, HotTo, HotFrom, Unread,
         WriteFails, Dies, Dispatch, Save, SaveFails, Connect, Drop, SyncList, SyncItem, SyncFails,
         SyncAnswer, AskPriority, PullPriority, PullFails, MarkRead, TouchSession, ReadFails
<1>3. QED
  BY <1>0, <1>1, <1>2

LEMMA UnderWayMoves ==
    ASSUME TypeInv, TypeInv', NumberInv', ClocksAgree, [Next]_vars, NEW q \in Requests, UnderWay(q)'
    PROVE  UnderWay(q) \/ Number(q)
<1>1. CASE request'[q].stage \notin {"new", "done", "refused", "dead"}
  <2>1. CASE request'[q] = request[q]
    BY <1>1, <2>1 DEF UnderWay
  <2>2. CASE Numbering(q)
    BY <2>2 DEF Numbering
  <2>3. CASE Writing(q)
    BY <2>3 DEF Writing, SavePriority, HotTo, HotFrom, Unread, Dispatch, At, UnderWay
  <2>4. CASE Failing(q)
    BY <1>1, <2>4 DEF Failing, WriteFails, UnderWay
  <2>5. QED
    BY <1>1, <2>1, <2>2, <2>3, <2>4, RequestMoves
<1>2. CASE Entry(q, Num(q)') \in saves'
  <2>1. CASE Num(q)' = Num(q) /\ Entry(q, Num(q)') \in saves
    BY <2>1 DEF UnderWay
  <2>2. ASSUME NEW r \in Requests, Number(r), Entry(q, Num(q)') = Entry(r, Num(r)')
        PROVE  q = r
    <3>1. Num(q)' = Num(r)'
      BY <2>2 DEF Entry
    <3>2. Num(r)' # 0
      BY <2>2, NumberingMoves, NumberTypes
    <3>3. QED
      BY <3>1, <3>2 DEF NumberInv
  <2>3. \/ Entry(q, Num(q)') \in saves
        \/ \E r \in Requests : Number(r) /\ Entry(q, Num(q)') = Entry(r, Num(r)')
    BY <1>2, SavesMoves
  <2>4. QED
    BY <2>1, <2>2, <2>3, NumMoves
<1>3. UnderWay(q)' <=> request'[q].stage \notin {"new", "done", "refused", "dead"} \/ Entry(q, Num(q)') \in saves'
  BY DEF UnderWay, Entry
<1>4. QED
  BY <1>1, <1>2, <1>3

LEMMA LatestStep ==
    ASSUME TypeInv, TypeInv', NumberInv', ClocksAgree, [Next]_vars,
           NEW u \in Users, u \notin raced', LatestOK(u)
    PROVE  LatestOK(u)'
<1> SUFFICES ASSUME NEW q \in Concerning(u), NEW r \in Concerning(u), UnderWay(q)', q # r
             PROVE  Num(r)' <= Num(q)'
  <2>1. \A q \in Requests : Num(q)' \in Nat
    BY DEF TypeInv, TypeOK, Num
  <2>2. QED
    BY <2>1 DEF LatestOK, Concerning
<1>0. q \in Requests /\ r \in Requests /\ u \in Concerned(q[1]) /\ u \in Concerned(r[1])
  BY DEF Concerning
<1>1. CASE Number(q)
  <2>1. Num(q)' = clock'
    BY <1>0, <1>1, NumberingMoves
  <2>2. Num(r)' <= clock'
    BY <1>0 DEF TypeInv, RequestsOK
  <2>3. QED
    BY <2>1, <2>2
<1>2. CASE ~ Number(q) /\ Number(r)
  BY <1>0, <1>2, UnderWayMoves, NumberingMoves
<1>3. CASE ~ Number(q) /\ ~ Number(r)
  <2>1. Num(q)' = Num(q) /\ Num(r)' = Num(r)
    BY <1>0, <1>3, NumMoves
  <2>2. UnderWay(q)
    BY <1>0, <1>3, UnderWayMoves
  <2>3. QED
    BY <2>1, <2>2 DEF LatestOK
<1>4. QED
  BY <1>1, <1>2, <1>3

\* A hot session that has come to a number does not go back behind it.
LEMMA HotKeeps ==
    ASSUME TypeInv, TypeInv', NumberInv, ClocksAgree, [Next]_vars, NEW u \in Users, NEW s \in Sessions,
           LatestOK(u), NEW q \in Concerning(u), Num(q)' = Num(q), Num(q) <= hot[u][s]
    PROVE  Num(q) <= hot'[u][s]
<1>0. q \in Requests
  BY DEF Concerning
<1>1. ASSUME NEW r \in Concerning(u), UnderWay(r), hot'[u][s] = Num(r)
      PROVE  Num(q) <= hot'[u][s]
  BY <1>1 DEF LatestOK
<1>2. CASE hot'[u][s] = clock'
  BY <1>0, <1>2 DEF TypeInv, RequestsOK
<1>3. CASE hot'[u][s] = hot[u][s]
  BY <1>3
<1>4. QED
  BY <1>1, <1>2, <1>3, HotMoves

LEMMA HotStep ==
    ASSUME TypeInv, TypeInv', NumberInv, ClocksAgree, [Next]_vars, NEW u \in Users,
           LatestOK(u), HotOK(u)
    PROVE  HotOK(u)'
<1> SUFFICES ASSUME NEW r \in Requests, To(r) = u, ~ request'[r].cut,
                    request'[r].stage \in {"hot_from", "unread", "dispatch", "done"}
             PROVE  Num(r)' <= hot'[u][Session(r)]
  BY DEF HotOK, To, Session
<1>1. CASE HotTo(r)
  <2>1. hot' = [hot EXCEPT ![To(r)][Session(r)] = Num(r)]
    BY <1>1 DEF HotTo
  <2>2. hot'[u][Session(r)] = Num(r)
    BY <2>1, NumberTypes DEF TypeInv, TypeOK
  <2>3. Num(r)' = Num(r) /\ Num(r) \in Nat
    BY <1>1, NumMoves, NumberTypes DEF HotTo, At, Number, MayStart
  <2>4. QED
    BY <2>2, <2>3
<1>2. CASE Num(r)' = Num(r) /\ ~ request[r].cut
           /\ request[r].stage \in {"hot_from", "unread", "dispatch", "done"}
  <2>1. r \in Concerning(u) /\ Session(r) \in Sessions
    BY NumberTypes DEF Concerning, Concerned, To
  <2>2. QED
    BY <1>2, <2>1, HotKeeps DEF HotOK
<1>3. CASE request'[r] = request[r]
  BY <1>2, <1>3 DEF Num
<1>4. CASE Writing(r) /\ ~ HotTo(r)
  BY <1>2, <1>4 DEF Writing, SavePriority, HotFrom, Unread, Dispatch, At, Following
<1>5. QED
  BY <1>1, <1>3, <1>4, RequestMoves DEF Numbering, Failing, Writing

\* The cursor of a client is behind a message that is under way, unless it is
\* the number of that message; and so is the stamp of an answer.
LEMMA CursorBehind ==
    ASSUME TypeInv, NumberInv, NEW u \in Users, LatestOK(u), CursorOK(u),
           NEW r \in Concerning(u), UnderWay(r), Num(r) # 0
    PROVE  cursor[u] < Num(r) \/ Num(r) <= seen[u][Session(r)]
<1>0. r \in Requests /\ Num(r) \in Nat /\ cursor[u] \in Nat
  BY NumberTypes DEF Concerning
<1>1. ASSUME NEW q \in Concerning(u), Num(q) = cursor[u], Num(q) <= seen[u][Session(q)]
      PROVE  cursor[u] < Num(r) \/ Num(r) <= seen[u][Session(r)]
  <2>1. q \in Requests /\ Num(q) <= Num(r)
    BY DEF Concerning, LatestOK
  <2>2. CASE Num(q) = Num(r)
    BY <1>0, <1>1, <2>1, <2>2 DEF NumberInv
  <2>3. QED
    BY <1>0, <1>1, <2>1, <2>2
<1>2. QED
  BY <1>0, <1>1 DEF CursorOK

LEMMA StampBehind ==
    ASSUME TypeInv, NumberInv, NEW u \in Users, Listed(u), LatestOK(u), StampOK(u),
           NEW r \in Concerning(u), UnderWay(r), Num(r) # 0
    PROVE  \/ sync[u].stamp < Num(r)
           \/ Num(r) <= seen[u][Session(r)]
           \/ Shown(u, Session(r), Num(r))
<1>0. r \in Requests /\ Num(r) \in Nat /\ sync[u].stamp \in Nat
  BY NumberTypes, ListingType DEF Concerning
<1>1. ASSUME NEW q \in Concerning(u), Num(q) = sync[u].stamp,
             Num(q) <= seen[u][Session(q)] \/ Shown(u, Session(q), Num(q))
      PROVE  \/ sync[u].stamp < Num(r)
             \/ Num(r) <= seen[u][Session(r)]
             \/ Shown(u, Session(r), Num(r))
  <2>1. q \in Requests /\ Num(q) <= Num(r)
    BY DEF Concerning, LatestOK
  <2>2. CASE Num(q) = Num(r)
    BY <1>0, <1>1, <2>1, <2>2 DEF NumberInv
  <2>3. QED
    BY <1>0, <1>1, <2>1, <2>2
<1>2. QED
  BY <1>0, <1>1 DEF StampOK

LEMMA StampType ==
    ASSUME TypeInv, NEW u \in Users
    PROVE  /\ cursor[u] \in Nat /\ (CursorOK(u) => cursor[u] <= clock)
           /\ Listed(u) => sync[u].stamp \in Nat /\ (StampOK(u) => sync[u].stamp <= clock)
<1>1. clock \in Nat /\ \A q \in Concerning(u) : Num(q) <= clock
  BY NumberTypes DEF Concerning
<1>2. cursor[u] \in Nat /\ (Listed(u) => sync[u].stamp \in Nat)
  BY NumberTypes, ListingType
<1>3. CursorOK(u) => cursor[u] <= clock
  BY <1>1, <1>2 DEF CursorOK
<1>4. Listed(u) /\ StampOK(u) => sync[u].stamp <= clock
  BY <1>1, <1>2 DEF StampOK
<1>5. QED
  BY <1>2, <1>3, <1>4

\* A request of the user's is acknowledged when it was before, or now, with its
\* push to him if he is connected.
LEMMA OursMoves ==
    ASSUME TypeInv, [Next]_vars, NEW u \in Users, NEW r \in Ours(u)'
    PROVE  /\ r \in Concerning(u) /\ Num(r) # 0 /\ Num(r)' = Num(r)
           /\ \/ r \in Ours(u)
              \/ UnderWay(r) /\ (u \in online => <<u, r[1], Num(r)>> \in pushed')
<1>0. r \in Requests /\ To(r) = u /\ KindOf[r[1]] # "group" /\ ~ request'[r].cut /\ request'[r].stage = "done"
  BY DEF Ours, At, To
<1>1. r \in Concerning(u)
  BY <1>0 DEF Concerning, Concerned, To
<1>2. CASE request'[r] = request[r]
  <2>1. r \in Ours(u)
    BY <1>0, <1>2 DEF Ours, At
  <2>2. Num(r) # 0 /\ Num(r)' = Num(r)
    BY <1>0, <1>2, NumberTypes DEF Num
  <2>3. QED
    BY <1>1, <2>1, <2>2
<1>3. CASE Writing(r)
  <2>1. Dispatch(r)
    BY <1>0, <1>3 DEF Writing, SavePriority, HotTo, HotFrom, Unread, At, Following
  <2>2. UnderWay(r)
    BY <2>1 DEF Dispatch, At, UnderWay
  <2>3. u \in online => <<u, r[1], Num(r)>> \in pushed'
    BY <1>0, <2>1 DEF Dispatch, Recipients, To
  <2>4. QED
    BY <1>1, <1>3, <2>2, <2>3 DEF Writing
<1>4. QED
  BY <1>0, <1>2, <1>3, RequestMoves DEF Numbering, Failing

\* What is stored was stored before, or was under way; what is being saved was.
LEMMA StoredMoves ==
    ASSUME TypeInv, OriginInv, ClocksAgree, [Next]_vars, NEW r \in Requests, Num(r) # 0, Num(r)' = Num(r)
    PROVE  /\ Stored(r)' => Stored(r) \/ Entry(r, Num(r)) \in saves
           /\ (Entry(r, Num(r)) \in saves)' => Entry(r, Num(r)) \in saves
<1>1. Stored(r)' => Entry(r, Num(r)) \in store'[Session(r)]
  BY DEF Stored, Entry, Session
<1>2. Entry(r, Num(r)) \in store'[Session(r)] => Stored(r) \/ Entry(r, Num(r)) \in saves
  BY NumberTypes, StoreMoves DEF Stored
<1>3. (Entry(r, Num(r)) \in saves)' => Entry(r, Num(r)) \in saves'
  BY DEF Entry
<1>4. ASSUME NEW q \in Requests, Number(q), Entry(r, Num(r)) = Entry(q, Num(q)')
      PROVE  FALSE
  <2>1. Num(r) = clock' /\ clock < clock'
    BY <1>4, NumberingMoves DEF Entry
  <2>2. Num(r) <= clock /\ clock \in Nat /\ Num(r) \in Nat
    BY NumberTypes
  <2>3. QED
    BY <2>1, <2>2
<1>5. Entry(r, Num(r)) \in saves' => Entry(r, Num(r)) \in saves
  BY <1>4, SavesMoves
<1>6. QED
  BY <1>1, <1>2, <1>3, <1>5

-----------------------------------------------------------------------------
\* What is true of a user while the others go on.
Standing(u) ==
    /\ LatestOK(u) /\ CursorOK(u) /\ StampOK(u) /\ TodoOK(u)
    /\ HotOK(u) /\ ListedOK(u) /\ ToldOK(u)
Waiting(u) == sync'[u] = sync[u] /\ cursor'[u] = cursor[u] /\ seen'[u] = seen[u]

LEMMA HotBeyond ==
    ASSUME TypeInv, NumberInv, ClocksAgree, [Next]_vars, NEW u \in Users, Standing(u),
           NEW r \in Concerning(u), NEW c \in Nat, c <= clock, hot[u][Session(r)] > c,
           \A q \in Concerning(u) : UnderWay(q) /\ Num(q) # 0 /\ Session(q) = Session(r) =>
               c < Num(q) \/ Num(q) <= seen[u][Session(r)] \/ Shown(u, Session(r), Num(q))
    PROVE  \/ hot'[u][Session(r)] > c
           \/ \E n \in Nat : Num(r) <= n /\ (n <= seen[u][Session(r)] \/ Shown(u, Session(r), n))
<1>0. Session(r) \in Sessions /\ clock \in Nat /\ clock' \in Nat /\ clock <= clock'
  BY NumberTypes, ClockMoves DEF Concerning
<1>1. ASSUME NEW q \in Concerning(u), Session(q) = Session(r), UnderWay(q), Num(q) # 0,
             hot'[u][Session(r)] = Num(q)
      PROVE  \/ hot'[u][Session(r)] > c
             \/ \E n \in Nat : Num(r) <= n /\ (n <= seen[u][Session(r)] \/ Shown(u, Session(r), n))
  <2>1. Num(r) <= Num(q) /\ Num(q) \in Nat
    BY <1>1, NumberTypes DEF Standing, LatestOK, Concerning
  <2>2. c < Num(q) \/ Num(q) <= seen[u][Session(r)] \/ Shown(u, Session(r), Num(q))
    BY <1>1
  <2>3. QED
    BY <1>1, <2>1, <2>2
<1>2. CASE hot'[u][Session(r)] = clock' /\ clock < clock'
  BY <1>0, <1>2
<1>3. CASE hot'[u][Session(r)] = hot[u][Session(r)]
  BY <1>3
<1>4. QED
  BY <1>0, <1>1, <1>2, <1>3, HotMoves

LEMMA OthersListed ==
    ASSUME TypeInv, TypeInv', NumberInv, OriginInv, PresentInv, ClocksAgree, [Next]_vars,
           NEW u \in Users, Standing(u), Waiting(u), HotOK(u)'
    PROVE  ListedOK(u)'
<1> SUFFICES ASSUME Listed(u), NEW r \in Ours(u)'
             PROVE  /\ Stored(r)' \/ (Entry(r, Num(r)) \in saves)' =>
                          \/ Has(u, r)'
                          \/ Session(r) \in DOMAIN sync[u].last
                          \/ Left(u, Session(r))
                          \/ sync[u].todo = {}
                    /\ Stored(r)' =>
                          \/ Has(u, r)'
                          \/ Shown(u, Session(r), Num(r))
                          \/ Left(u, Session(r))
                          \/ hot'[u][Session(r)] > sync[u].stamp
  <2>1. Listed(u)' => Listed(u)
    BY DEF Waiting, Listed
  <2>2. \A r \in Ours(u)' : Num(r)' = Num(r)
    BY OursMoves
  <2>3. \A r \in Requests : /\ Session(r)' = Session(r)
                            /\ Left(u, Session(r))' <=> Left(u, Session(r))
    BY DEF Waiting, Session, Left
  <2>4. \A r \in Ours(u)' : Shown(u, Session(r), Num(r))' <=> Shown(u, Session(r), Num(r))
    BY <2>2 DEF Waiting, Session, Shown
  <2>5. \A r \in Ours(u)' : r \in Requests
    BY DEF Ours
  <2>6. sync'[u] = sync[u]
    BY DEF Waiting
  <2>7. QED
    BY <2>1, <2>3, <2>4, <2>5, <2>6 DEF ListedOK
<1>1. /\ r \in Concerning(u) /\ r \in Requests /\ Num(r) # 0 /\ Num(r)' = Num(r)
      /\ \/ r \in Ours(u)
         \/ UnderWay(r) /\ (u \in online => <<u, r[1], Num(r)>> \in pushed')
  BY OursMoves DEF Ours
<1>2. Has(u, r)' <=> <<u, r[1], Num(r)>> \in pushed' \/ Num(r) <= seen[u][Session(r)]
  BY <1>1 DEF Has, Waiting, Session
<1>3. CASE r \notin Ours(u)
  <2>1. u \in online
    BY DEF PresentInv, Listed
  <2>2. QED
    BY <1>1, <1>2, <1>3, <2>1
<1>4. CASE r \in Ours(u)
  <2>1. Has(u, r) => Has(u, r)'
    BY <1>2, RacedGrows DEF Has
  <2>2. Stored(r)' \/ (Entry(r, Num(r)) \in saves)' => Stored(r) \/ Entry(r, Num(r)) \in saves
    BY <1>1, StoredMoves
  <2>3. ASSUME Stored(r)', ~ Stored(r)
        PROVE  \/ Has(u, r)' \/ Shown(u, Session(r), Num(r)) \/ hot'[u][Session(r)] > sync[u].stamp
    <3>1. UnderWay(r)
      BY <1>1, <2>3, StoredMoves DEF UnderWay
    <3>2. sync[u].stamp < Num(r) \/ Num(r) <= seen[u][Session(r)] \/ Shown(u, Session(r), Num(r))
      BY <1>1, <3>1, StampBehind DEF Standing
    <3>3. Num(r) <= hot'[u][Session(r)]
      BY <1>1 DEF HotOK, Ours, At, To, Session
    <3>4. sync[u].stamp \in Nat /\ Num(r) \in Nat /\ hot'[u][Session(r)] \in Nat
      BY <1>1, ListingType, NumberTypes DEF TypeInv, TypeOK
    <3>5. QED
      BY <1>2, <3>2, <3>3, <3>4
  <2>4. ASSUME hot[u][Session(r)] > sync[u].stamp
        PROVE  \/ Has(u, r)' \/ Shown(u, Session(r), Num(r)) \/ hot'[u][Session(r)] > sync[u].stamp
    <3>1. sync[u].stamp \in Nat /\ sync[u].stamp <= clock
      BY StampType DEF Standing
    <3>2. ASSUME NEW q \in Concerning(u), UnderWay(q), Num(q) # 0, Session(q) = Session(r)
          PROVE  \/ sync[u].stamp < Num(q)
                 \/ Num(q) <= seen[u][Session(r)]
                 \/ Shown(u, Session(r), Num(q))
      BY <3>2, StampBehind DEF Standing
    <3>3. \/ hot'[u][Session(r)] > sync[u].stamp
          \/ \E n \in Nat : Num(r) <= n /\ (n <= seen[u][Session(r)] \/ Shown(u, Session(r), n))
      BY <1>1, <2>4, <3>1, <3>2, HotBeyond
    <3>4. ASSUME NEW n \in Nat, Num(r) <= n, n <= seen[u][Session(r)] \/ Shown(u, Session(r), n)
          PROVE  Num(r) <= seen[u][Session(r)] \/ Shown(u, Session(r), Num(r))
      <4>1. Num(r) \in Nat /\ seen[u][Session(r)] \in Nat
        BY <1>1, NumberTypes
      <4>2. Session(r) \in DOMAIN sync[u].last => sync[u].last[Session(r)] \in Nat
        BY ListingType
      <4>3. QED
        BY <3>4, <4>1, <4>2 DEF Shown
    <3>5. QED
      BY <1>2, <3>3, <3>4
  <2>5. QED
    BY <1>4, <2>1, <2>2, <2>3, <2>4 DEF Standing, ListedOK
<1>5. QED
  BY <1>3, <1>4

LEMMA OthersTold ==
    ASSUME TypeInv, TypeInv', NumberInv, OriginInv, ClocksAgree, [Next]_vars,
           NEW u \in Users, Standing(u), Waiting(u), HotOK(u)'
    PROVE  ToldOK(u)'
<1> SUFFICES ASSUME NEW r \in Ours(u)', Stored(r)'
             PROVE  \/ <<u, r[1], Num(r)>> \in pushed'
                    \/ Num(r) <= seen[u][Session(r)]
                    \/ hot'[u][Session(r)] > cursor[u]
  <2>1. \A r \in Ours(u)' : Num(r)' = Num(r)
    BY OursMoves
  <2>2. QED
    BY <2>1 DEF ToldOK, Told, Waiting, Session
<1>1. /\ r \in Concerning(u) /\ r \in Requests /\ Num(r) # 0 /\ Num(r)' = Num(r)
      /\ \/ r \in Ours(u)
         \/ UnderWay(r) /\ (u \in online => <<u, r[1], Num(r)>> \in pushed')
  BY OursMoves DEF Ours
<1>2. CASE UnderWay(r)
  <2>1. cursor[u] < Num(r) \/ Num(r) <= seen[u][Session(r)]
    BY <1>1, <1>2, CursorBehind DEF Standing
  <2>2. Num(r) <= hot'[u][Session(r)]
    BY <1>1 DEF HotOK, Ours, At, To, Session
  <2>3. cursor[u] \in Nat /\ Num(r) \in Nat /\ hot'[u][Session(r)] \in Nat
    BY <1>1, NumberTypes DEF TypeInv, TypeOK
  <2>4. QED
    BY <2>1, <2>2, <2>3
<1>3. CASE ~ UnderWay(r)
  <2>1. r \in Ours(u) /\ Stored(r)
    BY <1>1, <1>3, StoredMoves DEF UnderWay
  <2>2. \/ <<u, r[1], Num(r)>> \in pushed
        \/ Num(r) <= seen[u][Session(r)]
        \/ hot[u][Session(r)] > cursor[u]
    BY <2>1 DEF Standing, ToldOK, Told
  <2>3. ASSUME hot[u][Session(r)] > cursor[u]
        PROVE  Num(r) <= seen[u][Session(r)] \/ hot'[u][Session(r)] > cursor[u]
    <3>1. cursor[u] \in Nat /\ cursor[u] <= clock
      BY StampType DEF Standing
    <3>2. CASE \E q \in Concerning(u) : Session(q) = Session(r) /\ UnderWay(q) /\ Num(q) # 0
                   /\ hot'[u][Session(r)] = Num(q)
      <4>1. PICK q \in Concerning(u) : Session(q) = Session(r) /\ UnderWay(q) /\ Num(q) # 0
                   /\ hot'[u][Session(r)] = Num(q)
        BY <3>2
      <4>2. Num(r) <= Num(q)
        BY <1>1, <4>1 DEF Standing, LatestOK
      <4>3. cursor[u] < Num(q) \/ Num(q) <= seen[u][Session(r)]
        BY <4>1, CursorBehind DEF Standing
      <4>4. Num(r) \in Nat /\ Num(q) \in Nat /\ seen[u][Session(r)] \in Nat
        BY <1>1, NumberTypes DEF Concerning
      <4>5. QED
        BY <3>1, <4>1, <4>2, <4>3, <4>4
    <3>3. CASE hot'[u][Session(r)] = clock' /\ clock < clock'
      BY <3>1, <3>3, ClockMoves
    <3>4. CASE hot'[u][Session(r)] = hot[u][Session(r)]
      BY <2>3, <3>4
    <3>5. QED
      BY <1>1, <3>2, <3>3, <3>4, HotMoves, NumberTypes
  <2>4. QED
    BY <2>2, <2>3, RacedGrows
<1>4. QED
  BY <1>2, <1>3

LEMMA OthersStep ==
    ASSUME TypeInv, TypeInv', NumberInv, NumberInv', OriginInv, PresentInv, ClocksAgree, [Next]_vars,
           NEW u \in Users, u \notin raced', Standing(u), Waiting(u)
    PROVE  Standing(u)'
<1>1. LatestOK(u)'
  BY LatestStep DEF Standing
<1>2. HotOK(u)'
  BY HotStep DEF Standing
<1>3. ASSUME NEW q \in Concerning(u), Num(q) # 0 PROVE Num(q)' = Num(q)
  BY <1>3, SentKeeps DEF Concerning
<1>4. CursorOK(u)'
  <2>1. CASE cursor[u] = 0
    BY <2>1 DEF CursorOK, Waiting
  <2>2. CASE cursor[u] # 0
    <3>1. PICK q \in Concerning(u) : Num(q) = cursor[u] /\ Num(q) <= seen[u][Session(q)]
      BY <2>2 DEF Standing, CursorOK
    <3>2. Num(q)' = cursor'[u] /\ Num(q)' <= seen'[u][Session(q)]
      BY <1>3, <2>2, <3>1 DEF Waiting
    <3>3. QED
      BY <3>2 DEF CursorOK, Concerning, Session
  <2>3. QED
    BY <2>1, <2>2
<1>5. StampOK(u)'
  <2>0. Listed(u)' <=> Listed(u)
    BY DEF Listed, Waiting
  <2>1. CASE ~ Listed(u)
    BY <2>0, <2>1 DEF StampOK
  <2>2. CASE sync[u].stamp = 0
    BY <2>2 DEF StampOK, Waiting
  <2>3. CASE Listed(u) /\ sync[u].stamp # 0
    <3>1. PICK q \in Concerning(u) :
              /\ Num(q) = sync[u].stamp
              /\ Num(q) <= seen[u][Session(q)] \/ Shown(u, Session(q), Num(q))
      BY <2>3 DEF Standing, StampOK
    <3>2. Num(q)' = Num(q)
      BY <1>3, <2>3, <3>1
    <3>3. /\ Num(q)' = sync'[u].stamp
          /\ Num(q)' <= seen'[u][Session(q)] \/ Shown(u, Session(q), Num(q))'
      BY <3>1, <3>2 DEF Waiting, Shown, Session
    <3>4. QED
      BY <3>3 DEF StampOK, Concerning, Session
  <2>4. QED
    BY <2>1, <2>2, <2>3
<1>6. TodoOK(u)'
  <2>0. Listed(u)' <=> Listed(u)
    BY DEF Listed, Waiting
  <2>1. SUFFICES ASSUME Listed(u), NEW x \in sync[u].todo
                 PROVE  /\ x[2] <= clock'
                        /\ x[1] \notin DOMAIN sync[u].last
                        /\ \A y \in sync[u].todo : x[1] = y[1] => x = y
                        /\ \A q \in Concerning(u) : Num(q)' <= x[2] => Num(q)' <= hot'[u][x[1]]
    BY <2>0 DEF TodoOK, Waiting, Concerning
  <2>2. /\ x[2] <= clock
        /\ x[1] \notin DOMAIN sync[u].last
        /\ \A y \in sync[u].todo : x[1] = y[1] => x = y
        /\ \A q \in Concerning(u) : Num(q) <= x[2] => Num(q) <= hot[u][x[1]]
    BY <2>1 DEF Standing, TodoOK
  <2>3. x[1] \in Sessions /\ x[2] \in Nat /\ clock \in Nat /\ clock' \in Nat /\ clock <= clock'
    BY <2>1, ListingType, ClockMoves
  <2>4. ASSUME NEW q \in Concerning(u), Num(q)' <= x[2] PROVE Num(q)' <= hot'[u][x[1]]
    <3>1. CASE Number(q)
      <4>1. Num(q)' = clock' /\ clock < clock'
        BY <3>1, NumberingMoves DEF Concerning
      <4>2. QED
        BY <2>2, <2>3, <2>4, <4>1
    <3>2. CASE Num(q)' = Num(q)
      BY <2>2, <2>3, <2>4, <3>2, HotKeeps DEF Standing
    <3>3. QED
      BY <3>1, <3>2, NumMoves DEF Concerning
  <2>5. QED
    BY <2>2, <2>3, <2>4
<1>7. ListedOK(u)' /\ ToldOK(u)'
  BY <1>2, OthersListed, OthersTold
<1>8. QED
  BY <1>1, <1>2, <1>4, <1>5, <1>6, <1>7 DEF Standing

-----------------------------------------------------------------------------
\* The steps of the user's own: his connection and his synchronisation.

\* They leave the messages, and what is true of them, alone.
LEMMA OwnKeeps ==
    ASSUME NEW u \in Users, Standing(u),
           UNCHANGED <<clock, request, saves, store, hot>>
    PROVE  LatestOK(u)' /\ HotOK(u)'
BY DEF Standing, LatestOK, HotOK, Concerning, UnderWay, Num, To, Session, Entry

LEMMA ConnectionStep ==
    ASSUME TypeInv, NEW u \in Users, Standing(u), Connect(u) \/ Drop(u)
    PROVE  Standing(u)'
<1>1. UNCHANGED <<clock, request, saves, redis, cursor, seen, pushed>> /\ ~ Listed(u)'
  <2>1. DOMAIN sync = Users
    BY DEF TypeInv, TypeOK
  <2>2. QED
    BY <2>1 DEF Connect, Drop, Listed, NoSync
<1>2. CursorOK(u)' /\ ToldOK(u)'
  BY <1>1 DEF Standing, CursorOK, ToldOK, Told, Ours, Stored, Concerning, Num, To, Session, Entry, At, redis
<1>3. StampOK(u)' /\ TodoOK(u)' /\ ListedOK(u)'
  BY <1>1 DEF StampOK, TodoOK, ListedOK
<1>4. QED
  BY <1>1, <1>2, <1>3, OwnKeeps DEF Standing, redis

\* A message of the user's that is stored, or on its way there, is on the list
\* he gets, if he does not have it; if nothing could be listed, a stored one is
\* still beyond his cursor.
LEMMA ListStep ==
    ASSUME TypeInv, NumberInv, NEW u \in Users, Standing(u), Syncs(u), NEW todo, MakesList(u, todo)
    PROVE  Standing(u)'
<1> DEFINE beyond == {<<s, hot[u][s]>> : s \in {s \in Sessions : hot[u][s] > cursor[u]}}
<1>1. /\ Listed(u)'
      /\ sync'[u].todo = todo /\ todo \in {{}, beyond}
      /\ DOMAIN sync'[u].last = {}
      /\ sync'[u].stamp = cursor[u]
      /\ UNCHANGED <<clock, request, saves, store, hot, cursor, seen, pushed>>
  BY ListMoves DEF redis
<1>2. CursorOK(u)' /\ ToldOK(u)'
  BY <1>1 DEF Standing, CursorOK, ToldOK, Told, Ours, Stored, Concerning, Num, To, Session, Entry, At
<1>3. StampOK(u)'
  <2>1. CASE cursor[u] = 0
    BY <1>1, <2>1 DEF StampOK
  <2>2. ASSUME NEW q \in Concerning(u), Num(q) = cursor[u], Num(q) <= seen[u][Session(q)]
        PROVE  StampOK(u)'
    BY <1>1, <2>2 DEF StampOK, Concerning, Num, Session
  <2>3. QED
    BY <2>1, <2>2 DEF Standing, CursorOK
<1>4. TodoOK(u)'
  <2>1. ASSUME NEW x \in sync'[u].todo
        PROVE  /\ x[2] <= clock
               /\ x[1] \notin DOMAIN sync'[u].last
               /\ \A y \in sync'[u].todo : x[1] = y[1] => x = y
               /\ \A q \in Concerning(u) : Num(q) <= x[2] => Num(q) <= hot[u][x[1]]
    BY <1>1, <2>1 DEF NumberInv
  <2>2. QED
    BY <1>1, <2>1 DEF TodoOK, Concerning, Num
<1>5. ListedOK(u)'
  <2>1. SUFFICES ASSUME NEW r \in Ours(u), Stored(r) \/ Entry(r, Num(r)) \in saves
                 PROVE  Has(u, r) \/ hot[u][Session(r)] > cursor[u]
    <3>1. \A r \in Ours(u) : Session(r) \in Sessions
      BY NumberTypes DEF Ours
    <3>2. ASSUME NEW r \in Ours(u), hot[u][Session(r)] > cursor[u], todo # {}
          PROVE  Left(u, Session(r))'
      <4>1. <<Session(r), hot[u][Session(r)]>> \in sync'[u].todo
        BY <1>1, <3>1, <3>2
      <4>2. \E y \in sync'[u].todo : y[1] = Session(r)
        BY <4>1
      <4>3. QED
        BY <4>2 DEF Left, Session
    <3>3. Ours(u)' = Ours(u) /\ \A r \in Requests : (Stored(r)' <=> Stored(r)) /\ (Has(u, r)' <=> Has(u, r))
      BY <1>1 DEF Ours, Stored, Has, Num, To, Session, Entry, At
    <3>4. \A r \in Ours(u) : /\ (Entry(r, Num(r)) \in saves)' <=> Entry(r, Num(r)) \in saves
                             /\ r \in Requests
      BY <1>1 DEF Ours, Num, Entry
    <3>5. \A r \in Ours(u) : (Stored(r) \/ Entry(r, Num(r)) \in saves) =>
             Has(u, r) \/ Left(u, Session(r))' \/ todo = {}
      BY <2>1, <3>2
    <3>6. ASSUME NEW r \in Ours(u), Stored(r)
          PROVE  Has(u, r) \/ hot[u][Session(r)] > cursor[u]
      BY <2>1, <3>6
    <3>7. ASSUME NEW r \in Ours(u)'
          PROVE  /\ (Stored(r) \/ Entry(r, Num(r)) \in saves)' =>
                       Has(u, r)' \/ Left(u, Session(r))' \/ sync'[u].todo = {}
                 /\ Stored(r)' => Has(u, r)' \/ hot'[u][Session(r)'] > sync'[u].stamp
      <4>1. r \in Ours(u) /\ r \in Requests
        BY <3>3, <3>4, <3>7
      <4>2. Session(r)' = Session(r) /\ hot' = hot
        BY <1>1 DEF Session
      <4>3. QED
        BY <1>1, <3>3, <3>4, <3>5, <3>6, <4>1, <4>2
    <3>8. QED
      BY <3>7 DEF ListedOK
  <2>2. r \in Requests /\ r \in Concerning(u) /\ Num(r) # 0
    BY NumberTypes DEF Ours, Concerning, Concerned, To, At
  <2>3. CASE Stored(r)
    BY <2>1, <2>3 DEF Standing, ToldOK, Told, Has
  <2>4. CASE Entry(r, Num(r)) \in saves
    <3>1. cursor[u] < Num(r) \/ Num(r) <= seen[u][Session(r)]
      BY <2>2, <2>4, CursorBehind DEF Standing, UnderWay
    <3>2. Num(r) <= hot[u][Session(r)]
      BY <2>1, <2>2 DEF Standing, HotOK, Ours, At
    <3>3. Num(r) \in Nat /\ cursor[u] \in Nat /\ hot[u][Session(r)] \in Nat
      BY <2>2, NumberTypes
    <3>4. QED
      BY <3>1, <3>2, <3>3 DEF Has
  <2>5. QED
    BY <2>1, <2>3, <2>4
<1>6. QED
  BY <1>1, <1>2, <1>3, <1>4, <1>5, OwnKeeps DEF Standing

\* The client takes what he was shown for seen, and the stamp for his cursor.
LEMMA AnswerStep ==
    ASSUME TypeInv, NumberInv, NEW u \in Users, Standing(u), SyncAnswer(u)
    PROVE  Standing(u)'
<1>1. /\ Listed(u) /\ sync[u].todo = {} /\ sync'[u] = NoSync
      /\ cursor'[u] = sync[u].stamp
      /\ \A s \in Sessions :
            /\ seen'[u][s] \in Nat /\ seen[u][s] <= seen'[u][s]
            /\ s \in DOMAIN sync[u].last => sync[u].last[s] <= seen'[u][s]
      /\ UNCHANGED <<clock, request, saves, store, hot, pushed>>
  BY AnswerMoves DEF redis
<1>2. ASSUME NEW r \in Requests, Num(r) <= seen[u][Session(r)] \/ Shown(u, Session(r), Num(r))
      PROVE  Num(r) <= seen'[u][Session(r)]
  <2>1. Session(r) \in Sessions /\ Num(r) \in Nat /\ seen[u][Session(r)] \in Nat
    BY NumberTypes
  <2>2. Session(r) \in DOMAIN sync[u].last => sync[u].last[Session(r)] \in Nat
    BY <1>1, ListingType
  <2>3. QED
    BY <1>1, <1>2, <2>1, <2>2 DEF Shown
<1>3. CursorOK(u)'
  <2>1. CASE sync[u].stamp = 0
    BY <1>1, <2>1 DEF CursorOK
  <2>2. ASSUME NEW q \in Concerning(u), Num(q) = sync[u].stamp,
               Num(q) <= seen[u][Session(q)] \/ Shown(u, Session(q), Num(q))
        PROVE  CursorOK(u)'
    <3>1. Num(q) <= seen'[u][Session(q)]
      BY <1>2, <2>2 DEF Concerning
    <3>2. QED
      BY <1>1, <2>2, <3>1 DEF CursorOK, Concerning, Num, Session
  <2>3. QED
    BY <1>1, <2>1, <2>2 DEF Standing, StampOK
<1>4. StampOK(u)' /\ TodoOK(u)' /\ ListedOK(u)'
  BY <1>1 DEF StampOK, TodoOK, ListedOK, Listed, NoSync
<1>5. ToldOK(u)'
  <2>1. Ours(u)' = Ours(u) /\ \A r \in Requests : Stored(r)' <=> Stored(r)
    BY <1>1 DEF Ours, Stored, Num, To, Session, Entry, At
  <2>2. ASSUME NEW r \in Ours(u), Stored(r)
        PROVE  Told(u, r)'
    <3>1. Has(u, r) \/ Shown(u, Session(r), Num(r)) \/ hot[u][Session(r)] > sync[u].stamp
      BY <1>1, <2>2 DEF Standing, ListedOK, Left
    <3>2. \/ <<u, r[1], Num(r)>> \in pushed'
          \/ Num(r) <= seen'[u][Session(r)]
          \/ hot'[u][Session(r)] > cursor'[u]
      BY <1>1, <1>2, <3>1 DEF Has, Ours
    <3>3. QED
      BY <1>1, <3>2 DEF Told, Num, Session
  <2>3. QED
    BY <2>1, <2>2 DEF ToldOK, Ours
<1>6. QED
  BY <1>1, <1>3, <1>4, <1>5, OwnKeeps DEF Standing

\* The last number of a session is that of a message, and no smaller than that
\* of any that is stored.
LEMMA LastStored ==
    ASSUME TypeInv, OriginInv, NEW s \in Sessions
    PROVE  /\ LastNumber(s) = 0 \/ \E q \in Requests : Num(q) = LastNumber(s) /\ Session(q) = s
           /\ \A r \in Requests : Session(r) = s /\ Stored(r) => Num(r) <= LastNumber(s)
<1>1. ASSUME LastNumber(s) # 0
      PROVE  \E q \in Requests : Num(q) = LastNumber(s) /\ Session(q) = s
  <2>1. PICK m \in store[s] : m.score = LastNumber(s)
    BY <1>1, LastNumberType
  <2>2. PICK q \in Requests : m = Entry(q, Num(q)) /\ Session(q) = s
    BY DEF OriginInv
  <2>3. QED
    BY <2>1, <2>2 DEF Entry
<1>2. ASSUME NEW r \in Requests, Session(r) = s, Stored(r)
      PROVE  Num(r) <= LastNumber(s)
  BY <1>2, LastNumberType DEF Stored, Entry
<1>3. QED
  BY <1>1, <1>2

\* One session is shown.  A session that the answer leaves out, that was shown
\* before its last message was saved, or could not be read, is ahead of the
\* stamp.
LEMMA ItemStep ==
    ASSUME TypeInv, NumberInv, OriginInv, BelongsInv, SessionsOwned,
           NEW u \in Users, u \notin raced', Standing(u), Syncs(u),
           sync[u].state = "listed", ReadsItem(u)
    PROVE  Standing(u)'
<1>0. PICK x \in sync[u].todo : \E n \in {0, LastNumber(x[1])} : ItemRead(u, x, n)
  BY DEF ReadsItem
<1>1. PICK n \in {0, LastNumber(x[1])} : ItemRead(u, x, n)
  BY <1>0
<1>2. /\ Listed(u)
      /\ UNCHANGED <<clock, request, saves, store, hot, cursor, seen, pushed>>
  BY SyncMoves DEF redis, Listed
<1>3. /\ sync[u].stamp \in Nat /\ sync[u].todo \subseteq Sessions \X Nat
      /\ DOMAIN sync[u].last \subseteq Sessions
      /\ \A s \in DOMAIN sync[u].last : sync[u].last[s] \in Nat
  BY <1>2, ListingType
<1>4. x[1] \in Sessions /\ x[2] \in Nat
  BY <1>3
<1>5. LastNumber(x[1]) \in Nat /\ n \in Nat
  BY <1>4, LastNumberType
<1>6. /\ x[1] \notin DOMAIN sync[u].last
      /\ \A y \in sync[u].todo : x[1] = y[1] => x = y
  BY <1>2 DEF Standing, TodoOK
<1>7. /\ DOMAIN sync'[u].last = DOMAIN sync[u].last \cup {x[1]}
      /\ sync'[u].last[x[1]] = n
      /\ \A s \in DOMAIN sync[u].last : sync'[u].last[s] = sync[u].last[s]
  BY <1>1, <1>6 DEF ItemRead, LastAfter
<1>8. /\ sync'[u].stamp \in {sync[u].stamp, n}
      /\ sync'[u].todo \in {{}, sync[u].todo \ {x}}
      /\ sync'[u].todo # sync[u].todo \ {x} => sync'[u].stamp <= x[2]
      /\ \A s \in DOMAIN sync'[u].last : LastNumber(s) > sync'[u].last[s] => hot[u][s] > sync'[u].stamp
      /\ \A y \in sync[u].todo : x[2] <= y[2]
  BY <1>1 DEF ItemRead
<1>9. Listed(u)'
  BY <1>1 DEF ItemRead, IsListing, Listed
<1> DEFINE shown(s, k) == s \in DOMAIN sync'[u].last /\ k <= sync'[u].last[s]
<1>10. \A s, k : Shown(u, s, k) => shown(s, k)
  BY <1>6, <1>7 DEF Shown
\* the message the new stamp is the number of
<1>11. \/ sync'[u].stamp = 0
       \/ \E q \in Concerning(u) : /\ Num(q) = sync'[u].stamp
                                   /\ Num(q) <= seen[u][Session(q)] \/ shown(Session(q), Num(q))
  <2>1. CASE sync'[u].stamp = sync[u].stamp
    BY <1>2, <1>10, <2>1 DEF Standing, StampOK
  <2>2. CASE sync'[u].stamp = n /\ n # 0
    <3>1. PICK q \in Requests : Num(q) = n /\ Session(q) = x[1]
      BY <1>4, <2>2, LastStored
    <3>2. Concerns(u, x[1])
      BY <1>2, <1>4 DEF BelongsInv, Held, Left
    <3>3. q[1] \in Packs
      BY NumberTypes
    <3>4. q \in Concerning(u)
      BY <3>1, <3>2, <3>3 DEF Concerning, Concerns, SessionsOwned, Session
    <3>5. shown(Session(q), Num(q))
      BY <1>5, <1>7, <3>1
    <3>6. QED
      BY <2>2, <3>1, <3>4, <3>5
  <2>3. QED
    BY <1>8, <2>1, <2>2
<1>12. StampOK(u)'
  BY <1>2, <1>11 DEF StampOK, Shown, Concerning, Num, Session
<1>13. TodoOK(u)'
  <2>1. ASSUME NEW y \in sync'[u].todo
        PROVE  /\ y[2] <= clock
               /\ y[1] \notin DOMAIN sync'[u].last
               /\ \A z \in sync'[u].todo : y[1] = z[1] => y = z
               /\ \A q \in Concerning(u) : Num(q) <= y[2] => Num(q) <= hot[u][y[1]]
    <3>1. y \in sync[u].todo /\ y # x /\ sync'[u].todo \subseteq sync[u].todo
      BY <1>8
    <3>2. y[1] # x[1]
      BY <1>6, <3>1
    <3>3. QED
      BY <1>2, <1>7, <3>1, <3>2 DEF Standing, TodoOK
  <2>2. QED
    BY <1>2, <2>1 DEF TodoOK, Concerning, Num
<1>14. ASSUME NEW r \in Ours(u)
       PROVE  /\ r \in Requests /\ Session(r) \in Sessions /\ Num(r) \in Nat /\ Num(r) # 0
              /\ Num(r) <= hot[u][Session(r)] /\ hot[u][Session(r)] \in Nat
  <2>1. r \in Requests /\ To(r) = u /\ At(r, "done") /\ ~ request[r].cut
    BY DEF Ours
  <2>2. Num(r) # 0
    BY <2>1, NumberTypes DEF At
  <2>3. Num(r) <= hot[u][Session(r)]
    BY <2>1 DEF Standing, HotOK, At
  <2>4. QED
    BY <2>1, <2>2, <2>3, NumberTypes
<1>15. ASSUME NEW r \in Ours(u), Stored(r) \/ Entry(r, Num(r)) \in saves
       PROVE  \/ Has(u, r)
              \/ Session(r) \in DOMAIN sync'[u].last
              \/ \E y \in sync'[u].todo : y[1] = Session(r)
              \/ sync'[u].todo = {}
  BY <1>2, <1>7, <1>8, <1>15 DEF Standing, ListedOK, Left
<1>16. ASSUME NEW r \in Ours(u), Stored(r)
       PROVE  \/ Has(u, r)
              \/ shown(Session(r), Num(r))
              \/ \E y \in sync'[u].todo : y[1] = Session(r)
              \/ hot[u][Session(r)] > sync'[u].stamp
  <2>1. ASSUME NEW y \in sync[u].todo, y[1] = Session(r), y # x, sync'[u].todo # sync[u].todo \ {x}
        PROVE  Has(u, r) \/ shown(Session(r), Num(r)) \/ hot[u][Session(r)] > sync'[u].stamp
    <3>1. CASE sync'[u].stamp = 0
      BY <1>14, <3>1
    <3>2. ASSUME NEW q \in Concerning(u), Num(q) = sync'[u].stamp,
                 Num(q) <= seen[u][Session(q)] \/ shown(Session(q), Num(q))
          PROVE  Has(u, r) \/ shown(Session(r), Num(r)) \/ hot[u][Session(r)] > sync'[u].stamp
      <4>1. q \in Requests /\ Num(q) \in Nat /\ y[2] \in Nat
        BY <1>3, NumberTypes DEF Concerning
      <4>2. Num(q) <= y[2]
        BY <1>4, <1>8, <2>1, <3>2, <4>1
      <4>3. Num(q) <= hot[u][Session(r)]
        BY <1>2, <2>1, <4>2 DEF Standing, TodoOK
      <4>4. CASE Num(q) = hot[u][Session(r)]
        <5>1. Session(q) = Session(r)
          BY <1>14, <4>1, <4>4 DEF NumberInv
        <5>2. Num(r) <= Num(q)
          BY <1>14, <4>4
        <5>3. seen[u][Session(r)] \in Nat /\ \A s \in DOMAIN sync'[u].last : sync'[u].last[s] \in Nat
          BY <1>3, <1>5, <1>7, <1>14, NumberTypes
        <5>4. QED
          BY <1>14, <3>2, <4>1, <5>1, <5>2, <5>3 DEF Has
      <4>5. QED
        BY <1>14, <3>2, <4>1, <4>3, <4>4
    <3>3. QED
      BY <1>11, <3>1, <3>2
  <2>3. ASSUME Session(r) \in DOMAIN sync'[u].last, ~ shown(Session(r), Num(r))
        PROVE  hot[u][Session(r)] > sync'[u].stamp
    <3>1. Num(r) <= LastNumber(Session(r)) /\ LastNumber(Session(r)) \in Nat
      BY <1>14, <1>16, LastStored, LastNumberType
    <3>2. sync'[u].last[Session(r)] \in Nat /\ ~ Num(r) <= sync'[u].last[Session(r)]
      BY <1>3, <1>5, <1>7, <2>3
    <3>3. LastNumber(Session(r)) > sync'[u].last[Session(r)]
      BY <1>14, <3>1, <3>2
    <3>4. QED
      BY <1>8, <2>3, <3>3
  <2>4. \/ Has(u, r)
        \/ Session(r) \in DOMAIN sync[u].last
        \/ \E y \in sync[u].todo : y[1] = Session(r)
    BY <1>2, <1>16 DEF Standing, ListedOK, Left
  <2>5. QED
    <3> HIDE DEF shown
    <3>1. QED
      BY <1>7, <2>1, <2>3, <2>4
<1>17. ListedOK(u)'
  <2>1. Ours(u)' = Ours(u)
    BY <1>2 DEF Ours, To, At
  <2>2. \A r \in Ours(u) : /\ Stored(r)' <=> Stored(r)
                           /\ (Entry(r, Num(r)) \in saves)' <=> Entry(r, Num(r)) \in saves
                           /\ Has(u, r)' <=> Has(u, r)
                           /\ Shown(u, Session(r), Num(r))' <=> shown(Session(r), Num(r))
                           /\ Left(u, Session(r))' <=> \E y \in sync'[u].todo : y[1] = Session(r)
    BY <1>2 DEF Stored, Has, Shown, Left, Num, Session, Entry
  <2>3. QED
    <3> HIDE DEF shown
    <3>1. QED
      BY <1>2, <1>15, <1>16, <2>1, <2>2 DEF ListedOK, Session
<1>18. CursorOK(u)' /\ ToldOK(u)'
  BY <1>2 DEF Standing, CursorOK, ToldOK, Told, Ours, Stored, Concerning, Num, To, Session, Entry, At
<1>19. QED
  BY <1>2, <1>12, <1>13, <1>17, <1>18, OwnKeeps DEF Standing

LEMMA UserStep ==
    ASSUME TypeInv, TypeInv', NumberInv, NumberInv', OriginInv, BelongsInv, PresentInv, UserInv,
           ClocksAgree, SessionsOwned, [Next]_vars
    PROVE  UserInv'
<1> SUFFICES ASSUME NEW u \in Users, u \notin raced' PROVE Standing(u)'
  BY DEF UserInv, UserOK, Standing
<1>1. u \notin raced /\ Standing(u)
  BY RacedGrows DEF UserInv, UserOK, Standing
<1>2. CASE Syncs(u)
  BY <1>1, <1>2, SyncMoves, ListStep, ItemStep
<1>3. QED
  BY <1>1, <1>2, SyncFrame, OthersStep, ConnectionStep, AnswerStep DEF Waiting

MissInv ==
    ClocksAgree /\ SessionsOwned =>
        NumberInv /\ OriginInv /\ BelongsInv /\ PresentInv /\ UserInv

LEMMA MissInit == Init => MissInv
<1> SUFFICES ASSUME Init PROVE NumberInv /\ OriginInv /\ BelongsInv /\ PresentInv /\ UserInv
  BY DEF MissInv
<1>1. \A r \in Requests : Num(r) = 0 /\ At(r, "new")
  BY DEF Init, Num, At
<1>2. NumberInv
  BY <1>1 DEF Init, NumberInv, At
<1>3. OriginInv
  BY DEF Init, OriginInv
<1>4. \A u \in Users : ~ Listed(u) /\ sync[u].state = "none"
  BY DEF Init, Listed, NoSync
<1>5. BelongsInv /\ PresentInv
  BY <1>4 DEF Init, BelongsInv, Held, PresentInv
<1>6. ASSUME NEW u \in Users PROVE Standing(u)
  <2>1. LatestOK(u) /\ CursorOK(u)
    BY <1>1 DEF Init, LatestOK, CursorOK, Concerning
  <2>2. StampOK(u) /\ TodoOK(u) /\ ListedOK(u)
    BY <1>4 DEF StampOK, TodoOK, ListedOK
  <2>3. Ours(u) = {} /\ HotOK(u)
    BY <1>1 DEF Ours, HotOK, At
  <2>4. QED
    BY <2>1, <2>2, <2>3 DEF Standing, ToldOK
<1>7. QED
  BY <1>2, <1>3, <1>5, <1>6 DEF UserInv, UserOK, Standing

LEMMA MissStep ==
    ASSUME TypeInv, TypeInv', MissInv, [Next]_vars
    PROVE  MissInv'
<1> SUFFICES ASSUME ClocksAgree, SessionsOwned
             PROVE  (NumberInv /\ OriginInv /\ BelongsInv /\ PresentInv /\ UserInv)'
  BY DEF MissInv, ClocksAgree, SessionsOwned
<1>1. NumberInv /\ OriginInv /\ BelongsInv /\ PresentInv /\ UserInv
  BY DEF MissInv
<1>2. NumberInv'
  BY <1>1, NumberStep
<1>3. QED
  BY <1>1, <1>2, OriginStep, BelongsStep, PresentStep, UserStep

\* No stored and acknowledged message falls between the update of the session
\* and the search for the recipient's connection: where clocks agree and the
\* members of a session are the same whoever sends, a user whose messages are
\* handled one at a time has it, or his next synchronisation lists it.
THEOREM NothingMissedAlways == Spec => []NothingMissed
<1>1. TypeInv /\ MissInv => NothingMissed
  <2>1. SUFFICES ASSUME TypeInv, UserInv, NEW r \in Requests,
                        KindOf[r[1]] # "group", To(r) \notin raced, ~ request[r].cut, Delivered(r)
                 PROVE  Told(To(r), r)
    BY DEF MissInv, NothingMissed
  <2>2. To(r) \in Users
    BY <2>1, NumberTypes
  <2>3. r \in Ours(To(r)) /\ Stored(r)
    BY <2>1 DEF Ours, Stored, Delivered
  <2>4. QED
    BY <2>1, <2>2, <2>3 DEF UserInv, UserOK, ToldOK
<1>2. QED
  BY <1>1, TypeAlways, TypeStep, MissInit, MissStep, PTL DEF Spec

=============================================================================
