-------------------------- MODULE MsgControlProofs --------------------------
(***************************************************************************)
(* Theorems about MsgControl, for every set of users, messages and         *)
(* commands.  What the steps of the chat servers do is taken from          *)
(* ChatProofs.                                                             *)
(***************************************************************************)
EXTENDS MsgControl, ChatProofs

-----------------------------------------------------------------------------
(***************************************************************************)
(* Types, and what a command works on.                                     *)
(***************************************************************************)

Attempts(p) == {r \in Requests : r[1] = p /\ Num(r) # 0}

\* The number a command has; 0 while it has none.
Given(c) == IF control[c].stage \in {"new", "refused"} THEN 0 ELSE control[c].n

IsDelete(c) == CommandOf[c] = "delete"

\* The copy a command puts in the store is of its target, under a number no
\* higher than that of the last attempt at it, and no copy of what was sent.
CopyOK(c) ==
    Taken(c) =>
        /\ control[c].copy.pack = TargetOf[c]
        /\ Names(c) \in 1 .. clock
        /\ \E r \in Attempts(TargetOf[c]) : Names(c) <= Num(r)
        /\ IsDelete(c) \/ control[c].copy.revoked = TRUE \/ control[c].copy.text \in Commands
        /\ control[c].stage = "add" => ~ IsDelete(c)
GivenOK(c) ==
    /\ Given(c) <= clock
    /\ control[c].stage \in {"priority", "push"} => Given(c) # 0

\* What is stored is of a packet of the session, under the number of one of the
\* attempts at it or one that a command about it named.
MemberOK(s, m) ==
    /\ SessionOf[m.pack] = s
    /\ m.score # 0 /\ m.score \in Places(m.pack)
    /\ \E r \in Attempts(m.pack) : m.score <= Num(r)

ControlInv ==
    /\ TypeInv
    /\ ControlTypeOK
    /\ \A c \in Commands : CopyOK(c) /\ GivenOK(c)
    /\ \A s \in Sessions : \A m \in store[s] : MemberOK(s, m)
    /\ \A m \in saves : \E r \in Requests : m = Entry(r, Num(r)) /\ Num(r) # 0

With(c, stage) == [stage |-> stage, copy |-> control[c].copy, todo |-> control[c].todo,
                   at |-> control[c].at, n |-> control[c].n]
WorkStages == {"remove", "add", "number", "priority", "push", "done", "dead"}
OthersStay(c) == \A d \in Commands \ {c} : control'[d] = control[d]
Keeps(c) == Taken(c) => Taken(c)' /\ Names(c)' = Names(c)
ControlType == [Commands -> {Idle, Refused} \cup AtWork]

LEMMA ZAddMembers ==
    ASSUME NEW S \in SUBSET Entries, NEW x \in Entries
    PROVE  /\ x \in ZAdd(S, x)
           /\ \A m \in ZAdd(S, x) : m \in S \/ m = x
           /\ \A m \in S : \/ m \in ZAdd(S, x)
                           \/ /\ m.pack = x.pack /\ m.seqId = x.seqId
                              /\ m.revoked = x.revoked /\ m.text = x.text
<1>1. ASSUME NEW m \in S, [m EXCEPT !.score = x.score] = x
      PROVE  m.pack = x.pack /\ m.seqId = x.seqId /\ m.revoked = x.revoked /\ m.text = x.text
  <2>1. [m EXCEPT !.score = x.score] = [pack |-> m.pack, seqId |-> m.seqId, revoked |-> m.revoked,
                                       text |-> m.text, score |-> x.score]
    BY DEF Entries
  <2>2. QED
    BY <1>1, <2>1
<1>2. QED
  BY <1>1 DEF ZAdd

LEMMA WorkType ==
    ASSUME ControlTypeOK, NEW c \in Commands, control[c].stage \notin {"new", "refused"}
    PROVE  control[c] \in AtWork
BY DEF ControlTypeOK, Idle, Refused

LEMMA StageMoves ==
    ASSUME ControlTypeOK, NEW c \in Commands, control[c].stage \notin {"new", "refused"},
           NEW stage \in WorkStages, Moves(c, stage)
    PROVE  /\ control' \in ControlType
           /\ OthersStay(c)
           /\ control'[c] = With(c, stage)
<1>1. control[c] \in AtWork /\ control \in ControlType
  BY WorkType DEF ControlTypeOK, ControlType
<1>2. [control[c] EXCEPT !.stage = stage] = With(c, stage)
  BY <1>1 DEF AtWork, With
<1>3. With(c, stage) \in AtWork
  BY <1>1 DEF AtWork, With, WorkStages
<1>4. control' = [control EXCEPT ![c] = With(c, stage)]
  BY <1>1, <1>2 DEF Moves, ControlType
<1>5. QED
  BY <1>1, <1>3, <1>4 DEF ControlType, OthersStay

LEMMA RecordMoves ==
    ASSUME ControlTypeOK, NEW c \in Commands, NEW r \in {Idle, Refused} \cup AtWork, Becomes(c, r)
    PROVE  control' \in ControlType /\ OthersStay(c) /\ control'[c] = r
BY DEF ControlTypeOK, ControlType, Becomes, OthersStay

LEMMA FetchMoves ==
    ASSUME TypeInv, ControlTypeOK, NEW c \in Commands, Fetch(c)
    PROVE  /\ control' \in ControlType
           /\ OthersStay(c)
           /\ control'[c] \in AtWork
           /\ control'[c].stage = "remove" /\ control'[c].n = 0
           /\ \E m \in store[Store(c)] :
                 /\ m.pack = TargetOf[c] /\ m \in Entries
                 /\ control'[c].copy.pack = TargetOf[c]
                 /\ Names(c)' \in 1 .. clock /\ Names(c)' <= m.score
                 /\ control'[c].copy.revoked \in {m.revoked, TRUE}
                 /\ CommandOf[c] = "revoke" => control'[c].copy.revoked = TRUE
                 /\ IsDelete(c) \/ control'[c].copy.revoked = TRUE \/ control'[c].copy.text \in Commands
<1>1. PICK n \in 1 .. clock, m \in store[Store(c)] :
         /\ LastMatch(c, n, m)
         /\ Becomes(c, [stage |-> "remove", copy |-> [Edited(c, m) EXCEPT !.score = n],
                        todo |-> {}, at |-> {}, n |-> 0])
  BY DEF Fetch
<1>2. m.pack = TargetOf[c] /\ n <= m.score
  BY <1>1 DEF LastMatch, Matches, Page
<1>3. m \in Entries /\ n \in Nat
  BY NumberTypes, ChatAssumption, ControlAssumption DEF Store, TypeInv, TypeOK
<1>4. CommandOf[c] \in {"revoke", "override", "delete"}
  BY ControlAssumption DEF Fetch
<1>5. \/ Edited(c, m) = m /\ IsDelete(c)
      \/ Edited(c, m) = [m EXCEPT !.revoked = TRUE]
      \/ Edited(c, m) = [m EXCEPT !.text = c] /\ CommandOf[c] # "revoke"
  BY <1>4 DEF Edited, IsDelete
<1>6. /\ Edited(c, m) \in Entries /\ Edited(c, m).pack = m.pack
      /\ Edited(c, m).revoked \in {m.revoked, TRUE}
      /\ CommandOf[c] = "revoke" => Edited(c, m).revoked = TRUE
      /\ IsDelete(c) \/ Edited(c, m).revoked = TRUE \/ Edited(c, m).text \in Commands
  <2>1. CASE Edited(c, m) = m /\ IsDelete(c)
    BY <1>3, <2>1 DEF Entries, IsDelete
  <2>2. CASE Edited(c, m) = [m EXCEPT !.revoked = TRUE]
    BY <1>3, <2>2 DEF Entries
  <2>3. CASE Edited(c, m) = [m EXCEPT !.text = c] /\ CommandOf[c] # "revoke"
    BY <1>3, <2>3 DEF Entries
  <2>4. QED
    BY <1>5, <2>1, <2>2, <2>3
<1> DEFINE copy == [Edited(c, m) EXCEPT !.score = n]
<1>7. /\ copy \in Entries /\ copy.pack = m.pack /\ copy.score = n
      /\ copy.revoked = Edited(c, m).revoked /\ copy.text = Edited(c, m).text
  BY <1>3, <1>6 DEF Entries
<1> DEFINE work == [stage |-> "remove", copy |-> copy, todo |-> {}, at |-> {}, n |-> 0]
<1> HIDE DEF copy
<1>8. work \in AtWork
  BY <1>7 DEF AtWork
<1>9. Becomes(c, work)
  BY <1>1 DEF copy
<1>10. control' \in ControlType /\ OthersStay(c) /\ control'[c] = work
  BY <1>8, <1>9, RecordMoves
<1>11. control'[c] \in AtWork /\ control'[c].stage = "remove" /\ control'[c].n = 0
  BY <1>8, <1>10
<1>12. control'[c].copy = copy /\ Names(c)' = n
  BY <1>7, <1>10 DEF Names
<1>13. control'[c].copy.revoked = Edited(c, m).revoked /\ control'[c].copy.text = Edited(c, m).text
  BY <1>7, <1>12, Zenon
<1>14. control'[c].copy.pack = TargetOf[c]
  BY <1>2, <1>7, <1>12
<1>15. /\ control'[c].copy.revoked \in {m.revoked, TRUE}
       /\ CommandOf[c] = "revoke" => control'[c].copy.revoked = TRUE
       /\ IsDelete(c) \/ control'[c].copy.revoked = TRUE \/ control'[c].copy.text \in Commands
  BY <1>6, <1>13, Zenon
<1>16. Names(c)' \in 1 .. clock /\ Names(c)' <= m.score
  BY <1>2, <1>12
<1>17. QED
  BY <1>2, <1>3, <1>10, <1>11, <1>14, <1>15, <1>16, Zenon

LEMMA TurnMoves ==
    ASSUME ControlTypeOK, NEW c \in Commands, NEW u \in Users, Turn(c, u)
    PROVE  /\ control' \in ControlType
           /\ OthersStay(c)
           /\ In(c, "priority") /\ u \in control[c].todo
           /\ control'[c] = [stage |-> "push", copy |-> control[c].copy, todo |-> control[c].todo \ {u},
                             at |-> {u}, n |-> control[c].n]
<1>1. control[c] \in AtWork
  BY WorkType DEF Turn, In
<1> DEFINE work == [stage |-> "push", copy |-> control[c].copy, todo |-> control[c].todo \ {u},
                    at |-> {u}, n |-> control[c].n]
<1>2. [control[c] EXCEPT !.stage = "push", !.todo = @ \ {u}, !.at = {u}] = work
  <2>1. [control[c] EXCEPT !.stage = "push"] = With(c, "push")
    BY <1>1 DEF AtWork, With
  <2>2. [With(c, "push") EXCEPT !.todo = control[c].todo \ {u}]
           = [stage |-> "push", copy |-> control[c].copy, todo |-> control[c].todo \ {u},
              at |-> control[c].at, n |-> control[c].n]
    BY DEF With
  <2>3. [[stage |-> "push", copy |-> control[c].copy, todo |-> control[c].todo \ {u},
          at |-> control[c].at, n |-> control[c].n] EXCEPT !.at = {u}] = work
    OBVIOUS
  <2>4. QED
    BY <2>1, <2>2, <2>3
<1>3. work \in AtWork
  BY <1>1 DEF AtWork
<1>4. Becomes(c, work)
  BY <1>2 DEF Turn
<1>5. QED
  BY <1>3, <1>4, RecordMoves DEF Turn

LEMMA NumberCommandMoves ==
    ASSUME TypeInv, ControlTypeOK, NEW c \in Commands, NumberCommand(c)
    PROVE  /\ control' \in ControlType
           /\ OthersStay(c)
           /\ \E n \in GenSeqId :
                 /\ Passes(n) /\ n \in Nat /\ n # 0 /\ n <= clock' /\ clock' \in Nat /\ clock <= clock'
                 /\ LET users == MembersOf[ToOf[TargetOf[c]]]
                    IN  control'[c] = [stage |-> IF users = {} THEN "done" ELSE "priority",
                                       copy |-> control[c].copy, todo |-> users,
                                       at |-> control[c].at, n |-> n]
<1>1. control[c] \in AtWork
  BY WorkType DEF NumberCommand, In
<1> DEFINE users == MembersOf[ToOf[TargetOf[c]]]
           stage == IF users = {} THEN "done" ELSE "priority"
<1>2. PICK n \in GenSeqId :
         Passes(n) /\ Becomes(c, [control[c] EXCEPT !.stage = stage, !.n = n, !.todo = users])
  BY DEF NumberCommand
<1>3. n \in Nat /\ n # 0 /\ n <= clock' /\ clock' \in Nat /\ clock <= clock'
  BY <1>2, ClockPasses, NumberTypes
<1>4. users \in SUBSET Users
  BY ChatAssumption, ControlAssumption
<1> HIDE DEF users, stage
<1> DEFINE work == [stage |-> stage, copy |-> control[c].copy, todo |-> users,
                    at |-> control[c].at, n |-> n]
<1>5. [control[c] EXCEPT !.stage = stage, !.n = n, !.todo = users] = work
  <2>1. [control[c] EXCEPT !.stage = stage] = With(c, stage)
    BY <1>1 DEF AtWork, With
  <2>2. [With(c, stage) EXCEPT !.n = n]
           = [stage |-> stage, copy |-> control[c].copy, todo |-> control[c].todo,
              at |-> control[c].at, n |-> n]
    BY DEF With
  <2>3. [[stage |-> stage, copy |-> control[c].copy, todo |-> control[c].todo,
          at |-> control[c].at, n |-> n] EXCEPT !.todo = users] = work
    OBVIOUS
  <2>4. QED
    BY <2>1, <2>2, <2>3
<1>6. stage \in WorkStages
  BY DEF stage, WorkStages
<1>7. work \in AtWork
  BY <1>1, <1>3, <1>4, <1>6 DEF AtWork, WorkStages
<1>8. control' \in ControlType /\ OthersStay(c) /\ control'[c] = work
  BY <1>2, <1>5, <1>7, RecordMoves
<1>9. QED
  BY <1>2, <1>3, <1>8 DEF stage, users

-----------------------------------------------------------------------------
(***************************************************************************)
(* The type invariant.                                                     *)
(***************************************************************************)

\* What no step of a command changes.
Beside == <<request, saves, hot, unread, online, cursor, seen, sync, prior, reading, readMark, raced>>

LEMMA Settled ==
    ASSUME TypeInv, UNCHANGED Beside, clock' \in Nat, clock <= clock',
           store' \in [Sessions -> SUBSET Entries],
           \A s \in Sessions : \A m \in store'[s] : m.score <= clock',
           high' \in [Users -> SUBSET ((Packs \cup Commands) \X Nat)],
           \A u \in Users : \A x \in high'[u] : x[2] \in 1 .. clock',
           pushed' \subseteq Users \X (Packs \cup Commands) \X Nat,
           used' \in UsedType
    PROVE  TypeInv'
<1>1. clock \in Nat /\ request \in [Requests -> [stage : Stages, n : Nat, cut : BOOLEAN]]
  BY NumberTypes
<1>2. TypeOK'
  BY DEF TypeInv, TypeOK, Beside, UsedType
<1>3. RequestsOK'
  BY <1>1 DEF TypeInv, RequestsOK, Num, Beside
<1>4. StoredOK'
  <2>1. \A m \in saves : m.score \in Nat /\ m.score <= clock
    BY DEF TypeInv, TypeOK, StoredOK, Entries
  <2>2. QED
    BY <1>1, <2>1 DEF StoredOK, Beside
<1>5. PriorityOK'
  <2>1. \A u \in Users : prior[u].latest \in Nat /\ prior[u].latest <= clock
    BY DEF TypeInv, TypeOK, PriorityOK
  <2>2. QED
    BY <1>1, <2>1 DEF PriorityOK, Beside
<1>6. QED
  BY <1>2, <1>3, <1>4, <1>5 DEF TypeInv

LEMMA ControlCases ==
    ASSUME [ControlNext]_controlVars
    PROVE  \/ [Next]_vars /\ UNCHANGED <<control, crossed>>
           \/ ControlStep /\ UNCHANGED Beside
<1>1. ASSUME NEW c \in Commands,
             \/ RefuseCommand(c) \/ Fetch(c) \/ Remove(c) \/ Add(c)
             \/ NumberCommand(c) \/ Push(c) \/ CommandFails(c) \/ CommandDies(c)
             \/ \E u \in Users : Priority(c, u)
      PROVE  UNCHANGED Beside
  BY <1>1 DEF RefuseCommand, Fetch, Remove, Add, NumberCommand, Push, CommandFails,
              CommandDies, Priority, vars, redis, clients, Beside
<1>2. QED
  BY <1>1 DEF ControlNext, ControlStep, controlVars

\* A number, once given to an attempt, stays with it.
LEMMA AttemptsStay ==
    ASSUME TypeInv, [ControlNext]_controlVars, NEW r \in Requests, Num(r) # 0
    PROVE  Num(r)' = Num(r)
<1>1. CASE [Next]_vars
  BY <1>1, SentKeeps
<1>2. CASE UNCHANGED Beside
  BY <1>2 DEF Beside, Num
<1>3. QED
  BY <1>1, <1>2, ControlCases

LEMMA NumberSaves ==
    ASSUME TypeInv, NEW r \in Requests, Number(r)
    PROVE  saves' = saves \cup {Entry(r, Num(r)')} /\ Num(r)' # 0 /\ Num(r) = 0
<1>1. PICK n \in GenSeqId :
         /\ Passes(n)
         /\ request' = [request EXCEPT ![r].stage = Following(r[1], "new"), ![r].n = n]
         /\ saves' = saves \cup {Entry(r, n)}
  BY DEF Number
<1>2. n \in Nat /\ n # 0
  BY <1>1, ClockPasses, NumberTypes
<1>3. Following(r[1], "new") \in Stages
  BY DEF Following, Stages
<1>4. request'[r] = [stage |-> Following(r[1], "new"), n |-> n, cut |-> request[r].cut]
  BY <1>1, <1>2, <1>3, NumberMoves, NumberTypes, ZenonT(60)
<1>5. Num(r)' = n
  BY <1>4 DEF Num
<1>6. Num(r) = 0
  BY NumberTypes DEF Number, MayStart, At
<1>7. QED
  BY <1>1, <1>2, <1>5, <1>6

LEMMA SavesOrigin ==
    ASSUME TypeInv, [Next]_vars,
           \A m \in saves : \E r \in Requests : m = Entry(r, Num(r)) /\ Num(r) # 0
    PROVE  \A m \in saves' : \E r \in Requests : m = Entry(r, Num(r)') /\ Num(r)' # 0
<1>1. ASSUME NEW m \in saves PROVE \E r \in Requests : m = Entry(r, Num(r)') /\ Num(r)' # 0
  BY SentKeeps
<1>2. ASSUME NEW r \in Requests, Number(r)
      PROVE  \A m \in saves' : m \in saves \/ (m = Entry(r, Num(r)') /\ Num(r)' # 0)
  BY <1>2, NumberSaves
<1>3. \/ saves' \subseteq saves
      \/ \E r \in Requests : Number(r)
  BY DEF vars, Next, ServerStep, ClientStep, Refuse, SavePriority, HotTo, HotFrom, Unread,
         WriteFails, Dies, Dispatch, Save, SaveFails, Connect, Drop, SyncList, SyncItem, SyncFails, SyncAnswer,
         AskPriority, PullPriority, PullFails, MarkRead, TouchSession, ReadFails
<1>4. QED
  BY <1>1, <1>2, <1>3

LEMMA ChatStores ==
    ASSUME TypeInv, [Next]_vars
    PROVE  store' = store \/ \E m \in saves : Save(m)
BY ZenonT(60) DEF vars, redis, Next, ServerStep, ClientStep, Refuse, Number, SavePriority, HotTo, HotFrom, Unread,
       WriteFails, Dies, Dispatch, SaveFails, Connect, Drop, SyncList, SyncItem, SyncFails, SyncAnswer,
       AskPriority, PullPriority, PullFails, MarkRead, TouchSession, ReadFails

\* The store after a save, and after the addition of a copy.
LEMMA Added ==
    ASSUME TypeInv, NEW x \in Entries, NEW z \in Sessions, store' = [store EXCEPT ![z] = ZAdd(@, x)]
    PROVE  /\ store' \in [Sessions -> SUBSET Entries]
           /\ x \in store'[z]
           /\ \A s \in Sessions : \A m \in store'[s] : m \in store[s] \/ (s = z /\ m = x)
           /\ \A s \in Sessions : \A m \in store[s] :
                 \/ m \in store'[s]
                 \/ /\ s = z /\ m.pack = x.pack /\ m.seqId = x.seqId
                    /\ m.revoked = x.revoked /\ m.text = x.text
<1>1. store \in [Sessions -> SUBSET Entries]
  BY DEF TypeInv, TypeOK
<1>2. store'[z] = ZAdd(store[z], x) /\ \A s \in Sessions \ {z} : store'[s] = store[s]
  BY <1>1
<1>3. /\ x \in ZAdd(store[z], x)
      /\ \A m \in ZAdd(store[z], x) : m \in store[z] \/ m = x
      /\ \A m \in store[z] : \/ m \in ZAdd(store[z], x)
                             \/ /\ m.pack = x.pack /\ m.seqId = x.seqId
                                /\ m.revoked = x.revoked /\ m.text = x.text
  <2>1. store[z] \in SUBSET Entries
    BY <1>1
  <2>2. QED
    BY <2>1, ZAddMembers
<1>4. ZAdd(store[z], x) \in SUBSET Entries
  BY <1>1, <1>3
<1>5. QED
  BY <1>1, <1>2, <1>3, <1>4

LEMMA Removed ==
    ASSUME TypeInv, ControlInv, NEW c \in Commands, Remove(c)
    PROVE  /\ store' \in [Sessions -> SUBSET Entries]
           /\ \A s \in Sessions : store'[s] \subseteq store[s]
           /\ \A s \in Sessions : \A m \in store[s] :
                 m \in store'[s] \/ (s = Store(c) /\ m.score = Names(c))
           /\ \A m \in store'[Store(c)] : m.score # Names(c)
           /\ OthersStay(c) /\ control' \in ControlType
           /\ In(c, "remove") /\ Taken(c)
           /\ control'[c] = With(c, IF CommandOf[c] = "delete" THEN "number" ELSE "add")
<1>1. store \in [Sessions -> SUBSET Entries] /\ Store(c) \in Sessions
  BY ChatAssumption, ControlAssumption DEF TypeInv, TypeOK, Store
<1>2. store' = [store EXCEPT ![Store(c)] = {m \in store[Store(c)] : m.score # Names(c)}]
  BY DEF Remove, Names
<1> DEFINE stage == IF CommandOf[c] = "delete" THEN "number" ELSE "add"
<1>3. In(c, "remove") /\ Moves(c, stage) /\ stage \in WorkStages
  BY DEF Remove, WorkStages
<1> HIDE DEF stage
<1>4. OthersStay(c) /\ control' \in ControlType /\ control'[c] = With(c, stage)
  BY <1>3, StageMoves DEF In, ControlInv
<1>5. QED
  BY <1>1, <1>2, <1>3, <1>4 DEF stage, In, Taken

\* Where a packet may be stored, it stays so.
LEMMA PlacesStay ==
    ASSUME \A r \in Requests : Num(r) # 0 => Num(r)' = Num(r),
           \A c \in Commands : Keeps(c),
           NEW p, NEW n \in Places(p), n # 0
    PROVE  n \in Places(p)'
<1>1. CASE \E r \in Requests : r[1] = p /\ n = Num(r)
  BY <1>1 DEF Places
<1>2. CASE \E c \in Commands : TargetOf[c] = p /\ Taken(c) /\ CommandOf[c] # "delete" /\ n = Names(c)
  BY <1>2 DEF Places, Keeps
<1>3. QED
  BY <1>1, <1>2 DEF Places

LEMMA MemberStays ==
    ASSUME \A r \in Requests : Num(r) # 0 => Num(r)' = Num(r),
           \A c \in Commands : Keeps(c),
           NEW s, NEW m, MemberOK(s, m)
    PROVE  MemberOK(s, m)'
<1>1. m.score # 0 /\ m.score \in Places(m.pack) /\ SessionOf[m.pack] = s
  BY DEF MemberOK
<1>2. m.score \in Places(m.pack)'
  BY <1>1, PlacesStay
<1>3. PICK r \in Attempts(m.pack) : m.score <= Num(r)
  BY DEF MemberOK
<1>4. r \in Attempts(m.pack)' /\ m.score <= Num(r)'
  BY <1>3 DEF Attempts
<1>5. QED
  BY <1>1, <1>2, <1>4 DEF MemberOK

\* A command keeps its copy once it has one.
LEMMA SameCopy ==
    ASSUME NEW c \in Commands, Taken(c), CopyOK(c), Taken(c)', control'[c].copy = control[c].copy,
           control'[c].stage = "add" => ~ IsDelete(c),
           clock \in Nat, clock' \in Nat, clock <= clock',
           \A r \in Requests : Num(r) # 0 => Num(r)' = Num(r)
    PROVE  CopyOK(c)' /\ Keeps(c)
<1>1. Names(c)' = Names(c)
  BY DEF Names
<1>2. PICK r \in Attempts(TargetOf[c]) : Names(c) <= Num(r)
  BY DEF CopyOK
<1>3. r \in Attempts(TargetOf[c])' /\ Names(c)' <= Num(r)'
  BY <1>1, <1>2 DEF Attempts
<1>4. Names(c)' \in 1 .. clock'
  BY <1>1 DEF CopyOK
<1>5. /\ control'[c].copy.pack = TargetOf[c]
      /\ IsDelete(c) \/ control'[c].copy.revoked = TRUE \/ control'[c].copy.text \in Commands
  BY DEF CopyOK
<1>6. CopyOK(c)'
  BY <1>3, <1>4, <1>5 DEF CopyOK, IsDelete
<1>7. QED
  BY <1>1, <1>6 DEF Keeps

LEMMA Kept ==
    ASSUME ControlInv, TypeInv', UNCHANGED Beside, clock <= clock', clock' \in Nat,
           NEW c \in Commands, control' \in ControlType, OthersStay(c), crossed' \subseteq Commands,
           CopyOK(c)', GivenOK(c)', Keeps(c),
           \A s \in Sessions : \A m \in store'[s] : m \in store[s] \/ MemberOK(s, m)
    PROVE  ControlInv'
<1>1. request' = request /\ saves' = saves /\ (\A r \in Requests : Num(r)' = Num(r)) /\ clock \in Nat
  BY NumberTypes DEF Beside, Num, ControlInv
<1>2. \A d \in Commands : Keeps(d)
  BY DEF OthersStay, Keeps, Taken, Names
<1>3. ControlTypeOK'
  BY DEF ControlTypeOK, TypeInv, ControlType
<1>4. ASSUME NEW d \in Commands \ {c} PROVE CopyOK(d)' /\ GivenOK(d)'
  <2>1. control'[d] = control[d] /\ CopyOK(d) /\ GivenOK(d)
    BY DEF OthersStay, ControlInv
  <2>2. CopyOK(d)'
    <3>1. CASE ~ Taken(d)
      BY <2>1, <3>1 DEF CopyOK, Taken
    <3>2. CASE Taken(d)
      <4>1. Taken(d)' /\ (control'[d].stage = "add" => ~ IsDelete(d))
        BY <2>1, <3>2 DEF CopyOK, Taken
      <4>2. QED
        BY <1>1, <2>1, <3>2, <4>1, SameCopy
    <3>3. QED
      BY <3>1, <3>2
  <2>3. Given(d) \in Nat /\ Given(d)' = Given(d)
    <3>1. control[d].stage \notin {"new", "refused"} => control[d].n \in Nat
      BY WorkType DEF ControlInv, AtWork
    <3>2. QED
      BY <2>1, <3>1 DEF Given
  <2>4. GivenOK(d)'
    BY <1>1, <2>1, <2>3 DEF GivenOK
  <2>5. QED
    BY <2>2, <2>4
<1>5. ASSUME NEW s \in Sessions, NEW m \in store'[s] PROVE MemberOK(s, m)'
  <2>1. MemberOK(s, m)
    BY DEF ControlInv
  <2>2. QED
    BY <1>1, <1>2, <2>1, MemberStays
<1>6. \A m \in saves' : \E r \in Requests : m = Entry(r, Num(r)') /\ Num(r)' # 0
  BY <1>1 DEF ControlInv
<1>7. QED
  BY <1>3, <1>4, <1>5, <1>6 DEF ControlInv, Entry

LEMMA CommandType ==
    ASSUME ControlInv, UNCHANGED Beside, NEW c \in Commands,
           \/ RefuseCommand(c) \/ Fetch(c) \/ Remove(c) \/ Add(c)
           \/ NumberCommand(c) \/ Push(c) \/ CommandFails(c) \/ CommandDies(c)
           \/ \E u \in Users : Priority(c, u)
    PROVE  ControlInv'
<1>0. /\ TypeInv /\ ControlTypeOK /\ clock \in Nat /\ crossed \subseteq Commands
      /\ CopyOK(c) /\ GivenOK(c)
      /\ store \in [Sessions -> SUBSET Entries]
      /\ high \in [Users -> SUBSET ((Packs \cup Commands) \X Nat)]
      /\ pushed \subseteq Users \X (Packs \cup Commands) \X Nat
      /\ used \in UsedType
  BY DEF ControlInv, ControlTypeOK, TypeInv, TypeOK, UsedType
<1>1. /\ \A s \in Sessions : \A m \in store[s] : m.score <= clock
      /\ \A u \in Users : \A x \in high[u] : x[2] \in 1 .. clock
  BY <1>0 DEF TypeInv, StoredOK, PriorityOK
<1>2. \A r \in Requests : Num(r)' = Num(r) /\ Num(r) <= clock
  BY <1>0, NumberTypes DEF Beside, Num
<1>3. \A p : Attempts(p)' = Attempts(p)
  BY <1>2 DEF Attempts
\* the types when neither store nor messages change
<1>4. ASSUME UNCHANGED <<clock, store, high, pushed>>, used' \in UsedType PROVE TypeInv'
  BY <1>0, <1>1, <1>4, Settled
\* the command when it only moves to another stage
<1>5. ASSUME NEW stage \in WorkStages, Moves(c, stage), control[c].stage \notin {"new", "refused"},
             clock' = clock,
             stage = "add" => ~ IsDelete(c),
             stage \in {"priority", "push"} => control[c].stage \in {"priority", "push"}
      PROVE  control' \in ControlType /\ OthersStay(c) /\ CopyOK(c)' /\ GivenOK(c)' /\ Keeps(c)
  <2>1. control' \in ControlType /\ OthersStay(c) /\ control'[c] = With(c, stage)
    BY <1>0, <1>5, StageMoves
  <2>2. /\ control'[c].stage = stage /\ control'[c].copy = control[c].copy /\ control'[c].n = control[c].n
    BY <2>1 DEF With
  <2>3. CopyOK(c)' /\ Keeps(c)
    <3>1. Taken(c) /\ Taken(c)'
      BY <1>5, <2>2 DEF Taken, WorkStages
    <3>2. QED
      BY <1>0, <1>2, <1>5, <2>2, <3>1, SameCopy
  <2>4. GivenOK(c)'
    BY <1>0, <1>5, <2>2 DEF GivenOK, Given, WorkStages
  <2>5. QED
    BY <2>1, <2>3, <2>4
\* the command when it is refused
<1>5a. ASSUME In(c, "new"), Becomes(c, Refused), clock' = clock
       PROVE  control' \in ControlType /\ OthersStay(c) /\ CopyOK(c)' /\ GivenOK(c)' /\ Keeps(c)
  <2>1. control' \in ControlType /\ OthersStay(c) /\ control'[c] = Refused
    BY <1>0, <1>5a, RecordMoves
  <2>2. QED
    BY <1>0, <1>5a, <2>1 DEF In, CopyOK, GivenOK, Given, Refused, Taken, Keeps
<1>6. ASSUME RefuseCommand(c) PROVE ControlInv'
  <2>1. In(c, "new") /\ Becomes(c, Refused) /\ UNCHANGED <<vars, crossed>>
    BY <1>6 DEF RefuseCommand
  <2>2. control' \in ControlType /\ OthersStay(c) /\ CopyOK(c)' /\ GivenOK(c)' /\ Keeps(c)
    BY <1>5a, <2>1 DEF vars
  <2>4. TypeInv' /\ clock' = clock /\ store' = store
    BY <1>0, <1>4, <2>1 DEF vars, redis, clients
  <2>5. QED
    BY <1>0, <2>1, <2>2, <2>4, Kept
<1>7. ASSUME Fetch(c) PROVE ControlInv'
  <2>1. /\ control' \in ControlType /\ OthersStay(c)
        /\ control'[c].stage = "remove" /\ control'[c].n = 0
    BY <1>0, <1>7, FetchMoves
  <2>2. PICK m \in store[Store(c)] :
           /\ m.pack = TargetOf[c] /\ m \in Entries
           /\ control'[c].copy.pack = TargetOf[c]
           /\ Names(c)' \in 1 .. clock /\ Names(c)' <= m.score
           /\ IsDelete(c) \/ control'[c].copy.revoked = TRUE \/ control'[c].copy.text \in Commands
    BY <1>0, <1>7, FetchMoves
  <2>3. TypeInv' /\ clock' = clock /\ store' = store
    BY <1>0, <1>4, <1>7 DEF Fetch, vars, redis, clients
  <2>4. CopyOK(c)'
    <3>1. MemberOK(Store(c), m) /\ m.score \in Nat
      BY <2>2, ChatAssumption, ControlAssumption DEF ControlInv, Store, Entries
    <3>2. PICK r \in Attempts(TargetOf[c]) : m.score <= Num(r)
      BY <2>2, <3>1 DEF MemberOK
    <3>3. r \in Attempts(TargetOf[c])' /\ Names(c)' <= Num(r)'
      BY <1>0, <1>2, <1>3, <2>2, <3>1, <3>2, NumberTypes DEF Attempts
    <3>4. Names(c)' \in 1 .. clock' /\ control'[c].stage # "add"
      BY <2>1, <2>2, <2>3
    <3>5. QED
      BY <2>2, <3>3, <3>4 DEF CopyOK, IsDelete
  <2>5. GivenOK(c)' /\ Keeps(c)
    BY <1>0, <1>7, <2>1, <2>3 DEF GivenOK, Given, Fetch, In, Keeps, Taken
  <2>6. crossed' \subseteq Commands
    BY <1>0, <1>7 DEF Fetch
  <2>7. QED
    BY <1>0, <2>1, <2>3, <2>4, <2>5, <2>6, Kept
<1>8. ASSUME Remove(c) PROVE ControlInv'
  <2>1. /\ store' \in [Sessions -> SUBSET Entries]
        /\ \A s \in Sessions : store'[s] \subseteq store[s]
    BY <1>0, <1>8, Removed
  <2>2. UNCHANGED <<clock, high, pushed, used, crossed>>
    BY <1>8 DEF Remove, clients
  <2>3. TypeInv'
    <3>1. \A s \in Sessions : \A m \in store'[s] : m.score <= clock'
      BY <1>1, <2>1, <2>2
    <3>2. QED
      BY <1>0, <1>1, <2>1, <2>2, <3>1, Settled
  <2>4. control' \in ControlType /\ OthersStay(c) /\ CopyOK(c)' /\ GivenOK(c)' /\ Keeps(c)
    BY <1>5, <1>8, <2>2 DEF Remove, In, WorkStages, IsDelete
  <2>5. QED
    BY <1>0, <2>1, <2>2, <2>3, <2>4, Kept
<1>9. ASSUME Add(c) PROVE ControlInv'
  <2>1. control[c].stage = "add" /\ control[c] \in AtWork
    BY <1>0, <1>9, WorkType DEF Add, In
  <2>2. control[c].copy \in Entries /\ Store(c) \in Sessions
    BY <2>1, ChatAssumption, ControlAssumption DEF AtWork, Store
  <2>3. store' = [store EXCEPT ![Store(c)] = ZAdd(@, control[c].copy)]
    BY <1>9 DEF Add
  <2>4. /\ store' \in [Sessions -> SUBSET Entries]
        /\ \A s \in Sessions : \A m \in store'[s] :
              m \in store[s] \/ (s = Store(c) /\ m = control[c].copy)
    BY <1>0, <2>2, <2>3, Added
  <2>5. UNCHANGED <<clock, high, pushed, used, crossed>>
    BY <1>9 DEF Add, clients
  <2>6. /\ Taken(c) /\ ~ IsDelete(c) /\ control[c].copy.pack = TargetOf[c]
        /\ Names(c) \in 1 .. clock /\ \E r \in Attempts(TargetOf[c]) : Names(c) <= Num(r)
    BY <1>0, <2>1 DEF CopyOK, Taken
  <2>7. control[c].copy.score <= clock
    BY <1>0, <2>6 DEF Names
  <2>8. TypeInv'
    <3>1. \A s \in Sessions : \A m \in store'[s] : m.score <= clock'
      BY <1>1, <2>4, <2>5, <2>7
    <3>2. QED
      BY <1>0, <1>1, <2>4, <2>5, <3>1, Settled
  <2>9. control' \in ControlType /\ OthersStay(c) /\ CopyOK(c)' /\ GivenOK(c)' /\ Keeps(c)
    BY <1>5, <1>9, <2>1, <2>5 DEF Add, WorkStages
  <2>10. ASSUME NEW s \in Sessions, NEW m \in store'[s] PROVE m \in store[s] \/ MemberOK(s, m)
    <3>1. CASE m \in store[s]
      BY <3>1
    <3>2. CASE s = Store(c) /\ m = control[c].copy
      <4>1. Names(c) \in Places(TargetOf[c]) /\ m.score = Names(c) /\ m.score # 0
        BY <2>6, <3>2 DEF Places, IsDelete, Names
      <4>2. QED
        BY <2>6, <3>2, <4>1 DEF MemberOK, Store
    <3>3. QED
      BY <2>4, <3>1, <3>2
  <2>11. QED
    BY <1>0, <2>5, <2>8, <2>9, <2>10, Kept
<1>10. ASSUME NumberCommand(c) PROVE ControlInv'
  <2>1. PICK n \in GenSeqId :
           /\ n \in Nat /\ n # 0 /\ n <= clock' /\ clock' \in Nat /\ clock <= clock'
           /\ control'[c] = [stage |-> IF MembersOf[ToOf[TargetOf[c]]] = {} THEN "done" ELSE "priority",
                             copy |-> control[c].copy, todo |-> MembersOf[ToOf[TargetOf[c]]],
                             at |-> control[c].at, n |-> n]
    BY <1>0, <1>10, NumberCommandMoves
  <2>2. control' \in ControlType /\ OthersStay(c)
    BY <1>0, <1>10, NumberCommandMoves
  <2>3. UNCHANGED <<store, high, pushed, used, crossed>>
    BY <1>10 DEF NumberCommand, redis, clients
  <2>4. TypeInv'
    <3>1. \A s \in Sessions : \A m \in store[s] : m.score \in Nat
      BY <1>0 DEF Entries
    <3>2. \A s \in Sessions : \A m \in store'[s] : m.score <= clock'
      BY <1>0, <1>1, <2>1, <2>3, <3>1
    <3>3. \A u \in Users : \A x \in high'[u] : x[2] \in 1 .. clock'
      BY <1>0, <1>1, <2>1, <2>3
    <3>4. QED
      BY <1>0, <2>1, <2>3, <3>2, <3>3, Settled
  <2>5. /\ control'[c].stage \in {"done", "priority"} /\ control'[c].n = n
        /\ control'[c].copy = control[c].copy
    BY <2>1
  <2>6. CopyOK(c)' /\ GivenOK(c)' /\ Keeps(c)
    <3>1. Taken(c) /\ Taken(c)'
      BY <1>10, <2>5 DEF NumberCommand, In, Taken
    <3>2. CopyOK(c)' /\ Keeps(c)
      BY <1>0, <1>2, <2>1, <2>5, <3>1, SameCopy
    <3>3. QED
      BY <2>1, <2>5, <3>2 DEF GivenOK, Given
  <2>7. QED
    BY <1>0, <2>1, <2>2, <2>3, <2>4, <2>6, Kept
<1>11. ASSUME Push(c) PROVE ControlInv'
  <2>1. control[c] \in AtWork /\ control[c].stage = "push"
    BY <1>0, <1>11, WorkType DEF Push, In
  <2>2. UNCHANGED <<clock, store, high, used, crossed>>
    BY <1>11 DEF Push, redis
  <2>3. pushed' \subseteq Users \X (Packs \cup Commands) \X Nat
    BY <1>0, <1>11, <2>1 DEF Push, AtWork
  <2>4. TypeInv'
    BY <1>0, <1>1, <2>2, <2>3, Settled
  <2>5. control' \in ControlType /\ OthersStay(c) /\ CopyOK(c)' /\ GivenOK(c)' /\ Keeps(c)
    BY <1>5, <1>11, <2>1, <2>2 DEF Push, WorkStages
  <2>6. QED
    BY <1>0, <2>2, <2>4, <2>5, Kept
<1>12. ASSUME NEW u \in Users, Turn(c, u), clock' = clock
       PROVE  /\ control' \in ControlType /\ OthersStay(c) /\ CopyOK(c)' /\ GivenOK(c)' /\ Keeps(c)
              /\ Given(c) \in 1 .. clock /\ Given(c) = control[c].n
  <2>1. /\ control' \in ControlType /\ OthersStay(c) /\ In(c, "priority")
        /\ control'[c] = [stage |-> "push", copy |-> control[c].copy, todo |-> control[c].todo \ {u},
                          at |-> {u}, n |-> control[c].n]
    BY <1>0, <1>12, TurnMoves
  <2>2. control[c].stage = "priority" /\ control'[c].stage = "push" /\ control'[c].n = control[c].n
    BY <2>1 DEF In
  <2>3. control[c].n \in Nat /\ Given(c) = control[c].n
    BY <1>0, <2>2, WorkType DEF AtWork, Given
  <2>4. CopyOK(c)' /\ Keeps(c)
    <3>1. Taken(c) /\ Taken(c)' /\ control'[c].copy = control[c].copy
      BY <2>1, <2>2 DEF Taken
    <3>2. QED
      BY <1>0, <1>2, <1>12, <2>2, <3>1, SameCopy
  <2>5. QED
    BY <1>0, <1>12, <2>1, <2>2, <2>3, <2>4 DEF GivenOK, Given
<1>13. ASSUME NEW u \in Users, Priority(c, u) PROVE ControlInv'
  <2>1. /\ Turn(c, u) /\ UNCHANGED <<clock, store, pushed, used, crossed>>
        /\ high' = [high EXCEPT ![u] = @ \cup {<<c, control[c].n>>}]
    BY <1>13 DEF Priority, clients
  <2>2. control[c].n \in 1 .. clock
    BY <1>0, <1>12, <2>1
  <2>3. /\ high' \in [Users -> SUBSET ((Packs \cup Commands) \X Nat)]
        /\ \A v \in Users : \A x \in high'[v] : x \in high[v] \/ x = <<c, control[c].n>>
    BY <1>0, <2>1, <2>2
  <2>4. \A v \in Users : \A x \in high'[v] : x[2] \in 1 .. clock'
    BY <1>1, <2>1, <2>2, <2>3
  <2>5. TypeInv'
    BY <1>0, <1>1, <2>1, <2>3, <2>4, Settled
  <2>6. QED
    BY <1>0, <1>12, <2>1, <2>5, Kept
<1>14. ASSUME CommandFails(c) \/ CommandDies(c) PROVE ControlInv'
  <2>1. Fails /\ UNCHANGED <<clock, store, high, pushed, crossed>>
    BY <1>14 DEF CommandFails, CommandDies, redis, clients
  <2>2. TypeInv'
    BY <1>0, <1>4, <2>1, FailsType DEF TypeInv
  <2>3. control' \in ControlType /\ OthersStay(c) /\ CopyOK(c)' /\ GivenOK(c)' /\ Keeps(c)
    <3>1. CASE CommandFails(c)
      BY <1>5, <1>12, <1>5a, <2>1, <3>1 DEF CommandFails, In, WorkStages, IsDelete
    <3>2. CASE CommandDies(c)
      BY <1>5, <2>1, <3>2 DEF CommandDies, Ended, WorkStages
    <3>3. QED
      BY <1>14, <3>1, <3>2
  <2>4. QED
    BY <1>0, <2>1, <2>2, <2>3, Kept
<1>15. QED
  BY <1>6, <1>7, <1>8, <1>9, <1>10, <1>11, <1>13, <1>14

LEMMA ControlStepType ==
    ASSUME ControlInv, [ControlNext]_controlVars
    PROVE  ControlInv'
<1>0. TypeInv /\ ControlTypeOK
  BY DEF ControlInv
<1>1. CASE ControlStep /\ UNCHANGED Beside
  BY <1>1, CommandType DEF ControlStep
<1>2. CASE [Next]_vars /\ UNCHANGED <<control, crossed>>
  <2>1. TypeInv' /\ clock \in Nat /\ clock' \in Nat /\ clock <= clock'
    BY <1>0, <1>2, TypeStep, ClockMoves
  <2>2. ControlTypeOK'
    BY <1>0, <1>2, <2>1 DEF ControlTypeOK, TypeInv
  <2>3. /\ \A r \in Requests : Num(r) # 0 => Num(r)' = Num(r)
        /\ \A c \in Commands : Keeps(c)
    BY <1>0, <1>2, SentKeeps DEF Keeps, Taken, Names
  <2>4. ASSUME NEW c \in Commands PROVE CopyOK(c)' /\ GivenOK(c)'
    <3>1. control'[c] = control[c] /\ CopyOK(c) /\ GivenOK(c)
      BY <1>2 DEF ControlInv
    <3>2. CopyOK(c)'
      <4>1. CASE ~ Taken(c)
        BY <3>1, <4>1 DEF CopyOK, Taken
      <4>2. CASE Taken(c)
        <5>1. Taken(c)' /\ (control'[c].stage = "add" => ~ IsDelete(c))
          BY <3>1, <4>2 DEF CopyOK, Taken
        <5>2. QED
          BY <2>1, <2>3, <3>1, <4>2, <5>1, SameCopy
      <4>3. QED
        BY <4>1, <4>2
    <3>3. Given(c) \in Nat /\ Given(c)' = Given(c)
      <4>1. control[c].stage \notin {"new", "refused"} => control[c].n \in Nat
        BY <1>0, WorkType DEF AtWork
      <4>2. QED
        BY <3>1, <4>1 DEF Given
    <3>4. QED
      BY <2>1, <3>1, <3>2, <3>3 DEF GivenOK
  <2>5. \A m \in saves' : \E r \in Requests : m = Entry(r, Num(r)') /\ Num(r)' # 0
    BY <1>0, <1>2, SavesOrigin DEF ControlInv
  <2>6. ASSUME NEW s \in Sessions, NEW m \in store'[s] PROVE MemberOK(s, m)'
    <3>1. ASSUME MemberOK(s, m) PROVE MemberOK(s, m)'
      BY <2>3, <3>1, MemberStays
    <3>2. ASSUME NEW x \in saves, Save(x) PROVE MemberOK(s, m)
      <4>1. PICK r \in Requests : x = Entry(r, Num(r)) /\ Num(r) # 0
        BY DEF ControlInv
      <4>2. x \in Entries /\ SessionOf[x.pack] \in Sessions
        BY <1>0, ChatAssumption DEF TypeInv, TypeOK, Entries
      <4>3. store' = [store EXCEPT ![SessionOf[x.pack]] = ZAdd(@, x)]
        BY <3>2 DEF Save
      <4>4. \A q \in Sessions : \A e \in store'[q] : e \in store[q] \/ (q = SessionOf[x.pack] /\ e = x)
        BY <1>0, <4>2, <4>3, Added
      <4>5. MemberOK(SessionOf[x.pack], x)
        <5>1. Num(r) \in Places(r[1]) /\ r \in Attempts(r[1]) /\ Num(r) <= Num(r)
          BY <1>0, <4>1, NumberTypes DEF Places, Attempts
        <5>2. x.pack = r[1] /\ x.score = Num(r)
          BY <4>1 DEF Entry
        <5>3. QED
          BY <4>1, <5>1, <5>2 DEF MemberOK
      <4>6. QED
        <5>1. CASE m \in store[s]
          BY <5>1 DEF ControlInv
        <5>2. CASE s = SessionOf[x.pack] /\ m = x
          BY <4>5, <5>2
        <5>3. QED
          BY <4>4, <5>1, <5>2
    <3>3. store' = store => MemberOK(s, m)
      BY DEF ControlInv
    <3>4. QED
      BY <1>0, <1>2, <3>1, <3>2, <3>3, ChatStores
  <2>7. QED
    BY <2>1, <2>2, <2>4, <2>5, <2>6 DEF ControlInv, Entry
<1>3. QED
  BY <1>1, <1>2, ControlCases

LEMMA ControlInitType == ControlInit => ControlInv
<1> SUFFICES ASSUME ControlInit PROVE ControlInv
  OBVIOUS
<1>1. TypeInv /\ Init
  BY TypeInit DEF ControlInit
<1>2. ControlTypeOK
  BY <1>1 DEF ControlInit, ControlTypeOK, TypeInv
<1>3. \A c \in Commands : control[c].stage = "new"
  BY DEF ControlInit, Idle
<1>4. \A c \in Commands : CopyOK(c) /\ GivenOK(c)
  BY <1>1, <1>3 DEF CopyOK, Taken, GivenOK, Given, Init
<1>5. QED
  BY <1>1, <1>2, <1>4 DEF ControlInv, Init

\* No number, message or record of a command ever leaves its type, whatever the
\* clock does.
THEOREM ControlTypeAlways == ControlSpec => []ControlTypeOK
<1>1. ControlInv => ControlTypeOK
  BY DEF ControlInv
<1>2. QED
  BY <1>1, ControlInitType, ControlStepType, PTL DEF ControlSpec

-----------------------------------------------------------------------------
(***************************************************************************)
(* How a command goes on, and that a number is given out once.             *)
(***************************************************************************)

Does(c) ==
    \/ RefuseCommand(c) \/ Fetch(c) \/ Remove(c) \/ Add(c)
    \/ NumberCommand(c) \/ Push(c) \/ CommandFails(c) \/ CommandDies(c)
    \/ \E u \in Users : Priority(c, u)

Goes(c, from, to) == control[c].stage = from /\ control'[c].stage = to

\* A command goes from stage to stage with the same copy; its number changes
\* only where it is given one.
LEMMA CommandMoves ==
    ASSUME ControlInv, NEW c \in Commands, Does(c)
    PROVE  /\ OthersStay(c)
           /\ \/ control[c].stage = "new"
              \/ /\ control[c] \in AtWork /\ control'[c] \in AtWork
                 /\ control'[c].copy = control[c].copy
                 /\ control'[c].n = control[c].n \/ NumberCommand(c)
           /\ \/ Goes(c, "new", "refused")
              \/ Fetch(c) /\ Goes(c, "new", "remove") /\ control'[c].n = 0 /\ control'[c] \in AtWork
              \/ Goes(c, "remove", "add") /\ ~ IsDelete(c) /\ (Remove(c) \/ Fails)
              \/ Goes(c, "remove", "number") /\ IsDelete(c) /\ (Remove(c) \/ Fails)
              \/ Goes(c, "add", "number") /\ (Add(c) \/ Fails)
              \/ NumberCommand(c) /\ Goes(c, "number", "priority")
              \/ NumberCommand(c) /\ Goes(c, "number", "done")
              \/ Goes(c, "priority", "push") /\ ((\E u \in Users : Priority(c, u)) \/ Fails)
              \/ Goes(c, "push", "priority") /\ Push(c)
              \/ Goes(c, "push", "done") /\ Push(c)
              \/ control'[c].stage = "dead" /\ Fails /\ control[c].stage # "new"
<1>0. TypeInv /\ ControlTypeOK
  BY DEF ControlInv
<1>1. ASSUME In(c, "new"), Becomes(c, Refused)
      PROVE  control[c].stage = "new" /\ OthersStay(c) /\ Goes(c, "new", "refused")
  <2>1. control'[c] = Refused /\ OthersStay(c) /\ control[c].stage = "new"
    BY <1>0, <1>1, RecordMoves DEF In
  <2>2. QED
    BY <2>1 DEF Goes, Refused
<1>1a. CASE RefuseCommand(c)
  BY <1>1, <1>1a DEF RefuseCommand
<1>2. CASE Fetch(c)
  <2>1. OthersStay(c) /\ control'[c].stage = "remove" /\ control'[c].n = 0 /\ control'[c] \in AtWork
    BY <1>0, <1>2, FetchMoves
  <2>2. control[c].stage = "new"
    BY <1>2 DEF Fetch, In
  <2>3. QED
    BY <1>2, <2>1, <2>2 DEF Goes
<1>3. ASSUME NEW stage \in WorkStages, Moves(c, stage), control[c].stage \notin {"new", "refused"}
      PROVE  /\ OthersStay(c) /\ control'[c].stage = stage
             /\ control[c] \in AtWork /\ control'[c] \in AtWork
             /\ control'[c].copy = control[c].copy /\ control'[c].n = control[c].n
  <2>1. control' \in ControlType /\ OthersStay(c) /\ control'[c] = With(c, stage)
    BY <1>0, <1>3, StageMoves
  <2>2. control[c] \in AtWork
    BY <1>0, <1>3, WorkType
  <2>3. With(c, stage) \in AtWork
    BY <1>3, <2>2 DEF With, AtWork, WorkStages
  <2>4. QED
    BY <2>1, <2>2, <2>3 DEF With
<1>4. CASE Remove(c) \/ Add(c) \/ Push(c)
  BY <1>3, <1>4 DEF Remove, Add, Push, In, Goes, WorkStages, IsDelete
<1>5. CASE CommandDies(c)
  BY <1>3, <1>5 DEF CommandDies, Ended, WorkStages
<1>6. CASE NumberCommand(c)
  <2>1. OthersStay(c)
    BY <1>0, <1>6, NumberCommandMoves
  <2>2. PICK n \in GenSeqId :
           /\ n \in Nat
           /\ control'[c] = [stage |-> IF MembersOf[ToOf[TargetOf[c]]] = {} THEN "done" ELSE "priority",
                             copy |-> control[c].copy, todo |-> MembersOf[ToOf[TargetOf[c]]],
                             at |-> control[c].at, n |-> n]
    BY <1>0, <1>6, NumberCommandMoves
  <2>3. control[c].stage = "number" /\ control[c] \in AtWork
    BY <1>0, <1>6, WorkType DEF NumberCommand, In
  <2>4. MembersOf[ToOf[TargetOf[c]]] \in SUBSET Users
    BY ChatAssumption, ControlAssumption
  <2>5. control'[c] \in AtWork /\ control'[c].copy = control[c].copy
    BY <2>2, <2>3, <2>4 DEF AtWork
  <2>6. control'[c].stage \in {"done", "priority"}
    BY <2>2
  <2>7. QED
    BY <1>6, <2>1, <2>3, <2>5, <2>6 DEF Goes
<1>7. ASSUME NEW u \in Users, Turn(c, u)
      PROVE  /\ OthersStay(c) /\ Goes(c, "priority", "push")
             /\ control[c] \in AtWork /\ control'[c] \in AtWork
             /\ control'[c].copy = control[c].copy /\ control'[c].n = control[c].n
  <2>1. /\ OthersStay(c) /\ In(c, "priority")
        /\ control'[c] = [stage |-> "push", copy |-> control[c].copy, todo |-> control[c].todo \ {u},
                          at |-> {u}, n |-> control[c].n]
    BY <1>0, <1>7, TurnMoves
  <2>2. control[c] \in AtWork
    BY <1>0, <2>1, WorkType DEF In
  <2>3. control'[c] \in AtWork
    BY <2>1, <2>2 DEF AtWork
  <2>4. QED
    BY <2>1, <2>2, <2>3 DEF Goes, In
<1>8. CASE \E u \in Users : Priority(c, u)
  BY <1>7, <1>8 DEF Priority
<1>9. CASE CommandFails(c)
  <2>1. CASE In(c, "new") /\ Becomes(c, Refused)
    BY <1>1, <2>1
  <2>2. CASE In(c, "remove") /\ Moves(c, IF CommandOf[c] = "delete" THEN "number" ELSE "add")
    BY <1>3, <1>9, <2>2 DEF CommandFails, In, Goes, WorkStages, IsDelete
  <2>3. CASE In(c, "add") /\ Moves(c, "number")
    BY <1>3, <1>9, <2>3 DEF CommandFails, In, Goes, WorkStages
  <2>4. CASE \E u \in Users : Turn(c, u)
    BY <1>7, <1>9, <2>4 DEF CommandFails
  <2>5. QED
    BY <1>9, <2>1, <2>2, <2>3, <2>4 DEF CommandFails
<1>10. QED
  BY <1>2, <1>4, <1>5, <1>6, <1>8, <1>9, <1>1a DEF Does

\* What a step of a command does to the store, if anything.
LEMMA CommandStores ==
    ASSUME NEW c \in Commands, Does(c)
    PROVE  store' = store \/ Remove(c) \/ Add(c)
BY DEF Does, RefuseCommand, Fetch, NumberCommand, Push, CommandFails, CommandDies, Priority,
       vars, redis, clients

\* A step is one of a chat server or client, or one of a command.
LEMMA ControlSteps ==
    ASSUME [ControlNext]_controlVars
    PROVE  \/ [Next]_vars /\ control' = control /\ crossed' = crossed
           \/ \E c \in Commands : Does(c) /\ UNCHANGED Beside
BY ControlCases DEF ControlStep, Does

\* Numbers of attempts and of commands are all different.
Distinct ==
    /\ \A r, q \in Requests : Num(r) = Num(q) /\ Num(r) # 0 => r = q
    /\ \A c, d \in Commands : Given(c) = Given(d) /\ Given(c) # 0 => c = d
    /\ \A r \in Requests, c \in Commands : Num(r) = Given(c) => Num(r) = 0

LEMMA GivenType ==
    ASSUME ControlInv, NEW c \in Commands
    PROVE  Given(c) \in Nat /\ Given(c) <= clock /\ clock \in Nat
<1>1. control[c].stage \notin {"new", "refused"} => control[c].n \in Nat
  BY WorkType DEF ControlInv, AtWork
<1>2. QED
  BY <1>1, NumberTypes DEF Given, ControlInv, GivenOK

LEMMA GivenMoves ==
    ASSUME ControlInv, ClocksAgree, NEW c \in Commands, Does(c)
    PROVE  /\ \A d \in Commands \ {c} : Given(d)' = Given(d)
           /\ Given(c)' = Given(c) \/ (Given(c)' = clock' /\ clock < clock')
<1>0. TypeInv /\ ControlTypeOK
  BY DEF ControlInv
<1>1. OthersStay(c)
  BY CommandMoves
<1>2. \A d \in Commands \ {c} : Given(d)' = Given(d)
  BY <1>1 DEF OthersStay, Given
<1>3. CASE NumberCommand(c)
  <2>1. PICK n \in GenSeqId :
           /\ Passes(n) /\ n \in Nat
           /\ control'[c] = [stage |-> IF MembersOf[ToOf[TargetOf[c]]] = {} THEN "done" ELSE "priority",
                             copy |-> control[c].copy, todo |-> MembersOf[ToOf[TargetOf[c]]],
                             at |-> control[c].at, n |-> n]
    BY <1>0, <1>3, NumberCommandMoves
  <2>2. Given(c)' = n
    BY <2>1 DEF Given
  <2>3. clock' = n /\ clock < n
    BY <1>0, <2>1, FreshNumber, NumberTypes
  <2>4. QED
    BY <1>2, <2>2, <2>3
<1>4. CASE ~ NumberCommand(c)
  <2>1. CASE control[c].stage = "new"
    BY <1>2, <1>4, <2>1, CommandMoves DEF Given, Goes
  <2>2. CASE control[c].stage # "new"
    <3>1. control'[c].n = control[c].n /\ control[c] \in AtWork /\ control'[c] \in AtWork
      BY <1>4, <2>2, CommandMoves
    <3>2. QED
      BY <1>2, <3>1 DEF Given, AtWork
  <2>3. QED
    BY <2>1, <2>2
<1>5. QED
  BY <1>3, <1>4

LEMMA DistinctStep ==
    ASSUME ControlInv, ClocksAgree, Distinct, [ControlNext]_controlVars
    PROVE  Distinct'
<1>0. /\ TypeInv /\ clock \in Nat
      /\ \A r \in Requests : Num(r) \in Nat /\ Num(r) <= clock
      /\ \A c \in Commands : Given(c) \in Nat /\ Given(c) <= clock
  BY NumberTypes, GivenType DEF ControlInv
<1>1. CASE [Next]_vars /\ control' = control
  <2>1. \A c \in Commands : Given(c)' = Given(c)
    BY <1>1 DEF Given
  <2>2. CASE \A r \in Requests : Num(r)' = Num(r)
    BY <2>1, <2>2 DEF Distinct
  <2>3. ASSUME NEW r \in Requests, Number(r) PROVE Distinct'
    <3>1. Num(r)' = clock' /\ clock < clock'
      BY <1>0, <2>3, NumberingMoves
    <3>2. \A q \in Requests \ {r} : Num(q)' = Num(q)
      BY <1>0, <2>3, NumberingMoves DEF Num
    <3>3. QED
      BY <1>0, <2>1, <3>1, <3>2 DEF Distinct
  <2>4. QED
    BY <1>0, <1>1, <2>2, <2>3, NumMoves
<1>2. ASSUME NEW c \in Commands, Does(c), UNCHANGED Beside PROVE Distinct'
  <2>1. \A r \in Requests : Num(r)' = Num(r)
    BY <1>2 DEF Beside, Num
  <2>2. QED
    BY <1>0, <1>2, <2>1, GivenMoves DEF Distinct
<1>3. QED
  BY <1>1, <1>2, ControlSteps

-----------------------------------------------------------------------------
(***************************************************************************)
(* What is saved is not lost.                                              *)
(***************************************************************************)

LEMMA NoFailure ==
    ASSUME ControlInv, [ControlNext]_controlVars, used'.failures = 0
    PROVE  /\ used.failures = 0
           /\ ~ Fails
           /\ \A m \in saves : ~ SaveFails(m)
<1>0. used \in [connects : Nat, reads : Nat, pulls : Nat, failures : Nat, unsaved : BOOLEAN]
  BY DEF ControlInv, TypeInv, TypeOK
<1>1. ~ Fails
  BY <1>0 DEF Fails
<1>2. ASSUME NEW m \in saves PROVE ~ SaveFails(m)
  <2>1. SUFFICES ASSUME SaveFails(m) PROVE FALSE
    OBVIOUS
  <2>2. used' = [connects |-> used.connects, reads |-> used.reads, pulls |-> used.pulls,
                 failures |-> used.failures + 1, unsaved |-> TRUE]
    BY <1>0, <2>1 DEF SaveFails
  <2>3. QED
    BY <1>0, <2>2
<1>3. CASE [Next]_vars
  <2>1. \/ used' = used
        \/ used' = [used EXCEPT !.connects = @ + 1]
        \/ used' = [used EXCEPT !.reads = @ + 1]
        \/ used' = [used EXCEPT !.pulls = @ + 1]
    BY <1>1, <1>2, <1>3
       DEF vars, Next, ServerStep, ClientStep, Refuse, Number, SavePriority, HotTo, HotFrom, Unread,
           WriteFails, Dies, Dispatch, Save, Connect, Drop, SyncList, SyncItem, SyncFails, SyncAnswer,
           AskPriority, PullPriority, PullFails, MarkRead, TouchSession, ReadFails
  <2>2. QED
    BY <1>0, <1>1, <1>2, <2>1
<1>4. ASSUME NEW c \in Commands, Does(c) PROVE used' = used
  BY <1>1, <1>4 DEF Does, RefuseCommand, Fetch, Remove, Add, NumberCommand, Push,
                    CommandFails, CommandDies, Priority, vars
<1>5. QED
  BY <1>1, <1>2, <1>3, <1>4, ControlSteps

\* A message gets saved by its save, and nothing else.
LEMMA SavedMoves ==
    ASSUME ControlInv, [Next]_vars, NEW r \in Requests, Saved(r)', \A m \in saves : ~ SaveFails(m)
    PROVE  Num(r)' = Num(r) /\ (Saved(r) \/ Save(Entry(r, Num(r))))
<1>0. TypeInv
  BY DEF ControlInv
<1>1. ~ Number(r)
  BY <1>0, NumberSaves DEF Saved, Entry
<1>2. Num(r)' = Num(r)
  BY <1>0, <1>1, NumMoves
<1>3. Num(r) # 0 /\ Entry(r, Num(r)) \notin saves'
  BY <1>2 DEF Saved, Entry
<1>4. \/ saves \subseteq saves'
      \/ \E m \in saves : Save(m) /\ saves' = saves \ {m}
  BY ZenonT(60) DEF vars, Next, ServerStep, ClientStep, Refuse, Number, SavePriority, HotTo, HotFrom, Unread,
         WriteFails, Dies, Dispatch, Save, Connect, Drop, SyncList, SyncItem, SyncFails, SyncAnswer,
         AskPriority, PullPriority, PullFails, MarkRead, TouchSession, ReadFails
<1>5. QED
  BY <1>2, <1>3, <1>4 DEF Saved

\* The store after a save.
LEMMA SaveAdds ==
    ASSUME ControlInv, NEW x \in saves, Save(x)
    PROVE  /\ x \in store'[SessionOf[x.pack]]
           /\ \A s \in Sessions : \A m \in store'[s] : m \in store[s] \/ (s = SessionOf[x.pack] /\ m = x)
           /\ \A s \in Sessions : \A m \in store[s] :
                 \/ m \in store'[s]
                 \/ /\ s = SessionOf[x.pack] /\ m.pack = x.pack /\ m.seqId = x.seqId
                    /\ m.revoked = x.revoked /\ m.text = x.text
<1>0. TypeInv
  BY DEF ControlInv
<1>1. x \in Entries /\ SessionOf[x.pack] \in Sessions
  BY <1>0, ChatAssumption DEF TypeInv, TypeOK, Entries
<1>2. store' = [store EXCEPT ![SessionOf[x.pack]] = ZAdd(@, x)]
  BY DEF Save
<1>3. QED
  BY <1>0, <1>1, <1>2, Added, ZenonT(60)

\* The store after the addition of a command's copy.
LEMMA CopyAdds ==
    ASSUME ControlInv, NEW c \in Commands, Add(c)
    PROVE  /\ control[c].copy.pack = TargetOf[c]
           /\ control[c].copy \in Entries
           /\ Store(c) \in Sessions
           /\ Taken(c)
           /\ control[c].copy \in store'[Store(c)]
           /\ \A s \in Sessions : \A m \in store'[s] : m \in store[s] \/ (s = Store(c) /\ m = control[c].copy)
           /\ \A s \in Sessions : \A m \in store[s] :
                 \/ m \in store'[s]
                 \/ /\ s = Store(c) /\ m.pack = TargetOf[c] /\ m.seqId = control[c].copy.seqId
                    /\ m.revoked = control[c].copy.revoked /\ m.text = control[c].copy.text
<1>0. TypeInv /\ ControlTypeOK /\ CopyOK(c)
  BY DEF ControlInv
<1>1. control[c].stage = "add" /\ control[c] \in AtWork /\ Taken(c)
  BY <1>0, WorkType DEF Add, In, Taken
<1>2. control[c].copy \in Entries /\ Store(c) \in Sessions
  BY <1>1, ChatAssumption, ControlAssumption DEF AtWork, Store
<1>3. store' = [store EXCEPT ![Store(c)] = ZAdd(@, control[c].copy)]
  BY DEF Add
<1>4. control[c].copy.pack = TargetOf[c]
  BY <1>0, <1>1 DEF CopyOK
<1> DEFINE z == Store(c)
           x == control[c].copy
<1>5. x \in Entries /\ z \in Sessions /\ store' = [store EXCEPT ![z] = ZAdd(@, x)] /\ x.pack = TargetOf[c]
  BY <1>2, <1>3, <1>4
<1> HIDE DEF z, x
<1>6. /\ x \in store'[z]
      /\ \A s \in Sessions : \A m \in store'[s] : m \in store[s] \/ (s = z /\ m = x)
      /\ \A s \in Sessions : \A m \in store[s] :
            \/ m \in store'[s]
            \/ /\ s = z /\ m.pack = x.pack /\ m.seqId = x.seqId
               /\ m.revoked = x.revoked /\ m.text = x.text
  BY <1>0, <1>5, Added
<1>7. QED
  BY <1>1, <1>2, <1>4, <1>5, <1>6 DEF z, x

\* A command keeps its copy, and its name for the message, to the end.
LEMMA NamesStay ==
    ASSUME ControlInv, [ControlNext]_controlVars
    PROVE  /\ \A c \in Commands : Keeps(c)
           /\ \A r \in Requests : Num(r) # 0 => Num(r)' = Num(r)
           /\ \A p : \A n \in Places(p) : n # 0 => n \in Places(p)'
<1>1. \A r \in Requests : Num(r) # 0 => Num(r)' = Num(r)
  BY AttemptsStay DEF ControlInv
<1>2. ASSUME NEW c \in Commands PROVE Keeps(c)
  <2>1. CASE control'[c] = control[c]
    BY <2>1 DEF Keeps, Taken, Names
  <2>2. CASE Does(c)
    <3>1. SUFFICES ASSUME Taken(c) PROVE Taken(c)' /\ control'[c].copy = control[c].copy
      BY DEF Keeps, Names
    <3>2. control'[c] \in AtWork /\ control'[c].copy = control[c].copy
      BY <2>2, <3>1, CommandMoves DEF Taken
    <3>3. QED
      BY <3>2 DEF Taken, AtWork
  <2>3. QED
    BY <2>1, <2>2, ControlSteps, CommandMoves DEF OthersStay
<1>3. \A p : \A n \in Places(p) : n # 0 => n \in Places(p)'
  BY <1>1, <1>2, PlacesStay
<1>4. QED
  BY <1>1, <1>2, <1>3

Somewhere(r) == \E m \in store[Session(r)] : m.pack = r[1]

\* A command may have removed the message, or has.
Past(c) == control[c].stage \in {"add", "number", "priority", "push", "done"}
AtHand(r) ==
    \E c \in Commands :
        /\ Past(c)
        /\ Store(c) = Session(r)
        /\ Names(c) \in Places(r[1])
        /\ TargetOf[c] = r[1] => In(c, "add") \/ IsDelete(c)

LEMMA PastStays ==
    ASSUME ControlInv, [ControlNext]_controlVars, ~ Fails, NEW d \in Commands, Past(d),
           NEW p, Names(d) \in Places(p)
    PROVE  Past(d)' /\ Names(d)' \in Places(p)'
<1>1. Taken(d) /\ CopyOK(d) /\ Keeps(d)
  BY NamesStay DEF Past, Taken, ControlInv
<1>2. Names(d)' = Names(d) /\ Names(d) # 0
  BY <1>1 DEF Keeps, CopyOK
<1>3. Past(d)'
  <2>1. CASE control'[d] = control[d]
    BY <2>1 DEF Past
  <2>2. CASE Does(d)
    BY <2>2, CommandMoves DEF Past, Goes
  <2>3. QED
    BY <2>1, <2>2, ControlSteps, CommandMoves DEF OthersStay
<1>4. Names(d) \in Places(p)'
  BY <1>2, NamesStay
<1>5. QED
  BY <1>2, <1>3, <1>4

LEMMA KeptInChat ==
    ASSUME ControlInv, [ControlNext]_controlVars, [Next]_vars, control' = control, ~ Fails, \A m \in saves : ~ SaveFails(m),
           NEW r \in Requests, Saved(r)', Saved(r) => Somewhere(r) \/ AtHand(r)
    PROVE  Somewhere(r)' \/ AtHand(r)'
<1>0. TypeInv /\ Session(r) \in Sessions
  BY NumberTypes DEF ControlInv
<1>1. CASE Saved(r) /\ AtHand(r)
  <2>1. PICK d \in Commands : /\ Past(d) /\ Store(d) = Session(r) /\ Names(d) \in Places(r[1])
                              /\ TargetOf[d] = r[1] => In(d, "add") \/ IsDelete(d)
    BY <1>1 DEF AtHand
  <2>2. Past(d)' /\ Names(d)' \in Places(r[1])'
    BY <2>1, PastStays
  <2>3. QED
    BY <2>1, <2>2 DEF AtHand, In, Store, Session, IsDelete
<1>2. CASE Saved(r) /\ Somewhere(r)
  <2>1. PICK m \in store[Session(r)] : m.pack = r[1]
    BY <1>2 DEF Somewhere
  <2>2. CASE store' = store
    BY <2>1, <2>2 DEF Somewhere, Session
  <2>3. ASSUME NEW x \in saves, Save(x) PROVE Somewhere(r)'
    <3>1. /\ x \in store'[SessionOf[x.pack]]
          /\ \/ m \in store'[Session(r)]
             \/ Session(r) = SessionOf[x.pack] /\ m.pack = x.pack
      BY <1>0, <2>3, SaveAdds
    <3>2. QED
      BY <2>1, <3>1 DEF Somewhere, Session
  <2>4. QED
    BY <1>0, <2>2, <2>3, ChatStores
<1>3. CASE Save(Entry(r, Num(r)))
  <2>1. Entry(r, Num(r)) \in saves /\ Entry(r, Num(r)).pack = r[1]
    BY <1>3 DEF Save, Entry
  <2>2. Entry(r, Num(r)) \in store'[SessionOf[r[1]]]
    BY <1>3, <2>1, SaveAdds
  <2>3. QED
    BY <2>1, <2>2 DEF Somewhere, Session
<1>4. QED
  BY <1>1, <1>2, <1>3, SavedMoves

LEMMA KeptByCommand ==
    ASSUME ControlInv, [ControlNext]_controlVars, NEW c \in Commands, Does(c), ~ Fails, UNCHANGED Beside,
           NEW r \in Requests, Saved(r)', Saved(r) => Somewhere(r) \/ AtHand(r)
    PROVE  Somewhere(r)' \/ AtHand(r)'
<1>0. TypeInv /\ Session(r) \in Sessions
  BY NumberTypes DEF ControlInv
<1>1. Saved(r)
  BY DEF Saved, Beside, Num, Entry
<1>2. OthersStay(c)
  BY CommandMoves
<1>3. ASSUME Add(c), TargetOf[c] = r[1] PROVE Somewhere(r)'
  <2>1. control[c].copy.pack = TargetOf[c] /\ control[c].copy \in store'[Store(c)]
    BY <1>3, CopyAdds, Zenon
  <2>2. QED
    BY <1>3, <2>1 DEF Somewhere, Session, Store
<1>4. CASE AtHand(r)
  <2>1. PICK d \in Commands : /\ Past(d) /\ Store(d) = Session(r) /\ Names(d) \in Places(r[1])
                              /\ TargetOf[d] = r[1] => In(d, "add") \/ IsDelete(d)
    BY <1>4 DEF AtHand
  <2>2. Past(d)' /\ Names(d)' \in Places(r[1])'
    BY <2>1, PastStays
  <2>3. CASE TargetOf[d] = r[1] => In(d, "add")' \/ IsDelete(d)
    BY <2>1, <2>2, <2>3 DEF AtHand, In, Store, Session, IsDelete
  <2>4. CASE TargetOf[d] = r[1] /\ ~ In(d, "add")' /\ ~ IsDelete(d)
    <3>1. d = c /\ control[c].stage = "add"
      BY <1>2, <2>1, <2>4 DEF OthersStay, In
    <3>2. Add(c)
      BY <2>2, <2>4, <3>1, CommandMoves DEF Goes, Past
    <3>3. QED
      BY <1>3, <2>4, <3>1, <3>2
  <2>5. QED
    BY <2>3, <2>4
<1>5. CASE Somewhere(r)
  <2>1. PICK m \in store[Session(r)] : m.pack = r[1]
    BY <1>5 DEF Somewhere
  <2>2. CASE m \in store'[Session(r)]
    BY <2>1, <2>2 DEF Somewhere, Session
  <2>3. CASE Remove(c) /\ m \notin store'[Session(r)]
    <3>1. Store(c) = Session(r) /\ m.score = Names(c) /\ Taken(c) /\ control[c].stage = "remove"
      BY <1>0, <2>1, <2>3, Removed DEF ControlInv, In
    <3>2. m.score # 0 /\ m.score \in Places(r[1])
      BY <1>0, <2>1 DEF ControlInv, MemberOK
    <3>3. Names(c)' \in Places(r[1])'
      BY <3>1, <3>2, NamesStay DEF Keeps
    <3>4. control'[c].stage = "add" \/ (IsDelete(c) /\ control'[c].stage = "number")
      BY <3>1, CommandMoves DEF Goes
    <3>5. QED
      BY <3>1, <3>3, <3>4 DEF AtHand, Past, In, Store, Session, IsDelete
  <2>4. CASE Add(c) /\ m \notin store'[Session(r)]
    <3>1. m.pack = TargetOf[c]
      BY <1>0, <2>4, CopyAdds
    <3>2. QED
      BY <1>3, <2>1, <2>4, <3>1
  <2>5. QED
    BY <2>1, <2>2, <2>3, <2>4, CommandStores
<1>6. QED
  BY <1>1, <1>4, <1>5

LostInv == used.failures = 0 => \A r \in Requests : Saved(r) => Somewhere(r) \/ AtHand(r)

LEMMA LostInit == ControlInit => LostInv
BY DEF ControlInit, Init, LostInv, Saved, Num

LEMMA LostStep ==
    ASSUME ControlInv, LostInv, [ControlNext]_controlVars
    PROVE  LostInv'
<1>1. SUFFICES ASSUME used'.failures = 0, NEW r \in Requests, Saved(r)'
               PROVE  Somewhere(r)' \/ AtHand(r)'
  BY DEF LostInv
<1>2. used.failures = 0 /\ ~ Fails /\ \A m \in saves : ~ SaveFails(m)
  BY <1>1, NoFailure
<1>3. Saved(r) => Somewhere(r) \/ AtHand(r)
  BY <1>2 DEF LostInv
<1>4. CASE [Next]_vars /\ control' = control
  BY <1>1, <1>2, <1>3, <1>4, KeptInChat
<1>5. ASSUME NEW c \in Commands, Does(c), UNCHANGED Beside PROVE Somewhere(r)' \/ AtHand(r)'
  BY <1>1, <1>2, <1>3, <1>5, KeptByCommand
<1>6. QED
  BY <1>4, <1>5, ControlSteps

\* However commands interleave, with retries under way and whatever the clocks
\* do, a saved message is in the store, unless a command has named a number it
\* is stored under: a delete of it, one of another message, or one whose handler
\* is about to add it again.
THEOREM NotLostAlways == ControlSpec => []NotLost
<1>1. LostInv => NotLost
  BY DEF LostInv, NotLost, Somewhere, AtHand, Past, IsDelete, In
<1>2. QED
  BY <1>1, ControlInitType, ControlStepType, LostInit, LostStep, PTL DEF ControlSpec

-----------------------------------------------------------------------------
(***************************************************************************)
(* A message no command has named stays as it was sent.                    *)
(***************************************************************************)

Unnamed(r) == \A c \in Commands : Taken(c) /\ Store(c) = Session(r) => Names(c) # Num(r)
AsSent(r) == Saved(r) /\ Unnamed(r) => Entry(r, Num(r)) \in store[Session(r)]

LEMMA NoneUnsaved ==
    ASSUME ControlInv, [ControlNext]_controlVars, ~ used'.unsaved
    PROVE  ~ used.unsaved /\ \A m \in saves : ~ SaveFails(m)
<1>0. used \in [connects : Nat, reads : Nat, pulls : Nat, failures : Nat, unsaved : BOOLEAN]
  BY DEF ControlInv, TypeInv, TypeOK
<1>1. ASSUME NEW m \in saves PROVE ~ SaveFails(m)
  <2>1. SUFFICES ASSUME SaveFails(m) PROVE FALSE
    OBVIOUS
  <2>2. used' = [connects |-> used.connects, reads |-> used.reads, pulls |-> used.pulls,
                 failures |-> used.failures + 1, unsaved |-> TRUE]
    BY <1>0, <2>1 DEF SaveFails
  <2>3. used'.unsaved = TRUE
    BY <2>2
  <2>4. QED
    BY <2>3, Zenon
<1>2. ASSUME \/ used' = used \/ used' = [used EXCEPT !.connects = @ + 1] \/ used' = [used EXCEPT !.reads = @ + 1]
             \/ used' = [used EXCEPT !.pulls = @ + 1] \/ used' = [used EXCEPT !.failures = @ + 1]
      PROVE  used'.unsaved = used.unsaved
  BY <1>0, <1>2
<1>3. CASE [Next]_vars
  <2>1. \/ used' = used \/ used' = [used EXCEPT !.connects = @ + 1] \/ used' = [used EXCEPT !.reads = @ + 1]
        \/ used' = [used EXCEPT !.pulls = @ + 1] \/ used' = [used EXCEPT !.failures = @ + 1]
    BY <1>1, <1>3
       DEF vars, Next, ServerStep, ClientStep, Refuse, Number, SavePriority, HotTo, HotFrom, Unread,
           WriteFails, Dies, Fails, Dispatch, Save, Connect, Drop, SyncList, SyncItem, SyncFails, SyncAnswer,
           AskPriority, PullPriority, PullFails, MarkRead, TouchSession, ReadFails
  <2>2. used'.unsaved = used.unsaved
    BY <1>2, <2>1
  <2>3. QED
    BY <1>1, <2>2, Zenon
<1>4. ASSUME NEW c \in Commands, Does(c) PROVE ~ used.unsaved
  <2>1. used' = used \/ used' = [used EXCEPT !.failures = @ + 1]
    BY <1>4 DEF Does, RefuseCommand, Fetch, Remove, Add, NumberCommand, Push,
                CommandFails, CommandDies, Priority, Fails, vars
  <2>2. used'.unsaved = used.unsaved
    BY <1>2, <2>1
  <2>3. QED
    BY <2>2, Zenon
<1>5. QED
  BY <1>1, <1>3, <1>4, ControlSteps

LEMMA AsSentInChat ==
    ASSUME ControlInv, [Next]_vars, control' = control, \A m \in saves : ~ SaveFails(m),
           NEW r \in Requests, AsSent(r)
    PROVE  AsSent(r)'
<1>0. TypeInv /\ Session(r) \in Sessions
  BY NumberTypes DEF ControlInv
<1>1. SUFFICES ASSUME Saved(r)', Unnamed(r)' PROVE (Entry(r, Num(r)) \in store[Session(r)])'
  BY DEF AsSent
<1>2. Num(r)' = Num(r) /\ (Saved(r) \/ Save(Entry(r, Num(r))))
  BY <1>1, SavedMoves
<1> DEFINE m == Entry(r, Num(r))
<1>3. CASE Saved(r)
  <2>1. Unnamed(r)
    BY <1>1, <1>2 DEF Unnamed, Taken, Names, Store, Session
  <2>2. m \in store[Session(r)] /\ m.pack = r[1] /\ m.seqId = Num(r)
    BY <1>3, <2>1 DEF AsSent, Entry
  <2>3. CASE store' = store
    BY <1>2, <2>2, <2>3 DEF Entry, Session
  <2>4. ASSUME NEW x \in saves, Save(x) PROVE m \in store'[Session(r)]
    <3>1. PICK q \in Requests : x = Entry(q, Num(q)) /\ Num(q) # 0
      BY DEF ControlInv
    <3>2. /\ x \in store'[SessionOf[x.pack]]
          /\ m \in store'[Session(r)] \/ (Session(r) = SessionOf[x.pack] /\ m.pack = x.pack /\ m.seqId = x.seqId)
      BY <1>0, <2>2, <2>4, SaveAdds
    <3>3. m.pack = x.pack /\ m.seqId = x.seqId => m = x
      BY <3>1 DEF Entry
    <3>4. QED
      BY <3>2, <3>3
  <2>5. QED
    BY <1>0, <1>2, <2>3, <2>4, ChatStores DEF Entry, Session
<1>4. CASE Save(m)
  <2>1. m \in saves /\ m.pack = r[1]
    BY <1>4 DEF Save, Entry
  <2>2. m \in store'[SessionOf[r[1]]]
    BY <1>4, <2>1, SaveAdds
  <2>3. QED
    BY <1>2, <2>2 DEF Entry, Session
<1>5. QED
  BY <1>2, <1>3, <1>4

LEMMA AsSentByCommand ==
    ASSUME ControlInv, [ControlNext]_controlVars, NEW c \in Commands, Does(c), UNCHANGED Beside,
           NEW r \in Requests, AsSent(r)
    PROVE  AsSent(r)'
<1>0. TypeInv /\ Session(r) \in Sessions
  BY NumberTypes DEF ControlInv
<1>1. Num(r)' = Num(r) /\ Saved(r)' = Saved(r)
  BY DEF Saved, Beside, Num, Entry
<1>2. SUFFICES ASSUME Saved(r), Unnamed(r)' PROVE Entry(r, Num(r)) \in store'[Session(r)]
  BY <1>1 DEF AsSent, Entry, Session
<1>3. Unnamed(r)
  <2>1. \A d \in Commands : Taken(d) => Taken(d)' /\ Names(d)' = Names(d)
    BY NamesStay DEF Keeps
  <2>2. QED
    BY <1>1, <1>2, <2>1 DEF Unnamed, Store, Session
<1> DEFINE m == Entry(r, Num(r))
<1>4. /\ m \in store[Session(r)] /\ m.pack = r[1] /\ m.score = Num(r)
      /\ m.revoked = FALSE /\ m.text = Original
  BY <1>2, <1>3 DEF AsSent, Entry
<1> HIDE DEF m
<1>5. CASE Remove(c)
  <2>1. m \in store'[Session(r)] \/ (Session(r) = Store(c) /\ m.score = Names(c) /\ Taken(c))
    BY <1>0, <1>4, <1>5, Removed DEF ControlInv
  <2>2. QED
    BY <1>3, <1>4, <2>1 DEF Unnamed, m
<1>6. CASE Add(c)
  <2>1. \/ m \in store'[Session(r)]
        \/ m.revoked = control[c].copy.revoked /\ m.text = control[c].copy.text
    <3>1. m \in store[Session(r)] /\ Session(r) \in Sessions
      BY <1>0, <1>4
    <3>2. \A s \in Sessions : \A q \in store[s] :
             \/ q \in store'[s]
             \/ /\ s = Store(c) /\ q.pack = TargetOf[c] /\ q.seqId = control[c].copy.seqId
                /\ q.revoked = control[c].copy.revoked /\ q.text = control[c].copy.text
      BY <1>6, CopyAdds, Zenon
    <3>3. QED
      BY <3>1, <3>2, Zenon
  <2>2. control[c].copy.revoked = TRUE \/ control[c].copy.text \in Commands
    BY <1>6 DEF Add, In, Taken, CopyOK, ControlInv
  <2>3. Original \notin Commands
    BY ControlAssumption
  <2>4. CASE control[c].copy.revoked = TRUE
    <3>1. m.revoked # control[c].copy.revoked
      BY <1>4, <2>4
    <3>2. QED
      BY <2>1, <3>1 DEF m
  <2>5. CASE control[c].copy.text \in Commands
    BY <1>4, <2>1, <2>3, <2>5 DEF m
  <2>6. QED
    BY <2>2, <2>4, <2>5
<1>7. QED
  BY <1>4, <1>5, <1>6, CommandStores DEF m

UntouchedInv == ~ used.unsaved => \A r \in Requests : AsSent(r)

LEMMA UntouchedStep ==
    ASSUME ControlInv, UntouchedInv, [ControlNext]_controlVars
    PROVE  UntouchedInv'
<1>1. SUFFICES ASSUME ~ used'.unsaved, NEW r \in Requests PROVE AsSent(r)'
  BY DEF UntouchedInv
<1>2. ~ used.unsaved /\ \A m \in saves : ~ SaveFails(m)
  BY <1>1, NoneUnsaved
<1>3. AsSent(r)
  BY <1>1, <1>2 DEF UntouchedInv
<1>4. CASE [Next]_vars /\ control' = control
  BY <1>2, <1>3, <1>4, AsSentInChat
<1>5. ASSUME NEW c \in Commands, Does(c), UNCHANGED Beside PROVE AsSent(r)'
  BY <1>3, <1>5, AsSentByCommand
<1>6. QED
  BY <1>4, <1>5, ControlSteps

\* Whatever is done to its neighbours and to copies of it, whichever Redis
\* command fails or server dies, and whatever the clocks do, a message whose
\* number no command of its session has named is stored as it was sent.
THEOREM OthersUntouchedAlways == ControlSpec => []OthersUntouched
<1>1. UntouchedInv => OthersUntouched
  BY DEF UntouchedInv, OthersUntouched, AsSent, Unnamed
<1>2. ControlInit => UntouchedInv
  BY DEF ControlInit, Init, UntouchedInv, AsSent, Saved, Num
<1>3. QED
  BY <1>1, <1>2, ControlInitType, ControlStepType, UntouchedStep, PTL DEF ControlSpec

-----------------------------------------------------------------------------
(***************************************************************************)
(* A revocation holds.                                                     *)
(***************************************************************************)

Single(p) == \A r, q \in Attempts(p) : r = q
PackIn(p) == {m \in store[SessionOf[p]] : m.pack = p}

\* A packet that is sent once is not being saved any more when it is stored, or
\* when a command has got hold of it.
SavedBefore(p) ==
    Single(p) /\ (PackIn(p) # {} \/ \E c \in Commands : TargetOf[c] = p /\ Taken(c))
        => \A m \in saves : m.pack # p

\* What is stored of the packet under the number the command names.
Under(c) == {m \in PackIn(TargetOf[c]) : m.score = Names(c)}

\* The command named the number of the one attempt there is.
Named(c) ==
    /\ Taken(c)
    /\ Single(TargetOf[c])
    /\ \E r \in Attempts(TargetOf[c]) : Names(c) = Num(r)

RevokedOK(c) ==
    /\ ~ Ended(c) => \A d \in Commands \ {c} : TargetOf[d] = TargetOf[c] => Ended(d)
    /\ control[c].stage \in {"remove", "add"} => control[c].copy.revoked = TRUE
    /\ control[c].stage = "add" => Under(c) = {}
    /\ control[c].stage \in {"number", "priority", "push", "done"} =>
          /\ \A m \in Under(c) : m.revoked = TRUE
          /\ \A d \in Commands :
                TargetOf[d] = TargetOf[c] /\ control[d].stage \in {"remove", "add"} /\ Names(d) = Names(c)
                => control[d].copy.revoked = TRUE

RevokeInv ==
    /\ \A p \in Packs : SavedBefore(p)
    /\ used.failures = 0 => \A c \in Commands :
          CommandOf[c] = "revoke" /\ c \notin crossed /\ Named(c) => RevokedOK(c)

\* There is an attempt at what is stored, and at what a command has got.
LEMMA SomeAttempt ==
    ASSUME ControlInv, NEW p \in Packs, PackIn(p) # {} \/ \E c \in Commands : TargetOf[c] = p /\ Taken(c)
    PROVE  Attempts(p) # {}
<1>1. ASSUME NEW m \in PackIn(p) PROVE Attempts(p) # {}
  <2>1. m \in store[SessionOf[p]] /\ m.pack = p /\ SessionOf[p] \in Sessions
    BY ChatAssumption DEF PackIn
  <2>2. MemberOK(SessionOf[p], m)
    BY <2>1 DEF ControlInv
  <2>3. QED
    BY <2>1, <2>2 DEF MemberOK
<1>2. ASSUME NEW c \in Commands, TargetOf[c] = p, Taken(c) PROVE Attempts(p) # {}
  BY <1>2 DEF ControlInv, CopyOK
<1>3. QED
  BY <1>1, <1>2

LEMMA AttemptsGrow ==
    ASSUME ControlInv, [ControlNext]_controlVars, NEW p
    PROVE  /\ \A r \in Attempts(p) : r \in Attempts(p)'
           /\ Single(p)' => Single(p)
<1>1. \A r \in Attempts(p) : r \in Attempts(p)'
  BY AttemptsStay DEF Attempts, ControlInv
<1>2. QED
  BY <1>1 DEF Single

LEMMA SaveOnceStep ==
    ASSUME ControlInv, RevokeInv, [ControlNext]_controlVars, NEW p \in Packs
    PROVE  SavedBefore(p)'
<1>0. TypeInv /\ SessionOf[p] \in Sessions
  BY ChatAssumption DEF ControlInv
<1>1. SUFFICES ASSUME Single(p)', (PackIn(p) # {} \/ \E c \in Commands : TargetOf[c] = p /\ Taken(c))'
               PROVE  \A m \in saves' : m.pack # p
  BY DEF SavedBefore
<1>2. Single(p)
  BY <1>1, AttemptsGrow
<1>3. ASSUME [Next]_vars, control' = control PROVE \A m \in saves' : m.pack # p
  <2>1. CASE PackIn(p) # {} \/ \E c \in Commands : TargetOf[c] = p /\ Taken(c)
    <3>1. \A m \in saves : m.pack # p
      BY <1>2, <2>1 DEF RevokeInv, SavedBefore
    <3>2. Attempts(p) # {}
      BY <2>1, SomeAttempt
    <3>3. ASSUME NEW r \in Requests, Number(r) PROVE r[1] # p
      <4>1. Num(r)' # 0 /\ Num(r) = 0
        BY <1>0, <3>3, NumberSaves
      <4>2. SUFFICES ASSUME r[1] = p PROVE FALSE
        OBVIOUS
      <4>3. r \in Attempts(p)' /\ r \notin Attempts(p)
        BY <4>1, <4>2 DEF Attempts
      <4>4. QED
        BY <1>1, <3>2, <4>3, AttemptsGrow DEF Single
    <3>4. \/ saves' \subseteq saves
          \/ \E r \in Requests : Number(r) /\ saves' = saves \cup {Entry(r, Num(r)')}
      <4>1. \/ saves' \subseteq saves
            \/ \E r \in Requests : Number(r)
        BY <1>3 DEF vars, Next, ServerStep, ClientStep, Refuse, SavePriority, HotTo, HotFrom, Unread,
               WriteFails, Dies, Dispatch, Save, SaveFails, Connect, Drop, SyncList, SyncItem, SyncFails, SyncAnswer,
               AskPriority, PullPriority, PullFails, MarkRead, TouchSession, ReadFails
      <4>2. QED
        BY <1>0, <4>1, NumberSaves
    <3>5. ASSUME NEW r \in Requests, Number(r), NEW m \in {Entry(r, Num(r)')} PROVE m.pack # p
      BY <3>3, <3>5 DEF Entry
    <3>6. QED
      BY <3>1, <3>4, <3>5
  <2>2. CASE PackIn(p) = {} /\ ~ \E c \in Commands : TargetOf[c] = p /\ Taken(c)
    <3>1. PackIn(p)' # {} /\ PackIn(p) = {}
      BY <1>1, <1>3, <2>2 DEF Taken
    <3>2. PICK x \in saves : Save(x)
      BY <1>0, <1>3, <3>1, ChatStores DEF PackIn
    <3>3. x.pack = p
      <4>1. PICK m \in store'[SessionOf[p]] : m.pack = p /\ m \notin store[SessionOf[p]]
        BY <3>1 DEF PackIn
      <4>2. m = x
        BY <1>0, <3>2, <4>1, SaveAdds
      <4>3. QED
        BY <4>1, <4>2
    <3>4. PICK q \in Requests : x = Entry(q, Num(q)) /\ Num(q) # 0
      BY DEF ControlInv
    <3>5. ASSUME NEW m \in saves, m.pack = p PROVE m = x
      <4>1. PICK r \in Requests : m = Entry(r, Num(r)) /\ Num(r) # 0
        BY DEF ControlInv
      <4>2. r[1] = p /\ q[1] = p
        BY <3>3, <3>4, <3>5, <4>1 DEF Entry
      <4>3. r = q
        BY <1>2, <3>4, <4>1, <4>2 DEF Single, Attempts
      <4>4. QED
        BY <3>4, <4>1, <4>3
    <3>6. saves' = saves \ {x}
      BY <3>2 DEF Save
    <3>7. QED
      BY <3>5, <3>6
  <2>3. QED
    BY <2>1, <2>2
<1>4. ASSUME NEW c \in Commands, Does(c), UNCHANGED Beside PROVE \A m \in saves' : m.pack # p
  <2>1. saves' = saves /\ OthersStay(c)
    BY <1>4, CommandMoves DEF Beside
  <2>2. PackIn(p) # {} \/ \E d \in Commands : TargetOf[d] = p /\ Taken(d)
    <3>1. CASE \E d \in Commands : TargetOf[d] = p /\ Taken(d)'
      <4>1. PICK d \in Commands : TargetOf[d] = p /\ Taken(d)'
        BY <3>1
      <4>2. CASE d # c
        BY <2>1, <4>1, <4>2 DEF OthersStay, Taken
      <4>3. CASE d = c /\ Fetch(c)
        <5>1. PICK m \in store[Store(c)] : m.pack = TargetOf[c]
          BY <1>0, <4>3, FetchMoves DEF ControlInv
        <5>2. QED
          BY <4>1, <4>3, <5>1 DEF PackIn, Store
      <4>4. CASE d = c /\ ~ Fetch(c)
        <5>1. Taken(c)
          BY <1>4, <4>1, <4>4, CommandMoves DEF Goes, Taken, AtWork
        <5>2. QED
          BY <4>1, <4>4, <5>1
      <4>5. QED
        BY <4>2, <4>3, <4>4
    <3>2. CASE PackIn(p)' # {}
      <4>1. PICK m \in store'[SessionOf[p]] : m.pack = p
        BY <3>2 DEF PackIn
      <4>2. CASE m \in store[SessionOf[p]]
        BY <4>1, <4>2 DEF PackIn
      <4>3. CASE Add(c) /\ m \notin store[SessionOf[p]]
        <5>1. TargetOf[c] = p
          BY <1>0, <4>1, <4>3, CopyAdds
        <5>2. Taken(c)
          BY <4>3 DEF Add, In, Taken
        <5>3. QED
          BY <5>1, <5>2
      <4>4. CASE Remove(c) /\ m \notin store[SessionOf[p]]
        BY <1>0, <4>1, <4>4, Removed DEF ControlInv
      <4>5. QED
        BY <1>4, <4>1, <4>2, <4>3, <4>4, CommandStores
    <3>3. QED
      BY <1>1, <3>1, <3>2
  <2>3. QED
    BY <1>2, <2>1, <2>2 DEF RevokeInv, SavedBefore
<1>5. QED
  BY <1>3, <1>4, ControlSteps

\* A command that names the number of the one attempt has done so all along.
LEMMA NamedStep ==
    ASSUME ControlInv, [ControlNext]_controlVars, NEW c \in Commands, Named(c)'
    PROVE  Named(c) \/ Fetch(c)
<1>1. Single(TargetOf[c])
  BY AttemptsGrow DEF Named
<1>2. CASE Taken(c)
  <2>1. TargetOf[c] \in Packs
    BY ControlAssumption
  <2>2. PICK q \in Attempts(TargetOf[c]) : TRUE
    BY <1>2, <2>1, SomeAttempt
  <2>3. PICK r \in Attempts(TargetOf[c])' : Names(c)' = Num(r)'
    BY DEF Named
  <2>4. q \in Attempts(TargetOf[c])' /\ Num(q)' = Num(q)
    BY <2>2, AttemptsGrow, NamesStay DEF Attempts
  <2>5. q = r
    BY <2>3, <2>4 DEF Named, Single
  <2>6. Names(c) = Num(q)
    BY <1>2, <2>3, <2>4, <2>5, NamesStay DEF Keeps
  <2>7. QED
    BY <1>1, <1>2, <2>2, <2>6 DEF Named
<1>3. CASE ~ Taken(c)
  <2>1. Taken(c)'
    BY DEF Named
  <2>2. Does(c)
    BY <1>3, <2>1, ControlSteps, CommandMoves DEF OthersStay, Taken
  <2>3. Fetch(c)
    BY <1>3, <2>1, <2>2, CommandMoves DEF Goes, Taken, AtWork
  <2>4. QED
    BY <2>3
<1>4. QED
  BY <1>2, <1>3

LEMMA CrossedMoves ==
    ASSUME NEW e \in Commands, Does(e)
    PROVE  /\ crossed \subseteq crossed'
           /\ Fetch(e) => \A d \in Commands \ {e} :
                 TargetOf[d] = TargetOf[e] /\ ~ Ended(d) => d \in crossed' /\ e \in crossed'
<1>1. CASE Fetch(e)
  <2> DEFINE others == {d \in Commands \ {e} : TargetOf[d] = TargetOf[e] /\ ~ Ended(d)}
  <2>1. crossed' = IF others = {} THEN crossed ELSE crossed \cup others \cup {e}
    BY <1>1 DEF Fetch
  <2>2. QED
    BY <2>1
<1>2. CASE ~ Fetch(e)
  BY <1>2 DEF Does, RefuseCommand, Remove, Add, NumberCommand, Push, CommandFails,
              CommandDies, Priority
<1>3. QED
  BY <1>1, <1>2

\* Steps of others do not bring a packet into the store that a command has got
\* hold of.
LEMMA PackStays ==
    ASSUME ControlInv, RevokeInv, NEW c \in Commands, Single(TargetOf[c]), Taken(c),
           \/ [Next]_vars
           \/ \E e \in Commands : Does(e) /\ TargetOf[e] # TargetOf[c]
           \/ \E e \in Commands : Does(e) /\ ~ Add(e)
    PROVE  PackIn(TargetOf[c])' \subseteq PackIn(TargetOf[c])
<1> DEFINE p == TargetOf[c]
<1>0. TypeInv /\ p \in Packs /\ SessionOf[p] \in Sessions
  BY ChatAssumption, ControlAssumption DEF ControlInv
<1>1. SUFFICES ASSUME NEW m \in store'[SessionOf[p]], m.pack = p PROVE m \in store[SessionOf[p]]
  BY DEF PackIn
<1>2. ASSUME NEW x \in saves, Save(x) PROVE m \in store[SessionOf[p]]
  <2>1. x.pack # p
    BY <1>0 DEF RevokeInv, SavedBefore
  <2>2. QED
    BY <1>0, <1>1, <1>2, <2>1, SaveAdds
<1>3. ASSUME NEW e \in Commands, Does(e), TargetOf[e] # p \/ ~ Add(e) PROVE m \in store[SessionOf[p]]
  <2>1. CASE store' = store
    BY <2>1
  <2>2. CASE Remove(e)
    BY <1>0, <2>2, Removed DEF ControlInv
  <2>3. CASE Add(e) /\ TargetOf[e] # p
    BY <1>0, <1>1, <2>3, CopyAdds
  <2>4. QED
    BY <1>3, <2>1, <2>2, <2>3, CommandStores
<1>4. QED
  BY <1>0, <1>2, <1>3, ChatStores

LEMMA UnderStays ==
    ASSUME ControlInv, RevokeInv, [ControlNext]_controlVars, NEW c \in Commands, Named(c),
           \/ [Next]_vars
           \/ \E e \in Commands : Does(e) /\ TargetOf[e] # TargetOf[c]
           \/ \E e \in Commands : Does(e) /\ ~ Add(e)
    PROVE  Names(c)' = Names(c) /\ Under(c)' \subseteq Under(c)
<1>1. Single(TargetOf[c]) /\ Taken(c)
  BY DEF Named
<1>2. PackIn(TargetOf[c])' \subseteq PackIn(TargetOf[c])
  BY <1>1, PackStays
<1>3. Names(c)' = Names(c)
  BY <1>1, NamesStay DEF Keeps
<1>4. QED
  BY <1>2, <1>3 DEF Under

\* The command itself.
LEMMA RevokedByItself ==
    ASSUME ControlInv, RevokeInv, [ControlNext]_controlVars, NEW c \in Commands, CommandOf[c] = "revoke",
           c \notin crossed', Does(c), ~ Fails, Named(c)', Named(c) => RevokedOK(c)
    PROVE  RevokedOK(c)'
<1> DEFINE p == TargetOf[c]
<1>0. TypeInv /\ ControlTypeOK /\ SessionOf[p] \in Sessions /\ Store(c) = SessionOf[p]
  BY ChatAssumption, ControlAssumption DEF ControlInv, Store
<1>1. OthersStay(c)
  BY CommandMoves
<1>2. \A d \in Commands \ {c} : Ended(d)' = Ended(d)
  BY <1>1 DEF OthersStay, Ended
<1>3. CASE Fetch(c)
  <2>1. control'[c].stage = "remove" /\ control'[c].copy.revoked = TRUE
    BY <1>0, <1>3, FetchMoves
  <2>2. \A d \in Commands \ {c} : TargetOf[d] = p => Ended(d)'
    BY <1>2, <1>3, CrossedMoves
  <2>3. QED
    BY <2>1, <2>2 DEF RevokedOK
<1>4. CASE ~ Fetch(c)
  <2>0. Named(c) /\ RevokedOK(c) /\ Names(c)' = Names(c) /\ Taken(c)
    BY <1>4, NamedStep, NamesStay DEF Keeps, Named
  <2>1. /\ control'[c].copy = control[c].copy
        /\ ~ Ended(c) => \A d \in Commands \ {c} : TargetOf[d] = p => Ended(d)'
        /\ ~ Ended(c) => \A d \in Commands \ {c} : TargetOf[d] = p => control'[d].stage \notin {"remove", "add"}
    BY <1>1, <1>2, <2>0, CommandMoves DEF RevokedOK, Ended, OthersStay, Taken
  <2>2. CASE Goes(c, "remove", "add") /\ Remove(c)
    <3>1. control[c].copy.revoked = TRUE /\ ~ Ended(c)
      BY <2>0, <2>2 DEF Goes, RevokedOK, Ended
    <3>2. Under(c)' = {}
      BY <1>0, <2>0, <2>2, Removed DEF Under, PackIn
    <3>3. QED
      BY <2>1, <2>2, <3>1, <3>2 DEF RevokedOK, Goes
  <2>3. CASE Goes(c, "add", "number") /\ Add(c)
    <3>1. control[c].copy.revoked = TRUE /\ Under(c) = {} /\ ~ Ended(c)
      BY <2>0, <2>3 DEF Goes, RevokedOK, Ended
    <3>2. ASSUME NEW m \in Under(c)' PROVE m.revoked = TRUE
      <4>1. m \in store'[SessionOf[p]] /\ m.pack = p /\ m.score = Names(c)
        BY <2>0 DEF PackIn, Under
      <4>2. m \notin store[SessionOf[p]]
        BY <3>1, <4>1 DEF PackIn, Under
      <4>3. m = control[c].copy
        BY <1>0, <2>3, <4>1, <4>2, CopyAdds
      <4>4. QED
        BY <3>1, <4>3, Zenon
    <3>3. control'[c].stage = "number"
      BY <2>3 DEF Goes
    <3>4. QED
      BY <2>1, <3>1, <3>2, <3>3 DEF RevokedOK
  <2>4. CASE /\ control[c].stage \in {"number", "priority", "push"}
             /\ control'[c].stage \in {"priority", "push", "done"}
    <3>1. Under(c)' \subseteq Under(c) /\ ~ Ended(c)
      BY <2>0, <2>4, UnderStays DEF Add, In, Ended
    <3>2. \A m \in Under(c)' : m.revoked = TRUE
      BY <2>0, <2>4, <3>1 DEF RevokedOK
    <3>3. QED
      BY <2>1, <2>4, <3>1, <3>2 DEF RevokedOK
  <2>5. QED
    BY <1>4, <2>0, <2>2, <2>3, <2>4, CommandMoves DEF Goes, IsDelete, Taken
<1>5. QED
  BY <1>3, <1>4

\* Another command.
LEMMA RevokedByOther ==
    ASSUME ControlInv, RevokeInv, [ControlNext]_controlVars, NEW c \in Commands, CommandOf[c] = "revoke",
           Named(c), c \notin crossed', NEW e \in Commands \ {c}, Does(e), ~ Fails, RevokedOK(c)
    PROVE  RevokedOK(c)'
<1> DEFINE p == TargetOf[c]
<1>0. TypeInv /\ ControlTypeOK /\ SessionOf[p] \in Sessions /\ Store(c) = SessionOf[p]
  BY ChatAssumption, ControlAssumption DEF ControlInv, Store
<1>1. /\ OthersStay(e) /\ control'[c] = control[c]
      /\ \A d \in Commands : Taken(d) => Names(d)' = Names(d)
      /\ Taken(c) /\ Single(p) /\ Names(c)' = Names(c)
  BY CommandMoves, NamesStay DEF OthersStay, Keeps, Named
<1>2. CASE control[c].stage = "dead"
  BY <1>1, <1>2 DEF RevokedOK, Ended
<1>3. CASE TargetOf[e] # p
  <2>1. Under(c)' \subseteq Under(c)
    BY <1>3, UnderStays
  <2>2. \A d \in Commands : TargetOf[d] = p => control'[d] = control[d] /\ Names(d)' = Names(d)
    BY <1>1, <1>3 DEF OthersStay, Names
  <2>3. ~ Ended(c)' => \A d \in Commands \ {c} : TargetOf[d] = p => Ended(d)'
    BY <2>2 DEF RevokedOK, Ended
  <2>4. control'[c].stage \in {"number", "priority", "push", "done"} =>
           /\ \A m \in Under(c)' : m.revoked = TRUE
           /\ \A d \in Commands :
                 TargetOf[d] = p /\ control'[d].stage \in {"remove", "add"} /\ Names(d)' = Names(c)'
                 => control'[d].copy.revoked = TRUE
    BY <2>1, <2>2 DEF RevokedOK
  <2>5. /\ control'[c].stage \in {"remove", "add"} => control'[c].copy.revoked = TRUE
        /\ control'[c].stage = "add" => Under(c)' = {}
    BY <2>1, <2>2 DEF RevokedOK
  <2>6. QED
    BY <2>3, <2>4, <2>5 DEF RevokedOK
<1>4. CASE TargetOf[e] = p /\ ~ Ended(c)
  <2>1. Ended(e)
    BY <1>4 DEF RevokedOK
  <2>2. ~ Fetch(e)
    BY <1>4, CrossedMoves
  <2>3. Goes(e, "new", "refused")
    BY <2>1, <2>2, CommandMoves DEF Goes, Ended
  <2>4. Under(c)' \subseteq Under(c)
    BY <2>3, UnderStays DEF Goes, Add, In
  <2>5. \A d \in Commands \ {c} : TargetOf[d] = p => Ended(d)'
    BY <1>1, <1>4, <2>3 DEF RevokedOK, Ended, Goes, OthersStay
  <2>6. \A m \in Under(c)' : m \in Under(c)
    BY <2>4
  <2>7. /\ control'[c].stage \in {"remove", "add"} => control'[c].copy.revoked = TRUE
        /\ control'[c].stage = "add" => Under(c)' = {}
    BY <1>1, <2>4 DEF RevokedOK
  <2>8. control'[c].stage \in {"number", "priority", "push", "done"} =>
           /\ \A m \in Under(c)' : m.revoked = TRUE
           /\ \A d \in Commands :
                 TargetOf[d] = p /\ control'[d].stage \in {"remove", "add"} /\ Names(d)' = Names(c)'
                 => control'[d].copy.revoked = TRUE
    <3>1. \A d \in Commands : TargetOf[d] = p /\ control'[d].stage \in {"remove", "add"} => d = c
      BY <2>5 DEF Ended
    <3>2. QED
      BY <1>1, <2>6, <3>1 DEF RevokedOK
  <2>9. QED
    BY <2>5, <2>7, <2>8 DEF RevokedOK
<1>5. CASE TargetOf[e] = p /\ control[c].stage = "done"
  <2>1. /\ \A m \in Under(c) : m.revoked = TRUE
        /\ \A d \in Commands : TargetOf[d] = p /\ control[d].stage \in {"remove", "add"} /\ Names(d) = Names(c)
              => control[d].copy.revoked = TRUE
    BY <1>5 DEF RevokedOK
  <2>2. ASSUME NEW m \in Under(c)' PROVE m.revoked = TRUE
    <3>1. CASE m \in Under(c)
      BY <2>1, <3>1
    <3>2. CASE m \notin Under(c)
      <4>1. Add(e)
        BY <3>2, UnderStays
      <4>2. m \in store'[SessionOf[p]] /\ m \notin store[SessionOf[p]] /\ m.score = Names(c)
        BY <1>1, <3>2 DEF Under, PackIn
      <4>3. m = control[e].copy
        BY <1>0, <4>1, <4>2, CopyAdds
      <4>4. control[e].stage = "add" /\ Names(e) = Names(c)
        BY <4>1, <4>2, <4>3 DEF Add, In, Names
      <4>5. control[e].copy.revoked = TRUE
        BY <1>5, <2>1, <4>4
      <4>6. QED
        BY <4>3, <4>5, Zenon
    <3>3. QED
      BY <3>1, <3>2
  <2>3. ASSUME NEW d \in Commands, TargetOf[d] = p, control'[d].stage \in {"remove", "add"}, Names(d)' = Names(c)'
        PROVE  control'[d].copy.revoked = TRUE
    <3>1. CASE d # e
      <4>1. control'[d] = control[d]
        BY <1>1, <3>1 DEF OthersStay
      <4>2. Names(d) = Names(c) /\ control[d].stage \in {"remove", "add"}
        BY <1>1, <2>3, <4>1 DEF Names
      <4>3. control[d].copy.revoked = TRUE
        BY <2>1, <2>3, <4>2
      <4>4. QED
        BY <4>1, <4>3, Zenon
    <3>2. CASE d = e /\ Fetch(e)
      <4>1. PICK m \in store[Store(e)] : /\ m.pack = TargetOf[e] /\ m \in Entries
                                         /\ Names(e)' \in 1 .. clock /\ Names(e)' <= m.score
                                         /\ control'[e].copy.revoked \in {m.revoked, TRUE}
        BY <1>0, <3>2, FetchMoves
      <4>2. m \in PackIn(p) /\ MemberOK(SessionOf[p], m)
        BY <1>0, <1>5, <4>1 DEF PackIn, Store, ControlInv
      <4>3. PICK q \in Attempts(p) : m.score <= Num(q)
        BY <1>5, <4>1, <4>2 DEF MemberOK
      <4>4. PICK r \in Attempts(p) : Names(c) = Num(r)
        BY DEF Named
      <4>5. r = q
        BY <1>1, <4>3, <4>4 DEF Single
      <4>6. m.score \in Nat /\ Num(r) \in Nat
        BY <1>0, <4>1, <4>4, NumberTypes DEF Entries, Attempts
      <4>7. m.score = Names(c)
        BY <1>1, <2>3, <3>2, <4>1, <4>3, <4>4, <4>5, <4>6
      <4>8. m.revoked = TRUE
        BY <2>1, <4>2, <4>7 DEF Under
      <4>9. QED
        BY <3>2, <4>1, <4>8
    <3>3. CASE d = e /\ ~ Fetch(e)
      <4>1. control[e].stage = "remove" /\ control'[e].copy = control[e].copy
        BY <2>3, <3>3, CommandMoves DEF Goes
      <4>2. Names(e) = Names(c)
        BY <1>1, <2>3, <3>3, <4>1 DEF Names
      <4>3. control[e].copy.revoked = TRUE
        BY <1>5, <2>1, <4>1, <4>2
      <4>4. QED
        BY <3>3, <4>1, <4>3, Zenon
    <3>4. QED
      BY <3>1, <3>2, <3>3
  <2>4. control'[c].stage = "done"
    BY <1>1, <1>5
  <2>5. QED
    BY <2>2, <2>3, <2>4 DEF RevokedOK, Ended
<1>6. QED
  BY <1>1, <1>2, <1>3, <1>4, <1>5 DEF Ended, Taken

LEMMA RevokeStep ==
    ASSUME ControlInv, RevokeInv, [ControlNext]_controlVars
    PROVE  RevokeInv'
<1>1. \A p \in Packs : SavedBefore(p)'
  BY SaveOnceStep
<1>2. ASSUME used'.failures = 0, NEW c \in Commands, CommandOf[c] = "revoke", c \notin crossed', Named(c)'
      PROVE  RevokedOK(c)'
  <2>1. used.failures = 0 /\ ~ Fails
    BY <1>2, NoFailure
  <2>2. CASE [Next]_vars /\ control' = control /\ crossed' = crossed
    <3>1. Named(c)
      BY <1>2, <2>2, NamedStep DEF Named, Fetch, In, Taken
    <3>2. RevokedOK(c)
      BY <1>2, <2>1, <2>2, <3>1 DEF RevokeInv
    <3>3. Under(c)' \subseteq Under(c)
      BY <2>2, <3>1, UnderStays
    <3>4. \A d \in Commands : Names(d)' = Names(d)
      BY <2>2 DEF Names
    <3>5. QED
      BY <2>2, <3>2, <3>3, <3>4 DEF RevokedOK, Ended
  <2>3. ASSUME NEW e \in Commands, Does(e) PROVE RevokedOK(c)'
    <3>1. Named(c) => RevokedOK(c)
      BY <1>2, <2>1, <2>3, CrossedMoves DEF RevokeInv
    <3>2. CASE e = c
      BY <1>2, <2>1, <2>3, <3>1, <3>2, RevokedByItself
    <3>3. CASE e # c
      <4>1. control'[c] = control[c]
        BY <2>3, <3>3, CommandMoves DEF OthersStay
      <4>2. Named(c)
        BY <1>2, <4>1, NamedStep, FetchMoves DEF Fetch, In, ControlInv, Named, Taken
      <4>3. QED
        BY <1>2, <2>1, <2>3, <3>1, <3>3, <4>2, RevokedByOther
    <3>4. QED
      BY <3>2, <3>3
  <2>4. QED
    BY <2>2, <2>3, ControlSteps
<1>3. QED
  BY <1>1, <1>2 DEF RevokeInv

\* A revocation that named the number of its message, sent once, and met no other
\* command on it holds for good, whatever commands come later and however they
\* interleave: a copy without the flag is found only under another number that a
\* command about the message has named.
THEOREM RevocationHoldsAlways == ControlSpec => []RevocationHolds
<1>1. ASSUME ControlInv, RevokeInv PROVE RevocationHolds
  <2>1. SUFFICES ASSUME NEW c \in Commands, NEW r \in Requests,
                        CommandOf[c] = "revoke", In(c, "done"), c \notin crossed, used.failures = 0,
                        {q \in Requests : q[1] = TargetOf[c] /\ Num(q) # 0} = {r},
                        Names(c) = Num(r),
                        NEW m \in store[Store(c)], m.pack = TargetOf[c], ~ m.revoked
                 PROVE  \E d \in Commands :
                           TargetOf[d] = TargetOf[c] /\ Taken(d) /\ m.score = Names(d) /\ Names(d) # Num(r)
    BY DEF RevocationHolds
  <2>2. Attempts(TargetOf[c]) = {r}
    BY <2>1 DEF Attempts
  <2>3. Named(c)
    BY <2>1, <2>2 DEF Named, Single, Taken, In
  <2>4. RevokedOK(c)
    BY <1>1, <2>1, <2>3 DEF RevokeInv
  <2>5. m.score # Num(r)
    <3>1. SUFFICES ASSUME m.score = Num(r) PROVE FALSE
      OBVIOUS
    <3>2. m \in Under(c)
      BY <2>1, <3>1 DEF Under, PackIn, Store
    <3>3. m.revoked = TRUE
      BY <2>1, <2>4, <3>2 DEF RevokedOK, In
    <3>4. QED
      BY <2>1, <3>3, Zenon
  <2>6. Store(c) \in Sessions
    BY ChatAssumption, ControlAssumption DEF Store
  <2>7. m.score # 0 /\ m.score \in Places(TargetOf[c])
    BY <1>1, <2>1, <2>6 DEF ControlInv, MemberOK
  <2>8. \/ \E q \in Requests : q[1] = TargetOf[c] /\ m.score = Num(q)
        \/ \E d \in Commands : TargetOf[d] = TargetOf[c] /\ Taken(d) /\ m.score = Names(d)
    BY <2>7 DEF Places
  <2>9. ~ \E q \in Requests : q[1] = TargetOf[c] /\ m.score = Num(q)
    BY <2>2, <2>5, <2>7 DEF Attempts
  <2>10. QED
    BY <2>5, <2>8, <2>9
<1>2. ASSUME ControlInit PROVE RevokeInv
  <2>1. \A c \in Commands : ~ Taken(c)
    BY <1>2 DEF ControlInit, Idle, Taken
  <2>2. saves = {}
    BY <1>2 DEF ControlInit, Init
  <2>3. QED
    BY <2>1, <2>2 DEF RevokeInv, SavedBefore, Named
<1>3. QED
  BY <1>1, <1>2, ControlInitType, ControlStepType, RevokeStep, PTL DEF ControlSpec

-----------------------------------------------------------------------------
(***************************************************************************)
(* A command reaches every recipient.                                      *)
(***************************************************************************)

Members(c) == MembersOf[ToOf[TargetOf[c]]]
Leaves(c) == <<c, control[c].n>>

\* A priority message is of an attempt, or of a command, and under its number.
HighOK(u) ==
    \A x \in high[u] :
        \/ \E r \in Attempts(x[1]) : Num(r) = x[2]
        \/ x[1] \in Commands /\ x[2] = Given(x[1]) /\ x[2] # 0
OfflineOK(u) == u \notin online => prior[u].state = "none"
FreshOK(c) == control[c].stage \in {"remove", "add", "number"} => control[c].n = 0
DoneOK(c) == control[c].stage = "done" => control[c].todo = {}

\* It was pushed, or the client got it, or will get it when it asks.
Due(u, x) ==
    \/ <<u, x[1], x[2]>> \in pushed
    \/ x \in prior[u].got
    \/ prior[u].state = "none"
    \/ prior[u].state = "asked" /\ (prior[u].from = 0 \/ x[2] <= prior[u].from)

\* A recipient whose turn has come was left the command, and it is due unless
\* the push is about to come.
HeardOK(c, u) ==
    control[c].stage \in {"priority", "push", "done"} /\ u \notin control[c].todo =>
        /\ Leaves(c) \in high[u]
        /\ (control[c].stage = "push" /\ u \in control[c].at) \/ Due(u, Leaves(c))

ReachInv ==
    ClocksAgree =>
        /\ Distinct
        /\ \A u \in Users : HighOK(u) /\ OfflineOK(u)
        /\ \A c \in Commands : FreshOK(c) /\ DoneOK(c)
        /\ AsksFrom = "start" /\ used.failures = 0 =>
              \A c \in Commands : \A u \in Members(c) : HeardOK(c, u)

\* What a connection, its end and the client's first question make of the
\* client's state.
LEMMA PriorSet ==
    ASSUME TypeInv, NEW u \in Users, NEW state \in {"none", "asked", "done"}, NEW from \in Nat,
           prior' = [prior EXCEPT ![u].state = state, ![u].from = from]
    PROVE  /\ \A v \in Users \ {u} : prior'[v] = prior[v]
           /\ prior'[u].state = state /\ prior'[u].from = from /\ prior'[u].got = prior[u].got
<1>1. prior \in [Users -> PriorType]
  BY DEF TypeInv, TypeOK, PriorType
<1>2. prior'[u] = [[prior[u] EXCEPT !.state = state] EXCEPT !.from = from]
  BY <1>1
<1>3. [prior[u] EXCEPT !.state = state]
         = [state |-> state, from |-> prior[u].from, latest |-> prior[u].latest, got |-> prior[u].got]
  BY <1>1 DEF PriorType
<1>4. prior'[u] = [state |-> state, from |-> from, latest |-> prior[u].latest, got |-> prior[u].got]
  BY <1>2, <1>3, ZenonT(60)
<1>5. QED
  BY <1>1, <1>4

LEMMA PriorSteps ==
    ASSUME TypeInv, [Next]_vars, NEW u \in Users
    PROVE  \/ prior'[u] = prior[u] /\ (u \in online' <=> u \in online)
           \/ prior'[u].state = "none" /\ prior'[u].got = prior[u].got
           \/ /\ prior[u].state = "none" /\ u \in online /\ u \in online'
              /\ prior'[u].state = "asked" /\ prior'[u].got = prior[u].got
              /\ AsksFrom = "start" => prior'[u].from = 0
           \/ PullPriority(u) /\ online' = online /\ high' = high
           \/ PullFails(u) /\ online' = online /\ prior'[u].got = prior[u].got
<1>1. ASSUME NEW v \in Users, Connect(v) \/ Drop(v)
      PROVE  \/ prior'[u] = prior[u] /\ (u \in online' <=> u \in online)
             \/ prior'[u].state = "none" /\ prior'[u].got = prior[u].got
  <2>1. prior' = [prior EXCEPT ![v].state = "none", ![v].from = 0]
    BY <1>1 DEF Connect, Drop
  <2>2. /\ \A q \in Users \ {v} : prior'[q] = prior[q]
        /\ prior'[v].state = "none" /\ prior'[v].got = prior[v].got
    BY <2>1, PriorSet
  <2>3. u # v => (u \in online' <=> u \in online)
    BY <1>1 DEF Connect, Drop
  <2>4. QED
    BY <2>2, <2>3
<1>2. ASSUME NEW v \in Users, AskPriority(v)
      PROVE  \/ prior'[u] = prior[u] /\ (u \in online' <=> u \in online)
             \/ /\ prior[u].state = "none" /\ u \in online /\ u \in online'
                /\ prior'[u].state = "asked" /\ prior'[u].got = prior[u].got
                /\ AsksFrom = "start" => prior'[u].from = 0
  <2> DEFINE from == IF AsksFrom = "latest" THEN prior[v].latest ELSE 0
  <2>1. prior' = [prior EXCEPT ![v].state = "asked", ![v].from = from]
    BY <1>2 DEF AskPriority
  <2>2. from \in Nat
    BY DEF TypeInv, TypeOK
  <2>3. AsksFrom = "start" => from = 0
    OBVIOUS
  <2> HIDE DEF from
  <2>4. /\ \A q \in Users \ {v} : prior'[q] = prior[q]
        /\ prior'[v].state = "asked" /\ prior'[v].from = from /\ prior'[v].got = prior[v].got
    BY <2>1, <2>2, PriorSet
  <2>5. prior[v].state = "none" /\ v \in online /\ online' = online
    BY <1>2 DEF AskPriority
  <2>6. QED
    BY <2>3, <2>4, <2>5
<1>3. ASSUME NEW v \in Users, PullPriority(v)
      PROVE  \/ prior'[u] = prior[u] /\ (u \in online' <=> u \in online)
             \/ PullPriority(u) /\ online' = online /\ high' = high
  <2>1. \A q \in Users \ {v} : prior'[q] = prior[q]
    BY <1>3, PullPriorityType
  <2>2. online' = online /\ high' = high
    BY <1>3 DEF PullPriority, redis
  <2>3. QED
    BY <1>3, <2>1, <2>2
<1>3a. ASSUME NEW v \in Users, PullFails(v)
       PROVE  \/ prior'[u] = prior[u] /\ (u \in online' <=> u \in online)
              \/ PullFails(u) /\ online' = online /\ prior'[u].got = prior[u].got
  <2>1. prior' = [prior EXCEPT ![v].state = "done", ![v].from = 0] /\ online' = online
    BY <1>3a DEF PullFails
  <2>2. (\A q \in Users \ {v} : prior'[q] = prior[q]) /\ prior'[v].got = prior[v].got
    BY <2>1, PriorSet
  <2>3. QED
    BY <1>3a, <2>1, <2>2
<1>4. \/ prior' = prior /\ online' = online
      \/ \E v \in Users : Connect(v) \/ Drop(v)
      \/ \E v \in Users : AskPriority(v)
      \/ \E v \in Users : PullPriority(v)
      \/ \E v \in Users : PullFails(v)
  BY ZenonT(60) DEF vars, clients, Next, ServerStep, ClientStep, Refuse, Number, SavePriority, HotTo, HotFrom, Unread,
         WriteFails, Dies, Dispatch, Save, SaveFails, SyncList, SyncItem, SyncFails, SyncAnswer, MarkRead, TouchSession, ReadFails
<1>5. QED
  BY <1>1, <1>2, <1>3, <1>3a, <1>4

\* Priority messages and pushes are only added, in the chat servers.
LEMMA HighMoves ==
    ASSUME TypeInv, [Next]_vars, NEW u \in Users
    PROVE  /\ pushed \subseteq pushed'
           /\ high[u] \subseteq high'[u]
           /\ \A x \in high'[u] : x \in high[u] \/ \E r \in Attempts(x[1]) : Num(r) = x[2]
<1>1. pushed \subseteq pushed'
  BY ZenonT(60) DEF vars, clients, Next, ServerStep, ClientStep, Refuse, Number, SavePriority, HotTo, HotFrom, Unread,
         WriteFails, Dies, Dispatch, Save, SaveFails, Connect, Drop, SyncList, SyncItem, SyncFails, SyncAnswer,
         AskPriority, PullPriority, PullFails, MarkRead, TouchSession, ReadFails
<1>2. high' = high \/ \E r \in Requests : SavePriority(r)
  BY ZenonT(60) DEF vars, redis, Next, ServerStep, ClientStep, Refuse, Number, HotTo, HotFrom, Unread,
         WriteFails, Dies, Dispatch, Save, SaveFails, Connect, Drop, SyncList, SyncItem, SyncFails, SyncAnswer,
         AskPriority, PullPriority, PullFails, MarkRead, TouchSession, ReadFails
<1>3. ASSUME NEW r \in Requests, SavePriority(r)
      PROVE  /\ high[u] \subseteq high'[u]
             /\ \A x \in high'[u] : x \in high[u] \/ \E q \in Attempts(x[1]) : Num(q) = x[2]
  <2>1. high' = [high EXCEPT ![To(r)] = @ \cup {<<r[1], Num(r)>>}] /\ request[r].stage = "priority"
    BY <1>3 DEF SavePriority, At
  <2>2. high \in [Users -> SUBSET ((Packs \cup Commands) \X Nat)] /\ To(r) \in Users
    BY NumberTypes DEF TypeInv, TypeOK
  <2>3. Num(r) # 0
    BY <2>1, NumberTypes
  <2>4. r \in Attempts(r[1])
    BY <2>3 DEF Attempts
  <2>5. /\ high[u] \subseteq high'[u]
        /\ \A x \in high'[u] : x \in high[u] \/ x = <<r[1], Num(r)>>
    BY <2>1, <2>2
  <2>6. QED
    BY <2>4, <2>5
<1>4. QED
  BY <1>1, <1>2, <1>3

LEMMA HighUnique ==
    ASSUME ControlInv, Distinct, NEW u \in Users, HighOK(u)
    PROVE  \A x, y \in high[u] : x[2] = y[2] => x = y
<1> SUFFICES ASSUME NEW x \in high[u], NEW y \in high[u], x[2] = y[2] PROVE x = y
  OBVIOUS
<1>1. x = <<x[1], x[2]>> /\ y = <<y[1], y[2]>>
  BY DEF ControlInv, TypeInv, TypeOK
<1>2. CASE \E r \in Attempts(x[1]) : Num(r) = x[2]
  <2>1. PICK r \in Attempts(x[1]) : Num(r) = x[2]
    BY <1>2
  <2>2. r \in Requests /\ Num(r) # 0 /\ r[1] = x[1]
    BY <2>1 DEF Attempts
  <2>3. CASE \E q \in Attempts(y[1]) : Num(q) = y[2]
    <3>1. PICK q \in Attempts(y[1]) : Num(q) = y[2]
      BY <2>3
    <3>2. q \in Requests /\ q[1] = y[1] /\ Num(q) = Num(r)
      BY <2>1, <3>1 DEF Attempts
    <3>3. r = q
      BY <2>2, <3>2 DEF Distinct
    <3>4. QED
      BY <1>1, <2>2, <3>2, <3>3
  <2>4. CASE y[1] \in Commands /\ y[2] = Given(y[1])
    BY <2>1, <2>2, <2>4 DEF Distinct
  <2>5. QED
    BY <2>3, <2>4 DEF HighOK
<1>3. CASE x[1] \in Commands /\ x[2] = Given(x[1]) /\ x[2] # 0
  <2>1. CASE \E q \in Attempts(y[1]) : Num(q) = y[2]
    BY <1>3, <2>1 DEF Attempts, Distinct
  <2>2. CASE y[1] \in Commands /\ y[2] = Given(y[1])
    <3>1. x[1] = y[1]
      BY <1>3, <2>2 DEF Distinct
    <3>2. QED
      BY <1>1, <3>1
  <2>3. QED
    BY <2>1, <2>2 DEF HighOK
<1>4. QED
  BY <1>2, <1>3 DEF HighOK

\* A priority message stays due while the client comes, asks and goes.
LEMMA DueInChat ==
    ASSUME ControlInv, Distinct, AsksFrom = "start", [Next]_vars, ~ Fails, NEW u \in Users,
           HighOK(u), OfflineOK(u), NEW x \in high[u], Due(u, x)
    PROVE  Due(u, x)'
<1>0. TypeInv
  BY DEF ControlInv
<1>1. pushed \subseteq pushed'
  BY <1>0, HighMoves
<1>2. CASE <<u, x[1], x[2]>> \in pushed
  BY <1>1, <1>2 DEF Due
<1>3. CASE prior'[u] = prior[u]
  BY <1>1, <1>3 DEF Due
<1>4. CASE prior'[u].state = "none"
  BY <1>4 DEF Due
<1>5. CASE prior'[u].state = "asked" /\ prior'[u].from = 0
  BY <1>5 DEF Due
<1>6. CASE PullPriority(u)
  <2>1. /\ prior[u].got \subseteq prior'[u].got
        /\ (\A y, z \in high[u] : y[2] = z[2] => y = z) =>
              \A y \in UpTo(u, prior[u].from) :
                 \/ y \in prior'[u].got
                 \/ prior'[u].state = "asked" /\ y[2] <= prior'[u].from
    BY <1>0, <1>6, PullPriorityType
  <2>2. CASE x \in prior[u].got
    BY <2>1, <2>2 DEF Due
  <2>3. CASE prior[u].from = 0 \/ x[2] <= prior[u].from
    <3>1. x \in UpTo(u, prior[u].from)
      BY <2>3 DEF UpTo
    <3>2. \A y, z \in high[u] : y[2] = z[2] => y = z
      BY HighUnique
    <3>3. x \in prior'[u].got \/ (prior'[u].state = "asked" /\ x[2] <= prior'[u].from)
      BY <2>1, <3>1, <3>2
    <3>4. QED
      BY <3>3 DEF Due
  <2>4. QED
    BY <1>2, <1>6, <2>2, <2>3 DEF Due, PullPriority
<1>7. ~ PullFails(u)
  BY DEF PullFails
<1>8. QED
  BY <1>0, <1>3, <1>4, <1>5, <1>6, <1>7, PriorSteps

LEMMA OfflineStep ==
    ASSUME ControlInv, [Next]_vars, NEW u \in Users, OfflineOK(u)
    PROVE  OfflineOK(u)'
<1>0. TypeInv
  BY DEF ControlInv
<1>1. CASE (PullPriority(u) \/ PullFails(u)) /\ online' = online
  <2>1. u \in online
    BY <1>1 DEF PullPriority, PullFails, OfflineOK
  <2>2. QED
    BY <1>1, <2>1 DEF OfflineOK
<1>2. QED
  BY <1>0, <1>1, PriorSteps DEF OfflineOK

\* The users a command may leave itself with, and what it leaves.
LEMMA PriorityAdds ==
    ASSUME ControlInv, NEW c \in Commands, NEW v \in Users, Priority(c, v)
    PROVE  /\ high[v] \subseteq high'[v] /\ Leaves(c) \in high'[v]
           /\ \A x \in high'[v] : x \in high[v] \/ x = Leaves(c)
           /\ \A u \in Users \ {v} : high'[u] = high[u]
           /\ control'[c].todo = control[c].todo \ {v} /\ control'[c].at = {v}
           /\ control'[c].n = control[c].n /\ control'[c].stage = "push"
           /\ control[c].stage = "priority"
<1>1. high \in [Users -> SUBSET ((Packs \cup Commands) \X Nat)] /\ ControlTypeOK
  BY DEF ControlInv, TypeInv, TypeOK
<1>2. high' = [high EXCEPT ![v] = @ \cup {Leaves(c)}] /\ Turn(c, v)
  BY DEF Priority, Leaves
<1>3. /\ In(c, "priority")
      /\ control'[c] = [stage |-> "push", copy |-> control[c].copy, todo |-> control[c].todo \ {v},
                        at |-> {v}, n |-> control[c].n]
  BY <1>1, <1>2, TurnMoves
<1>4. QED
  BY <1>1, <1>2, <1>3 DEF In

LEMMA CommandFrame ==
    ASSUME ControlInv, NEW c \in Commands, Does(c), NEW u \in Users
    PROVE  /\ pushed \subseteq pushed'
           /\ high[u] \subseteq high'[u]
           /\ high'[u] = high[u] \/ Priority(c, u)
<1>1. pushed \subseteq pushed'
  BY DEF Does, RefuseCommand, Fetch, Remove, Add, NumberCommand, Push, CommandFails,
         CommandDies, Priority, vars, redis, clients
<1>2. high' = high \/ \E v \in Users : Priority(c, v)
  BY DEF Does, RefuseCommand, Fetch, Remove, Add, NumberCommand, Push, CommandFails,
         CommandDies, vars, redis, clients
<1>3. ASSUME NEW v \in Users, Priority(c, v)
      PROVE  high[u] \subseteq high'[u] /\ (high'[u] = high[u] \/ Priority(c, u))
  BY <1>3, PriorityAdds
<1>4. QED
  BY <1>1, <1>2, <1>3

LEMMA FreshStep ==
    ASSUME ControlInv, NEW c \in Commands, Does(c), FreshOK(c), DoneOK(c)
    PROVE  FreshOK(c)' /\ DoneOK(c)' /\ (Given(c) # 0 => Given(c)' = Given(c))
<1>0. TypeInv /\ ControlTypeOK
  BY DEF ControlInv
<1>1. CASE NumberCommand(c)
  <2>1. PICK n \in GenSeqId :
           control'[c] = [stage |-> IF MembersOf[ToOf[TargetOf[c]]] = {} THEN "done" ELSE "priority",
                          copy |-> control[c].copy, todo |-> MembersOf[ToOf[TargetOf[c]]],
                          at |-> control[c].at, n |-> n]
    BY <1>0, <1>1, NumberCommandMoves
  <2>2. Given(c) = 0
    BY <1>1 DEF NumberCommand, In, FreshOK, Given
  <2>3. /\ control'[c].stage \in {"done", "priority"}
        /\ control'[c].stage = "done" => control'[c].todo = {}
    BY <2>1
  <2>4. QED
    BY <2>2, <2>3 DEF FreshOK, DoneOK
<1>2. CASE ~ NumberCommand(c) /\ control[c].stage = "new"
  BY <1>2, CommandMoves DEF FreshOK, DoneOK, Goes, Given
<1>3. CASE ~ NumberCommand(c) /\ control[c].stage # "new"
  <2>1. /\ control[c] \in AtWork /\ control'[c] \in AtWork /\ control'[c].n = control[c].n
    BY <1>3, CommandMoves
  <2>2. Given(c)' = Given(c)
    BY <2>1 DEF Given, AtWork
  <2>3. FreshOK(c)'
    BY <1>3, <2>1, CommandMoves DEF FreshOK, Goes
  <2>4. DoneOK(c)'
    <3>1. SUFFICES ASSUME control'[c].stage = "done" PROVE control'[c].todo = {}
      BY DEF DoneOK
    <3>2. Push(c) /\ control[c].stage = "push"
      BY <1>3, <3>1, CommandMoves DEF Goes
    <3>3. Moves(c, IF control[c].todo = {} THEN "done" ELSE "priority")
      BY <3>2 DEF Push
    <3> DEFINE stage == IF control[c].todo = {} THEN "done" ELSE "priority"
    <3>4. stage \in WorkStages
      BY DEF WorkStages
    <3>5. stage = "done" => control[c].todo = {}
      OBVIOUS
    <3>6. Moves(c, stage) /\ control[c].stage \notin {"new", "refused"}
      BY <3>2, <3>3
    <3> HIDE DEF stage
    <3>7. control'[c] = With(c, stage)
      BY <1>0, <3>4, <3>6, StageMoves
    <3>8. QED
      BY <3>1, <3>5, <3>7 DEF With
  <2>5. QED
    BY <2>2, <2>3, <2>4
<1>4. QED
  BY <1>1, <1>2, <1>3

LEMMA HighOKStep ==
    ASSUME ControlInv, ReachInv, ClocksAgree, [ControlNext]_controlVars, NEW u \in Users
    PROVE  HighOK(u)'
<1>0. TypeInv /\ HighOK(u)
  BY DEF ControlInv, ReachInv
<1>1. ASSUME NEW x, NEW r \in Attempts(x[1]), Num(r) = x[2]
      PROVE  \E q \in Attempts(x[1])' : Num(q)' = x[2]
  <2>1. r \in Requests /\ Num(r) # 0
    BY DEF Attempts
  <2>2. Num(r)' = Num(r)
    BY <1>0, <2>1, AttemptsStay
  <2>3. r \in Attempts(x[1])'
    BY AttemptsGrow
  <2>4. QED
    BY <1>1, <2>2, <2>3
<1>2. ASSUME NEW c \in Commands, Given(c) # 0 PROVE Given(c)' = Given(c)
  <2>1. CASE control' = control
    BY <2>1 DEF Given
  <2>2. ASSUME NEW e \in Commands, Does(e) PROVE Given(c)' = Given(c)
    <3>1. CASE e = c
      BY <1>2, <2>2, <3>1, FreshStep DEF ReachInv
    <3>2. CASE e # c
      BY <2>2, <3>2, GivenMoves
    <3>3. QED
      BY <3>1, <3>2
  <2>3. QED
    BY <2>1, <2>2, ControlSteps
<1>3. ASSUME NEW x \in high[u]
      PROVE  \/ \E r \in Attempts(x[1])' : Num(r)' = x[2]
             \/ x[1] \in Commands /\ x[2] = Given(x[1])' /\ x[2] # 0
  BY <1>0, <1>1, <1>2 DEF HighOK
<1>4. CASE [Next]_vars
  BY <1>0, <1>1, <1>3, <1>4, HighMoves DEF HighOK
<1>5. ASSUME NEW c \in Commands, Does(c) PROVE HighOK(u)'
  <2>1. CASE high'[u] = high[u]
    BY <1>3, <2>1 DEF HighOK
  <2>2. CASE Priority(c, u)
    <3>1. \A x \in high'[u] : x \in high[u] \/ x = Leaves(c)
      BY <2>2, PriorityAdds
    <3>2. control[c].stage = "priority"
      BY <2>2, PriorityAdds
    <3>3. Given(c) = control[c].n /\ Given(c) # 0
      BY <3>2 DEF Given, ControlInv, GivenOK
    <3>4. Leaves(c)[1] = c /\ Leaves(c)[2] = Given(c)
      BY <3>3 DEF Leaves
    <3>5. Given(c)' = Given(c)
      BY <1>2, <3>3
    <3>6. QED
      BY <1>3, <3>1, <3>3, <3>4, <3>5 DEF HighOK
  <2>3. QED
    BY <1>5, <2>1, <2>2, CommandFrame
<1>6. QED
  BY <1>4, <1>5, ControlSteps

LEMMA HeardByCommand ==
    ASSUME ControlInv, NEW c \in Commands, NEW u \in Members(c), HeardOK(c, u), OfflineOK(u),
           NEW e \in Commands, Does(e), UNCHANGED Beside, ~ Fails
    PROVE  HeardOK(c, u)'
<1>0. TypeInv /\ ControlTypeOK /\ u \in Users
  BY ChatAssumption, ControlAssumption DEF ControlInv, Members
<1>1. /\ pushed \subseteq pushed' /\ high[u] \subseteq high'[u]
      /\ prior' = prior /\ online' = online
  BY <1>0, CommandFrame DEF Beside
<1>2. \A x : Due(u, x) => Due(u, x)'
  BY <1>1 DEF Due
<1>3. CASE e # c
  <2>1. control'[c] = control[c]
    BY <1>3, CommandMoves DEF OthersStay
  <2>2. Leaves(c)' = Leaves(c)
    BY <2>1 DEF Leaves
  <2>3. QED
    BY <1>1, <1>2, <2>1, <2>2 DEF HeardOK
<1>4. CASE e = c /\ NumberCommand(c)
  <2>1. PICK n \in GenSeqId :
           control'[c] = [stage |-> IF MembersOf[ToOf[TargetOf[c]]] = {} THEN "done" ELSE "priority",
                          copy |-> control[c].copy, todo |-> MembersOf[ToOf[TargetOf[c]]],
                          at |-> control[c].at, n |-> n]
    BY <1>0, <1>4, NumberCommandMoves
  <2>2. QED
    BY <2>1 DEF HeardOK, Members
<1>5. ASSUME e = c, NEW v \in Users, Priority(c, v) PROVE HeardOK(c, u)'
  <2>1. /\ control'[c].todo = control[c].todo \ {v} /\ control'[c].at = {v}
        /\ control'[c].n = control[c].n /\ control'[c].stage = "push"
        /\ control[c].stage = "priority" /\ Leaves(c) \in high'[v]
    BY <1>5, PriorityAdds
  <2>2. Leaves(c)' = Leaves(c)
    BY <2>1 DEF Leaves
  <2>3. QED
    BY <1>1, <1>2, <2>1, <2>2 DEF HeardOK
<1>6. CASE e = c /\ Push(c)
  <2> DEFINE stage == IF control[c].todo = {} THEN "done" ELSE "priority"
  <2>1. stage \in WorkStages /\ Moves(c, stage) /\ control[c].stage = "push"
    BY <1>6 DEF Push, WorkStages, In
  <2> HIDE DEF stage
  <2>2. control'[c] = With(c, stage)
    BY <1>0, <2>1, StageMoves
  <2>3. control'[c].n = control[c].n /\ control'[c].todo = control[c].todo
    BY <2>2 DEF With
  <2>4. Leaves(c)' = Leaves(c)
    BY <2>3 DEF Leaves
  <2>5. ASSUME u \in control[c].at PROVE Due(u, Leaves(c))'
    <3>1. CASE u \in online
      <4>1. <<u, c, control[c].n>> \in pushed'
        BY <1>6, <2>5, <3>1 DEF Push
      <4>2. Leaves(c)[1] = c /\ Leaves(c)[2] = control[c].n
        BY DEF Leaves
      <4>3. QED
        BY <2>4, <4>1, <4>2 DEF Due
    <3>2. CASE u \notin online
      BY <1>1, <3>2 DEF Due, OfflineOK
    <3>3. QED
      BY <3>1, <3>2
  <2>6. SUFFICES ASSUME u \notin control[c].todo PROVE Leaves(c)' \in high'[u] /\ Due(u, Leaves(c))'
    BY <2>3 DEF HeardOK
  <2>7. Leaves(c) \in high[u] /\ (u \in control[c].at \/ Due(u, Leaves(c)))
    BY <2>1, <2>6 DEF HeardOK
  <2>8. Due(u, Leaves(c)) => Due(u, Leaves(c))'
    BY <1>2, <2>4 DEF Due
  <2>9. QED
    BY <1>1, <2>4, <2>5, <2>7, <2>8
<1>7. CASE e = c /\ control'[c].stage \notin {"priority", "push", "done"}
  BY <1>7 DEF HeardOK
<1>8. QED
  BY <1>3, <1>4, <1>5, <1>6, <1>7, CommandMoves DEF Goes

LEMMA ReachStep ==
    ASSUME ControlInv, ReachInv, [ControlNext]_controlVars
    PROVE  ReachInv'
<1>1. SUFFICES ASSUME ClocksAgree
               PROVE  /\ Distinct'
                      /\ \A u \in Users : HighOK(u)' /\ OfflineOK(u)'
                      /\ \A c \in Commands : FreshOK(c)' /\ DoneOK(c)'
                      /\ AsksFrom = "start" /\ used'.failures = 0 =>
                            \A c \in Commands : \A u \in Members(c) : HeardOK(c, u)'
  BY DEF ReachInv, ClocksAgree, Members
<1>2. Distinct /\ Distinct'
  BY <1>1, DistinctStep DEF ReachInv
<1>3. ASSUME NEW u \in Users PROVE HighOK(u)' /\ OfflineOK(u)'
  <2>1. HighOK(u)'
    BY <1>1, HighOKStep
  <2>2. OfflineOK(u)
    BY <1>1 DEF ReachInv
  <2>3. OfflineOK(u)'
    BY <2>2, OfflineStep, ControlSteps DEF OfflineOK, Beside
  <2>4. QED
    BY <2>1, <2>3
<1>4. ASSUME NEW c \in Commands PROVE FreshOK(c)' /\ DoneOK(c)'
  <2>1. FreshOK(c) /\ DoneOK(c)
    BY <1>1 DEF ReachInv
  <2>2. CASE control'[c] = control[c]
    BY <2>1, <2>2 DEF FreshOK, DoneOK
  <2>3. CASE Does(c)
    BY <2>1, <2>3, FreshStep
  <2>4. QED
    BY <2>2, <2>3, ControlSteps, CommandMoves DEF OthersStay
<1>5. ASSUME AsksFrom = "start", used'.failures = 0, NEW c \in Commands, NEW u \in Members(c)
      PROVE  HeardOK(c, u)'
  <2>0. u \in Users
    BY ChatAssumption, ControlAssumption DEF Members
  <2>1. used.failures = 0 /\ ~ Fails
    BY <1>5, NoFailure
  <2>2. HeardOK(c, u) /\ OfflineOK(u) /\ HighOK(u)
    BY <1>1, <1>5, <2>0, <2>1 DEF ReachInv
  <2>3. CASE [Next]_vars /\ control' = control
    <3>1. SUFFICES ASSUME control[c].stage \in {"priority", "push", "done"}, u \notin control[c].todo
                   PROVE  /\ Leaves(c) \in high'[u]
                          /\ (control[c].stage = "push" /\ u \in control[c].at) \/ Due(u, Leaves(c))'
      BY <2>3 DEF HeardOK, Leaves
    <3>2. Leaves(c) \in high[u] /\ ((control[c].stage = "push" /\ u \in control[c].at) \/ Due(u, Leaves(c)))
      BY <2>2, <3>1 DEF HeardOK
    <3>3. high[u] \subseteq high'[u]
      BY <2>0, <2>3, HighMoves DEF ControlInv
    <3>4. Leaves(c)' = Leaves(c)
      BY <2>3 DEF Leaves
    <3> DEFINE x == Leaves(c)
    <3>5. ASSUME NEW y \in high[u], Due(u, y) PROVE Due(u, y)'
      BY <1>2, <1>5, <2>0, <2>1, <2>2, <2>3, <3>5, DueInChat
    <3>6. Due(u, Leaves(c)) => Due(u, Leaves(c))'
      BY <3>2, <3>4, <3>5 DEF Due
    <3>7. QED
      BY <3>2, <3>3, <3>6
  <2>4. ASSUME NEW e \in Commands, Does(e), UNCHANGED Beside PROVE HeardOK(c, u)'
    BY <2>1, <2>2, <2>4, HeardByCommand
  <2>5. QED
    BY <2>3, <2>4, ControlSteps
<1>6. QED
  BY <1>2, <1>3, <1>4, <1>5

LEMMA ReachInit == ControlInit => ReachInv
<1> SUFFICES ASSUME ControlInit PROVE ReachInv
  OBVIOUS
<1>1. /\ \A r \in Requests : Num(r) = 0
      /\ \A c \in Commands : Given(c) = 0 /\ control[c].stage = "new"
      /\ \A u \in Users : high[u] = {} /\ prior[u].state = "none"
  BY DEF ControlInit, Init, Idle, Given, Num
<1>2. Distinct
  BY <1>1 DEF Distinct
<1>3. QED
  BY <1>1, <1>2 DEF ReachInv, HighOK, OfflineOK, FreshOK, DoneOK, HeardOK

\* Numbers given out once, clients that start from the latest, nothing failing:
\* a command that is done reaches every recipient, wherever in its handling he
\* connects, asks or drops.
THEOREM CommandReachedAlways == ControlSpec => []CommandReached
<1>1. ASSUME ReachInv PROVE CommandReached
  <2>1. SUFFICES ASSUME ClocksAgree, AsksFrom = "start", used.failures = 0,
                        NEW c \in Commands, In(c, "done"), NEW u \in MembersOf[ToOf[TargetOf[c]]]
                 PROVE  Reached(u, <<c, control[c].n>>)
    BY DEF CommandReached
  <2>2. HeardOK(c, u) /\ DoneOK(c) /\ control[c].stage = "done"
    BY <1>1, <2>1 DEF ReachInv, Members, In
  <2>3. Leaves(c) \in high[u] /\ Due(u, Leaves(c))
    BY <2>2 DEF HeardOK, DoneOK
  <2>4. QED
    BY <2>3 DEF Due, Leaves, Reached
<1>2. QED
  BY <1>1, ControlInitType, ControlStepType, ReachInit, ReachStep, PTL DEF ControlSpec

=============================================================================
