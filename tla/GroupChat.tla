------------------------------ MODULE GroupChat ------------------------------
(***************************************************************************)
(* GroupChatServer: a group in Redis is a hash of its fields               *)
(* (GROUPINFO:<group>), a hash of its members (GROUPMEMBER:<group>) and an *)
(* entry in the list of groups of every member (MYGROUP:<user>).           *)
(*                                                                         *)
(* A handler reads and checks the group once and then sends Redis one      *)
(* command after the other.  The commands a request has still to send are  *)
(* its plan; any number of requests about the group, on several servers,   *)
(* are interleaved command by command.  A command that fails is logged and *)
(* the handler goes on; a server that dies leaves the rest of the plan     *)
(* undone.                                                                 *)
(***************************************************************************)
EXTENDS Integers, Sequences, FiniteSets, SequencesExt

CONSTANTS
    Users,
    Nobody,         \* no creatorId: what the hash of a group that is not there gives
    MaxRequests,    \* bounds
    MaxFailures

ASSUME GroupAssumption ==
    /\ IsFiniteSet(Users) /\ Nobody \notin Users
    /\ MaxRequests \in Nat /\ MaxFailures \in Nat

VARIABLES
    exists,     \* GROUPINFO is there (EXISTS)
    creator,    \* its creatorId
    members,    \* GROUPMEMBER
    mine,       \* users whose MYGROUP names the group
    plan,       \* the commands each request has still to send
    about,      \* the users a request may change
    began,      \* requests so far
    failures,
    crossed,    \* history: users changed by requests that overlapped or failed
    kind,       \* history: what each request is
    met         \* history: requests that overlapped with another, or failed

vars == <<exists, creator, members, mine, plan, about, began, failures, crossed, kind, met>>

Requests == 1 .. MaxRequests
Cmd(name, user) == [name |-> name, user |-> user]
Commands ==
    [name : {"hset", "zadd", "hdel", "zrem", "set_creator", "save"}, user : Users]
        \cup [name : {"refresh", "del_info", "del_members", "read"}, user : {Nobody}]

TypeOK ==
    /\ exists \in BOOLEAN
    /\ creator \in Users \cup {Nobody}
    /\ members \subseteq Users
    /\ mine \subseteq Users
    /\ plan \in [Requests -> Seq(Commands)]
    /\ about \in [Requests -> SUBSET Users]
    /\ began \in 0 .. MaxRequests
    /\ failures \in 0 .. MaxFailures
    /\ crossed \subseteq Users
    /\ kind \in [Requests -> {"none", "create", "dismiss", "update", "join", "quit"}]
    /\ met \subseteq Requests
    /\ creator # Nobody => exists

Init ==
    /\ exists = FALSE
    /\ creator = Nobody
    /\ members = {}
    /\ mine = {}
    /\ plan = [r \in Requests |-> <<>>]
    /\ about = [r \in Requests |-> {}]
    /\ began = 0
    /\ failures = 0
    /\ crossed = {}
    /\ kind = [r \in Requests |-> "none"]
    /\ met = {}

-----------------------------------------------------------------------------
(***************************************************************************)
(* GroupchatManager: the commands of its methods.                          *)
(***************************************************************************)
Refresh == Cmd("refresh", Nobody)

\* Two commands for each user.
Pairs(q, first, second) ==
    [i \in 1 .. 2 * Len(q) |->
        IF i % 2 = 1 THEN Cmd(first, q[(i + 1) \div 2]) ELSE Cmd(second, q[i \div 2])]

\* Fault: the update time is refreshed first.
ForEachRefreshFirst(q, first, second) ==
    IF q = <<>> THEN <<>>
    ELSE <<Refresh>> \o Pairs(q, first, second)

\* And then refreshUpdateTime - no command at all for an empty list.
ForEach(q, first, second) ==
    IF q = <<>> THEN <<>>
    ELSE Pairs(q, first, second) \o <<Refresh>>

AddMember(q) == ForEach(q, "hset", "zadd")

\* Fault: the list of groups of who leaves is forgotten.
DelMemberOneSide(q) == ForEach(q, "hdel", "hdel")
DelMember(q) == ForEach(q, "hdel", "zrem")

RemoveGroup == <<Cmd("del_info", Nobody), Cmd("del_members", Nobody)>>

\* Fault: the members are asked for when the group has been removed.
DismissReadsLate == RemoveGroup \o <<Cmd("read", Nobody)>>

\* dismissGroup: getAllMembers, removeGroup, and delMember of who was read.
DismissPlan == <<Cmd("read", Nobody)>> \o RemoveGroup

-----------------------------------------------------------------------------
Active(r) == plan[r] # <<>>
AtWork == {r \in Requests : Active(r)}

\* A request passes its checks and starts.  (One that is refused changes
\* nothing.)
Begin(r, what, p, users) ==
    /\ r = began + 1
    /\ began' = r
    /\ kind' = [kind EXCEPT ![r] = what]
    /\ plan' = [plan EXCEPT ![r] = p]
    /\ about' = [about EXCEPT ![r] = users]
    /\ crossed' = crossed \cup UNION {users \cap about[o] : o \in AtWork}
    /\ met' = IF AtWork = {} THEN met ELSE met \cup AtWork \cup {r}
    /\ UNCHANGED <<exists, creator, members, mine, failures>>

\* createGroup.  The group id is the time in milliseconds: a second request in
\* the same millisecond is about the same group.
CreateGroup(r) ==
    /\ \A o \in 1 .. began : kind[o] = "create" /\ Active(o)
    /\ \E u \in Users, invited \in SUBSET Users : \E q \in SetToSeqs(invited) :
          Begin(r, "create", <<Cmd("save", u)>> \o AddMember(q), invited)

\* The id is known from a first request to create the group.
Known == began > 0

\* dismissGroup is the creator's, as getGroupInfo finds it: the hash of a
\* group that is gone has an empty creatorId, which an empty operatorId equals.
DismissGroup(r) == Known /\ Begin(r, "dismiss", DismissPlan, Users)

\* Fault: the new creator may be missing in the request.
UpdateGroupCreatorUnchecked(r) ==
    /\ Known /\ creator # Nobody
    /\ Begin(r, "update", DelMember(<<creator>>) \o <<Cmd("set_creator", Nobody)>>, {creator})

\* updateGroupCreator and updateGroupInfo want an operatorId.  The old creator
\* leaves the group - also when the new one is the old one.
UpdateGroupCreator(r) ==
    /\ Known /\ creator # Nobody
    /\ \E new \in Users :
          Begin(r, "update",
                AddMember(<<new>>) \o DelMember(<<creator>>) \o <<Cmd("set_creator", new)>>,
                {new, creator})

\* Every field that was read is written back, the creator with the others.
UpdateGroupInfo(r) ==
    /\ Known /\ creator # Nobody
    /\ Begin(r, "update", <<Cmd("save", creator)>>, {})

\* getGroupInfo succeeds for a group that does not exist: anybody may join it.
JoinGroup(r) ==
    /\ Known
    /\ \E users \in SUBSET Users \ {{}} : \E q \in SetToSeqs(users) :
          Begin(r, "join", AddMember(q), users)

QuitGroup(r) ==
    /\ Known
    /\ \E users \in SUBSET Users \ {{}} : \E q \in SetToSeqs(users) :
          Begin(r, "quit", DelMember(q), users)

-----------------------------------------------------------------------------
\* What a command does to the keys.
Effect(c) ==
    /\ exists' = CASE c.name \in {"save", "set_creator", "refresh"} -> TRUE
                   [] c.name = "del_info" -> FALSE
                   [] OTHER -> exists
    /\ creator' = CASE c.name \in {"save", "set_creator"} -> c.user
                    [] c.name = "del_info" -> Nobody
                    [] OTHER -> creator
    /\ members' = CASE c.name = "hset" -> members \cup {c.user}
                    [] c.name = "hdel" -> members \ {c.user}
                    [] c.name = "del_members" -> {}
                    [] OTHER -> members
    /\ mine' = CASE c.name = "zadd" -> mine \cup {c.user}
                 [] c.name = "zrem" -> mine \ {c.user}
                 [] OTHER -> mine

\* The next command of a request.  "read" returns the members in the order of
\* a std::map; delMember goes through them when the keys are gone.
Command(r) ==
    /\ Active(r)
    /\ Effect(Head(plan[r]))
    /\ plan' = [plan EXCEPT ![r] =
                  Tail(@) \o IF Head(@).name = "read" THEN DelMember(SetToSeq(members)) ELSE <<>>]
    /\ UNCHANGED <<about, began, failures, crossed, kind, met>>

\* A request goes on with `rest` after a failure.
Broken(r, rest) ==
    /\ Active(r)
    /\ failures < MaxFailures
    /\ failures' = failures + 1
    /\ plan' = [plan EXCEPT ![r] = rest]
    /\ crossed' = crossed \cup about[r]
    /\ met' = met \cup {r}
    /\ UNCHANGED <<exists, creator, members, mine, about, began, kind>>

\* Redis fails: the handler logs it and goes on with the next command.  (No
\* member has been read when "read" fails, and delMember finds nothing to do.)
CommandFails(r) == Active(r) /\ Broken(r, Tail(plan[r]))

\* The server dies.
Dies(r) == Broken(r, <<>>)

Next ==
    \E r \in Requests :
        \/ CreateGroup(r) \/ DismissGroup(r) \/ UpdateGroupCreator(r) \/ UpdateGroupInfo(r)
        \/ JoinGroup(r) \/ QuitGroup(r)
        \/ Command(r) \/ CommandFails(r) \/ Dies(r)

Spec == Init /\ [][Next]_vars

-----------------------------------------------------------------------------
\* The two sides of a membership agree for every user no request is at work
\* on, whatever other requests are under way - as long as requests about this
\* user never overlapped and none was cut short.  (Where they do, a command of
\* one between two commands of the other leaves one side only, for good.)
BothSides ==
    \A u \in Users \ crossed :
        (\A r \in AtWork : u \notin about[r]) => (u \in members <=> u \in mine)

\* However requests overlap, a group that has members when all is quiet is one
\* that GroupChatRPCServant finds, so that a message that is recalled or edited
\* reaches them: a dismissal in the middle of a join cannot leave members
\* behind under a group that does not exist.  (A failure can.)
MembersReached == AtWork = {} /\ failures = 0 /\ members # {} => exists

\* A dismissal that met no other request, in a group whose sides agreed, leaves
\* no member, nobody whose list still names the group, and nobody who could
\* manage it.  (The hash of the fields is there again when there were members:
\* refreshUpdateTime writes into it.)
DismissedGone ==
    AtWork = {} /\ began > 0 /\ kind[began] = "dismiss" /\ began \notin met /\ crossed = {}
        => members = {} /\ mine = {} /\ creator = Nobody
=============================================================================
