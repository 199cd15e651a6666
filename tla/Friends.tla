------------------------------- MODULE Friends -------------------------------
(***************************************************************************)
(* UserFriendServer: who is whose friend (FRIEND:<user>, a sorted set) and *)
(* the attributes a user gives a friend (USERATTR:<user>.<friend>).        *)
(*                                                                         *)
(* A handler goes through the list of a request and sends Redis two        *)
(* commands for every friend it adds, four for every friend it removes.    *)
(* The lock that would hold others off is commented out, so requests       *)
(* interleave command by command; a command that fails is logged and the   *)
(* handler goes on, a server that dies leaves the rest undone.             *)
(***************************************************************************)
EXTENDS Integers, Sequences, FiniteSets, SequencesExt

CONSTANTS
    Users,
    Lists,          \* the lists of <<user, friend>> a request may name
    MaxRequests,    \* bounds
    MaxFailures

Links == {l \in Users \X Users : l[1] # l[2]}

ASSUME FriendsAssumption ==
    Lists \subseteq Seq(Links) /\ MaxRequests \in Nat /\ MaxFailures \in Nat

VARIABLES
    friends,    \* <<u, v>>: v is in FRIEND:u
    attrs,      \* <<u, v>>: there is a USERATTR:u.v
    plan,       \* the commands each request has still to send
    kind,       \* what each request is
    about,      \* the friendships each request is about
    began,      \* requests so far
    failures,
    asked,      \* history: friendships whose last request was to add
    crossed     \* history: friendships of a removal and an addition that
                \* overlapped, or of a request that failed

friendVars == <<friends, attrs, plan, kind, about, began, failures, asked, crossed>>

Requests == 1 .. MaxRequests
Cmd(name, link) == [name |-> name, link |-> link]
Back(l) == <<l[2], l[1]>>
Friendship(l) == {l[1], l[2]}
Friendships == {Friendship(l) : l \in Links}

FriendsTypeOK ==
    /\ friends \subseteq Links
    /\ attrs \subseteq Links
    /\ plan \in [Requests -> Seq([name : {"zadd", "zrem", "del", "hset"}, link : Links])]
    /\ kind \in [Requests -> {"none", "add", "remove", "attr"}]
    /\ about \in [Requests -> SUBSET Friendships]
    /\ began \in 0 .. MaxRequests
    /\ failures \in 0 .. MaxFailures
    /\ asked \subseteq Friendships
    /\ crossed \subseteq Friendships

FriendsInit ==
    /\ friends = {} /\ attrs = {}
    /\ plan = [r \in Requests |-> <<>>]
    /\ kind = [r \in Requests |-> "none"]
    /\ about = [r \in Requests |-> {}]
    /\ began = 0 /\ failures = 0
    /\ asked = {} /\ crossed = {}

-----------------------------------------------------------------------------
(***************************************************************************)
(* UserInfoManager.                                                        *)
(***************************************************************************)
\* Fault: the friend is entered for the user only.
AddFriendOneSide(l) == <<Cmd("zadd", l)>>

AddFriend(l) == <<Cmd("zadd", l), Cmd("zadd", Back(l))>>

RemoveFriend(l) ==
    <<Cmd("zrem", l), Cmd("zrem", Back(l)), Cmd("del", l), Cmd("del", Back(l))>>

\* The friend check of SingleChatServer asks for one side only.
CheckUserFriend(user, friend) == <<user, friend>> \in friends

\* The commands for one friend after those for the other, as many for each.
OneByOne(q) ==
    LET n == IF q = <<>> THEN 1 ELSE Len(q[1])
    IN  [i \in 1 .. n * Len(q) |-> q[((i - 1) \div n) + 1][((i - 1) % n) + 1]]

-----------------------------------------------------------------------------
AtWork == {r \in Requests : plan[r] # <<>>}
Named(list) == {Friendship(list[i]) : i \in 1 .. Len(list)}

\* Friendships that a request of another kind is working on.
Overlapping(what) == UNION {about[o] : o \in {o \in AtWork : kind[o] # what}}

Begin(r, what, p, pairs) ==
    /\ r = began + 1
    /\ began' = r
    /\ kind' = [kind EXCEPT ![r] = what]
    /\ plan' = [plan EXCEPT ![r] = p]
    /\ about' = [about EXCEPT ![r] = pairs]
    /\ crossed' = crossed \cup (pairs \cap Overlapping(what))
    /\ UNCHANGED <<friends, attrs, failures>>

\* addFriend and removeFriend, of a client or through the RPC interface.
AddFriends(r) ==
    \E list \in Lists :
        /\ Begin(r, "add", OneByOne([i \in 1 .. Len(list) |-> AddFriend(list[i])]), Named(list))
        /\ asked' = asked \cup Named(list)

RemoveFriends(r) ==
    \E list \in Lists :
        /\ Begin(r, "remove", OneByOne([i \in 1 .. Len(list) |-> RemoveFriend(list[i])]), Named(list))
        /\ asked' = asked \ Named(list)

\* setUserAttribute does not ask whether the two are friends.
SetUserAttribute(r) ==
    \E l \in Links : Begin(r, "attr", <<Cmd("hset", l)>>, {}) /\ UNCHANGED asked

\* The next command of a request.
Command(r) ==
    /\ plan[r] # <<>>
    /\ LET c == Head(plan[r])
       IN  /\ friends' = CASE c.name = "zadd" -> friends \cup {c.link}
                           [] c.name = "zrem" -> friends \ {c.link}
                           [] OTHER -> friends
           /\ attrs' = CASE c.name = "hset" -> attrs \cup {c.link}
                         [] c.name = "del" -> attrs \ {c.link}
                         [] OTHER -> attrs
    /\ plan' = [plan EXCEPT ![r] = Tail(@)]
    /\ UNCHANGED <<kind, about, began, failures, asked, crossed>>

\* Redis fails and the handler goes on, or the server dies.
CommandFails(r) ==
    /\ plan[r] # <<>>
    /\ failures < MaxFailures
    /\ failures' = failures + 1
    /\ \E rest \in {Tail(plan[r]), <<>>} : plan' = [plan EXCEPT ![r] = rest]
    /\ crossed' = crossed \cup about[r]
    /\ UNCHANGED <<friends, attrs, kind, about, began, asked>>

FriendsNext ==
    \E r \in Requests :
        \/ AddFriends(r) \/ RemoveFriends(r) \/ SetUserAttribute(r)
        \/ Command(r) \/ CommandFails(r)

-----------------------------------------------------------------------------
\* When no request is at work on a friendship, both sides of it are as the last
\* request about it asked, so that both may write to each other or neither -
\* as long as no addition and removal of the two overlapped and none failed.
\* (Where they did, one of the two may write and is refused the answer.)
FriendsAsAsked ==
    \A l \in Links :
        LET f == Friendship(l)
        IN  f \notin crossed /\ (\A r \in AtWork : f \notin about[r])
                => (CheckUserFriend(l[1], l[2]) <=> f \in asked)
=============================================================================
