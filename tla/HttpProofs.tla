------------------------------ MODULE HttpProofs ------------------------------
(***************************************************************************)
(* What is proved of the interface for other applications (HttpServer) and *)
(* of the friendships it changes (Friends): a task is in one place, and    *)
(* both sides of a friendship are as the last request about it asked.      *)
(***************************************************************************)
EXTENDS HttpServer, SequenceTheorems, TLAPS

FriendCmds == [name : {"zadd", "zrem", "del", "hset"}, link : Links]

\* A plan holds this command.
Sends(p, c) == \E i \in 1 .. Len(p) : p[i] = c

\* The plan is that of a request of this kind about these friendships.
Fits(p, what, pairs) ==
    \A i \in 1 .. Len(p) :
        /\ p[i].name = "zadd" => what = "add" /\ Friendship(p[i].link) \in pairs
        /\ p[i].name = "zrem" => what = "remove" /\ Friendship(p[i].link) \in pairs

PlansFit ==
    \A r \in Requests :
        /\ Fits(plan[r], kind[r], about[r])
        /\ r > began => plan[r] = <<>>

\* Requests at work on a friendship want what was asked for last.
OneKind ==
    \A r \in Requests, f \in Friendships \ crossed :
        plan[r] # <<>> /\ f \in about[r] =>
            /\ kind[r] = "add" => f \in asked
            /\ kind[r] = "remove" => f \notin asked

\* What is not as it was asked for is still to be sent.
Due ==
    \A l \in Links : Friendship(l) \notin crossed =>
        /\ l \in friends /\ Friendship(l) \notin asked =>
              \E r \in Requests : Sends(plan[r], Cmd("zrem", l))
        /\ l \notin friends /\ Friendship(l) \in asked =>
              \E r \in Requests : Sends(plan[r], Cmd("zadd", l))

FriendsInv == PlansFit /\ OneKind /\ Due

-----------------------------------------------------------------------------
(***************************************************************************)
(* Plans of requests about friends.                                        *)
(***************************************************************************)
LEMMA CmdIs ==
    /\ \A n, l : Cmd(n, l).name = n /\ Cmd(n, l).link = l
    /\ \A l \in Links, n \in {"zadd", "zrem", "del", "hset"} : Cmd(n, l) \in FriendCmds
    /\ \A c \in FriendCmds : c = Cmd(c.name, c.link) /\ c.link \in Links
<1>1. \A n, l : Cmd(n, l).name = n /\ Cmd(n, l).link = l
    BY DEF Cmd
<1>2. \A l \in Links, n \in {"zadd", "zrem", "del", "hset"} : Cmd(n, l) \in FriendCmds
    BY DEF Cmd, FriendCmds
<1>3. \A c \in FriendCmds : c = Cmd(c.name, c.link) /\ c.link \in Links
    BY DEF Cmd, FriendCmds
<1> QED  BY <1>1, <1>2, <1>3

\* A friendship has two links.
LEMMA TwoSides ==
    ASSUME NEW l \in Links
    PROVE  /\ Back(l) \in Links /\ Friendship(Back(l)) = Friendship(l)
           /\ Friendship(l) \in Friendships
           /\ \A m \in Links : Friendship(m) = Friendship(l) => m = l \/ m = Back(l)
<1>1. /\ l[1] \in Users /\ l[2] \in Users /\ l[1] # l[2] /\ l = <<l[1], l[2]>>
      /\ \A m \in Links : m = <<m[1], m[2]>> /\ m[1] # m[2]
    BY DEF Links
<1>2. Back(l) \in Links /\ Back(l)[1] = l[2] /\ Back(l)[2] = l[1]
    BY <1>1 DEF Back, Links
<1>3. Friendship(Back(l)) = Friendship(l)
    BY <1>2 DEF Friendship
<1>4. Friendship(l) \in Friendships
    BY DEF Friendships
<1>5. ASSUME NEW m \in Links, Friendship(m) = Friendship(l)
      PROVE  m = l \/ m = Back(l)
    <2>1. m[1] \in {l[1], l[2]} /\ m[2] \in {l[1], l[2]}
        BY <1>5 DEF Friendship
    <2>2. (m[1] = l[1] /\ m[2] = l[2]) \/ (m[1] = l[2] /\ m[2] = l[1])
        BY <1>1, <2>1
    <2>3. m = <<m[1], m[2]>> /\ l = <<l[1], l[2]>> /\ Back(l) = <<l[2], l[1]>>
        BY <1>1 DEF Back
    <2> QED  BY <2>2, <2>3
<1> QED  BY <1>2, <1>3, <1>4, <1>5

\* Where OneByOne finds the jth of the n commands for the kth friend of m.
LEMMA Slots ==
    ASSUME NEW n, n = 2 \/ n = 4, NEW m \in Nat
    PROVE  /\ n * m \in Nat
           /\ \A i \in 1 .. n * m :
                 ((i - 1) \div n) + 1 \in 1 .. m /\ ((i - 1) % n) + 1 \in 1 .. n
           /\ \A k \in 1 .. m, j \in 1 .. n : \E i \in 1 .. n * m :
                 ((i - 1) \div n) + 1 = k /\ ((i - 1) % n) + 1 = j
<1>1. /\ 2 * m \in Nat
      /\ \A i \in 1 .. 2 * m :
             ((i - 1) \div 2) + 1 \in 1 .. m /\ ((i - 1) % 2) + 1 \in 1 .. 2
    OBVIOUS
<1>2. ASSUME NEW k \in 1 .. m, NEW j \in 1 .. 2
      PROVE  \E i \in 1 .. 2 * m : ((i - 1) \div 2) + 1 = k /\ ((i - 1) % 2) + 1 = j
    <2>1. /\ 2 * (k - 1) + j \in 1 .. 2 * m
          /\ (((2 * (k - 1) + j) - 1) \div 2) + 1 = k
          /\ (((2 * (k - 1) + j) - 1) % 2) + 1 = j
        OBVIOUS
    <2> QED  BY <2>1
<1>3. /\ 4 * m \in Nat
      /\ \A i \in 1 .. 4 * m :
             ((i - 1) \div 4) + 1 \in 1 .. m /\ ((i - 1) % 4) + 1 \in 1 .. 4
    OBVIOUS
<1>4. ASSUME NEW k \in 1 .. m, NEW j \in 1 .. 4
      PROVE  \E i \in 1 .. 4 * m : ((i - 1) \div 4) + 1 = k /\ ((i - 1) % 4) + 1 = j
    <2>1. /\ 4 * (k - 1) + j \in 1 .. 4 * m
          /\ (((4 * (k - 1) + j) - 1) \div 4) + 1 = k
          /\ (((4 * (k - 1) + j) - 1) % 4) + 1 = j
        OBVIOUS
    <2> QED  BY <2>1
<1>5. CASE n = 2
    BY <1>1, <1>2, <1>5
<1>6. CASE n = 4
    BY <1>3, <1>4, <1>6
<1> QED  BY <1>5, <1>6

LEMMA OneByOneOf ==
    ASSUME NEW S, NEW q \in Seq(Seq(S)), NEW n, n = 2 \/ n = 4,
           \A k \in 1 .. Len(q) : Len(q[k]) = n
    PROVE  /\ OneByOne(q) \in Seq(S)
           /\ \A i \in 1 .. Len(OneByOne(q)) :
                 \E k \in 1 .. Len(q), j \in 1 .. n : OneByOne(q)[i] = q[k][j]
           /\ \A k \in 1 .. Len(q), j \in 1 .. n :
                 \E i \in 1 .. Len(OneByOne(q)) : OneByOne(q)[i] = q[k][j]
<1> DEFINE p == OneByOne(q)
           all == n * Len(q)
           a(i) == ((i - 1) \div n) + 1
           b(i) == ((i - 1) % n) + 1
<1>1. Len(q) \in Nat
    BY LenProperties
<1>2. p = [i \in 1 .. all |-> q[a(i)][b(i)]]
    <2>1. CASE q = <<>>
        <3>1. Len(q) = 0
            BY <2>1
        <3>2. 1 .. 1 * Len(q) = {} /\ 1 .. n * Len(q) = {}
            BY <1>1, <3>1
        <3> QED  BY <2>1, <3>2 DEF OneByOne
    <2>2. CASE q # <<>>
        <3>1. Len(q[1]) = n
            BY <1>1, <2>2, EmptySeq
        <3> QED  BY <2>2, <3>1 DEF OneByOne
    <2> QED  BY <2>1, <2>2
<1>3. /\ all \in Nat
      /\ \A i \in 1 .. all : a(i) \in 1 .. Len(q) /\ b(i) \in 1 .. n
      /\ \A k \in 1 .. Len(q), j \in 1 .. n : \E i \in 1 .. all : a(i) = k /\ b(i) = j
    BY <1>1, Slots
<1>4. \A k \in 1 .. Len(q), j \in 1 .. n : q[k][j] \in S
    <2>1. ASSUME NEW k \in 1 .. Len(q), NEW j \in 1 .. n
          PROVE  q[k][j] \in S
        <3>1. q[k] \in Seq(S)
            BY ElementOfSeq
        <3> QED  BY <3>1, ElementOfSeq
    <2> QED  BY <2>1
<1> HIDE DEF p, all, a, b
<1>5. p \in Seq(S) /\ Len(p) = all
    <2>1. p \in [1 .. all -> S]
        BY <1>2, <1>3, <1>4
    <2> QED  BY <1>3, <2>1, SeqDef, LenProperties
<1>6. \A i \in 1 .. Len(p) : p[i] = q[a(i)][b(i)]
    BY <1>2, <1>5
<1>7. ASSUME NEW i \in 1 .. Len(p)
      PROVE  \E k \in 1 .. Len(q), j \in 1 .. n : p[i] = q[k][j]
    BY <1>3, <1>5, <1>6
<1>8. ASSUME NEW k \in 1 .. Len(q), NEW j \in 1 .. n
      PROVE  \E i \in 1 .. Len(p) : p[i] = q[k][j]
    <2>1. PICK i \in 1 .. all : a(i) = k /\ b(i) = j
        BY <1>3
    <2> QED  BY <1>5, <1>6, <2>1
<1> QED  BY <1>5, <1>7, <1>8 DEF p

\* The plan of a request to add or remove friends.
LEMMA FriendPlan ==
    ASSUME NEW list \in Seq(Links), NEW q, NEW name, NEW what,
           \/ /\ q = [i \in 1 .. Len(list) |-> AddFriend(list[i])]
              /\ name = "zadd" /\ what = "add"
           \/ /\ q = [i \in 1 .. Len(list) |-> RemoveFriend(list[i])]
              /\ name = "zrem" /\ what = "remove"
    PROVE  /\ OneByOne(q) \in Seq(FriendCmds)
           /\ Fits(OneByOne(q), what, Named(list))
           /\ \A l \in Links : Friendship(l) \in Named(list) => Sends(OneByOne(q), Cmd(name, l))
           /\ Named(list) \subseteq Friendships
<1>1. Len(list) \in Nat /\ \A i \in 1 .. Len(list) : list[i] \in Links
    BY LenProperties, ElementOfSeq
<1> DEFINE Shape(n) ==
               \A i \in 1 .. Len(list) :
                   /\ q[i] \in Seq(FriendCmds) /\ Len(q[i]) = n
                   /\ q[i][1] = Cmd(name, list[i]) /\ q[i][2] = Cmd(name, Back(list[i]))
                   /\ n = 4 => /\ q[i][3] = Cmd("del", list[i])
                               /\ q[i][4] = Cmd("del", Back(list[i]))
<1>2. PICK n : (n = 2 \/ n = 4) /\ Shape(n)
    <2>1. CASE q = [i \in 1 .. Len(list) |-> AddFriend(list[i])] /\ name = "zadd"
        <3>1. ASSUME NEW i \in 1 .. Len(list)
              PROVE  /\ q[i] \in Seq(FriendCmds) /\ Len(q[i]) = 2
                     /\ q[i][1] = Cmd(name, list[i]) /\ q[i][2] = Cmd(name, Back(list[i]))
            <4>1. Cmd("zadd", list[i]) \in FriendCmds /\ Cmd("zadd", Back(list[i])) \in FriendCmds
                BY <1>1, CmdIs, TwoSides
            <4>2. q[i] = <<Cmd("zadd", list[i]), Cmd("zadd", Back(list[i]))>>
                BY <2>1 DEF AddFriend
            <4> DEFINE x == Cmd("zadd", list[i])
                       y == Cmd("zadd", Back(list[i]))
            <4> HIDE DEF x, y
            <4>3. <<x, y>> \in Seq(FriendCmds) /\ Len(<<x, y>>) = 2
                  /\ <<x, y>>[1] = x /\ <<x, y>>[2] = y
                BY <4>1 DEF x, y
            <4> QED  BY <2>1, <4>2, <4>3 DEF x, y
        <3>2. Shape(2)
            BY <3>1
        <3> HIDE DEF Shape
        <3> QED  BY <3>2
    <2>2. CASE q = [i \in 1 .. Len(list) |-> RemoveFriend(list[i])] /\ name = "zrem"
        <3>1. ASSUME NEW i \in 1 .. Len(list)
              PROVE  /\ q[i] \in Seq(FriendCmds) /\ Len(q[i]) = 4
                     /\ q[i][1] = Cmd(name, list[i]) /\ q[i][2] = Cmd(name, Back(list[i]))
                     /\ q[i][3] = Cmd("del", list[i]) /\ q[i][4] = Cmd("del", Back(list[i]))
            <4>1. /\ Cmd("zrem", list[i]) \in FriendCmds /\ Cmd("zrem", Back(list[i])) \in FriendCmds
                  /\ Cmd("del", list[i]) \in FriendCmds /\ Cmd("del", Back(list[i])) \in FriendCmds
                BY <1>1, CmdIs, TwoSides
            <4>2. q[i] = <<Cmd("zrem", list[i]), Cmd("zrem", Back(list[i])),
                           Cmd("del", list[i]), Cmd("del", Back(list[i]))>>
                BY <2>2 DEF RemoveFriend
            <4> DEFINE x == Cmd("zrem", list[i])
                       y == Cmd("zrem", Back(list[i]))
                       z == Cmd("del", list[i])
                       w == Cmd("del", Back(list[i]))
            <4>3. x \in FriendCmds /\ y \in FriendCmds /\ z \in FriendCmds /\ w \in FriendCmds
                BY <4>1
            <4> HIDE DEF x, y, z, w
            <4>4. <<x, y, z, w>> \in Seq(FriendCmds) /\ Len(<<x, y, z, w>>) = 4
                  /\ <<x, y, z, w>>[1] = x /\ <<x, y, z, w>>[2] = y
                  /\ <<x, y, z, w>>[3] = z /\ <<x, y, z, w>>[4] = w
                BY <4>3
            <4> QED  BY <2>2, <4>2, <4>4 DEF x, y, z, w
        <3>2. Shape(4)
            BY <3>1
        <3> HIDE DEF Shape
        <3> QED  BY <3>2
    <2> HIDE DEF Shape
    <2> QED  BY <2>1, <2>2
<1>3. q \in Seq(Seq(FriendCmds)) /\ Len(q) = Len(list)
    <2>1. q \in [1 .. Len(list) -> Seq(FriendCmds)]
        BY <1>2
    <2> QED  BY <1>1, <2>1, SeqDef, LenProperties
<1> DEFINE p == OneByOne(q)
<1>4. /\ p \in Seq(FriendCmds)
      /\ \A i \in 1 .. Len(p) : \E k \in 1 .. Len(q), j \in 1 .. n : p[i] = q[k][j]
      /\ \A k \in 1 .. Len(q), j \in 1 .. n : \E i \in 1 .. Len(p) : p[i] = q[k][j]
    BY <1>2, <1>3, OneByOneOf, SMTT(60)
<1> HIDE DEF p
<1>5. ASSUME NEW i \in 1 .. Len(p)
      PROVE  \E k \in 1 .. Len(list) :
                \/ p[i].name = "del"
                \/ p[i].name = name /\ p[i].link \in {list[k], Back(list[k])}
    <2>1. PICK k \in 1 .. Len(list), j \in 1 .. n : p[i] = q[k][j]
        BY <1>3, <1>4
    <2>2. j = 1 \/ j = 2 \/ (n = 4 /\ (j = 3 \/ j = 4))
        BY <1>2
    <2> QED  BY <1>2, <2>1, <2>2, CmdIs
<1>6. Fits(p, what, Named(list))
    <2>1. ASSUME NEW k \in 1 .. Len(list), NEW l \in {list[k], Back(list[k])}
          PROVE  Friendship(l) \in Named(list)
        BY <1>1, TwoSides DEF Named
    <2> QED  BY <1>5, <2>1 DEF Fits
<1>7. ASSUME NEW l \in Links, Friendship(l) \in Named(list)
      PROVE  Sends(p, Cmd(name, l))
    <2>1. PICK k \in 1 .. Len(list) : Friendship(l) = Friendship(list[k])
        BY <1>7 DEF Named
    <2>2. l = list[k] \/ l = Back(list[k])
        BY <1>1, <2>1, TwoSides
    <2>3. 1 \in 1 .. n /\ 2 \in 1 .. n
        BY <1>2
    <2>4. \E j \in 1 .. n : q[k][j] = Cmd(name, l)
        BY <1>2, <2>2, <2>3
    <2>5. k \in 1 .. Len(q)
        BY <1>3
    <2> QED  BY <1>4, <2>4, <2>5, ZenonT(60) DEF Sends
<1>8. Named(list) \subseteq Friendships
    BY <1>1, TwoSides DEF Named
<1> QED  BY <1>4, <1>6, <1>7, <1>8 DEF p

-----------------------------------------------------------------------------
(***************************************************************************)
(* The requests.                                                           *)
(***************************************************************************)
\* What is left of a plan after a command.
LEMMA Rest ==
    ASSUME NEW p \in Seq(FriendCmds), p # <<>>, NEW what, NEW pairs, Fits(p, what, pairs)
    PROVE  /\ Head(p) \in FriendCmds /\ Head(p) = p[1] /\ 1 \in 1 .. Len(p)
           /\ Tail(p) \in Seq(FriendCmds) /\ Fits(Tail(p), what, pairs)
           /\ \A c : Sends(p, c) => c = Head(p) \/ Sends(Tail(p), c)
<1>1. /\ Len(p) \in Nat /\ Len(p) >= 1 /\ Head(p) = p[1] /\ Head(p) \in FriendCmds
      /\ Tail(p) \in Seq(FriendCmds) /\ Len(Tail(p)) = Len(p) - 1
      /\ \A i \in 1 .. Len(Tail(p)) : Tail(p)[i] = p[i + 1]
    BY LenProperties, EmptySeq, HeadTailProperties, ElementOfSeq
<1>2. ASSUME NEW i \in 1 .. Len(Tail(p))
      PROVE  i + 1 \in 1 .. Len(p) /\ Tail(p)[i] = p[i + 1]
    BY <1>1
<1>3. Fits(Tail(p), what, pairs)
    BY <1>2 DEF Fits
<1>4. ASSUME NEW c, Sends(p, c), c # Head(p)
      PROVE  Sends(Tail(p), c)
    <2>1. PICK i \in 1 .. Len(p) : p[i] = c
        BY <1>4 DEF Sends
    <2>2. i # 1
        BY <1>1, <1>4, <2>1
    <2>3. i - 1 \in 1 .. Len(Tail(p)) /\ (i - 1) + 1 = i
        BY <1>1, <2>2
    <2> QED  BY <1>2, <2>1, <2>3 DEF Sends
<1> QED  BY <1>1, <1>3, <1>4

LEMMA Idle ==
    /\ <<>> \in Seq(FriendCmds)
    /\ \A what, pairs : Fits(<<>>, what, pairs)
    /\ \A c : ~ Sends(<<>>, c)
<1>1. <<>> \in Seq(FriendCmds) /\ Len(<<>>) = 0 /\ 1 .. 0 = {}
    BY EmptySeq
<1> QED  BY <1>1 DEF Fits, Sends

\* The three kinds of request.
Begins(r) == AddFriends(r) \/ RemoveFriends(r) \/ SetUserAttribute(r)

\* What a request that begins brings with it.
Brings(r, what, p, pairs) ==
    /\ Begin(r, what, p, pairs)
    /\ p \in Seq(FriendCmds) /\ Fits(p, what, pairs) /\ pairs \subseteq Friendships
    /\ \/ /\ what = "add" /\ asked' = asked \cup pairs
          /\ \A l \in Links : Friendship(l) \in pairs => Sends(p, Cmd("zadd", l))
       \/ /\ what = "remove" /\ asked' = asked \ pairs
          /\ \A l \in Links : Friendship(l) \in pairs => Sends(p, Cmd("zrem", l))
       \/ what = "attr" /\ asked' = asked /\ pairs = {}

LEMMA BeginsBrings ==
    ASSUME NEW r \in Requests, Begins(r)
    PROVE  \E what, p, pairs : Brings(r, what, p, pairs)
<1>1. CASE AddFriends(r)
    <2>1. PICK list \in Lists :
              /\ Begin(r, "add", OneByOne([i \in 1 .. Len(list) |-> AddFriend(list[i])]), Named(list))
              /\ asked' = asked \cup Named(list)
        BY <1>1 DEF AddFriends
    <2>2. list \in Seq(Links)
        BY FriendsAssumption
    <2> DEFINE q == [i \in 1 .. Len(list) |-> AddFriend(list[i])]
               p == OneByOne(q)
    <2>3. /\ p \in Seq(FriendCmds) /\ Fits(p, "add", Named(list))
          /\ \A l \in Links : Friendship(l) \in Named(list) => Sends(p, Cmd("zadd", l))
          /\ Named(list) \subseteq Friendships
        BY <2>2, FriendPlan
    <2>4. Begin(r, "add", p, Named(list))
        BY <2>1
    <2> HIDE DEF q, p
    <2>5. Brings(r, "add", p, Named(list))
        BY <2>1, <2>3, <2>4 DEF Brings
    <2> QED  BY <2>5
<1>2. CASE RemoveFriends(r)
    <2>1. PICK list \in Lists :
              /\ Begin(r, "remove", OneByOne([i \in 1 .. Len(list) |-> RemoveFriend(list[i])]), Named(list))
              /\ asked' = asked \ Named(list)
        BY <1>2 DEF RemoveFriends
    <2>2. list \in Seq(Links)
        BY FriendsAssumption
    <2> DEFINE q == [i \in 1 .. Len(list) |-> RemoveFriend(list[i])]
               p == OneByOne(q)
    <2>3. /\ p \in Seq(FriendCmds) /\ Fits(p, "remove", Named(list))
          /\ \A l \in Links : Friendship(l) \in Named(list) => Sends(p, Cmd("zrem", l))
          /\ Named(list) \subseteq Friendships
        BY <2>2, FriendPlan
    <2>4. Begin(r, "remove", p, Named(list))
        BY <2>1
    <2> HIDE DEF q, p
    <2>5. Brings(r, "remove", p, Named(list))
        BY <2>1, <2>3, <2>4 DEF Brings
    <2> QED  BY <2>5
<1>3. CASE SetUserAttribute(r)
    <2>1. PICK l \in Links : Begin(r, "attr", <<Cmd("hset", l)>>, {}) /\ asked' = asked
        BY <1>3 DEF SetUserAttribute
    <2> DEFINE c == Cmd("hset", l)
    <2>2. c \in FriendCmds /\ c.name = "hset"
        BY CmdIs
    <2> HIDE DEF c
    <2>3. <<c>> \in Seq(FriendCmds) /\ Len(<<c>>) = 1 /\ <<c>>[1] = c
        BY <2>2
    <2>4. Fits(<<c>>, "attr", {})
        BY <2>2, <2>3 DEF Fits
    <2>5. Brings(r, "attr", <<c>>, {})
        BY <2>1, <2>3, <2>4 DEF Brings, c
    <2> QED  BY <2>5
<1> QED  BY <1>1, <1>2, <1>3 DEF Begins

LEMMA FriendsTypeInit ==
    ASSUME FriendsInit
    PROVE  FriendsTypeOK /\ FriendsInv
<1>1. MaxRequests \in Nat /\ MaxFailures \in Nat /\ 0 \in 0 .. MaxRequests /\ 0 \in 0 .. MaxFailures
    BY FriendsAssumption
<1>2. <<>> \in Seq([name : {"zadd", "zrem", "del", "hset"}, link : Links])
    BY Idle DEF FriendCmds
<1>3. FriendsTypeOK
    BY <1>1, <1>2 DEF FriendsInit, FriendsTypeOK
<1>4. PlansFit /\ OneKind
    BY Idle DEF FriendsInit, PlansFit, OneKind
<1>5. Due
    BY DEF FriendsInit, Due
<1> QED  BY <1>3, <1>4, <1>5 DEF FriendsInv

\* A request begins.
LEMMA BeginsStep ==
    ASSUME FriendsTypeOK, FriendsInv, NEW r \in Requests, Begins(r)
    PROVE  FriendsTypeOK' /\ FriendsInv'
<1>1. PICK what, p, pairs : Brings(r, what, p, pairs)
    BY BeginsBrings
<1>2. /\ r = began + 1 /\ began' = r /\ plan[r] = <<>>
      /\ kind \in [Requests -> {"none", "add", "remove", "attr"}]
      /\ about \in [Requests -> SUBSET Friendships] /\ plan \in [Requests -> Seq(FriendCmds)]
      /\ friends' = friends /\ attrs' = attrs /\ failures' = failures
      /\ crossed' = crossed \cup (pairs \cap Overlapping(what))
      /\ plan' = [plan EXCEPT ![r] = p] /\ kind' = [kind EXCEPT ![r] = what]
      /\ about' = [about EXCEPT ![r] = pairs]
    <2>1. r = began + 1 /\ began \in Nat /\ r > began
        BY <1>1 DEF Brings, Begin, FriendsTypeOK
    <2> QED  BY <1>1, <2>1 DEF Brings, Begin, FriendsTypeOK, FriendsInv, PlansFit, FriendCmds
<1>3. /\ p \in Seq(FriendCmds) /\ Fits(p, what, pairs) /\ pairs \subseteq Friendships
      /\ what \in {"add", "remove", "attr"}
      /\ what = "add" => /\ asked' = asked \cup pairs
                         /\ \A l \in Links : Friendship(l) \in pairs => Sends(p, Cmd("zadd", l))
      /\ what = "remove" => /\ asked' = asked \ pairs
                            /\ \A l \in Links : Friendship(l) \in pairs => Sends(p, Cmd("zrem", l))
      /\ what = "attr" => asked' = asked /\ pairs = {}
    BY <1>1 DEF Brings
<1>4. /\ plan'[r] = p /\ kind'[r] = what /\ about'[r] = pairs
      /\ \A o \in Requests : o # r =>
             plan'[o] = plan[o] /\ kind'[o] = kind[o] /\ about'[o] = about[o]
    BY <1>2
<1>5. FriendsTypeOK'
    <2>1. plan' \in [Requests -> Seq([name : {"zadd", "zrem", "del", "hset"}, link : Links])]
        BY <1>2, <1>3 DEF FriendCmds
    <2>2. kind' \in [Requests -> {"none", "add", "remove", "attr"}]
        BY <1>2, <1>3
    <2>3. about' \in [Requests -> SUBSET Friendships]
        BY <1>2, <1>3
    <2>4. began' \in 0 .. MaxRequests
        BY <1>2, FriendsAssumption DEF Requests
    <2>5. asked' \subseteq Friendships /\ crossed' \subseteq Friendships
        BY <1>2, <1>3 DEF FriendsTypeOK
    <2> QED  BY <1>2, <2>1, <2>2, <2>3, <2>4, <2>5 DEF FriendsTypeOK
<1>6. PlansFit'
    <2>1. ASSUME NEW o \in Requests
          PROVE  /\ Fits(plan'[o], kind'[o], about'[o])
                 /\ o > began' => plan'[o] = <<>>
        <3>1. CASE o = r
            BY <1>2, <1>3, <1>4, <3>1 DEF Requests
        <3>2. CASE o # r
            <4>1. began \in Nat /\ (o > began + 1 => o > began)
                BY DEF FriendsTypeOK, Requests
            <4> QED  BY <1>2, <1>4, <3>2, <4>1 DEF FriendsInv, PlansFit
        <3> QED  BY <3>1, <3>2
    <2> QED  BY <2>1 DEF PlansFit
<1>7. OneKind'
    <2>1. ASSUME NEW o \in Requests, NEW f \in Friendships \ crossed',
                 plan'[o] # <<>>, f \in about'[o]
          PROVE  /\ kind'[o] = "add" => f \in asked'
                 /\ kind'[o] = "remove" => f \notin asked'
        <3>1. CASE o = r
            BY <1>3, <1>4, <2>1, <3>1
        <3>2. CASE o # r
            <4>1. f \notin crossed /\ plan[o] # <<>> /\ f \in about[o] /\ kind'[o] = kind[o]
                BY <1>2, <1>4, <2>1, <3>2
            <4>2. f \in pairs => kind[o] = what
                BY <1>2, <2>1, <4>1 DEF Overlapping, AtWork
            <4>3. /\ kind[o] = "add" => f \in asked
                  /\ kind[o] = "remove" => f \notin asked
                BY <2>1, <4>1 DEF FriendsInv, OneKind
            <4> QED  BY <1>3, <4>1, <4>2, <4>3
        <3> QED  BY <3>1, <3>2
    <2> QED  BY <2>1 DEF OneKind
<1>8. Due'
    <2>1. ASSUME NEW c, NEW o \in Requests, Sends(plan[o], c)
          PROVE  \E z \in Requests : Sends(plan'[z], c)
        <3>1. o # r
            BY <1>2, <2>1, Idle
        <3> QED  BY <1>4, <2>1, <3>1
    <2>2. ASSUME NEW l \in Links, Friendship(l) \notin crossed'
          PROVE  /\ l \in friends' /\ Friendship(l) \notin asked' =>
                       \E z \in Requests : Sends(plan'[z], Cmd("zrem", l))
                 /\ l \notin friends' /\ Friendship(l) \in asked' =>
                       \E z \in Requests : Sends(plan'[z], Cmd("zadd", l))
        <3>1. Friendship(l) \notin crossed
            BY <1>2, <2>2
        <3>2. CASE Friendship(l) \in pairs
            BY <1>3, <1>4, <3>2
        <3>3. CASE Friendship(l) \notin pairs
            <4>1. Friendship(l) \in asked' <=> Friendship(l) \in asked
                BY <1>3, <3>3
            <4> QED  BY <1>2, <2>1, <3>1, <4>1 DEF FriendsInv, Due
        <3> QED  BY <3>2, <3>3
    <2> QED  BY <2>2 DEF Due
<1> QED  BY <1>5, <1>6, <1>7, <1>8 DEF FriendsInv

\* A command is carried out.
LEMMA CommandStep ==
    ASSUME FriendsTypeOK, FriendsInv, NEW r \in Requests, Command(r)
    PROVE  FriendsTypeOK' /\ FriendsInv'
<1> DEFINE c == Head(plan[r])
           l == c.link
<1>1. /\ plan[r] \in Seq(FriendCmds) /\ plan[r] # <<>> /\ Fits(plan[r], kind[r], about[r])
      /\ plan' = [plan EXCEPT ![r] = Tail(plan[r])]
      /\ plan \in [Requests -> Seq(FriendCmds)]
      /\ kind' = kind /\ about' = about /\ began' = began /\ failures' = failures
      /\ asked' = asked /\ crossed' = crossed
    BY DEF Command, FriendsTypeOK, FriendsInv, PlansFit, FriendCmds
<1>2. /\ c \in FriendCmds /\ c = plan[r][1] /\ 1 \in 1 .. Len(plan[r])
      /\ Tail(plan[r]) \in Seq(FriendCmds) /\ Fits(Tail(plan[r]), kind[r], about[r])
      /\ \A x : Sends(plan[r], x) => x = c \/ Sends(Tail(plan[r]), x)
    BY <1>1, Rest
<1>3. /\ plan'[r] = Tail(plan[r])
      /\ \A o \in Requests : o # r => plan'[o] = plan[o]
    BY <1>1
<1>4. /\ c = Cmd(c.name, l) /\ l \in Links
      /\ c.name \in {"zadd", "zrem", "del", "hset"}
    BY <1>2, CmdIs DEF FriendCmds
<1>5. /\ friends' = CASE c.name = "zadd" -> friends \cup {l}
                      [] c.name = "zrem" -> friends \ {l}
                      [] OTHER -> friends
      /\ attrs' = CASE c.name = "hset" -> attrs \cup {l}
                    [] c.name = "del" -> attrs \ {l}
                    [] OTHER -> attrs
    BY DEF Command
<1>6. /\ c.name = "zadd" => kind[r] = "add" /\ Friendship(l) \in about[r]
      /\ c.name = "zrem" => kind[r] = "remove" /\ Friendship(l) \in about[r]
    BY <1>1, <1>2 DEF Fits
<1> HIDE DEF c, l
<1>7. /\ c.name = "zadd" => friends' = friends \cup {l}
      /\ c.name = "zrem" => friends' = friends \ {l}
      /\ c.name \notin {"zadd", "zrem"} => friends' = friends
    BY <1>5
<1>8. FriendsTypeOK'
    <2>1. plan' \in [Requests -> Seq([name : {"zadd", "zrem", "del", "hset"}, link : Links])]
        BY <1>1, <1>2 DEF FriendCmds
    <2>2. friends' \subseteq Links
        BY <1>4, <1>7 DEF FriendsTypeOK
    <2>3. attrs' \subseteq Links
        BY <1>4, <1>5 DEF FriendsTypeOK
    <2> QED  BY <1>1, <2>1, <2>2, <2>3 DEF FriendsTypeOK
<1>9. PlansFit'
    <2>1. ASSUME NEW o \in Requests
          PROVE  /\ Fits(plan'[o], kind'[o], about'[o])
                 /\ o > began' => plan'[o] = <<>>
        <3>1. CASE o = r
            BY <1>1, <1>2, <1>3, <3>1 DEF FriendsInv, PlansFit
        <3>2. CASE o # r
            BY <1>1, <1>3, <3>2 DEF FriendsInv, PlansFit
        <3> QED  BY <3>1, <3>2
    <2> QED  BY <2>1 DEF PlansFit
<1>10. OneKind'
    BY <1>1, <1>3 DEF FriendsInv, OneKind
<1>11. Due'
    <2>1. ASSUME NEW x, NEW o \in Requests, Sends(plan[o], x), x # c
          PROVE  \E z \in Requests : Sends(plan'[z], x)
        BY <1>2, <1>3, <2>1
    <2>2. ASSUME NEW m \in Links, Friendship(m) \notin crossed'
          PROVE  /\ m \in friends' /\ Friendship(m) \notin asked' =>
                       \E z \in Requests : Sends(plan'[z], Cmd("zrem", m))
                 /\ m \notin friends' /\ Friendship(m) \in asked' =>
                       \E z \in Requests : Sends(plan'[z], Cmd("zadd", m))
        <3>1. /\ m \in friends /\ Friendship(m) \notin asked =>
                    \E z \in Requests : Sends(plan[z], Cmd("zrem", m))
              /\ m \notin friends /\ Friendship(m) \in asked =>
                    \E z \in Requests : Sends(plan[z], Cmd("zadd", m))
            BY <1>1, <2>2 DEF FriendsInv, Due
        <3>2. Friendship(m) \in Friendships \ crossed
            BY <1>1, <2>2, TwoSides
        <3>3. ASSUME m \in friends', Friendship(m) \notin asked'
              PROVE  \E z \in Requests : Sends(plan'[z], Cmd("zrem", m))
            <4>1. ~ (c.name = "zadd" /\ m = l)
                BY <1>1, <1>6, <3>2, <3>3 DEF FriendsInv, OneKind
            <4>2. m \in friends
                BY <1>4, <1>7, <3>3, <4>1
            <4>3. c # Cmd("zrem", m)
                BY <1>4, <1>7, <3>3, CmdIs
            <4> QED  BY <1>1, <2>1, <3>1, <3>3, <4>2, <4>3
        <3>4. ASSUME m \notin friends', Friendship(m) \in asked'
              PROVE  \E z \in Requests : Sends(plan'[z], Cmd("zadd", m))
            <4>1. ~ (c.name = "zrem" /\ m = l)
                BY <1>1, <1>6, <3>2, <3>4 DEF FriendsInv, OneKind
            <4>2. m \notin friends
                BY <1>4, <1>7, <3>4, <4>1
            <4>3. c # Cmd("zadd", m)
                BY <1>4, <1>7, <3>4, CmdIs
            <4> QED  BY <1>1, <2>1, <3>1, <3>4, <4>2, <4>3
        <3> QED  BY <3>3, <3>4
    <2> QED  BY <2>2 DEF Due
<1> QED  BY <1>8, <1>9, <1>10, <1>11 DEF FriendsInv

\* A command fails, or the server dies with what is left of the plan.
LEMMA CommandFailsStep ==
    ASSUME FriendsTypeOK, FriendsInv, NEW r \in Requests, CommandFails(r)
    PROVE  FriendsTypeOK' /\ FriendsInv'
<1>1. PICK rest \in {Tail(plan[r]), <<>>} : plan' = [plan EXCEPT ![r] = rest]
    BY DEF CommandFails
<1>2. /\ plan[r] \in Seq(FriendCmds) /\ plan[r] # <<>> /\ Fits(plan[r], kind[r], about[r])
      /\ plan \in [Requests -> Seq(FriendCmds)] /\ about \in [Requests -> SUBSET Friendships]
      /\ failures < MaxFailures /\ failures' = failures + 1
      /\ kind' = kind /\ about' = about /\ began' = began
      /\ asked' = asked /\ crossed' = crossed \cup about[r]
      /\ friends' = friends /\ attrs' = attrs
    BY DEF CommandFails, FriendsTypeOK, FriendsInv, PlansFit, FriendCmds
<1>3. rest \in Seq(FriendCmds) /\ Fits(rest, kind[r], about[r])
    BY <1>2, Rest, Idle
<1>4. /\ plan'[r] = rest
      /\ \A o \in Requests : o # r => plan'[o] = plan[o]
    BY <1>1, <1>2
<1>5. FriendsTypeOK'
    <2>1. plan' \in [Requests -> Seq([name : {"zadd", "zrem", "del", "hset"}, link : Links])]
        BY <1>1, <1>2, <1>3 DEF FriendCmds
    <2>2. failures' \in 0 .. MaxFailures
        BY <1>2, FriendsAssumption DEF FriendsTypeOK
    <2>3. crossed' \subseteq Friendships
        BY <1>2 DEF FriendsTypeOK
    <2> QED  BY <1>2, <2>1, <2>2, <2>3 DEF FriendsTypeOK
<1>6. PlansFit'
    <2>1. ASSUME NEW o \in Requests
          PROVE  /\ Fits(plan'[o], kind'[o], about'[o])
                 /\ o > began' => plan'[o] = <<>>
        <3>1. CASE o = r
            BY <1>2, <1>3, <1>4, <3>1 DEF FriendsInv, PlansFit
        <3>2. CASE o # r
            BY <1>2, <1>4, <3>2 DEF FriendsInv, PlansFit
        <3> QED  BY <3>1, <3>2
    <2> QED  BY <2>1 DEF PlansFit
<1>7. OneKind'
    BY <1>2, <1>4 DEF FriendsInv, OneKind
<1>8. Due'
    <2>1. ASSUME NEW l \in Links, Friendship(l) \notin crossed', NEW o \in Requests,
                 NEW name \in {"zadd", "zrem"}, Sends(plan[o], Cmd(name, l))
          PROVE  \E z \in Requests : Sends(plan'[z], Cmd(name, l))
        <3>1. Friendship(l) \notin about[r]
            BY <1>2, <2>1
        <3>2. o # r
            BY <1>2, <2>1, <3>1, CmdIs DEF Sends, Fits
        <3> QED  BY <1>4, <2>1, <3>2
    <2>2. ASSUME NEW l \in Links, Friendship(l) \notin crossed'
          PROVE  /\ l \in friends' /\ Friendship(l) \notin asked' =>
                       \E z \in Requests : Sends(plan'[z], Cmd("zrem", l))
                 /\ l \notin friends' /\ Friendship(l) \in asked' =>
                       \E z \in Requests : Sends(plan'[z], Cmd("zadd", l))
        <3>1. Friendship(l) \notin crossed
            BY <1>2, <2>2
        <3> QED  BY <1>2, <2>1, <2>2, <3>1 DEF FriendsInv, Due
    <2> QED  BY <2>2 DEF Due
<1> QED  BY <1>5, <1>6, <1>7, <1>8 DEF FriendsInv

\* Steps of the task threads leave the friendships alone.
LEMMA FriendsRestStep ==
    ASSUME FriendsTypeOK, FriendsInv, UNCHANGED FriendsRest,
           failures' = failures \/ (failures < MaxFailures /\ failures' = failures + 1)
    PROVE  FriendsTypeOK' /\ FriendsInv'
<1>1. /\ friends' = friends /\ attrs' = attrs /\ plan' = plan /\ kind' = kind
      /\ about' = about /\ began' = began /\ asked' = asked /\ crossed' = crossed
    BY DEF FriendsRest
<1>2. failures' \in 0 .. MaxFailures
    BY FriendsAssumption DEF FriendsTypeOK
<1>3. FriendsTypeOK'
    BY <1>1, <1>2 DEF FriendsTypeOK
<1>4. FriendsInv'
    BY <1>1 DEF FriendsInv, PlansFit, OneKind, Due
<1> QED  BY <1>3, <1>4

LEMMA FriendsStep ==
    ASSUME FriendsTypeOK, FriendsInv, FriendsNext
    PROVE  FriendsTypeOK' /\ FriendsInv'
<1>1. PICK r \in Requests : Begins(r) \/ Command(r) \/ CommandFails(r)
    BY DEF FriendsNext, Begins
<1> QED  BY <1>1, BeginsStep, CommandStep, CommandFailsStep

LEMMA InvAsAsked ==
    ASSUME FriendsTypeOK, FriendsInv
    PROVE  FriendsAsAsked
<1>1. ASSUME NEW l \in Links, Friendship(l) \notin crossed,
             \A r \in AtWork : Friendship(l) \notin about[r]
      PROVE  l \in friends <=> Friendship(l) \in asked
    <2>1. ASSUME NEW r \in Requests, NEW name \in {"zadd", "zrem"}
          PROVE  ~ Sends(plan[r], Cmd(name, l))
        <3>1. Fits(plan[r], kind[r], about[r])
            BY DEF FriendsInv, PlansFit
        <3>2. plan[r] = <<>> \/ Friendship(l) \notin about[r]
            BY <1>1 DEF AtWork
        <3> QED  BY <3>1, <3>2, Idle, CmdIs DEF Sends, Fits
    <2> QED  BY <1>1, <2>1 DEF FriendsInv, Due
<1>2. \A l \in Links : <<l[1], l[2]>> = l
    BY DEF Links
<1> QED  BY <1>1, <1>2 DEF FriendsAsAsked, CheckUserFriend

-----------------------------------------------------------------------------
(***************************************************************************)
(* The tasks.                                                              *)
(***************************************************************************)
TaskTypeOK ==
    /\ queue \in Seq(Tasks)
    /\ thread \in [Servers -> {"take", "none", "waiting", "hand", "down"}]
    /\ hand \in [Servers -> Tasks \cup {NoTask}]
    /\ signals \subseteq Servers
    /\ crashes \in 0 .. MaxCrashes
    /\ \A s \in Servers : hand[s] # NoTask <=> thread[s] = "hand"
    /\ OnePlace

\* A task joins a queue it is not in.
LEMMA Joins ==
    ASSUME NEW q \in Seq(Tasks), IsInjective(q), NEW t \in Tasks, t \notin ToSet(q)
    PROVE  /\ Append(q, t) \in Seq(Tasks) /\ IsInjective(Append(q, t))
           /\ ToSet(Append(q, t)) = ToSet(q) \cup {t}
<1> DEFINE p == Append(q, t)
           n == Len(q)
<1>1. n \in Nat /\ DOMAIN q = 1 .. n
    BY LenProperties
<1>2. /\ p \in Seq(Tasks) /\ Len(p) = n + 1 /\ p[n + 1] = t
      /\ \A i \in 1 .. n : p[i] = q[i]
    BY <1>1, AppendProperties
<1>3. DOMAIN p = 1 .. n + 1
    BY <1>2, LenProperties
<1> HIDE DEF p, n
<1>4. \A i \in 1 .. n + 1 : (i \in 1 .. n /\ p[i] = q[i]) \/ (i = n + 1 /\ p[i] = t)
    BY <1>1, <1>2
<1>5. \A i \in 1 .. n : q[i] # t /\ i \in 1 .. n + 1 /\ p[i] = q[i]
    BY <1>1, <1>2 DEF ToSet
<1>6. IsInjective(p)
    BY <1>1, <1>3, <1>4, <1>5 DEF IsInjective
<1>7. ToSet(p) = ToSet(q) \cup {t}
    <2>1. n + 1 \in 1 .. n + 1
        BY <1>1
    <2> QED  BY <1>1, <1>2, <1>3, <1>4, <1>5, <2>1 DEF ToSet
<1> QED  BY <1>2, <1>6, <1>7 DEF p

\* The first task leaves a queue.
LEMMA Leaves ==
    ASSUME NEW q \in Seq(Tasks), IsInjective(q), q # <<>>
    PROVE  /\ Head(q) \in Tasks /\ Head(q) \in ToSet(q)
           /\ Tail(q) \in Seq(Tasks) /\ IsInjective(Tail(q))
           /\ ToSet(Tail(q)) = ToSet(q) \ {Head(q)}
<1> DEFINE p == Tail(q)
           n == Len(q)
<1>1. /\ n \in Nat /\ n >= 1 /\ DOMAIN q = 1 .. n
      /\ Head(q) = q[1] /\ Head(q) \in Tasks
      /\ p \in Seq(Tasks) /\ Len(p) = n - 1
      /\ \A i \in 1 .. Len(p) : p[i] = q[i + 1]
    BY LenProperties, EmptySeq, HeadTailProperties, ElementOfSeq
<1>2. DOMAIN p = 1 .. n - 1
    BY <1>1, LenProperties
<1> HIDE DEF p, n
<1>3. \A i \in 1 .. n - 1 : i + 1 \in 1 .. n /\ i + 1 # 1 /\ p[i] = q[i + 1]
    BY <1>1
<1>4. \A i \in 1 .. n : i = 1 \/ (i - 1 \in 1 .. n - 1 /\ p[i - 1] = q[i])
    BY <1>1
<1>5. 1 \in 1 .. n
    BY <1>1
<1>6. \A i, j \in 1 .. n - 1 : i + 1 = j + 1 => i = j
    BY <1>1
<1>7. IsInjective(p)
    <2>1. ASSUME NEW i \in 1 .. n - 1, NEW j \in 1 .. n - 1, p[i] = p[j]
          PROVE  i = j
        <3>1. q[i + 1] = q[j + 1] /\ i + 1 \in DOMAIN q /\ j + 1 \in DOMAIN q
            BY <1>1, <1>3, <2>1
        <3>2. i + 1 = j + 1
            BY <3>1 DEF IsInjective
        <3> QED  BY <1>6, <3>2
    <2> QED  BY <1>2, <2>1 DEF IsInjective
<1>8. ToSet(p) = ToSet(q) \ {Head(q)}
    <2>1. ASSUME NEW t \in ToSet(p)
          PROVE  t \in ToSet(q) \ {Head(q)}
        BY <1>1, <1>2, <1>3, <1>5, <2>1, SMTT(60) DEF ToSet, IsInjective
    <2>2. ASSUME NEW t \in ToSet(q) \ {Head(q)}
          PROVE  t \in ToSet(p)
        <3>1. PICK i \in 1 .. n : q[i] = t
            BY <1>1, <2>2 DEF ToSet
        <3>2. i - 1 \in 1 .. n - 1 /\ p[i - 1] = t
            BY <1>1, <1>4, <2>2, <3>1
        <3> QED  BY <1>2, <3>2 DEF ToSet
    <2> QED  BY <2>1, <2>2
<1>9. Head(q) \in ToSet(q)
    BY <1>1, <1>5 DEF ToSet
<1> QED  BY <1>1, <1>7, <1>8, <1>9 DEF p

\* The tasks in these hands, and no task is in two.
InHands(h) == {h[s] : s \in Servers} \ {NoTask}
Single(h) == \A s, z \in Servers : h[s] = h[z] /\ h[s] # NoTask => s = z

\* A server takes a task in hand, or lets go of the one it has.
LEMMA Hands ==
    ASSUME NEW h \in [Servers -> Tasks \cup {NoTask}], Single(h), NEW s \in Servers,
           NEW t \in Tasks \cup {NoTask}, t \notin InHands(h), t = NoTask \/ h[s] = NoTask
    PROVE  LET k == [h EXCEPT ![s] = t]
           IN  /\ k \in [Servers -> Tasks \cup {NoTask}] /\ Single(k)
               /\ t # NoTask => InHands(k) = InHands(h) \cup {t}
               /\ t = NoTask => InHands(k) = InHands(h) \ {h[s]}
<1> DEFINE k == [h EXCEPT ![s] = t]
<1>1. /\ k \in [Servers -> Tasks \cup {NoTask}]
      /\ k[s] = t /\ \A z \in Servers : z # s => k[z] = h[z]
    OBVIOUS
<1> HIDE DEF k
<1>2. Single(k)
    BY <1>1 DEF Single, InHands
<1>3. t # NoTask => InHands(k) = InHands(h) \cup {t}
    BY <1>1 DEF InHands
<1>4. t = NoTask => InHands(k) = InHands(h) \ {h[s]}
    <2>1. ASSUME NEW z \in Servers, h[z] # NoTask, h[z] = h[s]
          PROVE  z = s
        BY <2>1 DEF Single
    <2> QED  BY <1>1, <2>1 DEF InHands
<1> QED  BY <1>1, <1>2, <1>3, <1>4 DEF k

\* OnePlace in the terms of these lemmas.
LEMMA Places ==
    /\ OnePlace <=>
          /\ fresh \cup ToSet(queue) \cup InHands(hand) \cup done \cup lost = Tasks
          /\ fresh \cap (ToSet(queue) \cup InHands(hand) \cup done \cup lost) = {}
          /\ ToSet(queue) \cap (InHands(hand) \cup done \cup lost) = {}
          /\ InHands(hand) \cap (done \cup lost) = {}
          /\ done \cap lost = {}
          /\ IsInjective(queue) /\ Single(hand)
    /\ OnePlace' <=>
          /\ fresh' \cup ToSet(queue') \cup InHands(hand') \cup done' \cup lost' = Tasks
          /\ fresh' \cap (ToSet(queue') \cup InHands(hand') \cup done' \cup lost') = {}
          /\ ToSet(queue') \cap (InHands(hand') \cup done' \cup lost') = {}
          /\ InHands(hand') \cap (done' \cup lost') = {}
          /\ done' \cap lost' = {}
          /\ IsInjective(queue') /\ Single(hand')
BY DEF OnePlace, Queued, Held, InHands, Single

LEMMA TaskInit ==
    ASSUME Init
    PROVE  TaskTypeOK
<1>1. /\ queue = <<>> /\ fresh = Tasks /\ done = {} /\ lost = {} /\ signals = {} /\ crashes = 0
      /\ hand = [s \in Servers |-> NoTask] /\ thread = [s \in Servers |-> "take"]
    BY DEF Init
<1>2. queue \in Seq(Tasks) /\ ToSet(queue) = {} /\ IsInjective(queue)
    BY <1>1 DEF ToSet, IsInjective
<1>3. InHands(hand) = {} /\ Single(hand)
    BY <1>1 DEF InHands, Single
<1>4. OnePlace
    BY <1>1, <1>2, <1>3, Places
<1>5. crashes \in 0 .. MaxCrashes
    BY <1>1, HttpAssumption
<1> QED  BY <1>1, <1>2, <1>4, <1>5 DEF TaskTypeOK

LEMMA AddTaskStep ==
    ASSUME TaskTypeOK, NEW s \in Servers, AddTask(s)
    PROVE  TaskTypeOK'
<1>1. PICK t \in fresh :
          /\ fresh' = fresh \ {t}
          /\ \/ queue' = Append(queue, t) /\ lost' = lost
             \/ queue' = queue /\ lost' = lost \cup {t}
    BY DEF AddTask
<1>2. /\ signals' = signals \cup {s} /\ thread' = thread /\ hand' = hand
      /\ crashes' = crashes /\ done' = done
    BY DEF AddTask
<1>3. /\ queue \in Seq(Tasks) /\ IsInjective(queue) /\ t \in Tasks /\ t \notin ToSet(queue)
    BY Places DEF TaskTypeOK
<1>4. /\ queue' \in Seq(Tasks) /\ IsInjective(queue')
      /\ \/ ToSet(queue') = ToSet(queue) \cup {t} /\ lost' = lost
         \/ ToSet(queue') = ToSet(queue) /\ lost' = lost \cup {t}
    BY <1>1, <1>3, Joins
<1>5. OnePlace'
    BY <1>1, <1>2, <1>4, Places DEF TaskTypeOK
<1> QED  BY <1>2, <1>4, <1>5 DEF TaskTypeOK

\* The thread goes from one place to another with nothing in hand.
LEMMA ThreadStep ==
    ASSUME TaskTypeOK, NEW s \in Servers, thread[s] # "hand",
           NEW to \in {"take", "none", "waiting", "down"},
           thread' = [thread EXCEPT ![s] = to], signals' \subseteq signals,
           UNCHANGED <<queue, hand, fresh, crashes, done, lost>>
    PROVE  TaskTypeOK'
<1>1. /\ thread' \in [Servers -> {"take", "none", "waiting", "hand", "down"}]
      /\ \A z \in Servers : thread'[z] = "hand" <=> thread[z] = "hand"
    BY DEF TaskTypeOK
<1>2. OnePlace'
    BY Places DEF TaskTypeOK
<1> QED  BY <1>1, <1>2 DEF TaskTypeOK

LEMMA SignalStep ==
    ASSUME TaskTypeOK, NEW s \in Servers, Signal(s)
    PROVE  TaskTypeOK'
<1>1. /\ thread' = [thread EXCEPT ![s] = IF thread[s] = "waiting" THEN "take" ELSE thread[s]]
      /\ signals' \subseteq signals
      /\ UNCHANGED <<queue, hand, fresh, crashes, done, lost>>
    BY DEF Signal
<1>2. CASE thread[s] = "hand"
    <2>1. thread' = thread
        BY <1>1, <1>2 DEF TaskTypeOK
    <2>2. OnePlace'
        BY <1>1, Places DEF TaskTypeOK
    <2> QED  BY <1>1, <2>1, <2>2 DEF TaskTypeOK
<1>3. CASE thread[s] # "hand"
    <2> DEFINE to == IF thread[s] = "waiting" THEN "take" ELSE thread[s]
    <2>1. to \in {"take", "none", "waiting", "down"} /\ thread' = [thread EXCEPT ![s] = to]
        BY <1>1, <1>3 DEF TaskTypeOK
    <2> HIDE DEF to
    <2> QED  BY <1>1, <1>3, <2>1, ThreadStep
<1> QED  BY <1>2, <1>3

\* A server's task changes hands: what it has and where its thread is.
LEMMA HandStep ==
    ASSUME TaskTypeOK, NEW s \in Servers, NEW t \in Tasks \cup {NoTask},
           t \notin InHands(hand), t = NoTask \/ hand[s] = NoTask,
           hand' = [hand EXCEPT ![s] = t],
           NEW to \in {"take", "none", "waiting", "hand", "down"}, to = "hand" <=> t # NoTask,
           thread' = [thread EXCEPT ![s] = to]
    PROVE  /\ hand' \in [Servers -> Tasks \cup {NoTask}]
           /\ thread' \in [Servers -> {"take", "none", "waiting", "hand", "down"}]
           /\ \A z \in Servers : hand'[z] # NoTask <=> thread'[z] = "hand"
           /\ Single(hand')
           /\ t # NoTask => InHands(hand') = InHands(hand) \cup {t}
           /\ t = NoTask => InHands(hand') = InHands(hand) \ {hand[s]}
<1>1. hand \in [Servers -> Tasks \cup {NoTask}] /\ Single(hand)
    BY Places DEF TaskTypeOK
<1>2. /\ hand' \in [Servers -> Tasks \cup {NoTask}] /\ Single(hand')
      /\ t # NoTask => InHands(hand') = InHands(hand) \cup {t}
      /\ t = NoTask => InHands(hand') = InHands(hand) \ {hand[s]}
    BY <1>1, Hands
<1>3. /\ thread' \in [Servers -> {"take", "none", "waiting", "hand", "down"}]
      /\ \A z \in Servers : hand'[z] # NoTask <=> thread'[z] = "hand"
    BY DEF TaskTypeOK
<1> QED  BY <1>2, <1>3

LEMMA PopTaskStep ==
    ASSUME TaskTypeOK, NEW s \in Servers, PopTask(s)
    PROVE  TaskTypeOK'
<1>1. /\ thread[s] = "take" /\ signals' = signals /\ fresh' = fresh /\ crashes' = crashes
      /\ done' = done /\ lost' = lost
    BY DEF PopTask
<1>2. CASE /\ queue # <<>> /\ queue' = Tail(queue)
           /\ thread' = [thread EXCEPT ![s] = "hand"] /\ hand' = [hand EXCEPT ![s] = Head(queue)]
    <2> DEFINE t == Head(queue)
    <2>1. /\ t \in Tasks /\ t \in ToSet(queue) /\ queue' \in Seq(Tasks) /\ IsInjective(queue')
          /\ ToSet(queue') = ToSet(queue) \ {t}
        BY <1>2, Leaves, Places DEF TaskTypeOK
    <2>2. t \notin InHands(hand) /\ t # NoTask /\ hand[s] = NoTask
        BY <1>1, <2>1, Places, HttpAssumption DEF TaskTypeOK
    <2>3. hand' = [hand EXCEPT ![s] = t]
        BY <1>2
    <2> HIDE DEF t
    <2>4. /\ hand' \in [Servers -> Tasks \cup {NoTask}] /\ Single(hand')
          /\ thread' \in [Servers -> {"take", "none", "waiting", "hand", "down"}]
          /\ \A z \in Servers : hand'[z] # NoTask <=> thread'[z] = "hand"
          /\ InHands(hand') = InHands(hand) \cup {t}
        <3> DEFINE to == "hand"
        <3>1. /\ to \in {"take", "none", "waiting", "hand", "down"} /\ (to = "hand" <=> t # NoTask)
              /\ t \in Tasks \cup {NoTask} /\ thread' = [thread EXCEPT ![s] = to]
            BY <1>2, <2>1, <2>2
        <3> HIDE DEF to
        <3> QED  BY <2>2, <2>3, <3>1, HandStep
    <2>5. OnePlace'
        BY <1>1, <2>1, <2>2, <2>4, Places DEF TaskTypeOK
    <2> QED  BY <1>1, <2>1, <2>4, <2>5 DEF TaskTypeOK
<1>3. CASE thread' = [thread EXCEPT ![s] = "none"] /\ UNCHANGED <<hand, queue>>
    BY <1>1, <1>3, ThreadStep
<1> QED  BY <1>2, <1>3 DEF PopTask

LEMMA SendTaskStep ==
    ASSUME TaskTypeOK, NEW s \in Servers, SendTask(s)
    PROVE  TaskTypeOK'
<1>1. /\ thread[s] = "hand" /\ thread' = [thread EXCEPT ![s] = "take"]
      /\ hand' = [hand EXCEPT ![s] = NoTask]
      /\ queue' = queue /\ signals' = signals /\ fresh' = fresh /\ crashes' = crashes
      /\ \/ done' = done \cup {hand[s]} /\ lost' = lost
         \/ lost' = lost \cup {hand[s]} /\ done' = done
    BY DEF SendTask
<1>2. hand[s] \in InHands(hand) /\ NoTask \notin InHands(hand)
    BY <1>1 DEF TaskTypeOK, InHands
<1>3. /\ hand' \in [Servers -> Tasks \cup {NoTask}] /\ Single(hand')
      /\ thread' \in [Servers -> {"take", "none", "waiting", "hand", "down"}]
      /\ \A z \in Servers : hand'[z] # NoTask <=> thread'[z] = "hand"
      /\ InHands(hand') = InHands(hand) \ {hand[s]}
    BY <1>1, <1>2, HandStep
<1>4. OnePlace'
    <2> DEFINE t == hand[s]
               H == InHands(hand)
               K == InHands(hand')
               Q == ToSet(queue)
    <2>1. /\ fresh \cup Q \cup H \cup done \cup lost = Tasks
          /\ fresh \cap (Q \cup H \cup done \cup lost) = {}
          /\ Q \cap (H \cup done \cup lost) = {}
          /\ H \cap (done \cup lost) = {} /\ done \cap lost = {}
          /\ IsInjective(queue)
        BY Places DEF TaskTypeOK
    <2>2. t \in H /\ K = H \ {t}
        BY <1>2, <1>3
    <2>3. \/ done' = done \cup {t} /\ lost' = lost
          \/ lost' = lost \cup {t} /\ done' = done
        BY <1>1
    <2>4. Q = ToSet(queue')
        BY <1>1
    <2> HIDE DEF t, H, K, Q
    <2>5. /\ fresh \cup Q \cup K \cup done' \cup lost' = Tasks
          /\ fresh \cap (Q \cup K \cup done' \cup lost') = {}
          /\ Q \cap (K \cup done' \cup lost') = {}
          /\ K \cap (done' \cup lost') = {} /\ done' \cap lost' = {}
        BY <2>1, <2>2, <2>3
    <2> QED  BY <1>1, <1>3, <2>1, <2>4, <2>5, Places DEF K
<1> QED  BY <1>1, <1>3, <1>4 DEF TaskTypeOK

LEMMA CrashStep ==
    ASSUME TaskTypeOK, NEW s \in Servers, Crash(s)
    PROVE  TaskTypeOK'
<1>1. /\ crashes < MaxCrashes /\ crashes' = crashes + 1
      /\ thread' = [thread EXCEPT ![s] = "down"] /\ hand' = [hand EXCEPT ![s] = NoTask]
      /\ lost' = lost \cup ({hand[s]} \ {NoTask}) /\ signals' = signals \ {s}
      /\ queue' = queue /\ fresh' = fresh /\ done' = done
    BY DEF Crash
<1>2. {hand[s]} \ {NoTask} \subseteq InHands(hand) /\ NoTask \notin InHands(hand)
    BY DEF TaskTypeOK, InHands
<1>3. /\ hand' \in [Servers -> Tasks \cup {NoTask}] /\ Single(hand')
      /\ thread' \in [Servers -> {"take", "none", "waiting", "hand", "down"}]
      /\ \A z \in Servers : hand'[z] # NoTask <=> thread'[z] = "hand"
      /\ InHands(hand') = InHands(hand) \ {hand[s]}
    BY <1>1, <1>2, HandStep
<1>4. OnePlace'
    <2>1. InHands(hand') = InHands(hand) \ ({hand[s]} \ {NoTask})
        BY <1>2, <1>3
    <2> QED  BY <1>1, <1>2, <1>3, <2>1, Places DEF TaskTypeOK
<1>5. crashes' \in 0 .. MaxCrashes
    BY <1>1, HttpAssumption DEF TaskTypeOK
<1> QED  BY <1>1, <1>3, <1>4, <1>5 DEF TaskTypeOK

LEMMA TaskStep ==
    ASSUME TaskTypeOK, NEW s \in Servers,
           AddTask(s) \/ Signal(s) \/ TaskThread(s) \/ Crash(s) \/ Restart(s)
    PROVE  /\ TaskTypeOK'
           /\ failures' = failures \/ (failures < MaxFailures /\ failures' = failures + 1)
<1>1. CASE AddTask(s)
    BY <1>1, AddTaskStep DEF AddTask, Works, Fails
<1>2. CASE Signal(s)
    BY <1>2, SignalStep DEF Signal
<1>3. CASE PopTask(s)
    BY <1>3, PopTaskStep DEF PopTask, Works, Fails
<1>4. CASE Wait(s)
    BY <1>4, ThreadStep DEF Wait
<1>5. CASE Timeout(s)
    BY <1>5, ThreadStep DEF Timeout
<1>6. CASE SendTask(s)
    BY <1>6, SendTaskStep DEF SendTask, Works, Fails
<1>7. CASE Crash(s)
    BY <1>7, CrashStep DEF Crash
<1>8. CASE Restart(s)
    BY <1>8, ThreadStep DEF Restart
<1> QED  BY <1>1, <1>2, <1>3, <1>4, <1>5, <1>6, <1>7, <1>8 DEF TaskThread

-----------------------------------------------------------------------------
(***************************************************************************)
(* The theorems.                                                           *)
(***************************************************************************)
HttpInv == FriendsTypeOK /\ FriendsInv /\ TaskTypeOK

LEMMA HttpInvInit == Init => HttpInv
BY FriendsTypeInit, TaskInit DEF Init, HttpInv

LEMMA HttpInvStep == HttpInv /\ [Next]_vars => HttpInv'
<1> SUFFICES ASSUME HttpInv, [Next]_vars
             PROVE  HttpInv'
    OBVIOUS
<1>1. FriendsTypeOK /\ FriendsInv /\ TaskTypeOK
    BY DEF HttpInv
<1>2. CASE TaskNext /\ UNCHANGED FriendsRest
    <2>1. PICK s \in Servers :
              AddTask(s) \/ Signal(s) \/ TaskThread(s) \/ Crash(s) \/ Restart(s)
        BY <1>2 DEF TaskNext
    <2> QED  BY <1>1, <1>2, <2>1, TaskStep, FriendsRestStep DEF HttpInv
<1>3. CASE FriendsNext /\ UNCHANGED taskVars
    <2>1. TaskTypeOK'
        BY <1>1, <1>3, Places DEF taskVars, TaskTypeOK
    <2> QED  BY <1>1, <1>3, <2>1, FriendsStep DEF HttpInv
<1>4. CASE UNCHANGED vars
    <2>1. UNCHANGED FriendsRest /\ failures' = failures /\ UNCHANGED taskVars
        BY <1>4 DEF vars, FriendsRest, taskVars
    <2>2. TaskTypeOK'
        BY <1>1, <2>1, Places DEF taskVars, TaskTypeOK
    <2> QED  BY <1>1, <2>1, <2>2, FriendsRestStep DEF HttpInv
<1> QED  BY <1>2, <1>3, <1>4 DEF Next

LEMMA HttpInvAlways == Spec => []HttpInv
BY HttpInvInit, HttpInvStep, PTL DEF Spec

\* The state is what TypeOK says: above all, whichever threads and handlers of
\* however many HttpServers reach for the list of tasks, and whichever of them
\* die, each task is in one place - not asked for yet, in the list once, in the
\* hand of one server, handed on, or lost with a failure - and a thread that is
\* not handing a task on holds none (addTask and popTask of the task list and
\* RequestTaskThread::run).
THEOREM TypeAlways == Spec => []TypeOK
<1>1. HttpInv => TypeOK
    BY DEF HttpInv, TaskTypeOK, TypeOK
<1> QED  BY <1>1, HttpInvAlways, PTL

\* Once no request is at work on a friendship, and none about it failed or ran
\* against another kind, both sorted sets FRIEND:<user> say what the last
\* request about it asked for, however the commands of any number of requests of
\* UserFriendServer were interleaved (addFriend and removeFriend with the lock
\* commented out).
THEOREM FriendsAsAskedAlways == Spec => []FriendsAsAsked
<1>1. HttpInv => FriendsAsAsked
    BY InvAsAsked DEF HttpInv
<1> QED  BY <1>1, HttpInvAlways, PTL
=============================================================================
