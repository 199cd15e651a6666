--------------------------- MODULE GroupChatProofs ---------------------------
(***************************************************************************)
(* What is proved of a group (GroupChat): its types, that the two sides of *)
(* a membership agree, that members are reached, and that a dismissal      *)
(* leaves nothing.  The invariant is about what the plans of the requests  *)
(* have still to send.                                                     *)
(***************************************************************************)
EXTENDS GroupChat, FiniteSetTheorems, SequenceTheorems, TLAPS

AboutMember == {"hset", "zadd", "hdel", "zrem"}
OfRemoval == {"read", "del_info", "del_members", "hdel", "zrem", "refresh"}

\* A plan holds a command with this name.
Left(p, name) == \E i \in 1 .. Len(p) : p[i].name = name

\* The two commands about a member follow each other.
PairedAt(p, i) ==
    /\ p[i].name = "hset" => i < Len(p) /\ p[i + 1] = Cmd("zadd", p[i].user)
    /\ p[i].name = "hdel" => i < Len(p) /\ p[i + 1] = Cmd("zrem", p[i].user)
    /\ p[i].name = "zadd" /\ i > 1 => p[i - 1] = Cmd("hset", p[i].user)
    /\ p[i].name = "zrem" /\ i > 1 => p[i - 1] = Cmd("hdel", p[i].user)

Paired(p) == \A i \in 1 .. Len(p) : PairedAt(p, i)

\* The hash of the fields is written after a member is, and the members are
\* removed after it is.
Later(p, i, name) == \E j \in i + 1 .. Len(p) : p[j].name = name

KeptAt(p, i) ==
    /\ p[i].name = "hset" => Later(p, i, "refresh")
    /\ p[i].name = "del_info" => Later(p, i, "del_members")

Kept(p) == \A i \in 1 .. Len(p) : KeptAt(p, i)

\* A removal is the beginning of a plan.
Removing(p) ==
    \A i \in 1 .. Len(p) :
        /\ p[i].name = "read" => p = DismissPlan
        /\ p[i].name = "del_members" =>
              \A j \in 1 .. i - 1 : p[j].name \in {"read", "del_info"}

Shaped(p) == Paired(p) /\ Kept(p) /\ Removing(p)

\* The plan is that of a request of this kind about these users.
Fits(p, users, what) ==
    \A i \in 1 .. Len(p) :
        /\ p[i].name \in AboutMember => p[i].user \in users
        /\ p[i].name \in {"read", "del_members"} => users = Users
        /\ what = "dismiss" => p[i].name \in OfRemoval

Plans ==
    \A r \in Requests :
        /\ Shaped(plan[r])
        /\ Fits(plan[r], about[r], kind[r])
        /\ r > began => plan[r] = <<>>

\* Requests that change the same user do not overlap unless this is on record.
Apart ==
    \A u \in Users \ crossed, r, o \in Requests :
        Active(r) /\ Active(o) /\ u \in about[r] /\ u \in about[o] => r = o

\* A request is about to finish what was begun for a user.
Joins(p, u) == p # <<>> /\ p[1] = Cmd("zadd", u)
Leaves(p, u) == \E i \in 1 .. Len(p) : p[i] = Cmd("zrem", u)

Sides ==
    \A u \in Users \ crossed :
        /\ u \in members /\ u \notin mine => \E r \in Requests : Joins(plan[r], u)
        /\ u \in mine /\ u \notin members => \E r \in Requests : Leaves(plan[r], u)

Turns ==
    \A u \in Users \ crossed, r \in Requests :
        /\ Joins(plan[r], u) => u \in members
        /\ plan[r] # <<>> /\ plan[r][1] = Cmd("zrem", u) => u \notin members
        /\ Left(plan[r], "del_members") /\ ~ Left(plan[r], "read") /\ u \in mine
              => Leaves(plan[r], u)

Found ==
    failures = 0 /\ members # {} /\ ~ exists =>
        \E r \in Requests : Left(plan[r], "refresh") \/ Left(plan[r], "del_members")

\* The last request met no other: it is the only one, and a dismissal has done
\* what it does not have to do any more.
Latest ==
    began > 0 /\ began \notin met =>
        /\ \A r \in Requests : r # began => plan[r] = <<>>
        /\ kind[began] = "dismiss" =>
              /\ ~ Left(plan[began], "del_members") => members = {}
              /\ ~ Left(plan[began], "del_info") => creator = Nobody

GroupInv == Plans /\ Apart /\ Sides /\ Turns /\ Found /\ Latest

-----------------------------------------------------------------------------
(***************************************************************************)
(* Plans.                                                                  *)
(***************************************************************************)

\* What is left of a sequence without its first element.
LEMMA Rest ==
    ASSUME NEW S, NEW p \in Seq(S), p # <<>>
    PROVE  /\ Tail(p) \in Seq(S)
           /\ Len(p) \in Nat /\ Len(p) > 0
           /\ Len(Tail(p)) = Len(p) - 1
           /\ \A i \in 1 .. Len(p) - 1 : Tail(p)[i] = p[i + 1]
           /\ Head(p) = p[1]
BY HeadTailProperties, EmptySeq

\* One sequence after another.
LEMMA Joined ==
    ASSUME NEW S, NEW p \in Seq(S), NEW q \in Seq(S), NEW c, c = p \o q
    PROVE  /\ c \in Seq(S)
           /\ Len(p) \in Nat /\ Len(q) \in Nat /\ Len(c) = Len(p) + Len(q)
           /\ \A i \in 1 .. Len(p) : c[i] = p[i]
           /\ \A i \in 1 .. Len(q) : c[Len(p) + i] = q[i]
<1>1. /\ p \o q \in Seq(S)
      /\ Len(p) \in Nat /\ Len(q) \in Nat /\ Len(p \o q) = Len(p) + Len(q)
      /\ \A i \in 1 .. Len(p) + Len(q) :
            (p \o q)[i] = IF i <= Len(p) THEN p[i] ELSE q[i - Len(p)]
    BY ConcatProperties, LenProperties
<1>2. ASSUME NEW i \in 1 .. Len(p)
      PROVE  (p \o q)[i] = p[i]
    <2>1. i \in 1 .. Len(p) + Len(q) /\ i <= Len(p)
        BY <1>1
    <2> QED  BY <1>1, <2>1
<1>3. ASSUME NEW i \in 1 .. Len(q)
      PROVE  (p \o q)[Len(p) + i] = q[i]
    <2>1. Len(p) + i \in 1 .. Len(p) + Len(q) /\ ~ (Len(p) + i <= Len(p)) /\ Len(p) + i - Len(p) = i
        BY <1>1
    <2> QED  BY <1>1, <2>1
<1> QED  BY <1>1, <1>2, <1>3

\* A command has the name and the user it is built from.
LEMMA CmdFields ==
    ASSUME NEW n, NEW u
    PROVE  Cmd(n, u).name = n /\ Cmd(n, u).user = u
BY DEF Cmd

LEMMA CmdType ==
    /\ \A u \in Users, n \in AboutMember \cup {"set_creator", "save"} : Cmd(n, u) \in Commands
    /\ \A n \in {"refresh", "del_info", "del_members", "read"} : Cmd(n, Nobody) \in Commands
    /\ \A c \in Commands :
          /\ c = Cmd(c.name, c.user)
          /\ c.name \in AboutMember \cup {"set_creator", "save"} => c.user \in Users
<1>1. ASSUME NEW u \in Users, NEW n \in AboutMember \cup {"set_creator", "save"}
      PROVE  Cmd(n, u) \in Commands
    BY DEF Cmd, Commands, AboutMember
<1>2. ASSUME NEW n \in {"refresh", "del_info", "del_members", "read"}
      PROVE  Cmd(n, Nobody) \in Commands
    BY DEF Cmd, Commands
<1>3. ASSUME NEW c \in Commands
      PROVE  /\ c = Cmd(c.name, c.user)
             /\ c.name \in AboutMember \cup {"set_creator", "save"} => c.user \in Users
    BY DEF Cmd, Commands, AboutMember
<1> QED  BY <1>1, <1>2, <1>3

\* Pairs gives each user two commands, one after the other.
LEMMA PairsOf ==
    ASSUME NEW q \in Seq(Users), NEW first \in AboutMember, NEW second \in AboutMember
    PROVE  /\ Pairs(q, first, second) \in Seq(Commands)
           /\ Len(Pairs(q, first, second)) = 2 * Len(q)
           /\ \A k \in 1 .. Len(q) :
                 /\ Pairs(q, first, second)[2 * k - 1] = Cmd(first, q[k])
                 /\ Pairs(q, first, second)[2 * k] = Cmd(second, q[k])
           /\ \A i \in 1 .. 2 * Len(q) : \E k \in 1 .. Len(q) : i = 2 * k - 1 \/ i = 2 * k
<1> DEFINE p == Pairs(q, first, second)
<1>1. Len(q) \in Nat
    BY LenProperties
<1>2. ASSUME NEW i \in 1 .. 2 * Len(q)
      PROVE  /\ i % 2 = 1 => (i + 1) \div 2 \in 1 .. Len(q) /\ i = 2 * ((i + 1) \div 2) - 1
             /\ i % 2 # 1 => i \div 2 \in 1 .. Len(q) /\ i = 2 * (i \div 2)
    BY <1>1
<1>3. ASSUME NEW i \in 1 .. 2 * Len(q)
      PROVE  (IF i % 2 = 1 THEN Cmd(first, q[(i + 1) \div 2]) ELSE Cmd(second, q[i \div 2]))
                \in Commands
    <2>1. \A k \in 1 .. Len(q) : q[k] \in Users
        BY <1>1, ElementOfSeq
    <2> QED  BY <1>2, <2>1, CmdType
<1>4. p \in [1 .. 2 * Len(q) -> Commands]
    BY <1>3 DEF Pairs
<1>5. p \in Seq(Commands) /\ Len(p) = 2 * Len(q)
    <2>1. 2 * Len(q) \in Nat
        BY <1>1
    <2> QED  BY <1>4, <2>1, SeqDef, LenProperties
<1>6. ASSUME NEW k \in 1 .. Len(q)
      PROVE  p[2 * k - 1] = Cmd(first, q[k]) /\ p[2 * k] = Cmd(second, q[k])
    <2>1. /\ 2 * k - 1 \in 1 .. 2 * Len(q)
          /\ 2 * k \in 1 .. 2 * Len(q)
          /\ (2 * k - 1) % 2 = 1 /\ (2 * k - 1 + 1) \div 2 = k
          /\ (2 * k) % 2 # 1 /\ (2 * k) \div 2 = k
        BY <1>1
    <2> QED  BY <2>1 DEF Pairs
<1>7. \A i \in 1 .. 2 * Len(q) : \E k \in 1 .. Len(q) : i = 2 * k - 1 \/ i = 2 * k
    BY <1>2
<1> QED  BY <1>5, <1>6, <1>7

LEMMA ShapedRest ==
    ASSUME NEW p \in Seq(Commands), p # <<>>, Shaped(p)
    PROVE  Shaped(Tail(p))
<1> DEFINE t == Tail(p)
<1>1. /\ t \in Seq(Commands) /\ Len(p) \in Nat /\ Len(t) = Len(p) - 1
      /\ \A i \in 1 .. Len(t) : i + 1 \in 1 .. Len(p) /\ t[i] = p[i + 1]
    BY Rest
<1> HIDE DEF t
<1>2. Paired(t)
    BY <1>1, SMTT(60) DEF Shaped, Paired, PairedAt
<1>3. Kept(t)
    <2>1. ASSUME NEW i \in 1 .. Len(t), NEW name, Later(p, i + 1, name)
          PROVE  Later(t, i, name)
        <3>1. PICK j \in i + 1 + 1 .. Len(p) : p[j].name = name
            BY <2>1 DEF Later
        <3>2. j - 1 \in i + 1 .. Len(t) /\ t[j - 1] = p[j]
            BY <1>1
        <3> QED  BY <3>1, <3>2 DEF Later
    <2>2. ASSUME NEW i \in 1 .. Len(t)
          PROVE  KeptAt(t, i)
        <3>1. KeptAt(p, i + 1) /\ t[i] = p[i + 1]
            BY <1>1 DEF Shaped, Kept
        <3> QED  BY <2>1, <3>1 DEF KeptAt
    <2> QED  BY <2>2 DEF Kept
<1>4. Removing(t)
    <2>1. ASSUME NEW i \in 1 .. Len(t)
          PROVE  t[i].name # "read"
        <3>1. p[i + 1].name = "read" => p = DismissPlan
            BY <1>1 DEF Shaped, Removing
        <3>2. /\ Len(DismissPlan) = 3
              /\ DismissPlan[2].name = "del_info" /\ DismissPlan[3].name = "del_members"
            BY DEF DismissPlan, RemoveGroup, Cmd
        <3> QED  BY <1>1, <3>1, <3>2
    <2>2. ASSUME NEW i \in 1 .. Len(t), t[i].name = "del_members", NEW j \in 1 .. i - 1
          PROVE  t[j].name \in {"read", "del_info"}
        BY <1>1, <2>2, SMTT(60) DEF Shaped, Removing
    <2> QED  BY <2>1, <2>2 DEF Removing
<1> QED  BY <1>2, <1>3, <1>4 DEF Shaped, t

\* Commands about members, and the fields, may follow a plan.
LEMMA ShapedConcat ==
    ASSUME NEW p \in Seq(Commands), NEW q \in Seq(Commands), Shaped(p), Shaped(q),
           ~ Left(p, "read"), ~ Left(q, "read"), ~ Left(q, "del_members"),
           q # <<>> => q[1].name \notin {"zadd", "zrem"}
    PROVE  Shaped(p \o q)
<1> DEFINE c == p \o q
<1>1. /\ c \in Seq(Commands)
      /\ Len(p) \in Nat /\ Len(q) \in Nat /\ Len(c) = Len(p) + Len(q)
      /\ \A i \in 1 .. Len(p) : c[i] = p[i]
      /\ \A i \in 1 .. Len(q) : c[Len(p) + i] = q[i]
    BY Joined
<1>2. \A i \in 1 .. Len(c) : i \in 1 .. Len(p) \/ i - Len(p) \in 1 .. Len(q)
    BY <1>1
<1>3. \A i \in 1 .. Len(c) : i - Len(p) \in 1 .. Len(q) => c[i] = q[i - Len(p)]
    BY <1>1
<1>4. q # <<>> <=> Len(q) > 0
    BY <1>1, EmptySeq
<1> HIDE DEF c
<1>5. ASSUME NEW i \in 1 .. Len(p)
      PROVE  PairedAt(c, i) /\ KeptAt(c, i)
    <2>1. /\ c[i] = p[i]
          /\ i < Len(p) => i < Len(c) /\ c[i + 1] = p[i + 1]
          /\ i > 1 => c[i - 1] = p[i - 1]
        <3>1. /\ i < Len(p) => i < Len(c) /\ i + 1 \in 1 .. Len(p)
              /\ i > 1 => i - 1 \in 1 .. Len(p)
            BY <1>1
        <3> QED  BY <1>1, <3>1
    <2>2. ASSUME NEW name, Later(p, i, name)
          PROVE  Later(c, i, name)
        BY <1>1, <2>2 DEF Later
    <2>3. PairedAt(p, i) /\ KeptAt(p, i)
        BY DEF Shaped, Paired, Kept
    <2> QED  BY <2>1, <2>2, <2>3 DEF PairedAt, KeptAt
<1>6. ASSUME NEW k \in 1 .. Len(q)
      PROVE  PairedAt(c, Len(p) + k) /\ KeptAt(c, Len(p) + k)
    <2>1. /\ c[Len(p) + k] = q[k]
          /\ k < Len(q) => Len(p) + k < Len(c) /\ c[Len(p) + k + 1] = q[k + 1]
        <3>1. k < Len(q) => c[Len(p) + (k + 1)] = q[k + 1]
            BY <1>1
        <3> QED  BY <1>1, <3>1
    <2>2. k > 1 => c[Len(p) + k - 1] = q[k - 1]
        <3>1. k > 1 => c[Len(p) + (k - 1)] = q[k - 1]
            BY <1>1
        <3> QED  BY <1>1, <3>1
    <2>3. k = 1 => q[k].name \notin {"zadd", "zrem"}
        BY <1>1, <1>4
    <2>4. ASSUME NEW name, Later(q, k, name)
          PROVE  Later(c, Len(p) + k, name)
        <3>1. PICK j \in k + 1 .. Len(q) : q[j].name = name
            BY <2>4 DEF Later
        <3>2. Len(p) + j \in Len(p) + k + 1 .. Len(c) /\ c[Len(p) + j] = q[j]
            BY <1>1
        <3> QED  BY <3>1, <3>2 DEF Later
    <2>5. PairedAt(q, k) /\ KeptAt(q, k)
        BY DEF Shaped, Paired, Kept
    <2>6. PairedAt(c, Len(p) + k)
        <3>1. k = 1 \/ k > 1
            BY <1>1
        <3> QED  BY <2>1, <2>2, <2>3, <2>5, <3>1 DEF PairedAt
    <2>7. KeptAt(c, Len(p) + k)
        BY <2>1, <2>4, <2>5 DEF KeptAt
    <2> QED  BY <2>6, <2>7
<1>8. Paired(c) /\ Kept(c)
    <2>1. ASSUME NEW i \in 1 .. Len(c)
          PROVE  PairedAt(c, i) /\ KeptAt(c, i)
        <3>1. CASE i \in 1 .. Len(p)
            BY <1>5, <3>1
        <3>2. CASE i - Len(p) \in 1 .. Len(q)
            <4>1. Len(p) + (i - Len(p)) = i
                BY <1>1
            <4> QED  BY <1>6, <3>2, <4>1
        <3> QED  BY <1>2, <3>1, <3>2
    <2> QED  BY <2>1 DEF Paired, Kept
<1>7. Removing(c)
    <2>1. \A i \in 1 .. Len(c) : c[i].name # "read"
        BY <1>1, <1>2, <1>3 DEF Left
    <2>2. ASSUME NEW i \in 1 .. Len(c), c[i].name = "del_members", NEW j \in 1 .. i - 1
          PROVE  c[j].name \in {"read", "del_info"}
        <3>1. i \in 1 .. Len(p)
            BY <1>2, <1>3, <2>2 DEF Left
        <3> QED  BY <1>1, <2>2, <3>1 DEF Shaped, Removing
    <2> QED  BY <2>1, <2>2 DEF Removing
<1> QED  BY <1>7, <1>8 DEF Shaped, c

\* The plan of a request about members.
LEMMA ForEachOf ==
    ASSUME NEW q \in Seq(Users), NEW first, NEW second,
           \/ first = "hset" /\ second = "zadd"
           \/ first = "hdel" /\ second = "zrem"
    PROVE  /\ ForEach(q, first, second) \in Seq(Commands)
           /\ Shaped(ForEach(q, first, second))
           /\ \A i \in 1 .. Len(ForEach(q, first, second)) :
                 \/ ForEach(q, first, second)[i].name = "refresh"
                 \/ /\ ForEach(q, first, second)[i].name \in {first, second}
                    /\ \E k \in 1 .. Len(q) : ForEach(q, first, second)[i].user = q[k]
           /\ \A k \in 1 .. Len(q) : \E i \in 1 .. Len(ForEach(q, first, second)) :
                 ForEach(q, first, second)[i] = Cmd(second, q[k])
           /\ ForEach(q, first, second) # <<>> => ForEach(q, first, second)[1].name = first
<1> DEFINE f == ForEach(q, first, second)
           d == Pairs(q, first, second)
<1>1. /\ first \in AboutMember /\ second \in AboutMember
      /\ first \notin {"zadd", "zrem", "refresh", "read", "del_info", "del_members"}
      /\ second \notin {"hset", "hdel", "refresh", "read", "del_info", "del_members"}
    BY DEF AboutMember
<1>2. CASE q = <<>>
    <2>1. f = <<>> /\ Len(q) = 0
        BY <1>2 DEF ForEach
    <2>2. f \in Seq(Commands) /\ Len(f) = 0
        BY <2>1
    <2>3. Shaped(f)
        BY <2>2 DEF Shaped, Paired, Kept, Removing
    <2> QED  BY <2>1, <2>2, <2>3
<1>3. CASE q # <<>>
    <2>1. Len(q) \in Nat /\ Len(q) > 0
        BY <1>3, LenProperties, EmptySeq
    <2>2. f = d \o <<Refresh>>
        BY <1>3 DEF ForEach
    <2>3. /\ d \in Seq(Commands) /\ Len(d) = 2 * Len(q)
          /\ \A k \in 1 .. Len(q) : d[2 * k - 1] = Cmd(first, q[k]) /\ d[2 * k] = Cmd(second, q[k])
          /\ \A i \in 1 .. 2 * Len(q) : \E k \in 1 .. Len(q) : i = 2 * k - 1 \/ i = 2 * k
        BY <1>1, PairsOf
    <2>4. <<Refresh>> \in Seq(Commands) /\ Len(<<Refresh>>) = 1 /\ <<Refresh>>[1] = Refresh
        BY CmdType DEF Refresh
    <2> DEFINE e == <<Refresh>>
    <2> HIDE DEF f, d, e
    <2>5. /\ f \in Seq(Commands) /\ Len(f) = 2 * Len(q) + 1
          /\ \A i \in 1 .. 2 * Len(q) : f[i] = d[i]
          /\ f[2 * Len(q) + 1] = Refresh
        <3>1. /\ f = d \o e /\ d \in Seq(Commands) /\ e \in Seq(Commands)
              /\ Len(d) = 2 * Len(q) /\ Len(e) = 1 /\ e[1] = Refresh /\ 1 \in 1 .. 1
            BY <2>2, <2>3, <2>4 DEF e
        <3>2. /\ f \in Seq(Commands) /\ Len(f) = Len(d) + Len(e)
              /\ \A i \in 1 .. Len(d) : f[i] = d[i]
              /\ \A i \in 1 .. Len(e) : f[Len(d) + i] = e[i]
            <4>1. f = d \o e /\ d \in Seq(Commands) /\ e \in Seq(Commands)
                BY <3>1
            <4> QED  BY <4>1, Joined
        <3> QED  BY <3>1, <3>2
    <2>7. /\ f[2 * Len(q) + 1].name = "refresh"
          /\ f[2 * Len(q) + 1].name \notin {"hset", "zadd", "hdel", "zrem", "read", "del_info",
                                            "del_members"}
        BY <2>5, CmdFields DEF Refresh
    <2>8. ASSUME NEW k \in 1 .. Len(q)
          PROVE  /\ 2 * k - 1 \in 1 .. Len(f) /\ 2 * k \in 1 .. Len(f)
                 /\ f[2 * k - 1] = Cmd(first, q[k]) /\ f[2 * k] = Cmd(second, q[k])
                 /\ f[2 * k - 1].name = first /\ f[2 * k - 1].user = q[k]
                 /\ f[2 * k].name = second /\ f[2 * k].user = q[k]
        <3>1. 2 * k - 1 \in 1 .. 2 * Len(q) /\ 2 * k \in 1 .. 2 * Len(q)
            BY <2>1
        <3>2. f[2 * k - 1] = Cmd(first, q[k]) /\ f[2 * k] = Cmd(second, q[k])
            BY <2>3, <2>5, <3>1
        <3>3. 2 * k - 1 \in 1 .. Len(f) /\ 2 * k \in 1 .. Len(f)
            BY <2>1, <2>5
        <3> QED  BY <3>2, <3>3, CmdFields
    <2>9. ASSUME NEW i \in 1 .. Len(f)
          PROVE  i = 2 * Len(q) + 1 \/ \E k \in 1 .. Len(q) : i = 2 * k - 1 \/ i = 2 * k
        <3>1. i = 2 * Len(q) + 1 \/ i \in 1 .. 2 * Len(q)
            BY <2>1, <2>5
        <3> QED  BY <2>3, <3>1
    <2>10. ASSUME NEW k \in 1 .. Len(q)
           PROVE  /\ Later(f, 2 * k - 1, "refresh")
                  /\ PairedAt(f, 2 * k - 1) /\ PairedAt(f, 2 * k)
        <3>1. Later(f, 2 * k - 1, "refresh")
            BY <2>1, <2>5, <2>7 DEF Later
        <3>2. PairedAt(f, 2 * k - 1)
            BY <1>1, <2>1, <2>5, <2>8 DEF PairedAt
        <3>3. PairedAt(f, 2 * k)
            BY <1>1, <2>1, <2>5, <2>8 DEF PairedAt
        <3> QED  BY <3>1, <3>2, <3>3
    <2>11. PairedAt(f, 2 * Len(q) + 1) /\ KeptAt(f, 2 * Len(q) + 1)
        BY <2>7 DEF PairedAt, KeptAt
    <2>12. ASSUME NEW k \in 1 .. Len(q)
           PROVE  KeptAt(f, 2 * k - 1) /\ KeptAt(f, 2 * k)
        BY <1>1, <2>8, <2>10 DEF KeptAt
    <2>13. Paired(f) /\ Kept(f)
        BY <2>9, <2>10, <2>11, <2>12 DEF Paired, Kept
    <2>14. \A i \in 1 .. Len(f) :
              \/ f[i].name = "refresh"
              \/ f[i].name \in {first, second} /\ \E k \in 1 .. Len(q) : f[i].user = q[k]
        BY <2>7, <2>8, <2>9
    <2>15. Removing(f)
        BY <1>1, <2>14 DEF Removing
    <2>16. f[1].name = first
        <3>1. 1 \in 1 .. Len(q) /\ 2 * 1 - 1 = 1
            BY <2>1
        <3> QED  BY <2>8, <3>1
    <2> QED  BY <2>5, <2>8, <2>13, <2>14, <2>15, <2>16 DEF Shaped, f
<1> QED  BY <1>2, <1>3

LEMMA SingleOf ==
    ASSUME NEW c \in Commands, c.name \in {"save", "set_creator"}
    PROVE  /\ <<c>> \in Seq(Commands) /\ Len(<<c>>) = 1 /\ <<c>>[1] = c
           /\ Shaped(<<c>>)
<1>1. <<c>> \in Seq(Commands) /\ Len(<<c>>) = 1 /\ <<c>>[1] = c
    OBVIOUS
<1>2. c.name \notin {"hset", "zadd", "hdel", "zrem", "read", "del_info", "del_members"}
    OBVIOUS
<1> DEFINE p == <<c>>
<1>3. \A i \in 1 .. Len(p) : p[i] = c
    BY <1>1
<1> HIDE DEF p
<1>4. Shaped(p)
    BY <1>2, <1>3 DEF Shaped, Paired, PairedAt, Kept, KeptAt, Removing
<1> QED  BY <1>1, <1>4 DEF p

LEMMA RemovalOf ==
    /\ DismissPlan \in Seq(Commands) /\ Len(DismissPlan) = 3
    /\ DismissPlan[1].name = "read"
    /\ DismissPlan[2].name = "del_info"
    /\ DismissPlan[3].name = "del_members"
    /\ Shaped(DismissPlan)
<1> DEFINE p == DismissPlan
<1>1. p = <<Cmd("read", Nobody)>> \o <<Cmd("del_info", Nobody), Cmd("del_members", Nobody)>>
    BY DEF DismissPlan, RemoveGroup
<1>2. /\ Cmd("read", Nobody) \in Commands
      /\ Cmd("del_info", Nobody) \in Commands
      /\ Cmd("del_members", Nobody) \in Commands
    BY CmdType
<1>3. /\ p \in Seq(Commands) /\ Len(p) = 3
      /\ p[1].name = "read" /\ p[2].name = "del_info" /\ p[3].name = "del_members"
    <2> DEFINE a == <<Cmd("read", Nobody)>>
               b == <<Cmd("del_info", Nobody), Cmd("del_members", Nobody)>>
    <2>1. /\ a \in Seq(Commands) /\ b \in Seq(Commands) /\ Len(a) = 1 /\ Len(b) = 2
          /\ a[1] = Cmd("read", Nobody)
          /\ b[1] = Cmd("del_info", Nobody) /\ b[2] = Cmd("del_members", Nobody)
        BY <1>2
    <2>2. p = a \o b
        BY <1>1
    <2> HIDE DEF a, b, p
    <2>3. /\ p \in Seq(Commands) /\ Len(p) = 3
          /\ \A i \in 1 .. 1 : p[i] = a[i]
          /\ \A i \in 1 .. 2 : p[1 + i] = b[i]
        <3>1. /\ p \in Seq(Commands) /\ Len(p) = Len(a) + Len(b)
              /\ \A i \in 1 .. Len(a) : p[i] = a[i]
              /\ \A i \in 1 .. Len(b) : p[Len(a) + i] = b[i]
            <4>1. p = a \o b /\ a \in Seq(Commands) /\ b \in Seq(Commands)
                BY <2>1, <2>2
            <4> QED  BY <4>1, Joined
        <3> QED  BY <2>1, <3>1
    <2>4. p[1] = a[1] /\ p[2] = b[1] /\ p[3] = b[2]
        <3>1. 1 \in 1 .. 1 /\ 1 \in 1 .. 2 /\ 2 \in 1 .. 2 /\ 1 + 1 = 2 /\ 1 + 2 = 3
            OBVIOUS
        <3> QED  BY <2>3, <3>1
    <2> QED  BY <2>1, <2>3, <2>4, CmdFields
<1> HIDE DEF p
<1>5. \A i \in 1 .. Len(p) : i = 1 \/ i = 2 \/ i = 3
    BY <1>3
<1>6. Later(p, 2, "del_members")
    BY <1>3 DEF Later
<1>7. Paired(p) /\ Kept(p)
    BY <1>3, <1>5, <1>6 DEF Paired, PairedAt, Kept, KeptAt
<1>8. Removing(p)
    <2>1. \A i \in 1 .. Len(p) : p[i].name = "del_members" => i = 3
        BY <1>3, <1>5
    <2>2. \A j \in 1 .. 3 - 1 : p[j].name \in {"read", "del_info"}
        BY <1>3
    <2> QED  BY <2>1, <2>2 DEF Removing, p
<1> QED  BY <1>3, <1>7, <1>8 DEF Shaped, p

\* A sequence of the members of a set.
LEMMA Listed ==
    ASSUME NEW users \in SUBSET Users, NEW q,
           q \in SetToSeqs(users) \/ q = SetToSeq(users)
    PROVE  /\ q \in Seq(Users)
           /\ \A k \in 1 .. Len(q) : q[k] \in users
           /\ \A u \in users : \E k \in 1 .. Len(q) : q[k] = u
<1> DEFINE n == Cardinality(users)
<1>1. IsFiniteSet(users)
    BY GroupAssumption, FS_Subset
<1>2. n \in Nat /\ Injection(1 .. n, users) # {}
    BY <1>1, FS_CardinalityType DEF ExistsBijection, Bijection
<1>3. q \in [1 .. n -> users] /\ IsInjective(q)
    <2>1. CASE q \in SetToSeqs(users)
        BY <2>1 DEF SetToSeqs, IsInjective
    <2>2. CASE q = SetToSeq(users)
        <3>1. PICK f \in Injection(1 .. n, users) : TRUE
            BY <1>2
        <3>2. f \in [1 .. n -> users] /\ IsInjective(f)
            BY <3>1 DEF Injection
        <3> QED  BY <2>2, <3>2 DEF SetToSeq
    <2> QED  BY <2>1, <2>2
<1>4. q \in Seq(users) /\ Len(q) = n
    BY <1>2, <1>3, SeqDef, LenProperties
<1>5. q \in Surjection(1 .. n, users)
    <2>1. q \in Injection(1 .. n, users)
        BY <1>3 DEF Injection
    <2>2. IsFiniteSet(1 .. n) /\ Cardinality(1 .. n) = n
        BY <1>2, FS_Interval
    <2> QED  BY <1>1, <2>1, <2>2, FS_Injection
<1>6. \A u \in users : \E k \in 1 .. Len(q) : q[k] = u
    BY <1>4, <1>5 DEF Surjection
<1>7. \A k \in 1 .. Len(q) : q[k] \in users
    BY <1>3, <1>4
<1>8. q \in Seq(Users)
    <2>1. q \in [1 .. n -> Users]
        BY <1>3
    <2> QED  BY <1>2, <2>1, SeqDef
<1> QED  BY <1>6, <1>7, <1>8

\* The plan of a request that begins.
Fresh(p, users, what) ==
    /\ p \in Seq(Commands)
    /\ Shaped(p)
    /\ Fits(p, users, what)
    /\ p # <<>> => p[1].name \notin {"zadd", "zrem"}
    /\ Left(p, "del_members") => p = DismissPlan
    /\ what = "dismiss" => p = DismissPlan

LEMMA FreshForEach ==
    ASSUME NEW q \in Seq(Users), NEW users, \A k \in 1 .. Len(q) : q[k] \in users,
           NEW what, what # "dismiss", NEW p, p = AddMember(q) \/ p = DelMember(q)
    PROVE  /\ Fresh(p, users, what)
           /\ \A i \in 1 .. Len(p) : p[i].name \notin {"read", "del_members"}
<1>1. PICK first, second :
          /\ p = ForEach(q, first, second)
          /\ \/ first = "hset" /\ second = "zadd"
             \/ first = "hdel" /\ second = "zrem"
    BY DEF AddMember, DelMember
<1>2. /\ p \in Seq(Commands) /\ Shaped(p)
      /\ \A i \in 1 .. Len(p) :
            \/ p[i].name = "refresh"
            \/ p[i].name \in {first, second} /\ \E k \in 1 .. Len(q) : p[i].user = q[k]
      /\ p # <<>> => p[1].name = first
    BY <1>1, ForEachOf
<1>3. \A i \in 1 .. Len(p) :
          /\ p[i].name \notin {"read", "del_members"}
          /\ p[i].name \in AboutMember => p[i].user \in users
    BY <1>1, <1>2 DEF AboutMember
<1>4. p # <<>> => p[1].name \notin {"zadd", "zrem"}
    BY <1>1, <1>2
<1> QED  BY <1>2, <1>3, <1>4 DEF Fresh, Fits, Left

LEMMA FreshSingle ==
    ASSUME NEW u \in Users, NEW name \in {"save", "set_creator"}, NEW users,
           NEW what, what # "dismiss", NEW p, p = <<Cmd(name, u)>>
    PROVE  /\ Fresh(p, users, what)
           /\ \A i \in 1 .. Len(p) : p[i].name \notin {"read", "del_members"}
           /\ p # <<>>
<1>1. Cmd(name, u) \in Commands /\ Cmd(name, u).name = name
    BY CmdType, CmdFields
<1>2. p \in Seq(Commands) /\ Len(p) = 1 /\ p[1] = Cmd(name, u) /\ Shaped(p) /\ p # <<>>
    BY <1>1, SingleOf
<1>3. \A i \in 1 .. Len(p) : p[i].name = name
    BY <1>1, <1>2
<1>4. p[1].name = name
    BY <1>1, <1>2
<1> QED  BY <1>2, <1>3, <1>4 DEF Fresh, Fits, Left, AboutMember

\* One part of a plan after the other.
LEMMA FreshJoined ==
    ASSUME NEW users, NEW what, what # "dismiss",
           NEW p, Fresh(p, users, what), NEW q, Fresh(q, users, what),
           \A i \in 1 .. Len(p) : p[i].name \notin {"read", "del_members"},
           \A i \in 1 .. Len(q) : q[i].name \notin {"read", "del_members"},
           NEW c, c = p \o q
    PROVE  /\ Fresh(c, users, what)
           /\ \A i \in 1 .. Len(c) : c[i].name \notin {"read", "del_members"}
<1>1. p \in Seq(Commands) /\ q \in Seq(Commands) /\ Shaped(p) /\ Shaped(q)
    BY DEF Fresh
<1>2. /\ c \in Seq(Commands)
      /\ Len(p) \in Nat /\ Len(q) \in Nat /\ Len(c) = Len(p) + Len(q)
      /\ \A i \in 1 .. Len(p) : c[i] = p[i]
      /\ \A i \in 1 .. Len(q) : c[Len(p) + i] = q[i]
    BY <1>1, Joined
<1>3. Shaped(c)
    BY <1>1, ShapedConcat DEF Fresh, Left
<1>4. \A i \in 1 .. Len(c) :
          (\E k \in 1 .. Len(p) : c[i] = p[k]) \/ (\E k \in 1 .. Len(q) : c[i] = q[k])
    <2>1. ASSUME NEW i \in 1 .. Len(c)
          PROVE  i \in 1 .. Len(p) \/ (i - Len(p) \in 1 .. Len(q) /\ Len(p) + (i - Len(p)) = i)
        BY <1>2
    <2> QED  BY <1>2, <2>1
<1>5. \A i \in 1 .. Len(c) : c[i].name \notin {"read", "del_members"}
    BY <1>4
<1>6. Fits(c, users, what)
    BY <1>4, <1>5 DEF Fits, Fresh
<1>7. c # <<>> => c[1].name \notin {"zadd", "zrem"}
    <2>1. p # <<>> => 1 \in 1 .. Len(p)
        BY <1>1, <1>2, EmptySeq
    <2>2. c # <<>> /\ p = <<>> => 1 \in 1 .. Len(q) /\ Len(p) + 1 = 1 /\ q # <<>>
        <3>1. Len(c) > 0 \/ c = <<>>
            BY <1>2, EmptySeq
        <3>2. p = <<>> => Len(p) = 0
            OBVIOUS
        <3>3. q = <<>> => Len(q) = 0
            OBVIOUS
        <3> QED  BY <1>2, <3>1, <3>2, <3>3
    <2> QED  BY <1>2, <2>1, <2>2 DEF Fresh
<1> QED  BY <1>2, <1>3, <1>5, <1>6, <1>7 DEF Fresh, Left

LEMMA FreshDismiss ==
    /\ Fresh(DismissPlan, Users, "dismiss")
    /\ Left(DismissPlan, "read") /\ Left(DismissPlan, "del_info") /\ Left(DismissPlan, "del_members")
<1> DEFINE p == DismissPlan
<1>1. /\ p \in Seq(Commands) /\ Len(p) = 3
      /\ p[1].name = "read" /\ p[2].name = "del_info" /\ p[3].name = "del_members"
      /\ Shaped(p)
    BY RemovalOf
<1> HIDE DEF p
<1>2. Left(p, "read") /\ Left(p, "del_info") /\ Left(p, "del_members")
    BY <1>1 DEF Left
<1>3. \A i \in 1 .. Len(p) : p[i].name \in {"read", "del_info", "del_members"}
    <2>1. \A i \in 1 .. Len(p) : i = 1 \/ i = 2 \/ i = 3
        BY <1>1
    <2> QED  BY <1>1, <2>1
<1>4. Fits(p, Users, "dismiss")
    BY <1>3 DEF Fits, AboutMember, OfRemoval
<1> QED  BY <1>1, <1>2, <1>4 DEF Fresh, p

\* What a request has still to send when a command is sent, with the members m
\* that "read" finds.
Onward(p, m) ==
    Tail(p) \o IF Head(p).name = "read" THEN DelMember(SetToSeq(m)) ELSE <<>>

LEMMA Sent ==
    ASSUME NEW p \in Seq(Commands), p # <<>>, Shaped(p),
           NEW users, NEW what, Fits(p, users, what), NEW m \in SUBSET Users,
           NEW t, t = Onward(p, m)
    PROVE  /\ t \in Seq(Commands) /\ Shaped(t) /\ Fits(t, users, what)
           /\ p[1] \in Commands /\ Len(p) \in Nat /\ Len(p) > 0
           /\ \A i \in 1 .. Len(p) :
                 i # 1 => i - 1 \in 1 .. Len(t) /\ t[i - 1] = p[i]
           /\ p[1].name # "read" =>
                 \A i \in 1 .. Len(t) : i + 1 \in 1 .. Len(p) /\ t[i] = p[i + 1]
           /\ p[1].name = "read" =>
                 /\ users = Users
                 /\ \A i \in 1 .. Len(t) : t[i].name # "read"
                 /\ t # <<>> /\ t[1].name = "del_info"
                 /\ \A u \in m : Leaves(t, u)
<1> DEFINE s == Tail(p)
<1>1. /\ s \in Seq(Commands) /\ Len(p) \in Nat /\ Len(p) > 0 /\ Len(s) = Len(p) - 1
      /\ \A i \in 1 .. Len(p) - 1 : s[i] = p[i + 1]
      /\ Head(p) = p[1] /\ p[1] \in Commands
    <2>1. p[1] \in Commands
        BY EmptySeq, LenProperties, ElementOfSeq
    <2> QED  BY <2>1, Rest
<1>2. Shaped(s)
    BY ShapedRest
<1>3. \A i \in 1 .. Len(p) : i # 1 => i - 1 \in 1 .. Len(s) /\ s[i - 1] = p[i]
    <2>1. ASSUME NEW i \in 1 .. Len(p), i # 1
          PROVE  i - 1 \in 1 .. Len(p) - 1 /\ i - 1 + 1 = i
        BY <1>1, <2>1
    <2> QED  BY <1>1, <2>1
<1>4. \A i \in 1 .. Len(s) : i + 1 \in 1 .. Len(p) /\ s[i] = p[i + 1]
    BY <1>1
<1> HIDE DEF s
<1>5. Fits(s, users, what)
    BY <1>4 DEF Fits
<1>6. CASE p[1].name # "read"
    <2>1. t = s
        <3>1. t = s \o <<>>
            BY <1>1, <1>6 DEF s, Onward
        <3> QED  BY <1>1, <3>1, ConcatEmptySeq
    <2> QED  BY <1>1, <1>2, <1>3, <1>4, <1>5, <1>6, <2>1
<1>7. CASE p[1].name = "read"
    <2> DEFINE q == SetToSeq(m)
               d == DelMember(q)
    <2>1. q \in Seq(Users) /\ (\A k \in 1 .. Len(q) : q[k] \in m)
          /\ \A u \in m : \E k \in 1 .. Len(q) : q[k] = u
        BY Listed
    <2> HIDE DEF q
    <2>2. /\ d \in Seq(Commands) /\ Shaped(d)
          /\ \A i \in 1 .. Len(d) :
                \/ d[i].name = "refresh"
                \/ d[i].name \in {"hdel", "zrem"} /\ \E k \in 1 .. Len(q) : d[i].user = q[k]
          /\ \A k \in 1 .. Len(q) : \E i \in 1 .. Len(d) : d[i] = Cmd("zrem", q[k])
          /\ d # <<>> => d[1].name = "hdel"
        BY <2>1, ForEachOf DEF DelMember
    <2>3. t = s \o d
        BY <1>1, <1>7 DEF s, q, Onward
    <2> HIDE DEF d
    <2>4. /\ t \in Seq(Commands) /\ Len(s) \in Nat /\ Len(d) \in Nat /\ Len(t) = Len(s) + Len(d)
          /\ \A i \in 1 .. Len(s) : t[i] = s[i]
          /\ \A i \in 1 .. Len(d) : t[Len(s) + i] = d[i]
        <3>1. s \in Seq(Commands) /\ d \in Seq(Commands) /\ t = s \o d
            BY <1>1, <2>2, <2>3
        <3> QED  BY <3>1, Joined
    <2>5. 1 \in 1 .. Len(p) /\ p = DismissPlan
        BY <1>1, <1>7 DEF Shaped, Removing
    <2>6. Len(s) = 2 /\ s[1].name = "del_info" /\ s[2].name = "del_members"
        BY <1>1, <2>5, RemovalOf
    <2>7. users = Users
        BY <1>7, <2>5 DEF Fits
    <2>8. \A i \in 1 .. Len(s) : s[i].name \in {"del_info", "del_members"}
        <3>1. \A i \in 1 .. Len(s) : i = 1 \/ i = 2
            BY <2>6
        <3> QED  BY <2>6, <3>1
    <2>9. \A i \in 1 .. Len(d) :
              d[i].name \in {"hdel", "zrem", "refresh"}
        BY <2>2
    <2>10. Shaped(t)
        BY <1>1, <1>2, <2>2, <2>3, <2>8, <2>9, ShapedConcat DEF Left
    <2>11. \A i \in 1 .. Len(t) :
              (\E k \in 1 .. Len(s) : t[i] = s[k]) \/ (\E k \in 1 .. Len(d) : t[i] = d[k])
        <3>1. ASSUME NEW i \in 1 .. Len(t)
              PROVE  i \in 1 .. Len(s) \/ (i - Len(s) \in 1 .. Len(d) /\ Len(s) + (i - Len(s)) = i)
            BY <2>4
        <3> QED  BY <2>4, <3>1
    <2>12. \A i \in 1 .. Len(t) :
              t[i].name \in {"del_info", "del_members", "hdel", "zrem", "refresh"}
        BY <2>8, <2>9, <2>11
    <2>13. \A i \in 1 .. Len(t) : t[i].name \in AboutMember => t[i].user \in Users
        <3>1. \A i \in 1 .. Len(t) : t[i] \in Commands
            BY <2>4, ElementOfSeq
        <3> QED  BY <3>1, CmdType
    <2>14. Fits(t, users, what)
        BY <2>7, <2>12, <2>13 DEF Fits, OfRemoval
    <2>15. ASSUME NEW u \in m
           PROVE  Leaves(t, u)
        <3>1. PICK i \in 1 .. Len(d) : d[i] = Cmd("zrem", u)
            BY <2>1, <2>2, SMTT(60)
        <3>2. Len(s) + i \in 1 .. Len(t) /\ t[Len(s) + i] = d[i]
            BY <2>4
        <3> QED  BY <3>1, <3>2 DEF Leaves
    <2>16. \A i \in 1 .. Len(p) : i # 1 => i - 1 \in 1 .. Len(t) /\ t[i - 1] = p[i]
        <3>1. ASSUME NEW i \in 1 .. Len(s)
              PROVE  i \in 1 .. Len(t)
            BY <2>4
        <3> QED  BY <1>3, <2>4, <3>1
    <2>17. t # <<>> /\ t[1].name = "del_info"
        <3>1. 1 \in 1 .. Len(s) /\ Len(t) > 0
            BY <2>4, <2>6
        <3>2. t # <<>>
            BY <2>4, <3>1
        <3>3. t[1] = s[1]
            BY <2>4, <3>1
        <3> QED  BY <2>6, <3>2, <3>3
    <2>18. \A i \in 1 .. Len(t) : t[i].name # "read"
        BY <2>12
    <2> QED  BY <1>1, <1>7, <2>4, <2>7, <2>10, <2>14, <2>15, <2>16, <2>17, <2>18
<1> QED  BY <1>6, <1>7

-----------------------------------------------------------------------------
(***************************************************************************)
(* Steps.                                                                  *)
(***************************************************************************)
Kinds == {"create", "dismiss", "update", "join", "quit"}

\* A request begins; one goes on, or gives up, after a failure.
Starts(r) ==
    \E p : \E what \in Kinds, users \in SUBSET Users :
        Begin(r, what, p, users) /\ Fresh(p, users, what)
Breaks(r) == \E p \in {Tail(plan[r]), <<>>} : Broken(r, p)

\* A request that begins has a plan of its kind.
LEMMA Beginning ==
    ASSUME TypeOK, NEW r \in Requests,
           \/ CreateGroup(r) \/ DismissGroup(r) \/ UpdateGroupCreator(r) \/ UpdateGroupInfo(r)
           \/ JoinGroup(r) \/ QuitGroup(r)
    PROVE  Starts(r)
<1>0. creator \in Users \cup {Nobody}
    BY DEF TypeOK
<1>1. CASE CreateGroup(r)
    <2>1. PICK u \in Users, invited \in SUBSET Users : \E q \in SetToSeqs(invited) :
              Begin(r, "create", <<Cmd("save", u)>> \o AddMember(q), invited)
        BY <1>1 DEF CreateGroup
    <2>2. PICK q \in SetToSeqs(invited) :
              Begin(r, "create", <<Cmd("save", u)>> \o AddMember(q), invited)
        BY <2>1
    <2>3. q \in Seq(Users) /\ \A k \in 1 .. Len(q) : q[k] \in invited
        BY Listed
    <2> DEFINE a == <<Cmd("save", u)>>
               b == AddMember(q)
               c == a \o b
    <2>4. /\ Fresh(a, invited, "create")
          /\ \A i \in 1 .. Len(a) : a[i].name \notin {"read", "del_members"}
        BY FreshSingle
    <2>5. /\ Fresh(b, invited, "create")
          /\ \A i \in 1 .. Len(b) : b[i].name \notin {"read", "del_members"}
        BY <2>3, FreshForEach
    <2>6. Begin(r, "create", c, invited)
        BY <2>2
    <2> HIDE DEF a, b
    <2>7. Fresh(c, invited, "create")
        BY <2>4, <2>5, FreshJoined
    <2> QED  BY <2>6, <2>7 DEF Kinds, Starts
<1>2. CASE DismissGroup(r)
    <2>1. Begin(r, "dismiss", DismissPlan, Users)
        BY <1>2 DEF DismissGroup
    <2> QED  BY <2>1, FreshDismiss DEF Kinds, Starts
<1>3. CASE UpdateGroupCreator(r)
    <2>1. PICK new \in Users :
              Begin(r, "update",
                    AddMember(<<new>>) \o DelMember(<<creator>>) \o <<Cmd("set_creator", new)>>,
                    {new, creator})
        BY <1>3 DEF UpdateGroupCreator
    <2>2. creator \in Users
        BY <1>0, <1>3 DEF UpdateGroupCreator
    <2> DEFINE users == {new, creator}
               a == AddMember(<<new>>)
               b == DelMember(<<creator>>)
               ab == a \o b
               c == <<Cmd("set_creator", new)>>
               d == ab \o c
    <2>3. /\ <<new>> \in Seq(Users) /\ \A k \in 1 .. Len(<<new>>) : <<new>>[k] \in users
          /\ <<creator>> \in Seq(Users) /\ \A k \in 1 .. Len(<<creator>>) : <<creator>>[k] \in users
        BY <2>2
    <2>4. /\ Fresh(a, users, "update")
          /\ \A i \in 1 .. Len(a) : a[i].name \notin {"read", "del_members"}
        BY <2>3, FreshForEach
    <2>5. /\ Fresh(b, users, "update")
          /\ \A i \in 1 .. Len(b) : b[i].name \notin {"read", "del_members"}
        BY <2>3, FreshForEach
    <2>6. /\ Fresh(c, users, "update")
          /\ \A i \in 1 .. Len(c) : c[i].name \notin {"read", "del_members"}
        BY FreshSingle
    <2>7. Begin(r, "update", d, users) /\ users \in SUBSET Users
        BY <2>1, <2>2
    <2> HIDE DEF a, b, c, users
    <2>8. /\ Fresh(ab, users, "update")
          /\ \A i \in 1 .. Len(ab) : ab[i].name \notin {"read", "del_members"}
        BY <2>4, <2>5, FreshJoined
    <2> HIDE DEF ab
    <2>9. Fresh(d, users, "update")
        BY <2>6, <2>8, FreshJoined
    <2> QED  BY <2>7, <2>9 DEF Kinds, Starts
<1>4. CASE UpdateGroupInfo(r)
    <2>1. Begin(r, "update", <<Cmd("save", creator)>>, {}) /\ creator \in Users
        BY <1>0, <1>4 DEF UpdateGroupInfo
    <2>2. Fresh(<<Cmd("save", creator)>>, {}, "update")
        BY <2>1, FreshSingle
    <2> QED  BY <2>1, <2>2 DEF Kinds, Starts
<1>5. CASE JoinGroup(r)
    <2>1. PICK users \in SUBSET Users : \E q \in SetToSeqs(users) :
              Begin(r, "join", AddMember(q), users)
        BY <1>5 DEF JoinGroup
    <2>2. PICK q \in SetToSeqs(users) : Begin(r, "join", AddMember(q), users)
        BY <2>1
    <2>3. q \in Seq(Users) /\ \A k \in 1 .. Len(q) : q[k] \in users
        BY Listed
    <2>4. Fresh(AddMember(q), users, "join")
        BY <2>3, FreshForEach
    <2> QED  BY <2>2, <2>4 DEF Kinds, Starts
<1>6. CASE QuitGroup(r)
    <2>1. PICK users \in SUBSET Users : \E q \in SetToSeqs(users) :
              Begin(r, "quit", DelMember(q), users)
        BY <1>6 DEF QuitGroup
    <2>2. PICK q \in SetToSeqs(users) : Begin(r, "quit", DelMember(q), users)
        BY <2>1
    <2>3. q \in Seq(Users) /\ \A k \in 1 .. Len(q) : q[k] \in users
        BY Listed
    <2>4. Fresh(DelMember(q), users, "quit")
        BY <2>3, FreshForEach
    <2> QED  BY <2>2, <2>4 DEF Kinds, Starts
<1> QED  BY <1>1, <1>2, <1>3, <1>4, <1>5, <1>6

\* What every step does that sends no command to Redis of its own.
LEMMA BeginStep ==
    ASSUME TypeOK, Plans, NEW r \in Requests, NEW what \in Kinds, NEW users \in SUBSET Users,
           NEW p, Begin(r, what, p, users), Fresh(p, users, what)
    PROVE  /\ TypeOK' /\ Plans'
           /\ plan[r] = <<>> /\ began' = r /\ r > 0
           /\ plan'[r] = p /\ about'[r] = users /\ kind'[r] = what
           /\ \A o \in Requests : o # r =>
                 plan'[o] = plan[o] /\ about'[o] = about[o] /\ kind'[o] = kind[o]
           /\ exists' = exists /\ creator' = creator /\ members' = members /\ mine' = mine
           /\ failures' = failures
           /\ crossed \subseteq crossed'
           /\ \A o \in Requests : plan[o] # <<>> => users \cap about[o] \subseteq crossed'
           /\ r \notin met' => \A o \in Requests : plan[o] = <<>>
<1>1. /\ MaxRequests \in Nat /\ r \in 1 .. MaxRequests /\ began \in 0 .. MaxRequests
      /\ plan \in [Requests -> Seq(Commands)] /\ about \in [Requests -> SUBSET Users]
      /\ kind \in [Requests -> {"none", "create", "dismiss", "update", "join", "quit"}]
      /\ crossed \subseteq Users /\ met \subseteq Requests
    BY GroupAssumption DEF TypeOK, Requests
<1>2. /\ r = began + 1 /\ began' = r
      /\ kind' = [kind EXCEPT ![r] = what]
      /\ plan' = [plan EXCEPT ![r] = p]
      /\ about' = [about EXCEPT ![r] = users]
      /\ crossed' = crossed \cup UNION {users \cap about[o] : o \in AtWork}
      /\ met' = IF AtWork = {} THEN met ELSE met \cup AtWork \cup {r}
      /\ exists' = exists /\ creator' = creator /\ members' = members /\ mine' = mine
      /\ failures' = failures
    BY DEF Begin
<1>3. p \in Seq(Commands)
    BY DEF Fresh
<1>4. /\ plan' \in [Requests -> Seq(Commands)] /\ about' \in [Requests -> SUBSET Users]
      /\ kind' \in [Requests -> {"none", "create", "dismiss", "update", "join", "quit"}]
      /\ plan'[r] = p /\ about'[r] = users /\ kind'[r] = what
      /\ \A o \in Requests : o # r =>
                 plan'[o] = plan[o] /\ about'[o] = about[o] /\ kind'[o] = kind[o]
    BY <1>1, <1>2, <1>3 DEF Kinds
<1>5. crossed' \subseteq Users /\ crossed \subseteq crossed'
    BY <1>1, <1>2
<1>6. met' \subseteq Requests
    BY <1>1, <1>2 DEF AtWork
<1>7. plan[r] = <<>>
    BY <1>1, <1>2 DEF Plans
<1>8. ASSUME NEW o \in Requests, plan[o] # <<>>
      PROVE  users \cap about[o] \subseteq crossed'
    <2>1. o \in AtWork
        BY <1>8 DEF AtWork, Active
    <2> QED  BY <1>2, <2>1
<1>9. r \notin met' => \A o \in Requests : plan[o] = <<>>
    BY <1>2 DEF AtWork, Active
<1>10. TypeOK'
    BY <1>1, <1>2, <1>4, <1>5, <1>6 DEF TypeOK
<1>11. Plans'
    <2>1. ASSUME NEW o \in Requests
          PROVE  /\ Shaped(plan'[o]) /\ Fits(plan'[o], about'[o], kind'[o])
                 /\ o > began' => plan'[o] = <<>>
        <3>1. CASE o = r
            BY <1>1, <1>2, <1>4, <3>1 DEF Fresh
        <3>2. CASE o # r
            <4>1. o > began' => o > began
                BY <1>1, <1>2 DEF Requests
            <4> QED  BY <1>4, <3>2, <4>1 DEF Plans
        <3> QED  BY <3>1, <3>2
    <2> QED  BY <2>1 DEF Plans
<1> QED  BY <1>1, <1>2, <1>4, <1>5, <1>7, <1>8, <1>9, <1>10, <1>11

LEMMA BrokenStep ==
    ASSUME TypeOK, Plans, NEW r \in Requests, NEW p, Broken(r, p),
           p = Tail(plan[r]) \/ p = <<>>
    PROVE  /\ TypeOK' /\ Plans'
           /\ plan[r] # <<>> /\ plan'[r] = p /\ \A o \in Requests : o # r => plan'[o] = plan[o]
           /\ about' = about /\ kind' = kind /\ began' = began
           /\ exists' = exists /\ creator' = creator /\ members' = members /\ mine' = mine
           /\ failures' # 0
           /\ crossed' = crossed \cup about[r] /\ met' = met \cup {r}
<1>1. /\ MaxFailures \in Nat /\ failures \in 0 .. MaxFailures
      /\ plan \in [Requests -> Seq(Commands)] /\ about \in [Requests -> SUBSET Users]
      /\ crossed \subseteq Users /\ met \subseteq Requests
    BY GroupAssumption DEF TypeOK
<1>2. /\ plan[r] # <<>> /\ failures < MaxFailures /\ failures' = failures + 1
      /\ plan' = [plan EXCEPT ![r] = p]
      /\ crossed' = crossed \cup about[r] /\ met' = met \cup {r}
      /\ about' = about /\ kind' = kind /\ began' = began
      /\ exists' = exists /\ creator' = creator /\ members' = members /\ mine' = mine
    BY DEF Broken, Active
<1>3. p \in Seq(Commands) /\ Shaped(p) /\ Fits(p, about[r], kind[r])
    <2>1. CASE p = <<>>
        <3>1. p \in Seq(Commands) /\ Len(p) = 0
            BY <2>1
        <3> QED  BY <3>1 DEF Shaped, Paired, Kept, Removing, Fits
    <2>2. CASE p = Tail(plan[r])
        <3>1. plan[r] \in Seq(Commands) /\ Shaped(plan[r]) /\ Fits(plan[r], about[r], kind[r])
            BY <1>1 DEF Plans
        <3>2. /\ p \in Seq(Commands) /\ Len(plan[r]) \in Nat /\ Len(p) = Len(plan[r]) - 1
              /\ \A i \in 1 .. Len(plan[r]) - 1 : p[i] = plan[r][i + 1]
            BY <1>2, <2>2, <3>1, Rest
        <3>3. Shaped(p)
            BY <1>2, <2>2, <3>1, ShapedRest
        <3>4. \A i \in 1 .. Len(p) : i + 1 \in 1 .. Len(plan[r]) /\ p[i] = plan[r][i + 1]
            BY <3>2
        <3>5. Fits(p, about[r], kind[r])
            BY <3>1, <3>4 DEF Fits
        <3> QED  BY <3>2, <3>3, <3>5
    <2> QED  BY <2>1, <2>2
<1>4. /\ plan' \in [Requests -> Seq(Commands)] /\ plan'[r] = p
      /\ \A o \in Requests : o # r => plan'[o] = plan[o]
    BY <1>1, <1>2, <1>3
<1>5. TypeOK'
    <2>1. failures' \in 0 .. MaxFailures
        BY <1>1, <1>2
    <2>2. crossed' \subseteq Users /\ met' \subseteq Requests
        BY <1>1, <1>2
    <2> QED  BY <1>2, <1>4, <2>1, <2>2 DEF TypeOK
<1>6. Plans'
    <2>1. ASSUME NEW o \in Requests
          PROVE  /\ Shaped(plan'[o]) /\ Fits(plan'[o], about'[o], kind'[o])
                 /\ o > began' => plan'[o] = <<>>
        <3>1. CASE o = r
            BY <1>2, <1>3, <1>4, <3>1 DEF Plans
        <3>2. CASE o # r
            BY <1>2, <1>4, <3>2 DEF Plans
        <3> QED  BY <3>1, <3>2
    <2> QED  BY <2>1 DEF Plans
<1>7. failures' # 0
    BY <1>1, <1>2
<1> QED  BY <1>2, <1>4, <1>5, <1>6, <1>7

LEMMA CommandStep ==
    ASSUME TypeOK, Plans, NEW r \in Requests, Command(r)
    PROVE  /\ TypeOK' /\ Plans'
           /\ plan[r] \in Seq(Commands) /\ plan[r] # <<>> /\ plan'[r] = Onward(plan[r], members)
           /\ \A o \in Requests : o # r => plan'[o] = plan[o]
           /\ plan[r][1] \in Commands /\ Effect(plan[r][1])
           /\ about' = about /\ kind' = kind /\ began' = began /\ failures' = failures
           /\ crossed' = crossed /\ met' = met
<1> DEFINE c == plan[r][1]
           t == Onward(plan[r], members)
<1>1. /\ plan \in [Requests -> Seq(Commands)] /\ members \in SUBSET Users
      /\ creator \in Users \cup {Nobody} /\ exists \in BOOLEAN /\ mine \in SUBSET Users
      /\ creator # Nobody => exists
    BY DEF TypeOK
<1>2. /\ plan[r] \in Seq(Commands) /\ Shaped(plan[r]) /\ Fits(plan[r], about[r], kind[r])
      /\ plan[r] # <<>>
    BY <1>1 DEF Plans, Command, Active
<1>3. /\ t \in Seq(Commands) /\ Shaped(t) /\ Fits(t, about[r], kind[r])
      /\ c \in Commands
    BY <1>1, <1>2, Sent
<1>4. Head(plan[r]) = c
    BY <1>2, Rest
<1>5. /\ Effect(c)
      /\ plan' = [plan EXCEPT ![r] = t]
      /\ about' = about /\ kind' = kind /\ began' = began /\ failures' = failures
      /\ crossed' = crossed /\ met' = met
    BY <1>1, <1>4 DEF Command, Onward
<1> HIDE DEF c, t
<1>6. /\ plan' \in [Requests -> Seq(Commands)] /\ plan'[r] = t
      /\ \A o \in Requests : o # r => plan'[o] = plan[o]
    BY <1>1, <1>3, <1>5
<1>7. /\ exists' \in BOOLEAN /\ creator' \in Users \cup {Nobody}
      /\ members' \subseteq Users /\ mine' \subseteq Users
      /\ creator' # Nobody => exists'
    <2>1. /\ c.name \in AboutMember \cup {"set_creator", "save"} => c.user \in Users
          /\ c.name \in {"hset", "zadd", "hdel", "zrem", "set_creator", "save", "refresh",
                         "del_info", "del_members", "read"}
        BY <1>3, CmdType DEF Commands
    <2>2. exists' \in BOOLEAN
        BY <1>1, <1>5, <2>1 DEF Effect
    <2>3. creator' \in Users \cup {Nobody}
        BY <1>1, <1>5, <2>1 DEF Effect
    <2>4. members' \subseteq Users
        BY <1>1, <1>5, <2>1 DEF Effect, AboutMember
    <2>5. mine' \subseteq Users
        BY <1>1, <1>5, <2>1 DEF Effect, AboutMember
    <2>6. creator' # Nobody => exists'
        BY <1>1, <1>5, <2>1 DEF Effect
    <2> QED  BY <2>2, <2>3, <2>4, <2>5, <2>6
<1>8. TypeOK'
    BY <1>5, <1>6, <1>7 DEF TypeOK
<1>9. Plans'
    <2>1. ASSUME NEW o \in Requests
          PROVE  /\ Shaped(plan'[o]) /\ Fits(plan'[o], about'[o], kind'[o])
                 /\ o > began' => plan'[o] = <<>>
        <3>1. CASE o = r
            BY <1>2, <1>3, <1>5, <1>6, <3>1 DEF Plans
        <3>2. CASE o # r
            BY <1>5, <1>6, <3>2 DEF Plans
        <3> QED  BY <3>1, <3>2
    <2> QED  BY <2>1 DEF Plans
<1> QED  BY <1>2, <1>3, <1>5, <1>6, <1>8, <1>9 DEF c, t

\* What sending a command means for what is left to do for a user.
LEMMA SentFor ==
    ASSUME NEW p \in Seq(Commands), p # <<>>, Shaped(p),
           NEW users, NEW what, Fits(p, users, what), NEW m \in SUBSET Users,
           NEW t, t = Onward(p, m), NEW u \in Users
    PROVE  /\ p[1] = Cmd("hset", u) => Joins(t, u)
           /\ p[1] = Cmd("hdel", u) => Leaves(t, u)
           /\ Leaves(p, u) /\ p[1] # Cmd("zrem", u) => Leaves(t, u)
           /\ Joins(t, u) => p[1] = Cmd("hset", u)
           /\ t # <<>> /\ t[1] = Cmd("zrem", u) => p[1] = Cmd("hdel", u)
           /\ p[1].name = "read" =>
                 /\ users = Users
                 /\ u \in m => Leaves(t, u)
                 /\ ~ Leaves(p, u)
           /\ p[1].name # "read" /\ Left(t, "del_members") /\ ~ Left(t, "read") =>
                 /\ Left(p, "del_members") /\ ~ Left(p, "read")
                 /\ p[1].name \in {"del_info", "del_members"}
           /\ p[1].name = "del_members" => Left(p, "del_members") /\ ~ Left(p, "read")
<1>1. /\ t \in Seq(Commands)
      /\ p[1] \in Commands /\ Len(p) \in Nat /\ Len(p) > 0 /\ Len(t) \in Nat
      /\ \A i \in 1 .. Len(p) : i # 1 => i - 1 \in 1 .. Len(t) /\ t[i - 1] = p[i]
      /\ p[1].name # "read" =>
             \A i \in 1 .. Len(t) : i + 1 \in 1 .. Len(p) /\ t[i] = p[i + 1]
      /\ p[1].name = "read" =>
             /\ users = Users
             /\ \A i \in 1 .. Len(t) : t[i].name # "read"
             /\ t # <<>> /\ t[1].name = "del_info"
             /\ \A v \in m : Leaves(t, v)
    <2>1. t \in Seq(Commands) /\ p[1] \in Commands /\ Len(p) \in Nat /\ Len(p) > 0
        BY Sent
    <2>2. /\ \A i \in 1 .. Len(p) : i # 1 => i - 1 \in 1 .. Len(t) /\ t[i - 1] = p[i]
          /\ p[1].name # "read" =>
                 \A i \in 1 .. Len(t) : i + 1 \in 1 .. Len(p) /\ t[i] = p[i + 1]
        BY Sent
    <2>3. p[1].name = "read" =>
             /\ users = Users
             /\ \A i \in 1 .. Len(t) : t[i].name # "read"
             /\ t # <<>> /\ t[1].name = "del_info"
             /\ \A v \in m : Leaves(t, v)
        BY Sent
    <2>4. Len(t) \in Nat
        BY <2>1, LenProperties
    <2> QED  BY <2>1, <2>2, <2>3, <2>4
<1>2. t # <<>> <=> Len(t) > 0
    BY <1>1, EmptySeq
<1>3. \A n, v : Cmd(n, v).name = n /\ Cmd(n, v).user = v
    BY CmdFields
<1>4. 1 \in 1 .. Len(p) /\ PairedAt(p, 1) /\ (2 \in 1 .. Len(p) => PairedAt(p, 2))
    BY <1>1 DEF Shaped, Paired
<1>5. 2 \in 1 .. Len(p) => 1 \in 1 .. Len(t) /\ t # <<>> /\ t[1] = p[2]
    <2>1. 2 \in 1 .. Len(p) => 2 - 1 \in 1 .. Len(t) /\ t[2 - 1] = p[2]
        BY <1>1
    <2>2. 2 - 1 = 1
        OBVIOUS
    <2> QED  BY <1>1, <1>2, <2>1, <2>2
<1>6. t # <<>> /\ p[1].name # "read" => 2 \in 1 .. Len(p) /\ t[1] = p[2]
    <2>1. t # <<>> => 1 \in 1 .. Len(t)
        BY <1>1, <1>2
    <2>2. 1 + 1 = 2
        OBVIOUS
    <2> QED  BY <1>1, <2>1, <2>2
<1>7. p[1] = Cmd("hset", u) => Joins(t, u)
    <2>1. SUFFICES ASSUME p[1] = Cmd("hset", u)
                   PROVE  Joins(t, u)
        OBVIOUS
    <2>2. 1 < Len(p) /\ p[1 + 1] = Cmd("zadd", u)
        BY <1>3, <1>4, <2>1 DEF PairedAt
    <2>3. 2 \in 1 .. Len(p) /\ p[2] = Cmd("zadd", u)
        BY <1>1, <2>2
    <2> QED  BY <1>5, <2>3 DEF Joins
<1>8. p[1] = Cmd("hdel", u) => Leaves(t, u)
    <2>1. SUFFICES ASSUME p[1] = Cmd("hdel", u)
                   PROVE  Leaves(t, u)
        OBVIOUS
    <2>2. 1 < Len(p) /\ p[1 + 1] = Cmd("zrem", u)
        BY <1>3, <1>4, <2>1 DEF PairedAt
    <2>3. 2 \in 1 .. Len(p) /\ p[2] = Cmd("zrem", u)
        BY <1>1, <2>2
    <2> QED  BY <1>5, <2>3 DEF Leaves
<1>9. Leaves(p, u) /\ p[1] # Cmd("zrem", u) => Leaves(t, u)
    BY <1>1 DEF Leaves
<1>10. Joins(t, u) => p[1] = Cmd("hset", u)
    <2>1. SUFFICES ASSUME t # <<>>, t[1] = Cmd("zadd", u)
                   PROVE  p[1] = Cmd("hset", u)
        BY DEF Joins
    <2>2. t[1].name = "zadd" /\ t[1].user = u
        BY <1>3, <2>1
    <2>3. 2 \in 1 .. Len(p) /\ t[1] = p[2]
        BY <1>1, <1>6, <2>1, <2>2
    <2>4. p[2 - 1] = Cmd("hset", u)
        BY <1>4, <2>2, <2>3 DEF PairedAt
    <2> QED  BY <2>4
<1>11. t # <<>> /\ t[1] = Cmd("zrem", u) => p[1] = Cmd("hdel", u)
    <2>1. SUFFICES ASSUME t # <<>>, t[1] = Cmd("zrem", u)
                   PROVE  p[1] = Cmd("hdel", u)
        OBVIOUS
    <2>2. t[1].name = "zrem" /\ t[1].user = u
        BY <1>3, <2>1
    <2>3. 2 \in 1 .. Len(p) /\ t[1] = p[2]
        BY <1>1, <1>6, <2>1, <2>2
    <2>4. p[2 - 1] = Cmd("hdel", u)
        BY <1>4, <2>2, <2>3 DEF PairedAt
    <2> QED  BY <2>4
<1>12. ASSUME p[1].name = "read"
       PROVE  ~ Leaves(p, u)
    <2>1. p = DismissPlan
        BY <1>4, <1>12 DEF Shaped, Removing
    <2>2. /\ Len(p) = 3 /\ p[1].name = "read" /\ p[2].name = "del_info"
          /\ p[3].name = "del_members"
        BY <2>1, RemovalOf
    <2>3. \A i \in 1 .. Len(p) : i = 1 \/ i = 2 \/ i = 3
        BY <2>2
    <2>4. \A i \in 1 .. Len(p) : p[i].name # "zrem"
        BY <2>2, <2>3
    <2> QED  BY <1>3, <2>4 DEF Leaves
<1>13. ASSUME Left(p, "read")
       PROVE  p[1].name = "read"
    BY <1>13, RemovalOf DEF Left, Shaped, Removing
<1>14. p[1].name # "read" /\ Left(t, "del_members") /\ ~ Left(t, "read") =>
           /\ Left(p, "del_members") /\ ~ Left(p, "read")
           /\ p[1].name \in {"del_info", "del_members"}
    <2>1. SUFFICES ASSUME p[1].name # "read", Left(t, "del_members")
                   PROVE  Left(p, "del_members") /\ p[1].name \in {"del_info", "del_members"}
        BY <1>13
    <2>2. PICK i \in 1 .. Len(t) : t[i].name = "del_members"
        BY <2>1 DEF Left
    <2>3. i + 1 \in 1 .. Len(p) /\ p[i + 1].name = "del_members"
        BY <1>1, <2>1, <2>2
    <2>4. 1 \in 1 .. (i + 1) - 1
        OBVIOUS
    <2>5. p[1].name \in {"read", "del_info"}
        BY <2>3, <2>4 DEF Shaped, Removing
    <2> QED  BY <2>1, <2>3, <2>5 DEF Left
<1>15. p[1].name = "del_members" => Left(p, "del_members") /\ ~ Left(p, "read")
    BY <1>4, <1>13 DEF Left
<1> QED  BY <1>1, <1>7, <1>8, <1>9, <1>10, <1>11, <1>12, <1>14, <1>15

\* What a command does for a user.
LEMMA EffectFor ==
    ASSUME NEW c \in Commands, Effect(c), NEW u \in Users
    PROVE  /\ u \in members' /\ u \notin members => c = Cmd("hset", u)
           /\ u \in members /\ u \notin members' => c = Cmd("hdel", u) \/ c.name = "del_members"
           /\ u \in mine' /\ u \notin mine => c = Cmd("zadd", u)
           /\ u \in mine /\ u \notin mine' => c = Cmd("zrem", u)
           /\ c = Cmd("hset", u) => u \in members'
           /\ c = Cmd("hdel", u) => u \notin members'
           /\ c = Cmd("zadd", u) => u \in mine'
           /\ c = Cmd("zrem", u) => u \notin mine'
           /\ c.name \in {"read", "del_info", "del_members"} => mine' = mine
<1>1. c = Cmd(c.name, c.user)
    BY CmdType
<1>2. \A n, v : Cmd(n, v).name = n /\ Cmd(n, v).user = v
    BY CmdFields
<1>3. /\ members' = CASE c.name = "hset" -> members \cup {c.user}
                      [] c.name = "hdel" -> members \ {c.user}
                      [] c.name = "del_members" -> {}
                      [] OTHER -> members
      /\ mine' = CASE c.name = "zadd" -> mine \cup {c.user}
                   [] c.name = "zrem" -> mine \ {c.user}
                   [] OTHER -> mine
    BY DEF Effect
<1>4. /\ u \in members' /\ u \notin members => c.name = "hset" /\ c.user = u
      /\ u \in members /\ u \notin members' =>
            (c.name = "hdel" /\ c.user = u) \/ c.name = "del_members"
      /\ c.name = "hset" /\ c.user = u => u \in members'
      /\ c.name = "hdel" /\ c.user = u => u \notin members'
    BY <1>3
<1>5. /\ u \in mine' /\ u \notin mine => c.name = "zadd" /\ c.user = u
      /\ u \in mine /\ u \notin mine' => c.name = "zrem" /\ c.user = u
      /\ c.name = "zadd" /\ c.user = u => u \in mine'
      /\ c.name = "zrem" /\ c.user = u => u \notin mine'
      /\ c.name \in {"read", "del_info", "del_members"} => mine' = mine
    BY <1>3
<1> QED  BY <1>1, <1>2, <1>4, <1>5

-----------------------------------------------------------------------------
(***************************************************************************)
(* The invariant.                                                          *)
(***************************************************************************)
\* A plan has something to do for a user.
Touches(p, u) ==
    \/ Joins(p, u)
    \/ Leaves(p, u)
    \/ p # <<>> /\ p[1] = Cmd("zrem", u)
    \/ p # <<>> /\ p[1] = Cmd("hset", u)
    \/ p # <<>> /\ p[1] = Cmd("hdel", u)
    \/ Left(p, "del_members")
    \/ Left(p, "read")

\* It is then about this user.
LEMMA AboutWhom ==
    ASSUME NEW p \in Seq(Commands), NEW users, NEW what, Fits(p, users, what), NEW u \in Users,
           Touches(p, u)
    PROVE  u \in users /\ p # <<>>
<1>1. Len(p) \in Nat
    BY LenProperties
<1>2. p # <<>> => 1 \in 1 .. Len(p)
    BY <1>1, EmptySeq
<1>3. \A i \in 1 .. Len(p) : p # <<>>
    BY <1>1, EmptySeq
<1>4. \A n : Cmd(n, u).name = n /\ Cmd(n, u).user = u
    BY CmdFields
<1>5. ASSUME NEW i \in 1 .. Len(p), NEW n \in AboutMember, p[i] = Cmd(n, u)
      PROVE  u \in users /\ p # <<>>
    BY <1>1, <1>3, <1>4, <1>5 DEF Fits
<1>6. ASSUME Left(p, "del_members") \/ Left(p, "read")
      PROVE  u \in users /\ p # <<>>
    BY <1>1, <1>3, <1>6 DEF Fits, Left
<1>7. ASSUME p # <<>>, NEW n \in AboutMember, p[1] = Cmd(n, u)
      PROVE  u \in users /\ p # <<>>
    BY <1>2, <1>5, <1>7
<1>8. u \in users /\ p # <<>>
    <2>1. {"hset", "zadd", "hdel", "zrem"} \subseteq AboutMember
        BY DEF AboutMember
    <2>2. CASE Joins(p, u)
        BY <1>7, <2>1, <2>2 DEF Joins
    <2>3. CASE Leaves(p, u)
        BY <1>5, <2>1, <2>3 DEF Leaves
    <2>4. CASE p # <<>> /\ p[1] = Cmd("zrem", u)
        BY <1>7, <2>1, <2>4
    <2>5. CASE p # <<>> /\ p[1] = Cmd("hset", u)
        BY <1>7, <2>1, <2>5
    <2>6. CASE p # <<>> /\ p[1] = Cmd("hdel", u)
        BY <1>7, <2>1, <2>6
    <2> QED  BY <1>6, <2>2, <2>3, <2>4, <2>5, <2>6 DEF Touches
<1> QED  BY <1>8

LEMMA AtWorkOn ==
    ASSUME TypeOK, Plans, NEW r \in Requests, NEW u \in Users, Touches(plan[r], u)
    PROVE  u \in about[r] /\ plan[r] # <<>>
<1>1. plan[r] \in Seq(Commands) /\ Fits(plan[r], about[r], kind[r])
    BY DEF TypeOK, Plans
<1> QED  BY <1>1, AboutWhom

LEMMA ApartNext ==
    ASSUME TypeOK, Plans, Apart, NEW r \in Requests, Starts(r) \/ Command(r) \/ Breaks(r)
    PROVE  Apart'
<1>1. CASE Starts(r)
    <2>1. PICK p, what, users :
              /\ what \in Kinds /\ users \in SUBSET Users
              /\ Begin(r, what, p, users) /\ Fresh(p, users, what)
        BY <1>1 DEF Starts
    <2>2. /\ about'[r] = users
          /\ \A o \in Requests : o # r => plan'[o] = plan[o] /\ about'[o] = about[o]
          /\ crossed \subseteq crossed'
          /\ \A o \in Requests : plan[o] # <<>> => users \cap about[o] \subseteq crossed'
        BY <2>1, BeginStep
    <2>3. SUFFICES ASSUME NEW u \in Users, u \notin crossed', NEW o \in Requests,
                          NEW v \in Requests, plan'[o] # <<>>, plan'[v] # <<>>,
                          u \in about'[o], u \in about'[v]
                   PROVE  o = v
        BY DEF Apart, Active
    <2>4. u \notin crossed
        BY <2>2, <2>3
    <2> QED  BY <2>2, <2>3, <2>4 DEF Apart, Active
<1>2. CASE Command(r)
    <2>1. /\ plan[r] # <<>> /\ \A o \in Requests : o # r => plan'[o] = plan[o]
          /\ about' = about /\ crossed' = crossed
        BY <1>2, CommandStep
    <2> QED  BY <2>1 DEF Apart, Active
<1>3. CASE Breaks(r)
    <2>1. PICK p : Broken(r, p) /\ (p = Tail(plan[r]) \/ p = <<>>)
        BY <1>3 DEF Breaks
    <2>2. /\ plan[r] # <<>> /\ \A o \in Requests : o # r => plan'[o] = plan[o]
          /\ about' = about /\ crossed' = crossed \cup about[r]
        BY <2>1, BrokenStep
    <2> QED  BY <2>2 DEF Apart, Active
<1> QED  BY <1>1, <1>2, <1>3

\* No command: the witnesses for a user are still there, and nothing new is
\* due at once.
LEMMA SidesElsewhere ==
    ASSUME TypeOK, Plans, Sides, Turns, NEW r \in Requests, Starts(r) \/ Breaks(r)
    PROVE  Sides' /\ Turns'
<1>1. SUFFICES ASSUME NEW u \in Users, u \notin crossed', NEW o \in Requests
               PROVE  /\ u \in members' /\ u \notin mine' => \E v \in Requests : Joins(plan'[v], u)
                      /\ u \in mine' /\ u \notin members' => \E v \in Requests : Leaves(plan'[v], u)
                      /\ Joins(plan'[o], u) => u \in members'
                      /\ plan'[o] # <<>> /\ plan'[o][1] = Cmd("zrem", u) => u \notin members'
                      /\ Left(plan'[o], "del_members") /\ ~ Left(plan'[o], "read") /\ u \in mine'
                            => Leaves(plan'[o], u)
    BY DEF Sides, Turns
<1> DEFINE Due(p) == \/ Joins(p, u)
                     \/ p # <<>> /\ p[1] = Cmd("zrem", u)
                     \/ Left(p, "del_members") /\ ~ Left(p, "read")
<1>2. /\ u \notin crossed
      /\ members' = members /\ mine' = mine
      /\ \A v \in Requests : v # r => plan'[v] = plan[v]
      /\ ~ Joins(plan[r], u) /\ ~ Leaves(plan[r], u)
      /\ ~ Due(plan'[r])
    <2>1. CASE Starts(r)
        <3>1. PICK p, what, users :
                  /\ what \in Kinds /\ users \in SUBSET Users
                  /\ Begin(r, what, p, users) /\ Fresh(p, users, what)
            BY <2>1 DEF Starts
        <3>2. /\ plan[r] = <<>> /\ plan'[r] = p
              /\ \A v \in Requests : v # r => plan'[v] = plan[v]
              /\ members' = members /\ mine' = mine
              /\ crossed \subseteq crossed'
            BY <3>1, BeginStep
        <3>3. ~ Joins(plan[r], u) /\ ~ Leaves(plan[r], u)
            BY <3>2 DEF Joins, Leaves
        <3>4. \A n : Cmd(n, u).name = n
            BY CmdFields
        <3>5. Left(p, "del_members") => Left(p, "read")
            BY <3>1, FreshDismiss DEF Fresh
        <3>6. p # <<>> => p[1] # Cmd("zadd", u) /\ p[1] # Cmd("zrem", u)
            BY <3>1, <3>4 DEF Fresh
        <3> QED  BY <1>1, <3>2, <3>3, <3>5, <3>6 DEF Joins
    <2>2. CASE Breaks(r)
        <3>1. PICK p : Broken(r, p) /\ (p = Tail(plan[r]) \/ p = <<>>)
            BY <2>2 DEF Breaks
        <3>2. /\ TypeOK' /\ Plans'
              /\ \A v \in Requests : v # r => plan'[v] = plan[v]
              /\ members' = members /\ mine' = mine
              /\ crossed' = crossed \cup about[r] /\ about' = about
            BY <3>1, BrokenStep
        <3>3. u \notin about[r] /\ u \notin crossed
            BY <1>1, <3>2
        <3>4. ~ Joins(plan[r], u) /\ ~ Leaves(plan[r], u)
            BY <3>3, AtWorkOn DEF Touches
        <3>5. Due(plan'[r]) => u \in about'[r]
            <4>1. plan'[r] \in Seq(Commands) /\ Fits(plan'[r], about'[r], kind'[r])
                BY <3>2 DEF TypeOK, Plans
            <4> QED  BY <4>1, AboutWhom DEF Touches
        <3> QED  BY <3>2, <3>3, <3>4, <3>5
    <2> QED  BY <2>1, <2>2
<1> QED  BY <1>1, <1>2 DEF Sides, Turns

LEMMA SidesCommand ==
    ASSUME TypeOK, Plans, Apart, Sides, Turns, NEW r \in Requests, Command(r)
    PROVE  Sides' /\ Turns'
<1>1. SUFFICES ASSUME NEW u \in Users, u \notin crossed'
               PROVE  /\ u \in members' /\ u \notin mine' => \E v \in Requests : Joins(plan'[v], u)
                      /\ u \in mine' /\ u \notin members' => \E v \in Requests : Leaves(plan'[v], u)
                      /\ \A o \in Requests :
                            /\ Joins(plan'[o], u) => u \in members'
                            /\ plan'[o] # <<>> /\ plan'[o][1] = Cmd("zrem", u) => u \notin members'
                            /\ Left(plan'[o], "del_members") /\ ~ Left(plan'[o], "read")
                                  /\ u \in mine' => Leaves(plan'[o], u)
    BY DEF Sides, Turns
<1> DEFINE p == plan[r]
           c == p[1]
           t == plan'[r]
<1>2. /\ p \in Seq(Commands) /\ p # <<>> /\ t = Onward(p, members)
      /\ \A o \in Requests : o # r => plan'[o] = plan[o]
      /\ c \in Commands /\ Effect(c)
      /\ u \notin crossed
    BY <1>1, CommandStep
<1>3. /\ u \in members /\ u \notin mine => \E v \in Requests : Joins(plan[v], u)
      /\ u \in mine /\ u \notin members => \E v \in Requests : Leaves(plan[v], u)
      /\ \A o \in Requests :
            /\ Joins(plan[o], u) => u \in members
            /\ plan[o] # <<>> /\ plan[o][1] = Cmd("zrem", u) => u \notin members
            /\ Left(plan[o], "del_members") /\ ~ Left(plan[o], "read") /\ u \in mine
                  => Leaves(plan[o], u)
    BY <1>2 DEF Sides, Turns
<1>4. /\ c = Cmd("hset", u) => Joins(t, u)
      /\ c = Cmd("hdel", u) => Leaves(t, u)
      /\ Leaves(p, u) /\ c # Cmd("zrem", u) => Leaves(t, u)
      /\ Joins(t, u) => c = Cmd("hset", u)
      /\ t # <<>> /\ t[1] = Cmd("zrem", u) => c = Cmd("hdel", u)
      /\ c.name = "read" =>
            /\ about[r] = Users
            /\ u \in members => Leaves(t, u)
            /\ ~ Leaves(p, u)
      /\ c.name # "read" /\ Left(t, "del_members") /\ ~ Left(t, "read") =>
            /\ Left(p, "del_members") /\ ~ Left(p, "read")
            /\ c.name \in {"del_info", "del_members"}
      /\ c.name = "del_members" => Left(p, "del_members") /\ ~ Left(p, "read")
    <2>1. Shaped(p) /\ Fits(p, about[r], kind[r]) /\ members \in SUBSET Users
        BY DEF TypeOK, Plans
    <2> HIDE DEF p, t
    <2> QED  BY <1>2, <2>1, SentFor
<1>5. /\ u \in members' /\ u \notin members => c = Cmd("hset", u)
      /\ u \in members /\ u \notin members' => c = Cmd("hdel", u) \/ c.name = "del_members"
      /\ u \in mine' /\ u \notin mine => c = Cmd("zadd", u)
      /\ u \in mine /\ u \notin mine' => c = Cmd("zrem", u)
      /\ c = Cmd("hset", u) => u \in members'
      /\ c = Cmd("hdel", u) => u \notin members'
      /\ c = Cmd("zadd", u) => u \in mine'
      /\ c = Cmd("zrem", u) => u \notin mine'
      /\ c.name \in {"read", "del_info", "del_members"} => mine' = mine
    BY <1>2, EffectFor
<1>6. /\ Cmd("hset", u).name = "hset" /\ Cmd("hdel", u).name = "hdel"
      /\ Cmd("zadd", u).name = "zadd" /\ Cmd("zrem", u).name = "zrem"
    BY CmdFields
\* A command that changes something for this user is sent by a request about this user.
<1>7. /\ c \in {Cmd("hset", u), Cmd("hdel", u), Cmd("zadd", u), Cmd("zrem", u)} => u \in about[r]
      /\ c.name = "del_members" => u \in about[r]
    <2>1. c \in {Cmd("hset", u), Cmd("hdel", u), Cmd("zadd", u), Cmd("zrem", u)}
              => Touches(p, u)
        BY <1>2 DEF Touches, Joins
    <2>2. c.name = "del_members" => Touches(p, u)
        BY <1>4 DEF Touches
    <2> QED  BY <2>1, <2>2, AtWorkOn
<1>8. ASSUME NEW o \in Requests, o # r, Touches(plan[o], u)
      PROVE  u \notin about[r]
    BY <1>2, <1>8, AtWorkOn DEF Apart, Active
<1> HIDE DEF c, t
<1>9. u \in members' /\ u \notin mine' => \E v \in Requests : Joins(plan'[v], u)
    <2>1. SUFFICES ASSUME u \in members', u \notin mine'
                   PROVE  \E v \in Requests : Joins(plan'[v], u)
        OBVIOUS
    <2>2. CASE u \notin members
        BY <1>4, <1>5, <2>1, <2>2 DEF t
    <2>3. CASE u \in members
        <3>1. u \notin mine
            BY <1>2, <1>3, <1>5, <2>1, <2>3 DEF c
        <3>2. PICK v \in Requests : Joins(plan[v], u)
            BY <1>3, <2>3, <3>1
        <3>3. v # r
            BY <1>5, <2>1, <3>2 DEF Joins, c
        <3> QED  BY <1>2, <3>2, <3>3
    <2> QED  BY <2>2, <2>3
<1>10. u \in mine' /\ u \notin members' => \E v \in Requests : Leaves(plan'[v], u)
    <2>1. SUFFICES ASSUME u \in mine', u \notin members'
                   PROVE  \E v \in Requests : Leaves(plan'[v], u)
        OBVIOUS
    <2>2. u \in mine
        <3>1. ASSUME u \notin mine
              PROVE  FALSE
            <4>1. c = Cmd("zadd", u)
                BY <1>5, <2>1, <3>1
            <4>2. u \in members
                BY <1>2, <1>3, <4>1 DEF Joins, c
            <4> QED  BY <1>5, <1>6, <2>1, <4>1, <4>2
        <3> QED  BY <3>1
    <2>3. CASE u \in members
        <3>1. CASE c = Cmd("hdel", u)
            BY <1>4, <3>1 DEF t
        <3>2. CASE c.name = "del_members"
            <4>1. Leaves(p, u) /\ c # Cmd("zrem", u)
                BY <1>3, <1>4, <1>6, <2>2, <3>2
            <4> QED  BY <1>4, <4>1 DEF t
        <3> QED  BY <1>5, <2>1, <2>3, <3>1, <3>2
    <2>4. CASE u \notin members
        <3>1. PICK v \in Requests : Leaves(plan[v], u)
            BY <1>3, <2>2, <2>4
        <3>2. CASE v = r
            BY <1>4, <1>5, <2>1, <3>1, <3>2 DEF t
        <3>3. CASE v # r
            BY <1>2, <3>1, <3>3
        <3> QED  BY <3>2, <3>3
    <2> QED  BY <2>3, <2>4
<1>11. ASSUME NEW o \in Requests, Joins(plan'[o], u)
       PROVE  u \in members'
    <2>1. CASE o = r
        BY <1>4, <1>5, <1>11, <2>1 DEF t
    <2>2. CASE o # r
        <3>1. Joins(plan[o], u) /\ u \in members
            BY <1>2, <1>3, <1>11, <2>2
        <3>2. u \notin about[r]
            BY <1>8, <2>2, <3>1 DEF Touches
        <3> QED  BY <1>5, <1>7, <3>1, <3>2
    <2> QED  BY <2>1, <2>2
<1>12. ASSUME NEW o \in Requests, plan'[o] # <<>>, plan'[o][1] = Cmd("zrem", u)
       PROVE  u \notin members'
    <2>1. CASE o = r
        BY <1>4, <1>5, <1>12, <2>1 DEF t
    <2>2. CASE o # r
        <3>1. plan[o] # <<>> /\ plan[o][1] = Cmd("zrem", u) /\ u \notin members
            BY <1>2, <1>3, <1>12, <2>2
        <3>2. u \notin about[r]
            BY <1>8, <2>2, <3>1 DEF Touches
        <3> QED  BY <1>5, <1>7, <3>1, <3>2
    <2> QED  BY <2>1, <2>2
<1>13. ASSUME NEW o \in Requests, Left(plan'[o], "del_members"), ~ Left(plan'[o], "read"),
              u \in mine'
       PROVE  Leaves(plan'[o], u)
    <2>1. CASE o = r /\ c.name = "read"
        <3>1. u \in mine /\ u \in about[r]
            BY <1>4, <1>5, <1>13, <2>1
        <3>2. ASSUME u \notin members
              PROVE  FALSE
            <4>1. PICK v \in Requests : Leaves(plan[v], u)
                BY <1>3, <3>1, <3>2
            <4>2. v # r
                BY <1>4, <2>1, <4>1
            <4> QED  BY <1>8, <3>1, <4>1, <4>2 DEF Touches
        <3> QED  BY <1>4, <2>1, <3>2 DEF t
    <2>2. CASE o = r /\ c.name # "read"
        <3>1. /\ Left(p, "del_members") /\ ~ Left(p, "read")
              /\ c.name \in {"del_info", "del_members"}
            BY <1>4, <1>13, <2>2 DEF t
        <3>2. Leaves(p, u)
            BY <1>3, <1>5, <1>13, <3>1
        <3> QED  BY <1>4, <1>6, <2>2, <3>1, <3>2 DEF t
    <2>3. CASE o # r
        <3>1. Left(plan[o], "del_members") /\ ~ Left(plan[o], "read") /\ plan'[o] = plan[o]
            BY <1>2, <1>13, <2>3
        <3>2. u \notin about[r]
            BY <1>8, <2>3, <3>1 DEF Touches
        <3>3. u \in mine
            BY <1>5, <1>7, <1>13, <3>2
        <3> QED  BY <1>3, <3>1, <3>3
    <2> QED  BY <2>1, <2>2, <2>3
<1> QED  BY <1>9, <1>10, <1>11, <1>12, <1>13

\* What is left is left until it is sent.
LEMMA StillLeft ==
    ASSUME TypeOK, Plans, NEW r \in Requests, Command(r), NEW name
    PROVE  /\ Left(plan[r], name) /\ plan[r][1].name # name => Left(plan'[r], name)
           /\ Later(plan[r], 1, name) => Left(plan'[r], name)
<1> DEFINE p == plan[r]
           t == plan'[r]
<1>1. p \in Seq(Commands) /\ p # <<>> /\ t = Onward(p, members)
    BY CommandStep
<1>2. Shaped(p) /\ Fits(p, about[r], kind[r]) /\ members \in SUBSET Users
    BY DEF TypeOK, Plans
<1> HIDE DEF p, t
<1>3. /\ Len(p) \in Nat
      /\ \A i \in 1 .. Len(p) : i # 1 => i - 1 \in 1 .. Len(t) /\ t[i - 1] = p[i]
    BY <1>1, <1>2, Sent
<1>4. Left(p, name) /\ p[1].name # name => Left(t, name)
    BY <1>3 DEF Left
<1>5. Later(p, 1, name) => Left(t, name)
    <2>1. \A j \in 1 + 1 .. Len(p) : j \in 1 .. Len(p) /\ j # 1
        BY <1>3
    <2> QED  BY <1>3, <2>1 DEF Left, Later
<1> QED  BY <1>4, <1>5 DEF p, t

LEMMA FoundNext ==
    ASSUME TypeOK, Plans, Found, NEW r \in Requests, Starts(r) \/ Command(r) \/ Breaks(r)
    PROVE  Found'
<1>1. CASE Starts(r)
    <2>1. PICK p, what, users :
              /\ what \in Kinds /\ users \in SUBSET Users
              /\ Begin(r, what, p, users) /\ Fresh(p, users, what)
        BY <1>1 DEF Starts
    <2>2. /\ plan[r] = <<>>
          /\ \A o \in Requests : o # r => plan'[o] = plan[o]
          /\ exists' = exists /\ members' = members /\ failures' = failures
        BY <2>1, BeginStep
    <2>3. \A name : ~ Left(plan[r], name)
        BY <2>2 DEF Left
    <2> QED  BY <2>2, <2>3 DEF Found
<1>2. CASE Command(r)
    <2>1. SUFFICES ASSUME failures' = 0, members' # {}, ~ exists'
                   PROVE  \E o \in Requests :
                              Left(plan'[o], "refresh") \/ Left(plan'[o], "del_members")
        BY DEF Found
    <2> DEFINE c == plan[r][1]
    <2>2. /\ plan[r] \in Seq(Commands) /\ plan[r] # <<>>
          /\ \A o \in Requests : o # r => plan'[o] = plan[o]
          /\ c \in Commands /\ Effect(c) /\ failures = 0
        BY <1>2, <2>1, CommandStep
    <2>3. KeptAt(plan[r], 1)
        <3>1. 1 \in 1 .. Len(plan[r])
            BY <2>2, Rest
        <3> QED  BY <3>1 DEF Plans, Shaped, Kept
    <2>4. exists \in BOOLEAN
        BY DEF TypeOK
    <2>5. c.name \in {"hset", "zadd", "hdel", "zrem", "set_creator", "save", "refresh", "del_info",
                      "del_members", "read"}
        BY <2>2 DEF Commands
    <2>6. CASE c.name = "hset"
        BY <1>2, <2>3, <2>6, StillLeft DEF KeptAt
    <2>7. CASE c.name = "del_info"
        BY <1>2, <2>3, <2>7, StillLeft DEF KeptAt
    <2>8. CASE c.name \in {"save", "set_creator", "refresh", "del_members"}
        <3> HIDE DEF c
        <3> QED  BY <2>1, <2>2, <2>8 DEF Effect
    <2>9. CASE c.name \in {"zadd", "hdel", "zrem", "read"}
        <3>1. ~ exists /\ members # {}
            <4> HIDE DEF c
            <4>1. exists' = exists
                BY <2>2, <2>9 DEF Effect
            <4>2. members' \subseteq members
                BY <2>2, <2>9 DEF Effect
            <4> QED  BY <2>1, <4>1, <4>2
        <3>2. PICK o \in Requests : Left(plan[o], "refresh") \/ Left(plan[o], "del_members")
            BY <2>2, <3>1 DEF Found
        <3>3. CASE o = r
            BY <1>2, <2>9, <3>2, <3>3, StillLeft
        <3>4. CASE o # r
            BY <2>2, <3>2, <3>4
        <3> QED  BY <3>3, <3>4
    <2> HIDE DEF c
    <2> QED  BY <2>5, <2>6, <2>7, <2>8, <2>9
<1>3. CASE Breaks(r)
    <2>1. PICK p : Broken(r, p) /\ (p = Tail(plan[r]) \/ p = <<>>)
        BY <1>3 DEF Breaks
    <2>2. failures' # 0
        BY <2>1, BrokenStep
    <2> QED  BY <2>2 DEF Found
<1> QED  BY <1>1, <1>2, <1>3

LEMMA LatestNext ==
    ASSUME TypeOK, Plans, Latest, NEW r \in Requests, Starts(r) \/ Command(r) \/ Breaks(r)
    PROVE  Latest'
<1>1. CASE Starts(r)
    <2>1. PICK p, what, users :
              /\ what \in Kinds /\ users \in SUBSET Users
              /\ Begin(r, what, p, users) /\ Fresh(p, users, what)
        BY <1>1 DEF Starts
    <2>2. /\ began' = r /\ plan'[r] = p /\ kind'[r] = what
          /\ \A o \in Requests : o # r => plan'[o] = plan[o]
          /\ r \notin met' => \A o \in Requests : plan[o] = <<>>
        BY <2>1, BeginStep
    <2>3. what = "dismiss" => Left(p, "del_members") /\ Left(p, "del_info")
        BY <2>1, FreshDismiss DEF Fresh
    <2> QED  BY <2>2, <2>3 DEF Latest
<1>2. CASE Command(r)
    <2> DEFINE c == plan[r][1]
    <2>1. /\ plan[r] \in Seq(Commands) /\ plan[r] # <<>>
          /\ \A o \in Requests : o # r => plan'[o] = plan[o]
          /\ c \in Commands /\ Effect(c)
          /\ kind' = kind /\ began' = began /\ met' = met
        BY <1>2, CommandStep
    <2>2. SUFFICES ASSUME began > 0, began \notin met
                   PROVE  /\ \A o \in Requests : o # began => plan'[o] = <<>>
                          /\ kind[began] = "dismiss" =>
                                /\ ~ Left(plan'[began], "del_members") => members' = {}
                                /\ ~ Left(plan'[began], "del_info") => creator' = Nobody
        BY <2>1 DEF Latest
    <2>3. /\ \A o \in Requests : o # began => plan[o] = <<>>
          /\ kind[began] = "dismiss" =>
                /\ ~ Left(plan[began], "del_members") => members = {}
                /\ ~ Left(plan[began], "del_info") => creator = Nobody
        BY <2>2 DEF Latest
    <2>4. r = began
        BY <2>1, <2>3
    <2>5. /\ Left(plan[r], "del_members") /\ c.name # "del_members" => Left(plan'[r], "del_members")
          /\ Left(plan[r], "del_info") /\ c.name # "del_info" => Left(plan'[r], "del_info")
        BY <1>2, StillLeft
    <2>6. kind[r] = "dismiss" => c.name \in OfRemoval
        <3>1. 1 \in 1 .. Len(plan[r])
            BY <2>1, Rest
        <3> QED  BY <3>1 DEF Plans, Fits
    <2> HIDE DEF c
    <2>7. ASSUME kind[r] = "dismiss", ~ Left(plan'[r], "del_members")
          PROVE  members' = {}
        <3>1. CASE c.name = "del_members"
            BY <2>1, <3>1 DEF Effect
        <3>2. CASE c.name # "del_members"
            <4>1. members = {}
                BY <2>3, <2>4, <2>5, <2>7, <3>2
            <4> QED  BY <2>1, <2>6, <2>7, <4>1 DEF Effect, OfRemoval
        <3> QED  BY <3>1, <3>2
    <2>8. ASSUME kind[r] = "dismiss", ~ Left(plan'[r], "del_info")
          PROVE  creator' = Nobody
        <3>1. CASE c.name = "del_info"
            BY <2>1, <3>1 DEF Effect
        <3>2. CASE c.name # "del_info"
            <4>1. creator = Nobody
                BY <2>3, <2>4, <2>5, <2>8, <3>2
            <4> QED  BY <2>1, <2>6, <2>8, <4>1 DEF Effect, OfRemoval
        <3> QED  BY <3>1, <3>2
    <2> QED  BY <2>1, <2>3, <2>4, <2>7, <2>8
<1>3. CASE Breaks(r)
    <2>1. PICK p : Broken(r, p) /\ (p = Tail(plan[r]) \/ p = <<>>)
        BY <1>3 DEF Breaks
    <2>2. plan[r] # <<>> /\ began' = began /\ met' = met \cup {r}
        BY <2>1, BrokenStep
    <2> QED  BY <2>2 DEF Latest
<1> QED  BY <1>1, <1>2, <1>3

LEMMA GroupInit == Init => TypeOK /\ GroupInv
<1>1. SUFFICES ASSUME Init
               PROVE  TypeOK /\ GroupInv
    OBVIOUS
<1>2. /\ exists = FALSE /\ creator = Nobody /\ members = {} /\ mine = {} /\ began = 0
      /\ failures = 0 /\ crossed = {} /\ met = {}
      /\ plan = [r \in Requests |-> <<>>] /\ about = [r \in Requests |-> {}]
      /\ kind = [r \in Requests |-> "none"]
    BY <1>1 DEF Init
<1>3. <<>> \in Seq(Commands) /\ Len(<<>>) = 0
    OBVIOUS
<1>4. TypeOK
    <2>1. MaxRequests \in Nat /\ MaxFailures \in Nat
        BY GroupAssumption
    <2>2. 0 \in 0 .. MaxRequests /\ 0 \in 0 .. MaxFailures
        BY <2>1
    <2> QED  BY <1>2, <1>3, <2>2 DEF TypeOK
<1>5. \A r \in Requests : plan[r] = <<>> /\ Len(plan[r]) = 0
    BY <1>2, <1>3
<1>6. Plans
    BY <1>5 DEF Plans, Shaped, Paired, Kept, Removing, Fits
<1>7. Apart /\ Sides /\ Turns
    BY <1>2, <1>5 DEF Apart, Active, Sides, Turns, Joins, Left
<1>8. Found /\ Latest
    BY <1>2 DEF Found, Latest
<1> QED  BY <1>4, <1>6, <1>7, <1>8 DEF GroupInv

LEMMA GroupNext == TypeOK /\ GroupInv /\ [Next]_vars => (TypeOK /\ GroupInv)'
<1>1. SUFFICES ASSUME TypeOK, GroupInv, [Next]_vars
               PROVE  (TypeOK /\ GroupInv)'
    OBVIOUS
<1>2. Plans /\ Apart /\ Sides /\ Turns /\ Found /\ Latest
    BY <1>1 DEF GroupInv
<1>3. CASE Next
    <2>1. PICK r \in Requests :
              \/ CreateGroup(r) \/ DismissGroup(r) \/ UpdateGroupCreator(r) \/ UpdateGroupInfo(r)
              \/ JoinGroup(r) \/ QuitGroup(r)
              \/ Command(r) \/ CommandFails(r) \/ Dies(r)
        BY <1>3 DEF Next
    <2>2. Starts(r) \/ Command(r) \/ Breaks(r)
        <3>1. CASE CommandFails(r)
            BY <3>1 DEF CommandFails, Breaks
        <3>2. CASE Dies(r)
            BY <3>2 DEF Dies, Breaks
        <3> QED  BY <1>1, <2>1, <3>1, <3>2, Beginning
    <2>3. (TypeOK /\ Plans)'
        <3>1. CASE Starts(r)
            BY <1>1, <1>2, <3>1, BeginStep DEF Starts
        <3>2. CASE Command(r)
            BY <1>1, <1>2, <3>2, CommandStep
        <3>3. CASE Breaks(r)
            BY <1>1, <1>2, <3>3, BrokenStep DEF Breaks
        <3> QED  BY <2>2, <3>1, <3>2, <3>3
    <2>4. Apart' /\ Found' /\ Latest'
        BY <1>1, <1>2, <2>2, ApartNext, FoundNext, LatestNext
    <2>5. Sides' /\ Turns'
        BY <1>1, <1>2, <2>2, SidesElsewhere, SidesCommand
    <2> QED  BY <2>3, <2>4, <2>5 DEF GroupInv
<1>4. CASE UNCHANGED vars
    <2>1. /\ exists' = exists /\ creator' = creator /\ members' = members /\ mine' = mine
          /\ plan' = plan /\ about' = about /\ began' = began /\ failures' = failures
          /\ crossed' = crossed /\ kind' = kind /\ met' = met
        BY <1>4 DEF vars
    <2>2. TypeOK'
        BY <1>1, <2>1 DEF TypeOK
    <2>3. GroupInv'
        BY <1>1, <2>1 DEF GroupInv, Plans, Apart, Active, Sides, Turns, Found, Latest
    <2> QED  BY <2>2, <2>3
<1> QED  BY <1>1, <1>3, <1>4

-----------------------------------------------------------------------------
LEMMA GroupAlways == Spec => [](TypeOK /\ GroupInv)
<1>1. Init => TypeOK /\ GroupInv
    BY GroupInit
<1>2. TypeOK /\ GroupInv /\ [Next]_vars => (TypeOK /\ GroupInv)'
    BY GroupNext
<1> QED  BY <1>1, <1>2, PTL DEF Spec

\* GroupchatManager and GroupChatServantImp, with any number of users,
\* requests and failures: everything keeps its type, and a group with a
\* creator exists.
THEOREM TypeAlways == Spec => []TypeOK
<1> QED  BY GroupAlways, PTL

\* addMember and delMember keep the hash of the members and the lists of
\* groups together for every user whose requests did not overlap or fail,
\* whatever else is under way about the group.
THEOREM BothSidesAlways == Spec => []BothSides
<1>1. TypeOK /\ GroupInv => BothSides
    <2>1. SUFFICES ASSUME TypeOK, Plans, Sides, NEW u \in Users, u \notin crossed,
                          \A r \in AtWork : u \notin about[r]
                   PROVE  u \in members <=> u \in mine
        BY DEF BothSides, GroupInv
    <2>2. \A r \in Requests : ~ Joins(plan[r], u) /\ ~ Leaves(plan[r], u)
        BY <2>1, AtWorkOn DEF Touches, AtWork, Active
    <2> QED  BY <2>1, <2>2 DEF Sides
<1> QED  BY <1>1, GroupAlways, PTL

\* However createGroup, addMember, delMember and dismissGroup overlap, a group
\* with members is one that checkGroupExist finds when all is quiet, as long as
\* no command failed.
THEOREM MembersReachedAlways == Spec => []MembersReached
<1>1. TypeOK /\ GroupInv => MembersReached
    <2>1. SUFFICES ASSUME Found, AtWork = {}, failures = 0, members # {}
                   PROVE  exists
        BY DEF MembersReached, GroupInv
    <2>2. \A r \in Requests : plan[r] = <<>>
        BY <2>1 DEF AtWork, Active
    <2>3. \A r \in Requests : \A name : ~ Left(plan[r], name)
        BY <2>2 DEF Left
    <2> QED  BY <2>1, <2>3 DEF Found
<1> QED  BY <1>1, GroupAlways, PTL

\* dismissGroup, alone, leaves neither a member, nor a list that names the
\* group, nor a creator.
THEOREM DismissedGoneAlways == Spec => []DismissedGone
<1>1. TypeOK /\ GroupInv => DismissedGone
    <2>1. SUFFICES ASSUME TypeOK, Plans, Sides, Latest, AtWork = {}, began > 0,
                          kind[began] = "dismiss", began \notin met, crossed = {}
                   PROVE  members = {} /\ mine = {} /\ creator = Nobody
        BY DEF DismissedGone, GroupInv
    <2>2. \A r \in Requests : plan[r] = <<>>
        BY <2>1 DEF AtWork, Active
    <2>3. began \in Requests /\ mine \subseteq Users
        <3>1. MaxRequests \in Nat /\ began \in 0 .. MaxRequests
            BY <2>1, GroupAssumption DEF TypeOK
        <3> QED  BY <2>1, <3>1 DEF TypeOK, Requests
    <2>4. \A name : ~ Left(plan[began], name)
        BY <2>2, <2>3 DEF Left
    <2>5. members = {} /\ creator = Nobody
        BY <2>1, <2>4 DEF Latest
    <2>6. \A r \in Requests, u \in Users : ~ Leaves(plan[r], u)
        BY <2>2 DEF Leaves
    <2> QED  BY <2>1, <2>3, <2>5, <2>6 DEF Sides
<1> QED  BY <1>1, GroupAlways, PTL
=============================================================================
