SPECIFICATION Spec
CONSTANTS
    alice = alice  bob = bob  club = club  s1 = s1  s2 = s2
    p1 = p1  p2 = p2  p3 = p3  p4 = p4
    Users = {alice, bob}
    Sessions = {s1, s2}
    Packs = {p1, p2, p3}
    KindOf <- Kinds
    SessionOf <- Where
    FromOf <- FromAlice
    ToOf <- Addressees
    MembersOf <- Members
    HighPriority = {p2}
    Commands = {}
    Original = Original
    Ticks <- OneClock
    MaxTries = 1
    MaxConnects = 2
    MaxReads = 1
    MaxPulls = 1
    PullCount = 1
    AsksFrom = "start"
    MaxFailures = 1
    MaxHotSessionCounts = {0, 1}
CONSTRAINT OnlyBob OneAtATime AsksAlone
INVARIANT NothingMissed UnreadCounted
CHECK_DEADLOCK FALSE
