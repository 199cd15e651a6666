SPECIFICATION Spec
CONSTANTS
    alice = alice  bob = bob  club = club  s1 = s1  s2 = s2
    p1 = p1  p2 = p2  p3 = p3  p4 = p4
    Users = {alice, bob}
    Sessions = {s1}
    Packs = {p1, p2}
    KindOf <- Kinds
    SessionOf <- Where
    FromOf <- FromAlice
    ToOf <- Addressees
    MembersOf <- Members
    HighPriority = {p1, p2}
    Commands = {}
    Original = Original
    Ticks <- OneClock
    MaxTries = 1
    MaxConnects = 2
    MaxReads = 0
    MaxPulls = 2
    PullCount = 2
    AsksFrom = "latest"
    MaxFailures = 0
    MaxHotSessionCounts = {100}
INVARIANT PriorityReached
CHECK_DEADLOCK FALSE
