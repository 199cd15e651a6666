SPECIFICATION Spec
CONSTANTS
    alice = alice  bob = bob  club = club  s1 = s1  s2 = s2
    p1 = p1  p2 = p2  p3 = p3  p4 = p4
    Users = {alice, bob}
    Sessions = {s1}
    Packs = {p1}
    KindOf <- Kinds
    SessionOf <- Where
    FromOf <- FromAlice
    ToOf <- Addressees
    MembersOf <- Members
    HighPriority = {}
    Commands = {}
    Original = Original
    Ticks <- OneClock
    MaxTries = 2
    MaxConnects = 0
    MaxReads = 0
    MaxPulls = 0
    PullCount = 1
    AsksFrom = "start"
    MaxFailures = 0
    MaxHotSessionCounts = {100}
INVARIANT StoredOnce
CHECK_DEADLOCK FALSE
