SPECIFICATION ControlSpec
CONSTANTS
    alice = alice  bob = bob  club = club  s1 = s1  s2 = s2
    p1 = p1  p2 = p2  p3 = p3  p4 = p4  c1 = c1  c2 = c2  c3 = c3  c4 = c4
    Users = {alice, bob, club}
    Sessions = {s1}
    Packs = {p1, p2}
    KindOf <- Grouped
    SessionOf <- Where
    FromOf <- FromAlice
    ToOf <- ToClub
    MembersOf <- Members
    HighPriority = {p1}
    Commands = {c1, c2, c3}
    Original = Original
    CommandOf <- Does
    TargetOf <- About
    Ticks <- OneClock
    MaxTries = 2
    MaxConnects = 2
    MaxReads = 0
    MaxPulls = 2
    PullCount = 1
    AsksFrom = "start"
    MaxFailures = 1
    MaxHotSessionCounts = {100}
CONSTRAINT OnlyBob OneAtATime AfterSending OneRetried FailureAmongTwo ComesAndGoes OneMistake
INVARIANT ControlTypeOK NotLost OthersUntouched RevocationHolds CommandReached
CHECK_DEADLOCK FALSE
