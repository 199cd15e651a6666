SPECIFICATION Spec
CONSTANTS
    alice = alice  bob = bob
    s1 = s1  s2 = s2  k1 = k1
    Users = {alice, bob}
    Lists <- SomeLists
    MaxRequests = 2
    MaxFailures = 1
    Servers = {s1, s2}
    Tasks = {k1}
    NoTask = NoTask
    MaxCrashes = 1
INVARIANT TypeOK FriendsAsAsked
PROPERTY TaskTaken
CHECK_DEADLOCK FALSE
