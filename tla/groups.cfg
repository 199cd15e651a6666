SPECIFICATION Spec
CONSTANTS
    alice = alice  bob = bob
    Users = {alice, bob}
    Nobody = Nobody
    MaxRequests = 3
    MaxFailures = 1
INVARIANT TypeOK BothSides MembersReached DismissedGone
CHECK_DEADLOCK FALSE
