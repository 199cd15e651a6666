SPECIFICATION Spec
CONSTANTS
    x1 = x1  x2 = x2  x3 = x3  x4 = x4  m1 = m1
    Threads = {x1, x2, x3, x4}
    NoThread = NoThread
    Messages = {m1}
    Troubles = {"fail", "down", "busy", "denied", "more", "no_session", "late", "pushed", "kicked", "lost", "logout"}
    MaxTrouble = 3
    MaxRetries = 1
INVARIANT TypeOK OneInUse WayOut
PROPERTY Recovers LogoutEnds
CHECK_DEADLOCK FALSE
