SPECIFICATION FairSpec
CONSTANTS
    c1 = c1  c2 = c2  t1 = t1  t2 = t2  b1 = b1  b2 = b2
    alice = alice  bob = bob  phone = phone  web = web
    Conns = {c1}
    Brokers = {b1}
    BrokerOf <- OneBroker
    Clients = {alice, bob}
    DeviceTypes = {phone, web}
    Offers <- TwoConnections
    Threads = {t1, t2}
    HostOf <- OneHost
    FrameTypes = {"LOGIN", "BADLOGIN", "PING", "LOGOUT", "KICKOUT", "RPC", "UNKNOWN", "GARBAGE"}
    MaxFrames = 3
    MaxCrashes = 0
    MaxLost = 0
    NoCred = NoCred
    NoConn = NoConn
    Idle = Idle
INVARIANT ServedAsAuthenticated
PROPERTY LoginAnswered CloseHandled
CHECK_DEADLOCK FALSE
