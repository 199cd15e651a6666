SPECIFICATION Spec
CONSTANTS
    c1 = c1  c2 = c2  t1 = t1  t2 = t2  b1 = b1  b2 = b2
    alice = alice  bob = bob  phone = phone  web = web
    Conns = {c1, c2}
    Brokers = {b1}
    BrokerOf <- OneBroker
    Clients = {alice}
    DeviceTypes = {phone}
    Offers <- Reconnect
    Threads = {t1}
    HostOf <- OneHost
    FrameTypes = {"LOGIN"}
    MaxFrames = 1
    MaxCrashes = 0
    MaxLost = 0
    NoCred = NoCred
    NoConn = NoConn
    Idle = Idle
INVARIANT OnlineUserRecorded
CHECK_DEADLOCK FALSE
