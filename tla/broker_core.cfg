SPECIFICATION Spec
CONSTANTS
    c1 = c1  c2 = c2  t1 = t1  t2 = t2  b1 = b1  b2 = b2
    alice = alice  bob = bob  phone = phone  web = web
    Conns = {c1, c2}
    Brokers = {b1}
    BrokerOf <- OneBroker
    Clients = {alice, bob}
    DeviceTypes = {phone, web}
    Offers <- TwoConnections
    Threads = {t1, t2}
    HostOf <- OneHost
    FrameTypes = {"LOGIN", "RPC"}
    MaxFrames = 2
    MaxCrashes = 1
    MaxLost = 1
    NoCred = NoCred
    NoConn = NoConn
    Idle = Idle
INVARIANT TypeOK IndexComplete IndexSound PresenceBacked Recorded
PROPERTY ImplementsDirectory
CONSTRAINT ThreeFrames
CHECK_DEADLOCK FALSE
