SPECIFICATION DeliverySpec
CONSTANTS
    c1 = c1  c2 = c2  c3 = c3  c4 = c4  t1 = t1  t2 = t2  b1 = b1  b2 = b2
    alice = alice  bob = bob  phone = phone  web = web
    Conns = {c1, c2, c3, c4}
    Brokers = {b1, b2}
    BrokerOf <- Split
    UidOf <- Numbered
    Clients = {alice, bob}
    DeviceTypes = {phone, web}
    Offers <- Family
    Threads = {t1, t2}
    HostOf <- HostEach
    FrameTypes = {"LOGIN", "RPC"}
    MaxFrames = 2
    MaxCrashes = 1
    MaxLost = 0
    NoCred = NoCred
    NoConn = NoConn
    Idle = Idle
CONSTRAINT OnlyLogins OneSecondDevice
INVARIANT DeliveryTypeOK NoEcho OtherDevicesReached DeliveredToOwn RecipientReached
CHECK_DEADLOCK FALSE
