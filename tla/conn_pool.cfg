SPECIFICATION FairSpec
CONSTANTS
    t1 = t1  t2 = t2  t3 = t3  t4 = t4
    Threads = {t1, t2, t3, t4}
    CountMin = 0
    CountMax = 2
    MaxDepth = 3
CHECK_DEADLOCK FALSE
INVARIANTS TypeOK Exclusive NoneLost OneEach NoHoldAndWait
PROPERTY Relieved
