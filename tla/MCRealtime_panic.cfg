SPECIFICATION HubSpec
CONSTANTS
    c1 = c1  c2 = c2  p1 = p1
    Conns <- TwoConns
    Publishers <- OnePub
    Caller <- OneAccount
    Kinds <- SomeKinds
    Buffer = 1
    MaxPerUser = 1
    MaxEvents = 3
INVARIANTS PublishingIsSafe
CHECK_DEADLOCK FALSE
