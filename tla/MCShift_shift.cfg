SPECIFICATION FairSpec
CONSTANTS
    ali = ali
    Drivers <- OneDriver
    Records <- Unselected
    s1 = s1
    s2 = s2
    Signings <- TwoSignings
    r1 = r1
    r2 = r2
    Reports <- TwoReports
    MaxServed = 2
    MaxEvents = 1
INVARIANTS ShiftTypeOK
PROPERTIES OnlyOverlapsSlipThrough AcceptedIsNotOverwritten PoolSettles PositionCatchesUp
CHECK_DEADLOCK FALSE
