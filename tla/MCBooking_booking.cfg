SPECIFICATION Spec
CONSTANTS
    u1 = u1  u2 = u2  q1 = q1  q2 = q2  k1 = k1  c1 = c1  c2 = c2  del = del
    Users <- TwoUsers
    Quotes <- TwoQuotes
    Trips <- SomeTrips
    Areas <- Busy
    Seeded <- SeededTariffs
    Added <- AddedTariffs
    Keys <- OneKey
    NoKey = NoKey
    Enabled <- Cash
    Providers <- NoProviders
    Calls <- TwoCalls
    Deliveries <- OneDelivery
    None = None
    MaxFaults = 1
    MaxSafe = 100000
    MaxBPS = 15000
    MinSupply = 1
SYMMETRY Symmetry
INVARIANTS TypeOK FaresAddUp AnsweredRidesArePriced RetriesBookNothing
CHECK_DEADLOCK FALSE
