SPECIFICATION Spec
CONSTANTS
    ride = ride  grocery = grocery  cargo = cargo  walk = walk
    ali = ali  bina = bina  q1 = q1  q2 = q2  k1 = k1
    NoJob = NoJob  NoKey = NoKey  NoRate = NoRate  NoLimit = NoLimit
    Jobs <- FourJobs
    Drivers <- TwoDrivers
    Requests <- Requests2
    DriverOf <- RiderOf
    Fare <- Fares
    Goods <- Baskets
    Rate <- Rates
    Limit <- Limits
    Override <- Overrides
    Keys <- OneKey
    Amounts <- Five
    MaxSettlements = 1
SYMMETRY Interchangeable
INVARIANTS TypeOK PostedOnce CashComesFirst SettledInFull StoppedForTheirCash
CHECK_DEADLOCK FALSE
