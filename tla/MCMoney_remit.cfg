SPECIFICATION Spec
CONSTANTS
    ride = ride  grocery = grocery  cargo = cargo  walk = walk
    ali = ali  bina = bina  q1 = q1  q2 = q2  k1 = k1
    NoJob = NoJob  NoKey = NoKey  NoRate = NoRate  NoLimit = NoLimit
    Jobs <- OneRide
    Drivers <- OneDriver
    Requests <- Requests1
    DriverOf <- RideOf
    Fare <- RideFare
    Goods <- RideBasket
    Rate <- RideRate
    Limit <- Limits
    Override <- NoOverride
    Keys <- OneKey
    Amounts <- Five
    MaxSettlements = 2
INVARIANT RemittancesAreAccounted
CHECK_DEADLOCK FALSE
