SPECIFICATION FairSpec
CONSTANTS
    ana = ana  phone = phone  tablet = tablet  t1 = t1  t2 = t2
    offer = offer  q1 = q1  w1 = w1  w2 = w2
    Users <- OneUser
    Phones <- TwoPhones
    Tokens <- TwoTokens
    Events <- OneEvent
    To <- ToAna
    Category <- Optional
    Callers <- OneCaller
    Workers <- TwoWorkers
    MaxAttempts = 2
    Batch = 2
    MaxCalls = 2
    MaxMoves = 2
    MaxFaults = 1
INVARIANTS TypeOK TellingIsSound
PROPERTIES QueueDrains
CHECK_DEADLOCK FALSE
