\* Two processes and two drivers contend for one job.
SPECIFICATION LiveSpec
CONSTANTS
    j1 = j1  d1 = d1  d2 = d2  r1 = r1  r2 = r2
    Jobs <- OneJob
    Drivers <- TwoDrivers
    Replicas <- TwoReplicas
    MaxAttempts = 2
    NoDriver = NoDriver
    NoJob = NoJob
INVARIANTS TypeOK OffersAreExclusive WonByItsDriver
PROPERTIES FinishedStaysFinished ClaimSpec SearchEnds OffersEnd
