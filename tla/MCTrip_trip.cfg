SPECIFICATION Spec
CONSTANTS
    j1 = j1  d1 = d1  d2 = d2  c1 = c1  c2 = c2  c3 = c3
    Jobs <- OneJob
    Drivers <- TwoDrivers
    Calls <- ThreeCalls
    NoDriver = NoDriver
    MaxFaults = 1
SYMMETRY Symmetry
INVARIANTS TypeOK CancellationsAreAsDecided
PROPERTIES TripsEndTheirTracking
CHECK_DEADLOCK FALSE
