SPECIFICATION Spec
CONSTANTS
    ann = ann
    customer = customer
    q1 = q1
    q2 = q2
    Users <- MCUsers
    Roles <- MCRoles
    InitialRole = customer
    Requests <- MCRequests
    MaxAttempts = 1
    OTPLimit = 1
    MaxChallenges = 2
    MaxSessions = 2
    MaxTokens = 3
    MaxAllowed = 2
INVARIANTS TypeOK CodesAreScarce
PROPERTIES AccessIsCurrent ChainSpec
CONSTRAINT OneAccess
SYMMETRY Symmetry
CHECK_DEADLOCK FALSE
