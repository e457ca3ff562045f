CONSTANTS
    r1 = r1
    r2 = r2
    a = a
    b = b
    Requests = {r1, r2}
    Scopes = {a}
    Turns = {1, 2}
    MaxFailures = 2
    ScopeOf <- RacingRequests
SPECIFICATION FairSpec
INVARIANTS
    TypeOK
    SnapshotCoversAttempts
    ClaimedIsAdmitted
    ReleasedWorkIsOwned
    OneResumePerScope
    ResumingIsOwned
PROPERTY
    ShutdownCompletes
CHECK_DEADLOCK FALSE
