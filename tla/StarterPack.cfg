SPECIFICATION FairSpec
CONSTANTS
    Accounts = {1, 2}
    Cap = 2
    MaxItems = 4
    MaxFailures = 3
INVARIANTS TypeOK OneOfEach FinishedSyncIsComplete PackComesLast
PROPERTY AlumniReachPack
