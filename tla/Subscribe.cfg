SPECIFICATION FairSpec
CONSTANTS
    Clients = {a}
    Cursors <- MCAllCursors
    Half <- MCHalf
    BatchSize = 2
    MaxSeq = 5
    InOrder = TRUE
INVARIANTS TypeOK NoGap WaitingIsCaughtUp ReceivedCursorIsValid
PROPERTY Delivered
