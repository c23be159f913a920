SPECIFICATION PollerFairSpec
CONSTANTS
    labeler = labeler
    current = current
    alumni = alumni
    nocid = nocid
    never = never
    NoSrc = NoSrc
    NoRequest = NoRequest
    NoBadge = NoBadge
    NoHandler = NoHandler
    Account = account
    Srcs <- MCSrcs
    Vals <- MCVals
    Uris <- MCUris
    Cids <- MCCids
    Exps <- MCExps
    Writers = {h1, h2}
    Requests <- MCRequests
    Did = labeler
    AllowedSets <- MCAllAllowed
    Engine = "sqlite"
    MaxAttempts = 2
    MaxSeq = 10
    MaxMoves = 1
    MaxFaults = 3
INVARIANT AnsweredCycleIsExact
PROPERTIES UnchangedIsNotWritten BadgesSettle
