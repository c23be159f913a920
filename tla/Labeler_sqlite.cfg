SPECIFICATION LabelerSpec
CONSTANTS
    labeler = labeler
    top = top
    post = post
    cid1 = cid1
    cid2 = cid2
    never = never
    NoSrc = NoSrc
    NoRequest = NoRequest
    Srcs <- MCSrcs
    Vals <- MCVals
    Uris <- MCUris
    Cids <- MCCids
    Exps <- MCExps
    Writers = {w1, w2}
    Requests <- MCRequests
    Did = labeler
    AllowedSets <- MCAllAllowed
    Engine = "sqlite"
    MaxAttempts = 2
    MaxSeq = 3
    Clients = {a}
    Cursors = {0}
    Half <- MCHalf
    BatchSize = 2
INVARIANT SubscriberAgrees
PROPERTY ImplementsSubscribe
