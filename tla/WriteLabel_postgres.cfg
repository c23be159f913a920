SPECIFICATION Spec
CONSTANTS
    labeler = labeler
    top = top
    eligible = eligible
    post = post
    cid1 = cid1
    cid2 = cid2
    never = never
    soon = soon
    NoSrc = NoSrc
    NoRequest = NoRequest
    Srcs <- MCSrcs
    Vals <- MCVals
    Uris <- MCUris
    Cids <- MCCids
    Exps <- MCExps
    Writers = {w1, w2}
    Requests <- MCFewRequests
    Did = labeler
    AllowedSets <- MCAllAllowed
    Engine = "postgres"
    MaxAttempts = 2
    MaxSeq = 3
PROPERTIES NothingRewritten CreatedIsWritten
