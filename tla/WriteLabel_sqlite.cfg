SPECIFICATION FairSpec
CONSTANTS
    labeler = labeler
    top = top
    eligible = eligible
    post = post
    cid1 = cid1
    cid2 = cid2
    never = never
    soon = soon
    NoSrc = NoSrc
    NoRequest = NoRequest
    Srcs <- MCSrcs
    Vals <- MCVals
    Uris <- MCUris
    Cids <- MCCids
    Exps <- MCExps
    Writers = {w1, w2}
    Requests <- MCRequests
    Did = labeler
    AllowedSets <- MCAllOrOther
    Engine = "sqlite"
    MaxAttempts = 3
    MaxSeq = 3
INVARIANTS TypeOK NoRedundantEntries SnapshotsStayValid
PROPERTIES AppendOnly CallsReturn ImplementsStore
