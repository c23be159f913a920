SPECIFICATION FairSpec
CONSTANTS
    labeler = labeler
    imported = imported
    top = top
    other = other
    account1 = account1
    account2 = account2
    post = post
    cid = cid
    NoSrc = NoSrc
    NoCid = nocid
    NoExp = never
    Did = labeler
    Srcs <- MCSrcs
    Vals <- MCVals
    Uris <- MCUris
    Accounts <- MCAccounts
    Listed <- MCListed
    AllowedSets <- MCAllowed
    Cids <- MCCids
    Exps <- MCExps
    Imports <- MCImports
    Wildcards = {wild}
    MaxImported = 2
    MaxMoves = 2
    MaxFailures = 1
INVARIANTS QueryServesLabelsInForce UpdateIsExact
PROPERTIES MovesTowardsTheList MembersGetTheLabel
