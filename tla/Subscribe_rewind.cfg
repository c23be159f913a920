SPECIFICATION Spec
CONSTANTS
    Clients = {a}
    Cursors <- MCFromStart
    Half = 8
    BatchSize = 2
    MaxSeq = 3
    InOrder = TRUE
PROPERTY NeverRewinds
