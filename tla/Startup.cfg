SPECIFICATION StartupSpec
CONSTANTS
    top = top
    plain = plain
    Keys = {1, 2, 3, 4}
    BatchSize = 2
    MaxAttempts = 2
    MaxSeq = 6
    Configs <- MCConfigs
    Policies <- MCPolicies
    Fields = {own, foreign}
    Extras = {extra}
    NoRecord = NoRecord
    MaxEdits = 2
INVARIANTS ServedLogIsWhole WritesWork AllowedIsPublished
PROPERTIES NewRowsAreLast UnreadEditsKept
