SPECIFICATION Spec
CONSTANTS
    DayLength = 2
    Accounts = {1, 2}
    Wins <- MCWins
    MaxNow = 4
    MaxDeletions = 1
INVARIANTS TypeOK StateMatchesHistory CleanCycleIsExact
PROPERTY KeepsABadge
