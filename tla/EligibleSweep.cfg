SPECIFICATION Spec
CONSTANTS
    post1 = post1
    post2 = post2
    account1 = account1
    account2 = account2
    Posts = {post1, post2}
    Accounts = {account1, account2}
    AuthorOf <- MCAuthorOf
    JudgeDelay = 1
    Lookback = 3
    HealWindow = 2
    MaxNow = 4
INVARIANTS TypeOK CleanSweepIsExact NothingStranded
PROPERTIES FlakyAccountKeepsLabels
