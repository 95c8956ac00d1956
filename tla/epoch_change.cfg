CONSTANTS
    S1 = S1
    S2 = S2
    a = a
    b = b
    c = c
    Shards = {S1, S2}
    Accounts = {a, c}
    Home <- TwoHomes
    Txs <- Both
    MaxEpoch = 3
SPECIFICATION FairSpec
INVARIANTS OnePlace StopUntilAllDone OnlyStoppedIsReleased PendingFollows
PROPERTIES EpochEnds
CHECK_DEADLOCK FALSE
