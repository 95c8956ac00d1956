CONSTANTS
    Shards = {s1, s2}
    Client = client
    EmptyBlocks = 5
    MaxWork = 1
    MaxReplies = 2
SPECIFICATION FairSpec
INVARIANTS SomeShardQuiet
PROPERTIES EveryProcessEnds
CHECK_DEADLOCK FALSE
