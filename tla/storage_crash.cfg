CONSTANTS
    MaxBlocks = 4
    MaxCrashes = 2
SPECIFICATION FairSpec
INVARIANTS NewestChainStored RepliedIsDurable PanicsOnlyWhenTorn
PROPERTIES StartUpEnds
CHECK_DEADLOCK FALSE
