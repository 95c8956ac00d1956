CONSTANTS
    a = a
    b = b
    c = c
    d = d
    Vertices = {a, b, c, d}
    ShardNum = 3
    Addr2Shard <- ThreeWay
    MaxIterations = 3
    MaxUpdates = 1000
    MaxEdges = 5
SPECIFICATION Spec
INVARIANTS TotalsExact NeverFrozenByMoves
CHECK_DEADLOCK FALSE
