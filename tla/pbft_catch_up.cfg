CONSTANTS
    N0 = N0
    Nodes = {N0, N1, N2}
    malicious_num = 0
    MaxHeight = 2
SPECIFICATION Spec
SYMMETRY Backups
INVARIANTS PrimaryHasRequested RequestOnTheWay
CHECK_DEADLOCK FALSE
