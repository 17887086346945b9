CONSTANTS
    s1 = s1
    s2 = s2
    x = x
    Signal <- MCWithOther
    Bitcoin <- MCBitcoin
    Short = {}
    Updated = {}
    MaxSeq = 4
    GlobalHeartbeats = TRUE
    MaxCrashes = 0
    MaxEagleDrops = 1
    MaxIBDrops = 0
    MaxFlattens = 0
SPECIFICATION Spec
INVARIANT NothingSkipped
CHECK_DEADLOCK FALSE
