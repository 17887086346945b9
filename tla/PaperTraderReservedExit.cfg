CONSTANTS
    s1 = s1
    s2 = s2
    x = x
    Signal <- MCWithOther
    Bitcoin <- MCBitcoin
    Short = {}
    Updated = {}
    MaxSeq = 4
    GlobalHeartbeats = FALSE
    MaxCrashes = 0
    MaxEagleDrops = 0
    MaxIBDrops = 1
    MaxFlattens = 0
SPECIFICATION Spec
INVARIANT ReservedExitRetried
CHECK_DEADLOCK FALSE
