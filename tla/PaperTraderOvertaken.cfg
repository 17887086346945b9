\* A Bitcoin trade with an update and a trade on another symbol; heartbeats may
\* overtake the replay; no crash, one loss of each connection.
CONSTANTS
    s1 = s1
    s2 = s2
    x = x
    Signal <- MCWithOther
    Bitcoin <- MCBitcoin
    Short = {}
    Updated <- MCBitcoin
    MaxSeq = 5
    GlobalHeartbeats = TRUE
    MaxCrashes = 0
    MaxEagleDrops = 1
    MaxIBDrops = 1
    MaxFlattens = 1
SPECIFICATION Spec
INVARIANT ConsumedExitIsReserved
CHECK_DEADLOCK FALSE
