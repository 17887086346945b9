\* Two Bitcoin trades, one long and one short; one crash and one loss of each connection.
CONSTANTS
    s1 = s1
    s2 = s2
    x = x
    Signal <- MCTwoTrades
    Bitcoin <- MCTwoTrades
    Short <- MCOneShort
    Updated = {}
    MaxSeq = 4
    GlobalHeartbeats = FALSE
    MaxCrashes = 1
    MaxEagleDrops = 1
    MaxIBDrops = 1
    MaxFlattens = 1
SPECIFICATION FairSpec
INVARIANTS TypeOK ExposureIsOwned MissedNeverTraded NothingSkipped ReplayedExitIsReserved
PROPERTIES OrdersMatchPosition OrdersFollowReplay ExitIsFollowed
CHECK_DEADLOCK FALSE
