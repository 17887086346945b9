\* Three refreshes, so that one can follow one that follows a timeout.
CONSTANTS
    MaxRefreshes = 3
    MaxChanges = 3
    MaxTimeouts = 1
    MaxDrops = 1
SPECIFICATION Spec
INVARIANTS TypeOK FlatIsReal
PROPERTY StableWhenComplete
CHECK_DEADLOCK FALSE
