CONSTANTS
    MaxOrderId = 4
    MaxCrashes = 2
    MaxDrops = 2
    MaxResets = 1
SPECIFICATION Spec
INVARIANT OrderIdsUnique
CHECK_DEADLOCK FALSE
