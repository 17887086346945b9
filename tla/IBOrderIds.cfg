CONSTANTS
    MaxOrderId = 4
    MaxCrashes = 2
    MaxDrops = 2
    MaxResets = 1
SPECIFICATION Spec
INVARIANTS TypeOK FloorHolds FlooredIdsUnique UniqueUnlessReset
CHECK_DEADLOCK FALSE
