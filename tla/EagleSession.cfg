\* Four numbered frames, three sessions; a timeout of two ticks.
CONSTANTS
    Event <- MCEvents
    MaxSeq = 4
    Timeout = 2
    Interval = 1
    MaxSessions = 3
SPECIFICATION SessionFairSpec
INVARIANTS SessionTypeOK CompleteMeansDrained NothingMissed ReplayNeverApproved FreshWhileTrading
PROPERTY ReadyOrOver
CHECK_DEADLOCK FALSE
