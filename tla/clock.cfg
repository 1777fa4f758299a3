SPECIFICATION TimerSpec
CONSTANTS
    maxFlushDelay = 3
    Latency = 2
    MaxPosted = 3
INVARIANTS
    SavedInTime
    TimerInv
