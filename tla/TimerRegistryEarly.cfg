SPECIFICATION Spec
CONSTANTS
    TimerMax = 1
    Intervals = {2}
    MaxTimers = 1
    MaxClock = 3
    MaxFires = 3
INVARIANT ElapsedSinceCreation
