\* An interval lost to rounding.
SPECIFICATION FairSpec
CONSTANTS
    TimerMax = 1
    Intervals = {0, 1}
    MaxTimers = 1
    MaxClock = 1
    MaxFires = 2
PROPERTY TickEnds
