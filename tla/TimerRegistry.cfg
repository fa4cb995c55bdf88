\* Two slots for three timers: a slot is reused while the tick stands on it.
SPECIFICATION FairSpec
CONSTANTS
    TimerMax = 2
    Intervals = {1, 2}
    MaxTimers = 3
    MaxClock = 2
    MaxFires = 9
INVARIANTS
    Punctual
    OneShotFiresOnce
    DeletedFallsSilent
PROPERTY TickEnds
