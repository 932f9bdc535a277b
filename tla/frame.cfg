SPECIFICATION Spec
CONSTANTS
    Freq = 12
    Rates = {3, 6}
    BaseRate = 6
    Gaps = {1, 3, 8}
    MaxSimTime = 1
    MaxNow = 11
    MaxEdits = 2
    Vanilla = 0
    MinDt = 1
    MaxDt = 4
INVARIANT RealTimePace
INVARIANT NoBlendAcrossCut
PROPERTY ViewNeverRewinds
CHECK_DEADLOCK FALSE
