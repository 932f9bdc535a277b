SPECIFICATION BudgetSpec
CONSTANTS
    Freq = 12
    Rates = {3, 6}
    BaseRate = 6
    Gaps = {1, 2, 9}
    MaxSimTime = 1
    MaxNow = 24
    MaxEdits = 2
INVARIANT BurstBounded
INVARIANT AltOncePerTick
INVARIANT VisualsMoveTogether
CHECK_DEADLOCK FALSE
