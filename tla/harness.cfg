SPECIFICATION LiveSpec
CONSTANTS
    NONE = "none"
    MaxDepth = 4
    MaxStack = 5
    Polls = 2
    Waits <- MCWaits
    Labels <- MCLabels
    MaxFires = 2
    Scenarios <- MCScenarios
    Worker = {"w1", "w2"}
CHECK_DEADLOCK FALSE
INVARIANT LanPassIsSilent
INVARIANT SuccessIsOwn
INVARIANT SlotIsSpared
PROPERTY ResultIsFinal
PROPERTY HarnessReports
