SPECIFICATION Spec
CONSTANTS
    Mode = "Host"
    KeepOrphan = FALSE
    ManualProbe = FALSE
    LevelChanges = TRUE
    Disconnects = TRUE
    Addr = {a1, a2, a3}
    NULL = NULL
    CtxMod = 4
    Lag = 2
    MaxSeq = 4
    MaxWrapper = 4
SYMMETRY AddrSymmetry
PROPERTY ShowsFeed
PROPERTY FreshPoseTaken
