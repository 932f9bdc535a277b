SPECIFICATION Spec
CONSTANTS
    Mode = "Host"
    KeepOrphan = FALSE
    ManualProbe = FALSE
    LevelChanges = TRUE
    Disconnects = FALSE
    Addr = {a1, a2, a3}
    NULL = NULL
    CtxMod = 4
    Lag = 2
    MaxSeq = 3
    MaxWrapper = 4
SYMMETRY AddrSymmetry
INVARIANT LocalPoseUntouched
