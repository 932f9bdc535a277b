SPECIFICATION LiveSpec
CONSTANTS
    Mode = "Host"
    KeepOrphan = FALSE
    ManualProbe = TRUE
    LevelChanges = FALSE
    Disconnects = TRUE
    Addr = {a1, a2, a3}
    NULL = NULL
    CtxMod = 4
    Lag = 2
    MaxSeq = 2
    MaxWrapper = 4
INVARIANT NoLeakedOrphan
INVARIANT RumbleIsLocal
PROPERTY PeerGetsAvatar
