SPECIFICATION DisplaySpec
CONSTANTS
    EnforceFrames = 2
    Supported <- MoreInAWindow
    Wanted <- EffectOf
    MaxEdits = 2
    MaxLaunches = 2
INVARIANT Pinned
INVARIANT SettingKept
INVARIANT PresentIsSound
CHECK_DEADLOCK FALSE
