SPECIFICATION HoldSpec
CONSTANTS
    Entity = {e1, e2, w1, w2}
    Home <- HomeSpread
    NSlots = 4
    AgeOut = 1
    Refresh = 2
    Sessions <- AllSessions
    NULL = NULL
    MaxHold <- TwoIfTeleported
    MaxSpots <- TwoIfTeleported
    e1 = e1
    e2 = e2
    w1 = w1
    w2 = w2
INVARIANT FenceStands
INVARIANT PlayerBlendsOneEntity
INVARIANT NpcBlendIsRecent
INVARIANT HoldReachesSim
INVARIANT HeldInView
CHECK_DEADLOCK FALSE
