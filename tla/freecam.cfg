SPECIFICATION Spec
CONSTANTS
    Window = {"game", "other"}
    NONE = "none"
PROPERTY NothingLeftOver
PROPERTY LookIsMeasured
