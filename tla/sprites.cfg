SPECIFICATION Spec
CONSTANTS
    NSlots = 2
    Key = {"k1", "k2"}
    Look = {"a", "b"}
    Screen = {"Pause"}
    Widget = {"top"}
    Asset = {"smile", "box"}
    Drawn <- MCDrawn
    ANY = "any"
    NONE = "none"
    MaxMove = 1
    MaxFrames = 2
    MaxDrawn = 1
    MaxRules = 2
    Registered <- MCRegistered
    Builtin <- MCBuiltin
    Hits <- MCHits
    Placings <- MCPlacings
    MaxEdits = 2
    MaxRestarts = 1
INVARIANT IndexAgrees
INVARIANT WholeTextureSurvives
INVARIANT EditsAreMarked
PROPERTY WalkKeepsLooks
PROPERTY GizmoEditsOneVariant
PROPERTY SyncKeepsMatches
