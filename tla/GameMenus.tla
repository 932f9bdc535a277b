----------------------------- MODULE GameMenus ------------------------------
(* The way from the title screen into the game, as the test harness sees it: *)
(* the mod's mirror of the engine's screen stack (screen_push), the keyboard *)
(* the engine polls with the harness's keys or-ed in (dinput_hook), and the  *)
(* engine's menus, which are modelled from what the harness expects of them. *)
EXTENDS Naturals, Sequences, SequencesExt, FiniteSets

CONSTANTS
    NONE,                  \* no key, no screen
    MaxDepth,              \* kMaxStackDepth: what the mirror can hold
    MaxStack,              \* bound on the engine's screen stack
    Polls                  \* how many polls an injected key stays down

VARIABLES
    stack,                 \* the engine's screen stack
    mirror,                \* g_screen_stack
    captured,              \* g_captured_manager is set: ready()
    injected,              \* g_inject_kb_scan and g_inject_kb_remaining
    held_key,              \* the key the engine saw in its last poll
    highlight,             \* the entry the main menu highlights
    world,                 \* the title, menus opening or up, a level loading or up
    loaded                 \* history: the saved game was loaded

menuVars == <<stack, mirror, captured, injected, held_key, highlight, world, loaded>>

ASSUME KeyAssumption == NONE \notin {"down", "return"} /\ Polls \in Nat

NoKey == [scan |-> NONE, left |-> 0]

MenusInit ==
    /\ stack = <<>> /\ mirror = <<>> /\ captured = FALSE
    /\ injected = NoKey /\ held_key = NONE
    /\ highlight \in {"new", "load"} /\ world = "title" /\ loaded = FALSE

-----------------------------------------------------------------------------
(* screen_push. *)

TopOf(names) == IF names = <<>> THEN "<startup>" ELSE Last(names)
Mirrored(name) == IF Len(mirror) < MaxDepth THEN Append(mirror, name) ELSE mirror

\* A push the engine refuses still captures the manager.
HkScreenPush(name, ok) ==
    /\ captured' = TRUE
    /\ stack' = IF ok THEN Append(stack, name) ELSE stack
    /\ mirror' = IF ok THEN Mirrored(name) ELSE mirror
HkScreenPop ==
    /\ stack' = Front(stack)
    /\ mirror' = IF mirror = <<>> THEN <<>> ELSE Front(mirror)
    /\ UNCHANGED captured

Ready == captured
CurrentTopName == TopOf(mirror)
StackDepth == Len(mirror)

-----------------------------------------------------------------------------
(* dinput_hook. *)

InjectKeypress(k) == injected' = [scan |-> k, left |-> Polls]
PolledKey == IF injected.left > 0 THEN injected.scan ELSE NONE

-----------------------------------------------------------------------------
(* The engine.  A key acts on the poll that first sees it down, and not      *)
(* always: during a fade it is lost.                                         *)

Stays == UNCHANGED <<stack, mirror, captured, highlight, world, loaded>>

OnGameSelect(k) ==
    /\ TopOf(stack) = "GameSelectScreen"
    /\ \/ /\ k = "down" /\ highlight' = IF highlight = "new" THEN "load" ELSE "new"
          /\ UNCHANGED <<stack, mirror, captured, world, loaded>>
       \/ /\ k = "return" /\ highlight = "load" /\ HkScreenPush("WilburNewLoadSave", TRUE)
          /\ UNCHANGED <<highlight, world, loaded>>
       \/ /\ k = "return" /\ highlight = "new" /\ world' = "loading"
          /\ UNCHANGED <<stack, mirror, captured, highlight, loaded>>
\* Slot 1 may be empty: then the picker goes away and nothing is loaded.
OnSlotPicker(k) ==
    /\ TopOf(stack) = "WilburNewLoadSave" /\ k = "return"
    /\ \/ HkScreenPush("WilburMainMenu", TRUE) /\ loaded' = TRUE
       \/ HkScreenPop /\ UNCHANGED loaded
    /\ UNCHANGED <<highlight, world>>
\* CONTINUE GAME, or the wrong entry, which opens the picker once more.
OnMainMenu(k) ==
    /\ TopOf(stack) = "WilburMainMenu" /\ k = "return"
    /\ \/ world' = "loading" /\ UNCHANGED <<stack, mirror, captured>>
       \/ HkScreenPush("WilburNewLoadSave", TRUE) /\ UNCHANGED world
    /\ UNCHANGED <<highlight, loaded>>

React(k) ==
    \/ /\ world = "title" /\ world' = "opening"
       /\ UNCHANGED <<stack, mirror, captured, highlight, loaded>>
    \/ /\ world = "menus" /\ Len(stack) < MaxStack
       /\ OnGameSelect(k) \/ OnSlotPicker(k) \/ OnMainMenu(k)

Poll ==
    /\ injected' = IF injected.left <= 1 THEN NoKey ELSE [injected EXCEPT !.left = @ - 1]
    /\ held_key' = PolledKey
    /\ \/ Stays
       \/ PolledKey \notin {NONE, held_key} /\ React(PolledKey)

\* Some time after the key the main menu opens; a push may be refused first.
MenuOpens ==
    /\ world = "opening"
    /\ \E ok \in BOOLEAN : HkScreenPush("GameSelectScreen", ok) /\ world' = IF ok THEN "menus" ELSE "title"
    /\ UNCHANGED <<injected, held_key, highlight, loaded>>
\* A level comes up, and is left for another one.
LevelMoves ==
    /\ \/ world = "loading" /\ world' = "level"
       \/ world = "level" /\ world' = "loading"
    /\ UNCHANGED <<stack, mirror, captured, injected, held_key, highlight, loaded>>

=============================================================================
