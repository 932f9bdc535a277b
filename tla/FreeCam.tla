------------------------------ MODULE FreeCam ------------------------------
(***************************************************************************)
(* The free camera and who owns the mouse: F3 and the Camera tab switch    *)
(* the flight on and off, the middle button and a button of the tab ask    *)
(* for a teleport, Insert opens the menu and F2 the console, and in every  *)
(* frame of a flight the cursor is put back into the middle of the window  *)
(* in front, so that its next offset is what the mouse moved.              *)
(*                                                                         *)
(* The main thread goes through the engine's camera pass and the steps of  *)
(* on_end_scene: poll, hotkey, tick, draw.  Keys, mouse and focus change   *)
(* between any two of them, and the low-level mouse hook has a thread of   *)
(* its own.  Where a teleport ends is TeleportHold's part.                 *)
(***************************************************************************)
EXTENDS Naturals

CONSTANTS
    Window,    \* the windows that may be in front
    NONE       \* no window is

ASSUME WindowAssumption == NONE \notin Window

Key == {"insert", "f2", "f3", "mmb"}

VARIABLES
    pc,
    \* the user and the system
    down,      \* the keys and buttons that are down
    front,     \* GetForegroundWindow
    centred,   \* the cursor is in the middle of that window
    \* menu.cpp, console.cpp, input_hook.cpp
    was,       \* prev_ins, prev, prev_f3, prev_mmb_freecam
    menu, console,
    \* freecam.cpp
    active, pose_seeded, ui_visible, pending_mmb, wheel_accum, skip_first,
    clocked,   \* g_qpc_last is set: there has been a tick
    \* history
    asked,     \* a teleport has been asked for in this flight
    wheeled,   \* the wheel has been turned in this flight
    anchor,    \* the window the cursor was last centred in, NONE if a tick has
               \* left it to somebody else since
    refocused, \* another window came to the front since
    shown,     \* what was open when the last frame was drawn
    did        \* what this frame's tick did

userVars == <<down, front, centred>>
uiVars == <<was, menu, console>>
camVars == <<active, pose_seeded, ui_visible, pending_mmb, wheel_accum,
             skip_first, clocked>>
historyVars == <<asked, wheeled, anchor, refocused, shown, did>>
vars == <<pc, userVars, uiVars, camVars, historyVars>>

Open == {w \in {"menu", "console"} : IF w = "menu" THEN menu ELSE console}
Nothing == [look |-> FALSE, centre |-> FALSE, speed |-> FALSE, teleport |-> FALSE]

Init ==
    /\ pc = "camera"
    /\ down = {} /\ front \in Window /\ centred = FALSE
    /\ was = {} /\ menu = FALSE /\ console = FALSE
    /\ active = FALSE /\ pose_seeded = FALSE /\ ui_visible = FALSE
    /\ pending_mmb = FALSE /\ wheel_accum = FALSE /\ skip_first = TRUE
    /\ clocked = FALSE
    /\ asked = FALSE /\ wheeled = FALSE /\ anchor = NONE /\ refocused = FALSE
    /\ shown = {} /\ did = Nothing

-----------------------------------------------------------------------------
(* The user.                                                               *)

PressOrRelease ==
    /\ \E k \in Key : down' = (down \ {k}) \cup ({k} \ down)
    /\ UNCHANGED <<pc, front, centred, uiVars, camVars, historyVars>>

MoveMouse ==
    /\ centred' = FALSE
    /\ UNCHANGED <<pc, down, front, uiVars, camVars, historyVars>>

SwitchWindow ==
    /\ front' \in (Window \cup {NONE}) \ {front}
    /\ centred' = FALSE /\ refocused' = TRUE
    /\ UNCHANGED <<pc, down, uiVars, camVars, asked, wheeled, anchor, shown, did>>

\* mouse_ll_proc: with the UI open the wheel goes to ImGui's queue.
TurnWheel ==
    /\ IF Open = {} /\ active THEN wheel_accum' = TRUE /\ wheeled' = TRUE
                            ELSE UNCHANGED <<wheel_accum, wheeled>>
    /\ UNCHANGED <<pc, userVars, uiVars, active, pose_seeded, ui_visible,
                   pending_mmb, skip_first, clocked,
                   asked, anchor, refocused, shown, did>>

-----------------------------------------------------------------------------
\* hk_PerCameraApply and on_engine_view: the first pass of the main camera in
\* a flight gives it its pose.  Loading screens have no main camera.
CameraPass ==
    /\ pc = "camera" /\ pc' = "poll"
    /\ pose_seeded' \in {pose_seeded, pose_seeded \/ active}
    /\ UNCHANGED <<userVars, uiVars, active, ui_visible, pending_mmb,
                   wheel_accum, skip_first, clocked, historyVars>>

-----------------------------------------------------------------------------
Edge(k) == k \in down \ was
Seen(keys) == (was \ keys) \cup (down \cap keys)

\* set_active.  What was asked for in a flight ends with it.
SetActive(a) ==
    /\ active' = a
    /\ pose_seeded' = (pose_seeded /\ (a => active))
    /\ IF a = active THEN UNCHANGED wheeled ELSE wheeled' = FALSE

\* poll_input_to_imgui: the camera is told of the console as it was before
\* this frame's F2.
UiOpenNow == menu' \/ console

Poll ==
    /\ pc = "poll" /\ pc' = "hotkey"
    /\ menu' = (menu # Edge("insert"))
    /\ SetActive(active # Edge("f3"))
    /\ LET requests == Edge("mmb") /\ active'
       IN /\ pending_mmb' = (pending_mmb \/ requests)
          /\ asked' = (requests \/ (asked /\ active' = active))
    /\ ui_visible' = UiOpenNow
    /\ was' = Seen({"insert", "f3", "mmb"})
    /\ UNCHANGED <<userVars, console, wheel_accum, skip_first, clocked,
                   anchor, refocused, shown, did>>

\* console::poll_hotkey.
Hotkey ==
    /\ pc = "hotkey" /\ pc' = "tick"
    /\ console' = (console # Edge("f2"))
    /\ was' = Seen({"f2"})
    /\ UNCHANGED <<userVars, menu, camVars, historyVars>>

-----------------------------------------------------------------------------
(* freecam::tick.                                                          *)

\* The first tick only starts the clock; what is pending waits.
FirstTick ==
    /\ ~clocked /\ clocked' = TRUE
    /\ did' = Nothing
    /\ UNCHANGED <<centred, pending_mmb, wheel_accum, skip_first,
                   asked, wheeled, anchor, refocused>>

\* The exchanges come before the test of active: nothing waits for a flight.
LeftWaiting(x) == x
Left(x) == FALSE

TickIdle ==
    /\ clocked /\ ~active
    /\ pending_mmb' = Left(pending_mmb) /\ wheel_accum' = Left(wheel_accum)
    /\ skip_first' = TRUE /\ anchor' = NONE
    /\ did' = Nothing
    /\ UNCHANGED <<centred, clocked, asked, wheeled, refocused>>

\* With the UI open the cursor is left alone, and so is the first offset after;
\* without a window in front nothing is done at all.
SkipAsBefore == skip_first
SkipAfterUi == TRUE

Centres == ~ui_visible /\ front # NONE

MouseLook ==
    \/ /\ ui_visible
       /\ skip_first' = SkipAfterUi /\ anchor' = NONE
       /\ UNCHANGED <<centred, refocused>>
    \/ /\ ~ui_visible /\ front = NONE
       /\ UNCHANGED <<centred, skip_first, anchor, refocused>>
    \/ /\ Centres
       /\ centred' = TRUE /\ skip_first' = FALSE
       /\ anchor' = front /\ refocused' = FALSE

TickFlight ==
    /\ clocked /\ active
    /\ MouseLook
    /\ did' = [look |-> Centres /\ ~skip_first /\ ~centred, centre |-> Centres,
                speed |-> wheel_accum, teleport |-> pending_mmb]
    /\ pending_mmb' = FALSE /\ wheel_accum' = FALSE /\ asked' = FALSE
    /\ UNCHANGED <<clocked, wheeled>>

Tick ==
    /\ pc = "tick" /\ pc' = "draw"
    /\ FirstTick \/ TickIdle \/ TickFlight
    /\ UNCHANGED <<down, front, uiVars, active, pose_seeded, ui_visible, shown>>

-----------------------------------------------------------------------------
(* The rest of on_end_scene: the Camera tab of the menu.                   *)

ClickToggle ==
    /\ menu
    /\ SetActive(~active)
    /\ asked' = FALSE
    /\ UNCHANGED pending_mmb

ClickTeleport ==
    /\ menu /\ active
    /\ pending_mmb' = TRUE /\ asked' = TRUE
    /\ UNCHANGED <<active, pose_seeded, wheeled>>

ClickNothing == UNCHANGED <<active, pose_seeded, wheeled, pending_mmb, asked>>

Draw ==
    /\ pc = "draw" /\ pc' = "camera"
    /\ ClickNothing \/ ClickToggle \/ ClickTeleport
    /\ shown' = Open
    /\ did' = Nothing
    /\ UNCHANGED <<userVars, uiVars, ui_visible, wheel_accum, skip_first,
                   clocked, anchor, refocused>>

Next == \/ PressOrRelease \/ MoveMouse \/ SwitchWindow \/ TurnWheel
        \/ CameraPass \/ Poll \/ Hotkey \/ Tick \/ Draw

Spec == Init /\ [][Next]_vars

-----------------------------------------------------------------------------
\* A step of freecam::tick that does what.
Ticked(what) == pc = "tick" /\ pc' = "draw" /\ did'[what]

\* A flight serves what was asked for in it: no teleport and no change of speed
\* is left over from an earlier one, however keys and clicks end and begin
\* flights between two ticks.
NothingLeftOver ==
    [][(Ticked("teleport") => asked) /\ (Ticked("speed") => wheeled)]_vars

\* The view turns only by what the mouse has moved since the camera itself put
\* the cursor into the middle: no jump after the menu, the console or a new
\* flight, as long as the same window stays in front.
LookIsMeasured == [][Ticked("look") /\ ~refocused => anchor = front]_vars

\* A window that was drawn in the last frame and is still open keeps the
\* cursor.
CursorLeftToUi == [][Ticked("centre") => shown \cap Open = {}]_vars
=============================================================================
