-------------------------- MODULE HarnessScenarios --------------------------
(* The scripts of the test harness: what each scenario does in one frame.    *)
(* A count of frames is kept only where the code waits for it; keys that are *)
(* pressed "every so often" may be pressed in any frame.                     *)
EXTENDS GameMenus

CONSTANTS
    Waits,                 \* the waits of the scenarios, in frames
    Labels                 \* what a walk of the transform list may meet

VARIABLES
    phase, wait,           \* the scenario's phase and the frames it still waits
    baseline, observed,    \* menu-nav-smoke: the menu it left, and a change seen
    overlay,               \* the overlay under test: its switches and its export
    seen_visible,          \* s_max_visible_seen is positive
    peer_known, has_remote,\* the co-op session, for coop-lan-soak
    fires_p2, fires_base,  \* polls of the second controller, and at soak start
    writing                \* the result the harness is writing

coopVars == <<peer_known, has_remote, fires_p2>>
smokeVars == <<baseline, observed>>
overlayVars == <<overlay, seen_visible>>
scriptVars == <<phase, wait, smokeVars, overlayVars, fires_base>>

ASSUME WaitsAssumption == \A w \in DOMAIN Waits : Waits[w] \in Nat \ {0}

OverlayOff == [enabled |-> FALSE, test_box |-> FALSE, export |-> 0, visible |-> 0]
Menu == [top |-> CurrentTopName, depth |-> StackDepth]

ScriptInit ==
    /\ phase = "boot" /\ wait = 0
    /\ baseline = [top |-> "<startup>", depth |-> 0] /\ observed = FALSE
    /\ overlay = OverlayOff /\ seen_visible = FALSE
    /\ peer_known = FALSE /\ has_remote = FALSE /\ fires_p2 = 0 /\ fires_base = 0
    /\ writing = NONE

-----------------------------------------------------------------------------
(* What the scripts share. *)

Pending == writing' = NONE
Verdict(r) == writing' = r
NoInput == UNCHANGED injected
MayPressReturn == NoInput \/ InjectKeypress("return")
AtMainMenu == Ready /\ CurrentTopName \in {"GameSelectScreen", "WilburMainMenu"}
IsInGameplay == world = "level"

Enter(p, frames) == phase' = p /\ wait' = frames
Waited == wait <= 1
Wait == wait' = IF wait = 0 THEN 0 ELSE wait - 1
KeepWaiting == ~Waited /\ Wait /\ UNCHANGED phase

\* Dismissing the title until the main menu is up: every script but the first
\* two also presses on when some other screen is on top.
Dismiss(presses_on) ==
    /\ ~AtMainMenu /\ Pending
    /\ IF Ready /\ ~presses_on THEN NoInput ELSE MayPressReturn
    /\ UNCHANGED scriptVars

-----------------------------------------------------------------------------
(* The scenarios that stay in the menus. *)

TickBootToMainMenu ==
    \/ Dismiss(FALSE)
    \/ AtMainMenu /\ Verdict("pass") /\ NoInput /\ UNCHANGED scriptVars

\* Hold at the menu and take screenshots; once detected the hold counts on, but
\* it ends only in a frame that finds the menu up.
TickVerifyMainMenuVisible ==
    \/ /\ ~AtMainMenu /\ Pending /\ MayPressReturn
       /\ IF phase = "hold" THEN Wait ELSE UNCHANGED wait
       /\ UNCHANGED <<phase, smokeVars, overlayVars, fires_base>>
    \/ /\ AtMainMenu /\ NoInput /\ UNCHANGED <<smokeVars, overlayVars, fires_base>>
       /\ \/ phase = "boot" /\ Enter("hold", Waits.hold) /\ Pending
          \/ phase = "hold" /\ KeepWaiting /\ Pending
          \/ phase = "hold" /\ Waited /\ UNCHANGED <<phase, wait>> /\ Verdict("pass")

\* The probe's findings are all there is to pass on.
TickWidgetProbe ==
    \/ /\ ~AtMainMenu /\ Pending /\ (IF Ready THEN NoInput ELSE MayPressReturn)
       /\ IF phase = "armed" THEN Wait ELSE UNCHANGED wait
       /\ UNCHANGED <<phase, smokeVars, overlayVars, fires_base>>
    \/ /\ AtMainMenu /\ NoInput /\ UNCHANGED <<smokeVars, overlayVars, fires_base>>
       /\ \/ phase = "boot" /\ Enter("armed", Waits.hold) /\ Pending
          \/ phase = "armed" /\ KeepWaiting /\ Pending
          \/ /\ phase = "armed" /\ Waited /\ UNCHANGED <<phase, wait>>
             /\ \E r \in {"pass", "fail"} : Verdict(r)

TickHoldAtMenu ==
    \/ Dismiss(TRUE)
    \/ AtMainMenu /\ Pending /\ NoInput /\ UNCHANGED scriptVars

\* Does an injected key reach the menus?  Any change since the baseline counts,
\* from the first frame after it on.
Observes == observed' = (observed \/ Menu # baseline)
SmokeStep(from, to, frames) == phase = from /\ Waited /\ Enter(to, frames) /\ Pending
TickMenuNavSmoke ==
    \/ phase = "boot" /\ Dismiss(TRUE)
    \/ /\ phase = "boot" /\ AtMainMenu /\ Enter("settle", Waits.settle) /\ Pending
       /\ baseline' = Menu /\ NoInput /\ UNCHANGED <<observed, overlayVars, fires_base>>
    \/ /\ phase # "boot" /\ Observes
       /\ UNCHANGED <<baseline, overlayVars, fires_base>>
       /\ \/ phase # "evaluate" /\ KeepWaiting /\ Pending /\ NoInput
          \/ SmokeStep("settle", "down", Waits.down + 1) /\ InjectKeypress("down")
          \/ SmokeStep("down", "return", Waits.down + 1) /\ InjectKeypress("return")
          \/ SmokeStep("return", "evaluate", 0) /\ NoInput
          \/ /\ phase = "evaluate" /\ UNCHANGED <<phase, wait>> /\ NoInput
             /\ Verdict(IF observed' THEN "pass" ELSE "fail")

-----------------------------------------------------------------------------
(* The overlays: drawn later in the same frame as the script's tick.  A      *)
(* frame in which the matrices cannot be read is neither drawn nor exported. *)

\* The NPC walk stops at the first entity that faults; the prop walk skips it.
NpcLabels(list) ==
    LET faults == {i \in DOMAIN list : list[i] = "fault"}
        walked == {i \in DOMAIN list : \A f \in faults : i < f}
    IN  Cardinality({i \in walked : list[i] = "shown"})
PropLabels(list) == Cardinality({i \in DOMAIN list : list[i] = "shown"})
TriggerBoxes(o, inside) == IF o.test_box /\ inside THEN 1 ELSE 0

Drawn(o, n) == [o EXCEPT !.visible = n, !.export = IF @ > 0 THEN @ - 1 ELSE 0]
NotDrawn(o) == [o EXCEPT !.visible = 0]
TriggerTick(o) == {Drawn(o, TriggerBoxes(o, inside)) : inside \in BOOLEAN} \cup {NotDrawn(o)}
NpcTick(o) == {Drawn(o, NpcLabels(list)) : list \in Labels} \cup {NotDrawn(o)}
PropTick(o) == {Drawn(o, PropLabels(list)) : list \in Labels} \cup {NotDrawn(o)}

\* The script arms the overlay with the switches it wants, and the overlay's
\* own tick Tick follows, also in the frame of the arming.
Armed(with_box) == [enabled |-> TRUE, test_box |-> with_box, export |-> Waits.export, visible |-> 0]
OverlayTicks(o, ticked) == overlay' \in IF o.enabled THEN ticked ELSE {NotDrawn(o)}

Arming ==
    \/ /\ phase = "boot" /\ wait' = Waits.settle /\ phase' = "settle" /\ UNCHANGED overlayVars
    \/ /\ phase = "settle" /\ KeepWaiting /\ UNCHANGED overlayVars
ScriptBeforeArming ==
    \/ /\ phase # "armed" /\ ~AtMainMenu /\ Pending /\ MayPressReturn
       /\ IF phase = "settle" THEN Wait ELSE UNCHANGED wait
       /\ UNCHANGED <<phase, overlayVars>>
    \/ phase # "armed" /\ AtMainMenu /\ Pending /\ NoInput /\ Arming
Seen == seen_visible' = (seen_visible \/ overlay.visible > 0)

\* Away from the main menu an armed script goes back to pressing keys, while
\* the overlay goes on exporting.
Strayed(ticked) ==
    /\ phase = "armed" /\ ~AtMainMenu /\ Pending /\ MayPressReturn
    /\ OverlayTicks(overlay, ticked) /\ UNCHANGED <<phase, wait, seen_visible>>
ArmNow(with_box, ticked) ==
    /\ phase = "settle" /\ AtMainMenu /\ Waited /\ Pending /\ NoInput
    /\ phase' = "armed" /\ wait' = 0 /\ OverlayTicks(Armed(with_box), ticked)
    /\ UNCHANGED seen_visible
Exporting(ticked) ==
    /\ phase = "armed" /\ AtMainMenu /\ overlay.export > 0 /\ Seen /\ Pending /\ NoInput
    /\ OverlayTicks(overlay, ticked) /\ UNCHANGED <<phase, wait>>
Exported(verdict) ==
    /\ phase = "armed" /\ AtMainMenu /\ overlay.export = 0 /\ Seen /\ NoInput
    /\ Verdict(verdict) /\ UNCHANGED <<phase, wait, overlay>>

TickOverlayPhase1Verify ==
    /\ UNCHANGED <<smokeVars, fires_base>>
    /\ \/ ScriptBeforeArming \/ ArmNow(TRUE, TriggerTick(Armed(TRUE)))
       \/ Strayed(TriggerTick(overlay)) \/ Exporting(TriggerTick(overlay))
       \/ Exported(IF seen_visible \/ overlay.visible > 0 THEN "pass" ELSE "fail")
TickNpcOverlayPhase1Verify ==
    /\ UNCHANGED <<smokeVars, fires_base>>
    /\ \/ ScriptBeforeArming \/ ArmNow(FALSE, NpcTick(Armed(FALSE)))
       \/ Strayed(NpcTick(overlay)) \/ Exporting(NpcTick(overlay)) \/ Exported("pass")
TickPropOverlayPhase1Verify ==
    /\ UNCHANGED <<smokeVars, fires_base>>
    /\ \/ ScriptBeforeArming \/ ArmNow(FALSE, PropTick(Armed(FALSE)))
       \/ Strayed(PropTick(overlay)) \/ Exporting(PropTick(overlay)) \/ Exported("pass")

-----------------------------------------------------------------------------
(* drive_to_gameplay: load slot 1 and continue the game.  Drive is the step  *)
(* of one frame; it is over once the phase is "driven".                      *)

DriveBoot ==
    \/ phase = "boot" /\ Dismiss(TRUE)
    \/ phase = "boot" /\ AtMainMenu /\ Enter("settle", Waits.settle) /\ Pending /\ NoInput
DriveSettle ==
    /\ phase = "settle" /\ Pending /\ NoInput
    /\ \/ KeepWaiting
       \/ Waited /\ Enter("drive_idle", 0)

\* DOWN, then RETURN, and again, until the slot picker is on top.
PickerUp == Ready /\ CurrentTopName = "WilburNewLoadSave"
DriveLoadButton ==
    /\ phase \in {"drive_idle", "drive_down", "drive_return"} /\ Pending
    /\ \/ PickerUp /\ Enter("slot", Waits.slot) /\ NoInput
       \/ /\ ~PickerUp
          /\ \/ phase = "drive_idle" /\ Enter("drive_down", Waits.down) /\ InjectKeypress("down")
             \/ phase # "drive_idle" /\ KeepWaiting /\ NoInput
             \/ phase = "drive_down" /\ Waited /\ Enter("drive_return", Waits.retry) /\ InjectKeypress("return")
             \/ phase = "drive_return" /\ Waited /\ Enter("drive_idle", 0) /\ NoInput
DriveSlotConfirm ==
    /\ phase = "slot" /\ Pending
    /\ \/ ~PickerUp /\ Enter("continue_unseen", 0) /\ NoInput
       \/ /\ PickerUp /\ UNCHANGED phase
          /\ \/ ~Waited /\ Wait /\ NoInput
             \/ Waited /\ wait' = Waits.retry /\ InjectKeypress("return")

\* The level has no screen of its own: the player's entity tells it is up.
ContinueUp == Ready /\ CurrentTopName = "WilburMainMenu"
TooDeep == StackDepth >= 4
DriveContinueGame ==
    /\ phase \in {"continue_unseen", "continue"} /\ ~TooDeep /\ Pending
    /\ \/ IsInGameplay /\ Enter("ingame", Waits.settle) /\ NoInput
       \/ /\ ~IsInGameplay /\ ~ContinueUp /\ UNCHANGED phase /\ Wait /\ NoInput
       \/ /\ ~IsInGameplay /\ ContinueUp /\ phase = "continue_unseen"
          /\ Enter("continue", Waits.slot) /\ NoInput
       \/ /\ ~IsInGameplay /\ ContinueUp /\ phase = "continue" /\ KeepWaiting /\ NoInput
       \/ /\ ~IsInGameplay /\ ContinueUp /\ phase = "continue" /\ Waited
          /\ wait' = Waits.retry /\ UNCHANGED phase /\ InjectKeypress("return")
DriveFails ==
    /\ phase \in {"continue_unseen", "continue"} /\ TooDeep
    /\ Verdict("fail") /\ NoInput /\ UNCHANGED <<phase, wait>>
\* The settling looks at the level only to log it.
DriveSettleInGameplay ==
    /\ phase = "ingame" /\ Pending /\ NoInput
    /\ \/ KeepWaiting
       \/ Waited /\ Enter("driven", 0)

DriveToGameplay ==
    /\ UNCHANGED <<smokeVars, overlayVars, fires_base>>
    /\ \/ DriveBoot \/ DriveSettle \/ DriveLoadButton \/ DriveSlotConfirm
       \/ DriveContinueGame \/ DriveFails \/ DriveSettleInGameplay

\* Spawn the orphan, soak, report.  A refused spawn is reported as a pass too.
LoadSave1 ==
    /\ UNCHANGED <<smokeVars, overlayVars, fires_base>> /\ NoInput
    /\ \/ phase = "driven" /\ Pending /\ (Enter("soak", Waits.soak) \/ Enter("report", Waits.settle))
       \/ phase = "soak" /\ IsInGameplay /\ KeepWaiting /\ Pending
       \/ phase = "soak" /\ IsInGameplay /\ Waited /\ Enter("report", Waits.settle) /\ Pending
       \/ phase = "soak" /\ ~IsInGameplay /\ UNCHANGED <<phase, wait>> /\ Verdict("fail")
       \/ phase = "report" /\ KeepWaiting /\ Pending
       \/ phase = "report" /\ Waited /\ UNCHANGED <<phase, wait>> /\ Verdict("pass")
TickLoadSave1ShowIngame == DriveToGameplay \/ LoadSave1

\* Wait for the peer and its avatar, then soak: the second controller must not
\* be polled.
StartSoak ==
    /\ phase = "driven" /\ peer_known /\ has_remote /\ Pending
    /\ Enter("soak", Waits.soak) /\ fires_base' = fires_p2
WaitForPeer ==
    /\ phase = "driven" /\ ~(peer_known /\ has_remote) /\ UNCHANGED fires_base
    /\ \/ Pending /\ UNCHANGED <<phase, wait>>
       \/ Verdict("fail") /\ UNCHANGED <<phase, wait>>   \* no session, or 3600 frames over
\* Mutant of SoakFrame: only a frame with two polls counts as a leak.
SoakFrameRebased ==
    /\ phase = "soak" /\ fires_base' = fires_p2
    /\ IF ~IsInGameplay \/ fires_p2 > fires_base + 1
       THEN UNCHANGED <<phase, wait>> /\ Verdict("fail")
       ELSE Pending /\ (KeepWaiting \/ (Waited /\ Enter("report", Waits.settle)))
SoakFrame ==
    /\ phase = "soak" /\ UNCHANGED fires_base
    /\ IF ~IsInGameplay \/ fires_p2 > fires_base
       THEN UNCHANGED <<phase, wait>> /\ Verdict("fail")
       ELSE /\ Pending
            /\ \/ KeepWaiting
               \/ Waited /\ Enter("report", Waits.settle)
LanReport ==
    /\ phase = "report" /\ UNCHANGED fires_base
    /\ \/ KeepWaiting /\ Pending
       \/ Waited /\ UNCHANGED <<phase, wait>> /\ Verdict("pass")
TickCoopLanSoak ==
    \/ DriveToGameplay
    \/ /\ UNCHANGED <<smokeVars, overlayVars>> /\ NoInput
       /\ StartSoak \/ WaitForPeer \/ SoakFrame \/ LanReport

=============================================================================
