---------------------------- MODULE TestHarness -----------------------------
(* The in-process test harness: one scenario per process, ticked once per    *)
(* rendered frame, a watchdog, the result file the outer script waits for,   *)
(* and the two ways the process ends.  The crash handler writes the same     *)
(* file.  A count of frames is kept only where the code waits for it; the    *)
(* clock is the moment at which the time allowed is over.                    *)
EXTENDS HarnessScenarios, SaveLoad

CONSTANTS
    MaxFires,              \* bound on the polls of the second controller
    Scenarios              \* the command lines of a run

VARIABLES
    scenario,              \* -mtrasi-test= (fixed)
    with_port,             \* -mtrasi-coop-port= is given (fixed)
    port_set,              \* g_coop_port has been stored
    process,               \* starting, running, closing, killed, gone; leaving
                           \* and left when the user closes the window
    files,                 \* the result file of either name
    lost,                  \* a result whose file could not be opened
    g_terminated, expired, \* the scenario has ended; the time is over
    polled_in_soak, saved_over    \* history

endVars == <<files, lost, writing, g_terminated>>
fixedVars == <<scenario, with_port>>
vars == <<menuVars, saveVars, fixedVars, port_set, process, scriptVars, coopVars, endVars,
          expired, polled_in_soak, saved_over>>

OverlayScenarios == {"overlay-phase1-verify", "npc-overlay-phase1-verify", "prop-overlay-phase1-verify"}
DriveScenarios == {"load-save-1-show-ingame", "coop-lan-soak"}
MenuScenarios == {"boot-to-main-menu", "verify-main-menu-visible", "widget-probe",
                  "hold-at-menu", "menu-nav-smoke"}
Known == OverlayScenarios \cup DriveScenarios \cup MenuScenarios
Results == {"pass", "fail", "timeout"}
Lane == {"plain", "own"}

ASSUME ResultAssumption == NONE \notin Results \cup {"partial", "crash"}

Init ==
    /\ MenusInit /\ SaveInit
    /\ scenario \in Scenarios /\ with_port \in BOOLEAN /\ port_set = FALSE
    /\ ScriptInit /\ process = "starting"
    /\ files = [l \in Lane |-> NONE] /\ lost = NONE /\ g_terminated = FALSE /\ expired = FALSE
    /\ polled_in_soak = FALSE /\ saved_over = FALSE

-----------------------------------------------------------------------------
(* The result file and the end of the process. *)

ResultPath == IF port_set THEN "own" ELSE "plain"
Alive == process \in {"running", "closing", "leaving"}

\* write_result_json opens the file l here, which may fail; FinishWrite fills
\* and closes it.
OpensFile(l) ==
    \/ writing' = NONE /\ UNCHANGED <<files, lost>>
    \/ writing' # NONE /\ files' = [files EXCEPT ![l] = "partial"] /\ UNCHANGED lost
    \/ writing' # NONE /\ lost' = writing' /\ UNCHANGED files
EndsLikeAll == FALSE
EndsInGameplay == scenario \in DriveScenarios

\* PostMessage to the main window; without one the quit message goes to the
\* calling thread, which ends the game only if that is the game's own.
RequestShutdown == process' = "closing"
FinishWrite ==
    /\ Alive /\ writing # NONE
    /\ files' = IF lost = NONE THEN [files EXCEPT ![ResultPath] = writing] ELSE files
    /\ writing' = NONE
    /\ IF scenario \notin Known
       THEN process' \in {process, "closing"} /\ UNCHANGED g_terminated
       ELSE /\ g_terminated' = TRUE
            /\ IF writing # "timeout" /\ EndsInGameplay THEN process' = "killed"
               ELSE RequestShutdown
    /\ UNCHANGED <<menuVars, saveVars, fixedVars, port_set, scriptVars, coopVars, lost, expired,
                   polled_in_soak, saved_over>>

\* The user closes the window, with or without a verdict to come: the only end
\* of hold-at-menu before the watchdog.
UserCloses ==
    /\ process = "running" /\ process' = "leaving"
    /\ UNCHANGED <<menuVars, saveVars, fixedVars, port_set, scriptVars, coopVars, endVars,
                   expired, polled_in_soak, saved_over>>

\* WM_CLOSE, on the thread of the frames: the engine may save over the slot it
\* plays from.
EngineCloses ==
    /\ scenario \in Known => writing = NONE
    /\ \/ process = "closing" /\ process' = "gone"
       \/ process = "leaving" /\ process' = "left"
    /\ saved_over' \in IF world = "level" /\ loaded THEN {saved_over, TRUE} ELSE {saved_over}
    /\ UNCHANGED <<menuVars, saveVars, fixedVars, port_set, scriptVars, coopVars, endVars,
                   expired, polled_in_soak>>

\* An unhandled fault on any thread: the top-level filter adds a sentinel if
\* there is no file yet, and if it can open one.
Crash ==
    /\ process = "starting" \/ Alive
    /\ process' = "gone"
    /\ \/ files[ResultPath] # NONE /\ UNCHANGED <<files, lost>>
       \/ /\ files[ResultPath] = NONE /\ UNCHANGED lost
          /\ files' = [files EXCEPT ![ResultPath] = "crash"]
       \/ /\ files[ResultPath] = NONE /\ UNCHANGED files
          /\ lost' = IF lost = NONE THEN "crash" ELSE lost
    /\ UNCHANGED <<menuVars, saveVars, fixedVars, port_set, scriptVars, coopVars,
                   writing, g_terminated, expired, polled_in_soak, saved_over>>

\* install(), last of all on the start-up thread.
Install ==
    /\ process = "starting" /\ process' = "running"
    /\ port_set' = with_port
    /\ IF scenario \in Known THEN Pending ELSE Verdict("fail")
    /\ OpensFile(IF with_port THEN "own" ELSE "plain")
    /\ UNCHANGED <<menuVars, saveVars, fixedVars, scriptVars, coopVars, g_terminated, expired,
                   polled_in_soak, saved_over>>
-----------------------------------------------------------------------------
(* tick_impl, once per rendered frame. *)

TickScenario ==
    \/ scenario = "boot-to-main-menu" /\ TickBootToMainMenu
    \/ scenario = "verify-main-menu-visible" /\ TickVerifyMainMenuVisible
    \/ scenario = "widget-probe" /\ TickWidgetProbe
    \/ scenario = "hold-at-menu" /\ TickHoldAtMenu
    \/ scenario = "menu-nav-smoke" /\ TickMenuNavSmoke
    \/ scenario = "overlay-phase1-verify" /\ TickOverlayPhase1Verify
    \/ scenario = "npc-overlay-phase1-verify" /\ TickNpcOverlayPhase1Verify
    \/ scenario = "prop-overlay-phase1-verify" /\ TickPropOverlayPhase1Verify
    \/ scenario = "load-save-1-show-ingame" /\ TickLoadSave1ShowIngame
    \/ scenario = "coop-lan-soak" /\ TickCoopLanSoak

\* Mutant of Ticking: the scenario is ticked on after its verdict.
TickingOn == Alive /\ scenario \in Known /\ writing = NONE
Ticking == Alive /\ scenario \in Known /\ ~g_terminated /\ writing = NONE
FrameKeeps == UNCHANGED <<stack, mirror, captured, held_key, highlight, world, loaded, saveVars,
                          fixedVars, port_set, process, coopVars, g_terminated, expired,
                          polled_in_soak, saved_over>>

\* A fault in the tick is caught and is the scenario's failure.
TickFaults == Verdict("fail") /\ UNCHANGED <<injected, scriptVars>>
\* Mutant of TimesOut: no watchdog before the first screen.
TimesOutWhenReady == (IF Ready THEN Verdict("timeout") ELSE Pending) /\ UNCHANGED <<injected, scriptVars>>
TimesOut == Verdict("timeout") /\ UNCHANGED <<injected, scriptVars>>

Frame ==
    /\ Ticking
    /\ \/ expired /\ TimesOut
       \/ ~expired /\ (TickScenario \/ TickFaults)
    /\ OpensFile(ResultPath) /\ FrameKeeps

\* The time the command line allows is over.
Expire ==
    /\ process # "starting" /\ ~expired /\ expired' = TRUE
    /\ UNCHANGED <<menuVars, saveVars, fixedVars, port_set, process, scriptVars, coopVars,
                   endVars, polled_in_soak, saved_over>>

-----------------------------------------------------------------------------
(* What goes on around the frames. *)

Rest == UNCHANGED <<fixedVars, port_set, process, scriptVars, endVars, expired, saved_over>>

EnginePolls == Alive /\ Poll /\ UNCHANGED <<saveVars, coopVars, polled_in_soak>> /\ Rest
EngineMoves == Alive /\ (MenuOpens \/ LevelMoves) /\ UNCHANGED <<saveVars, coopVars, polled_in_soak>> /\ Rest

\* The peer's packets and the avatar come and go; the second controller must
\* not be polled, but may.
PeerChanges ==
    /\ Alive /\ scenario = "coop-lan-soak"
    /\ \/ ~peer_known /\ peer_known' = TRUE /\ UNCHANGED has_remote
       \/ peer_known /\ has_remote' = ~has_remote /\ UNCHANGED peer_known
    /\ UNCHANGED <<menuVars, saveVars, fires_p2, polled_in_soak>> /\ Rest
SecondIsPolled ==
    /\ Alive /\ scenario = "coop-lan-soak" /\ fires_p2 < MaxFires
    /\ fires_p2' = fires_p2 + 1 /\ polled_in_soak' = (polled_in_soak \/ phase = "soak")
    /\ UNCHANGED <<menuVars, saveVars, peer_known, has_remote>> /\ Rest

\* The scenario that only holds leaves the game to a user, who may try the
\* Debug tab's direct load.
UserLoads ==
    /\ Alive /\ scenario = "hold-at-menu" /\ SaveNext
    /\ UNCHANGED <<menuVars, coopVars, polled_in_soak>> /\ Rest

Next == \/ Install \/ Frame \/ FinishWrite \/ Expire \/ UserCloses \/ EngineCloses \/ Crash
        \/ EnginePolls \/ EngineMoves \/ PeerChanges \/ SecondIsPolled \/ UserLoads
Spec == Init /\ [][Next]_vars

\* Start-up ends, frames are drawn as long as the process lives, a write that
\* was begun is finished, and time passes.
LiveSpec == Spec /\ WF_vars(Install) /\ WF_vars(Frame) /\ WF_vars(FinishWrite) /\ WF_vars(Expire)

-----------------------------------------------------------------------------
(* Properties. *)

(* A result, once it is in the file, is the last word: no second verdict of  *)
(* the scenario, no late watchdog and no crash on the way down replaces it   *)
(* (g_terminated, and the filter that writes only where there is no file).   *)
ResultIsFinal ==
    [][\A l \in Lane : files[l] \in Results \cup {"crash"} => files'[l] = files[l]]_vars

(* The outer script never waits in vain: whatever the menus do, a run that   *)
(* was given a scenario, known or not, ends with a file, if only the         *)
(* watchdog's or the crash handler's, unless the file cannot be opened.  If  *)
(* the user closes the window first, the script sees the process exit.       *)
HarnessReports == <>(lost # NONE \/ process = "left" \/ \E l \in Lane : files[l] # NONE)

(* The two-process soak passes only if the second controller was left alone  *)
(* for the whole of it, polled before or not.                                *)
LanPassIsSilent ==
    scenario = "coop-lan-soak" /\ files[ResultPath] = "pass" => loaded /\ ~polled_in_soak

(* The drives of a saved game never end with the game saving over the slot   *)
(* they loaded, unless the watchdog ended them, which closes the window      *)
(* instead of killing the process, or the user closed it.                    *)
SlotIsSpared ==
    saved_over /\ scenario \in DriveScenarios =>
        "timeout" \in {files[ResultPath], lost} \/ process = "left"

=============================================================================
