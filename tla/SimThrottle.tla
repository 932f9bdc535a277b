---------------------------- MODULE SimThrottle ----------------------------
(***************************************************************************)
(* The simulation throttle: one iteration of the engine's pump after the   *)
(* other, which of its consumers of time advance in it, and what the menu  *)
(* may change in between.                                                  *)
(*                                                                         *)
(* An iteration of the main pump is: simulation, camera, render path,      *)
(* EndScene, post-render sweep.  The alt pump runs its own consumers       *)
(* before the simulation and has no sweep.  Time (QueryPerformanceCounter) *)
(* passes before an iteration and while the simulation runs; the readings  *)
(* of one hook are taken as one.                                           *)
(***************************************************************************)
EXTENDS Integers

CONSTANTS
    Freq,       \* counts of QueryPerformanceCounter in a second
    Rates,      \* the rates the slider offers, of which
    BaseRate,   \* this one, 60 Hz, is the default
    Gaps,       \* bound: time from one iteration to the next
    MaxSimTime, \* bound: time the simulation takes
    MaxNow,     \* bound: the last reading of the counter
    MaxEdits    \* bound: uses of the menu

\* set_target_hz clamps to 15 .. 480: a period is neither nothing nor more
\* than the half second of the drift cap.
HalfSecond == Freq \div 2
ASSUME RateAssumption ==
    /\ Freq \in Nat /\ Rates \subseteq Nat \ {0} /\ BaseRate \in Rates
    /\ \A r \in Rates : Freq \div r \in 1 .. HalfSecond
ASSUME TimeAssumption ==
    /\ Gaps \subseteq Nat \ {0} /\ {MaxSimTime, MaxEdits} \subseteq Nat
    /\ MaxNow \in Nat \ {0}

VARIABLES
    now,          \* the counter
    pc,           \* what the iteration does next
    pump,         \* whose iteration it is
    cfg,          \* the settings the menu shows
    edits,        \* how often the menu has been used
    minigame,     \* g_minigame_detected
    lastSim,      \* g_last_sim_qpc
    lastPathcam,  \* g_last_pathcam_qpc
    simRan,       \* g_sim_ran_last_iteration
    simTicked     \* g_sim_ticked_this_render_frame

throttleVars == <<now, pc, pump, cfg, edits, minigame, lastSim, lastPathcam,
                  simRan, simTicked>>

Scales == {"real", "slowmo", "off", "lock"}   \* TimeScale
Settings == [throttle : BOOLEAN, hz : Rates, autoDisable : BOOLEAN,
             dt : BOOLEAN, scale : Scales, view : BOOLEAN]

ThrottleInit ==
    /\ now = 1 /\ pc = "idle" /\ pump = "main"
    /\ cfg = [throttle |-> FALSE, hz |-> BaseRate, autoDisable |-> TRUE,
              dt |-> TRUE, scale |-> "real", view |-> FALSE]
    /\ edits = 0 /\ minigame = FALSE
    /\ lastSim = 0 /\ lastPathcam = 0
    /\ simRan = TRUE /\ simTicked = FALSE

-----------------------------------------------------------------------------
(* The gates. *)

Period == Freq \div cfg.hz

\* effective_is_throttling_impl
EffectiveThrottling == cfg.throttle /\ ~(cfg.autoDisable /\ minigame)

\* subsystem_throttles_active
SubsystemThrottles == EffectiveThrottling /\ (cfg.dt => cfg.scale = "lock")

\* What the hooks on the overlay, the UV animator, the post-render sweep and
\* the consumers of the alt pump ask.
VisualsMove == SubsystemThrottles => simRan

\* hk_sub_4F45F0: in the lock mode particles get a dt of 0 between ticks.
ParticlesMove == cfg.dt /\ cfg.scale = "lock" => simTicked

\* should_skip, when it is the clock `last' that decides at time t.
Due(last, t) == last = 0 \/ t - last >= Period

\* And what it makes of that clock when it does not skip.
AdvancedUncapped(last, t) == IF last = 0 THEN t ELSE last + Period
Advanced(last, t) ==
    IF last = 0 THEN t
    ELSE IF t - (last + Period) > HalfSecond THEN t - Period
    ELSE last + Period

-----------------------------------------------------------------------------
(* The iteration. *)

TimePasses(d) == now + d <= MaxNow /\ now' = now + d

MainPump ==
    /\ pc = "idle" /\ pc' = "sim" /\ pump' = "main"
    /\ \E d \in Gaps : TimePasses(d)
    /\ UNCHANGED <<cfg, edits, minigame, lastSim, lastPathcam, simRan, simTicked>>

\* The timer wheel, the audio sweep, the wave grid, the chains, the managed
\* objects and the subsystem sweep all ask the same question, still about the
\* iteration before.
AltPump ==
    /\ pc = "idle" /\ pc' = "sim" /\ pump' = "alt"
    /\ \E d \in Gaps : TimePasses(d)
    /\ UNCHANGED <<cfg, edits, minigame, lastSim, lastPathcam, simRan, simTicked>>

\* hk_sim_aggregator returns without the simulation.
RanAfterSkipStale == TRUE
RanAfterSkip == FALSE

SimSkip ==
    /\ pc = "sim" /\ pc' = "camera"
    /\ EffectiveThrottling /\ ~Due(lastSim, now)
    /\ simRan' = RanAfterSkip
    /\ UNCHANGED <<now, pump, cfg, edits, minigame, lastSim, lastPathcam,
                   simTicked>>

\* It runs the simulation, which takes until the end of this step, so the
\* clock is set by the time before it.
SimRun ==
    /\ pc = "sim" /\ pc' = "camera"
    /\ EffectiveThrottling => Due(lastSim, now)
    /\ lastSim' = IF EffectiveThrottling THEN Advanced(lastSim, now) ELSE lastSim
    /\ simRan' = TRUE /\ simTicked' = TRUE
    /\ \E d \in 0 .. MaxSimTime : TimePasses(d)
    /\ UNCHANGED <<pump, cfg, edits, minigame, lastPathcam>>

\* hk_camera_apply_all_active: nothing of the throttle's.
Camera ==
    /\ pc = "camera" /\ pc' = "render"
    /\ UNCHANGED <<now, pump, cfg, edits, minigame, lastSim, lastPathcam, simRan,
                   simTicked>>

\* The overlay, the UV animator and the particles move or not; the path camera
\* has a clock of its own.
Render ==
    /\ pc = "render" /\ pc' = "endscene"
    /\ lastPathcam' = IF SubsystemThrottles /\ Due(lastPathcam, now)
                      THEN Advanced(lastPathcam, now) ELSE lastPathcam
    /\ UNCHANGED <<now, pump, cfg, edits, minigame, lastSim, simRan, simTicked>>

\* The Performance tab: check boxes, slider, combo (shown with dt only) and
\* preset buttons.
Preset(c, view) ==
    [c EXCEPT !.dt = TRUE, !.throttle = TRUE, !.hz = BaseRate, !.view = view,
              !.autoDisable = TRUE]
Menu(c) ==
    {[c EXCEPT !.throttle = ~@], [c EXCEPT !.autoDisable = ~@],
     [c EXCEPT !.dt = ~@], [c EXCEPT !.view = ~@],
     Preset(c, TRUE), Preset(c, FALSE),
     [c EXCEPT !.dt = FALSE, !.throttle = FALSE, !.view = FALSE]}
    \cup {[c EXCEPT !.hz = r] : r \in Rates}
    \cup {[c EXCEPT !.scale = s] : s \in IF c.dt THEN Scales ELSE {c.scale}}

\* hk_EndScene: on_render_frame takes the screens that are open into account,
\* then the menu is drawn.
TickedAfterFrameKept == simTicked
TickedAfterFrame == FALSE

EndScene ==
    /\ pc = "endscene"
    /\ pc' = IF pump = "main" THEN "post" ELSE "idle"
    /\ simTicked' = TickedAfterFrame
    /\ minigame' \in BOOLEAN
    /\ \/ UNCHANGED <<cfg, edits>>
       \/ edits < MaxEdits /\ edits' = edits + 1 /\ cfg' \in Menu(cfg)
    /\ UNCHANGED <<now, pump, lastSim, lastPathcam, simRan>>

\* hk_post_render_sweep: it moves or not.
PostRender ==
    /\ pc = "post" /\ pc' = "idle"
    /\ UNCHANGED <<now, pump, cfg, edits, minigame, lastSim, lastPathcam, simRan,
                   simTicked>>

ThrottleNext == \/ MainPump \/ AltPump \/ SimSkip \/ SimRun
                \/ Camera \/ Render \/ EndScene \/ PostRender

ThrottleSpec == ThrottleInit /\ [][ThrottleNext]_throttleVars

-----------------------------------------------------------------------------
\* The type invariant.
ThrottleTypeOK ==
    /\ now \in 1 .. MaxNow
    /\ pc \in {"idle", "sim", "camera", "render", "endscene", "post"}
    /\ pump \in {"main", "alt"} /\ cfg \in Settings /\ edits \in 0 .. MaxEdits
    /\ {minigame, simRan, simTicked} \subseteq BOOLEAN
    /\ {lastSim, lastPathcam} \subseteq Nat

\* The counter is unsigned: a clock ahead of it would make `now - prev' huge
\* and let every iteration tick.  No clock ever is, whatever the stalls and
\* the changes of rate.
ClocksBehindNow == lastSim <= now /\ lastPathcam <= now

\* In the lock mode the particles, which ask one flag, and the overlays, which
\* ask another, move in the same frames.
VisualsMoveTogether ==
    pc = "render" /\ cfg.dt /\ cfg.scale = "lock" =>
        (ParticlesMove <=> VisualsMove)
=============================================================================
