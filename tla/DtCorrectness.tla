--------------------------- MODULE DtCorrectness ---------------------------
(***************************************************************************)
(* What dt_correctness writes to flt_6FFCBC, the step every subsystem of   *)
(* the engine integrates with: before the simulation, before the camera    *)
(* and at the start of the alt pump, each time the time since the same     *)
(* place was last reached.                                                 *)
(*                                                                         *)
(* The operators extend the steps of SimThrottle; FramePump puts them      *)
(* together.                                                               *)
(***************************************************************************)
EXTENDS SimThrottle

CONSTANTS
    Vanilla,        \* 0.003 s, the step the game ships with
    MinDt, MaxDt    \* g_min_dt and g_max_dt

ASSUME DtAssumption ==
    /\ {Vanilla, MinDt, MaxDt} \subseteq Nat /\ MinDt <= MaxDt

VARIABLES
    flt,          \* flt_6FFCBC
    lastActual,   \* g_last_actual_sim_qpc
    lastRender,   \* g_last_render_qpc
    lastAlt,      \* g_last_alt_pump_qpc
    \* history
    readAt,       \* when each kind of consumer last read a real-time step
    err           \* time that passed for it but not in its steps, or reversed

dtVars == <<flt, lastActual, lastRender, lastAlt, readAt, err>>

Kinds == {"sim", "render", "alt"}

DtInit ==
    /\ flt = Vanilla
    /\ lastActual = 0 /\ lastRender = 0 /\ lastAlt = 0
    /\ readAt = [k \in Kinds |-> 0] /\ err = [k \in Kinds |-> 0]

-----------------------------------------------------------------------------
\* compute_render_dt_scale: the rate over 60 in the slow motion mode.
Scaled(d) == IF cfg.scale = "slowmo" THEN (d * cfg.hz) \div BaseRate ELSE d

\* clamp_dt
Clamped(d) == IF d < MinDt THEN MinDt ELSE IF d > MaxDt THEN MaxDt ELSE d

\* What is written at a place last reached at `last'; nothing the first time.
StepWritten(last) ==
    IF cfg.dt /\ last # 0 THEN Clamped(Scaled(now' - last)) ELSE flt

\* write_for_render_frame and write_for_alt_pump return before they look at
\* their clock when the correction is off.
ClockAfter(last) == IF cfg.dt THEN now' ELSE last

\* hk_sim_aggregator keeps its clock also then; the counter of this step is
\* read before the simulation takes its time.
SimClockAfter == now

\* with_mixed_flt around the trail and particle sweeps, at the default mix 0:
\* they see the vanilla step, and what runs after them does not.
FltAfterParticlesMixed(v) == IF cfg.dt THEN Vanilla ELSE v
FltAfterParticles(v) == v

\* set_enabled(false).
FltAfterMenu == IF cfg.dt /\ ~cfg'.dt THEN Vanilla ELSE flt

-----------------------------------------------------------------------------
\* The history of one kind of consumer, which reads the step v at time t.  A
\* step the clamp cuts, or any mode but the real-time one, starts it anew.
RealTime == cfg.dt /\ cfg.scale = "real"
Reads(k, v, t) ==
    LET gap == t - readAt[k] IN
    /\ readAt' = [readAt EXCEPT ![k] = IF RealTime THEN t ELSE 0]
    /\ err' = [err EXCEPT ![k] =
                  IF ~RealTime \/ readAt[k] = 0 THEN 0
                  ELSE IF gap \in MinDt .. MaxDt THEN @ + gap - v ELSE @]

WriteForSimRun ==
    /\ flt' = FltAfterParticles(IF cfg.dt /\ lastActual # 0
                                THEN Clamped(Scaled(now - lastActual)) ELSE flt)
    /\ lastActual' = SimClockAfter
    /\ Reads("sim", flt', now)
    /\ UNCHANGED <<lastRender, lastAlt>>

WriteForRenderFrame ==
    /\ flt' = StepWritten(lastRender)
    /\ lastRender' = ClockAfter(lastRender)
    /\ UNCHANGED <<lastActual, lastAlt, readAt, err>>

\* The render path comes after the camera.
RenderReads ==
    /\ Reads("render", flt, now)
    /\ UNCHANGED <<flt, lastActual, lastRender, lastAlt>>

WriteForAltPump ==
    /\ flt' = StepWritten(lastAlt)
    /\ lastAlt' = ClockAfter(lastAlt)
    /\ Reads("alt", flt', now')
    /\ UNCHANGED <<lastActual, lastRender>>

SetEnabled ==
    /\ flt' = FltAfterMenu
    /\ UNCHANGED <<lastActual, lastRender, lastAlt, readAt, err>>

-----------------------------------------------------------------------------
\* The type invariant.
DtTypeOK ==
    /\ flt \in Nat /\ {lastActual, lastRender, lastAlt} \subseteq Nat
    /\ readAt \in [Kinds -> Nat] /\ err \in [Kinds -> Int]

\* Three subsystems share one step.  In the real-time mode each still goes at
\* the speed of the clock: the steps its consumers read add up to the time
\* that has passed, whatever the throttle skips, the pumps that alternate and
\* the settings that have been changed before (but for stalls the clamp cuts).
RealTimePace == \A k \in Kinds : err[k] = 0

\* With the correction off the engine is as shipped.
VanillaWhenDisabled == ~cfg.dt => flt = Vanilla
=============================================================================
