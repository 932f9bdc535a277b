-------------------------- MODULE Throttle_proofs --------------------------
(***************************************************************************)
(* Theorems about the throttle, and about the two specifications that add  *)
(* their own variables to its steps: the history of what it gives          *)
(* (ThrottleBudget), and the time step and the camera's view (FramePump);  *)
(* for every frequency of the counter, every set of rates and every pace   *)
(* of the pumps.                                                           *)
(***************************************************************************)
EXTENDS FramePump, ThrottleBudget, TLAPS

-----------------------------------------------------------------------------
(* What every step of the throttle keeps. *)

\* A period is at least one count and at most the half second of the drift cap.
LEMMA PeriodInRange ==
    ASSUME cfg \in Settings
    PROVE  /\ Period \in 1 .. HalfSecond /\ HalfSecond \in Nat
           /\ cfg.hz \in Rates /\ Period = Freq \div cfg.hz
<1>1. cfg.hz \in Rates
  BY DEF Settings
<1>2. Period \in 1 .. HalfSecond
  BY <1>1, RateAssumption DEF Period
<1>3. HalfSecond \in Nat
  BY RateAssumption DEF HalfSecond
<1> QED
  BY <1>1, <1>2, <1>3 DEF Period

\* The menu leaves settings that the code can be in.
LEMMA MenuInSettings == cfg \in Settings => Menu(cfg) \subseteq Settings
<1> SUFFICES ASSUME cfg \in Settings, NEW c \in Menu(cfg)
             PROVE  c \in Settings
  OBVIOUS
<1>1. \/ c = [cfg EXCEPT !.throttle = ~@] \/ c = [cfg EXCEPT !.autoDisable = ~@]
      \/ c = [cfg EXCEPT !.dt = ~@] \/ c = [cfg EXCEPT !.view = ~@]
      \/ c = Preset(cfg, TRUE) \/ c = Preset(cfg, FALSE)
      \/ c = [cfg EXCEPT !.dt = FALSE, !.throttle = FALSE, !.view = FALSE]
      \/ \E r \in Rates : c = [cfg EXCEPT !.hz = r]
      \/ \E s \in Scales : c = [cfg EXCEPT !.scale = s]
  BY DEF Menu, Settings
<1>2. BaseRate \in Rates
  BY RateAssumption
<1> QED
  BY <1>1, <1>2 DEF Settings, Preset

\* The clock a due consumer sets is neither reset nor ahead of the counter.
LEMMA AdvancedBehind ==
    ASSUME cfg \in Settings, NEW t \in Nat, t >= 1, NEW last \in Nat, last <= t,
           Due(last, t)
    PROVE  Advanced(last, t) \in 1 .. t
<1> DEFINE P == Period  H == HalfSecond
<1>1. P \in 1 .. H /\ H \in Nat
  BY PeriodInRange
<1>2. Due(last, t) <=> last = 0 \/ t - last >= P
  BY DEF Due
<1>3. Advanced(last, t) = IF last = 0 THEN t
                          ELSE IF t - (last + P) > H THEN t - P
                          ELSE last + P
  BY DEF Advanced
<1> HIDE DEF P, H
<1> QED
  BY <1>1, <1>2, <1>3

-----------------------------------------------------------------------------
(* Types and clocks. *)

ClockInv == ThrottleTypeOK /\ ClocksBehindNow

\* The clock part of the throttle alone is inductive.
LEMMA ClockInitially == ThrottleInit => ClockInv
<1> SUFFICES ASSUME ThrottleInit PROVE ClockInv
  OBVIOUS
<1>1. cfg \in Settings
  BY RateAssumption DEF ThrottleInit, Settings, Scales
<1>2. now \in 1 .. MaxNow /\ edits \in 0 .. MaxEdits
  BY TimeAssumption DEF ThrottleInit
<1>3. {minigame, simRan, simTicked} \subseteq BOOLEAN
  BY DEF ThrottleInit
<1>4. {lastSim, lastPathcam} \subseteq Nat /\ ClocksBehindNow
  BY DEF ThrottleInit, ClocksBehindNow
<1>5. /\ pc \in {"idle", "sim", "camera", "render", "endscene", "post"}
      /\ pump \in {"main", "alt"}
  BY DEF ThrottleInit
<1> QED
  BY <1>1, <1>2, <1>3, <1>4, <1>5 DEF ClockInv, ThrottleTypeOK

LEMMA ClockStep == ClockInv /\ [ThrottleNext]_throttleVars => ClockInv'
<1> SUFFICES ASSUME ClockInv, [ThrottleNext]_throttleVars PROVE ClockInv'
  OBVIOUS
<1> USE DEF ClockInv, ThrottleTypeOK, ClocksBehindNow
<1>1. CASE MainPump
  BY <1>1, TimeAssumption DEF MainPump, TimePasses
<1>2. CASE AltPump
  BY <1>2, TimeAssumption DEF AltPump, TimePasses
<1>3. CASE SimSkip
  BY <1>3 DEF SimSkip, RanAfterSkip
<1>4. CASE SimRun
  <2>1. /\ pc' = "camera" /\ simRan' = TRUE /\ simTicked' = TRUE
        /\ UNCHANGED <<pump, cfg, edits, minigame, lastPathcam>>
    BY <1>4 DEF SimRun
  <2>2. now' \in 1 .. MaxNow /\ now' >= now
    BY <1>4, TimeAssumption DEF SimRun, TimePasses
  <2>3. lastSim' = lastSim \/ lastSim' \in 1 .. now
    <3>1. CASE EffectiveThrottling
      BY <1>4, <3>1, AdvancedBehind DEF SimRun
    <3>2. CASE ~EffectiveThrottling
      BY <1>4, <3>2 DEF SimRun
    <3> QED
      BY <3>1, <3>2
  <2> QED
    BY <2>1, <2>2, <2>3
<1>5. CASE Camera
  BY <1>5 DEF Camera
<1>6. CASE Render
  <2>1. /\ pc' = "endscene"
        /\ UNCHANGED <<now, pump, cfg, edits, minigame, lastSim, simRan, simTicked>>
    BY <1>6 DEF Render
  <2>2. lastPathcam' = lastPathcam \/ lastPathcam' \in 1 .. now
    <3>1. CASE SubsystemThrottles /\ Due(lastPathcam, now)
      BY <1>6, <3>1, AdvancedBehind DEF Render
    <3>2. CASE ~(SubsystemThrottles /\ Due(lastPathcam, now))
      BY <1>6, <3>2 DEF Render
    <3> QED
      BY <3>1, <3>2
  <2> QED
    BY <2>1, <2>2
<1>7. CASE EndScene
  <2>1. /\ pc' \in {"post", "idle"} /\ simTicked' = FALSE /\ minigame' \in BOOLEAN
        /\ UNCHANGED <<now, pump, lastSim, lastPathcam, simRan>>
    BY <1>7 DEF EndScene, TickedAfterFrame
  <2>2. cfg' \in Settings /\ edits' \in 0 .. MaxEdits
    BY <1>7, MenuInSettings, TimeAssumption DEF EndScene
  <2> QED
    BY <2>1, <2>2
<1>8. CASE PostRender
  BY <1>8 DEF PostRender
<1>9. CASE UNCHANGED throttleVars
  BY <1>9 DEF throttleVars
<1> QED
  BY <1>1, <1>2, <1>3, <1>4, <1>5, <1>6, <1>7, <1>8, <1>9 DEF ThrottleNext

-----------------------------------------------------------------------------
(* The flags. *)

\* simTicked is about this frame, simRan about this iteration: between the
\* simulation and EndScene they agree, and a frame without a tick is throttled.
FlagInv ==
    /\ pc \in {"idle", "sim", "post"} => simTicked = FALSE
    /\ pc \in {"camera", "render", "endscene"} => simTicked = simRan
    /\ pc \in {"camera", "render"} => EffectiveThrottling \/ simRan

LEMMA FlagStep == ClockInv /\ FlagInv /\ [ThrottleNext]_throttleVars => FlagInv'
<1> SUFFICES ASSUME ClockInv, FlagInv, [ThrottleNext]_throttleVars PROVE FlagInv'
  OBVIOUS
<1> USE DEF FlagInv
<1>1. CASE MainPump \/ AltPump
  BY <1>1 DEF MainPump, AltPump
<1>2. CASE SimSkip
  <2>1. EffectiveThrottling'
    BY <1>2 DEF SimSkip, EffectiveThrottling
  <2> QED
    BY <1>2, <2>1 DEF SimSkip, RanAfterSkip
<1>3. CASE SimRun
  BY <1>3 DEF SimRun
<1>4. CASE Camera
  <2>1. EffectiveThrottling' = EffectiveThrottling
    BY <1>4 DEF Camera, EffectiveThrottling
  <2> QED
    BY <1>4, <2>1 DEF Camera
<1>5. CASE Render
  BY <1>5 DEF Render
<1>6. CASE EndScene
  <2>1. pc' = "post" \/ pc' = "idle"
    BY <1>6 DEF EndScene
  <2> QED
    BY <1>6, <2>1 DEF EndScene, TickedAfterFrame
<1>7. CASE PostRender
  BY <1>7 DEF PostRender
<1>8. CASE UNCHANGED throttleVars
  <2>1. EffectiveThrottling' = EffectiveThrottling
    BY <1>8 DEF throttleVars, EffectiveThrottling
  <2> QED
    BY <1>8, <2>1 DEF throttleVars
<1> QED
  BY <1>1, <1>2, <1>3, <1>4, <1>5, <1>6, <1>7, <1>8 DEF ThrottleNext

LEMMA FlagsInitially == ThrottleInit => FlagInv
BY DEF ThrottleInit, FlagInv

LEMMA FlagsTogether == FlagInv => VisualsMoveTogether
BY DEF FlagInv, VisualsMoveTogether, ParticlesMove, VisualsMove, SubsystemThrottles

-----------------------------------------------------------------------------
(* ThrottleBudget: what the throttle gives. *)

-----------------------------------------------------------------------------
(* The history. *)

HistoryTypeOK == bucket \in Nat /\ counting \in BOOLEAN /\ lead \in Int

\* Every step of the budget is a step of the throttle.
LEMMA BudgetSteps == [BudgetNext]_budgetVars => [ThrottleNext]_throttleVars
BY DEF BudgetNext, ThrottleNext, budgetVars, throttleVars

LEMMA BudgetClockInvariant == BudgetSpec => []ClockInv
<1>1. BudgetInit => ClockInv
  BY ClockInitially DEF BudgetInit
<1>2. ClockInv /\ [BudgetNext]_budgetVars => ClockInv'
  BY ClockStep, BudgetSteps
<1> QED
  BY <1>1, <1>2, PTL DEF BudgetSpec

\* No clock is ever ahead of the counter: `now - prev' in should_skip never
\* wraps, whatever stalls and rates come.
THEOREM ClocksStayBehind == BudgetSpec => []ClocksBehindNow
<1>1. ClockInv => ClocksBehindNow
  BY DEF ClockInv
<1> QED
  BY <1>1, BudgetClockInvariant, PTL

\* What the six steps that only copy or reset the history have in common.
LEMMA HistoryTyped ==
    ASSUME ClockInv, HistoryTypeOK, [BudgetNext]_budgetVars
    PROVE  HistoryTypeOK'
<1>1. now \in Nat /\ now' \in Nat
  <2>1. ClockInv'
    BY ClockStep, BudgetSteps
  <2> QED
    BY <2>1, TimeAssumption DEF ClockInv, ThrottleTypeOK
<1>2. \A a \in Nat : Leaked(a) \in Nat
  <2> SUFFICES ASSUME NEW a \in Nat PROVE Leaked(a) \in Nat
    OBVIOUS
  <2> DEFINE left == a - (now' - now)
  <2>1. Leaked(a) = IF left > 0 THEN left ELSE 0
    BY DEF Leaked
  <2>2. left \in Int
    BY <1>1
  <2> QED
    BY <2>1, <2>2
<1>3. Period \in Nat
  BY PeriodInRange DEF ClockInv, ThrottleTypeOK
<1>4. CASE CountMain
  <2>1. bucket' \in Nat
    BY <1>2, <1>4 DEF CountMain, HistoryTypeOK
  <2>2. counting' \in BOOLEAN
    BY <1>4 DEF CountMain
  <2>3. lead' \in Int
    BY <1>4 DEF CountMain
  <2> QED
    BY <2>1, <2>2, <2>3 DEF HistoryTypeOK
<1>5. CASE CountAlt
  <2>1. SubsystemThrottles \in BOOLEAN
    BY DEF SubsystemThrottles, EffectiveThrottling
  <2>2. bucket' \in Nat
    BY <1>2, <1>5 DEF CountAlt, HistoryTypeOK
  <2>3. lead' \in Int
    <3>1. lead' = 0 \/ lead' = lead + 1 \/ lead' = lead
      BY <1>5, <2>1 DEF CountAlt
    <3> QED
      BY <3>1 DEF HistoryTypeOK
  <2>4. counting' \in BOOLEAN
    BY <1>5, <2>1 DEF CountAlt
  <2> QED
    BY <2>2, <2>3, <2>4 DEF HistoryTypeOK
<1>6. CASE CountRun
  <2>1. bucket' \in Nat
    BY <1>2, <1>3, <1>6 DEF CountRun, HistoryTypeOK
  <2> QED
    BY <1>6, <2>1 DEF CountRun, HistoryTypeOK
<1>7. CASE UNCHANGED <<bucket, counting, lead>>
  BY <1>7 DEF HistoryTypeOK
<1> QED
  BY <1>4, <1>5, <1>6, <1>7 DEF BudgetNext, CountNothing, budgetVars

LEMMA HistoryInvariant == BudgetSpec => []HistoryTypeOK
<1>1. BudgetInit => HistoryTypeOK
  <2>1. BudgetInit => bucket = 0 /\ counting = FALSE /\ lead = 0
    BY DEF BudgetInit
  <2>2. counting = FALSE => counting \in BOOLEAN
    OBVIOUS
  <2> QED
    BY <2>1, <2>2 DEF HistoryTypeOK
<1>2. ClockInv /\ HistoryTypeOK /\ [BudgetNext]_budgetVars => HistoryTypeOK'
  BY HistoryTyped
<1> QED
  BY <1>1, <1>2, BudgetClockInvariant, PTL DEF BudgetSpec

\* Every variable keeps its range; in particular the menu never leaves a rate
\* of which the period would be nothing or longer than the drift cap.
THEOREM BudgetTyping == BudgetSpec => []BudgetTypeOK
<1>1. ClockInv /\ HistoryTypeOK => BudgetTypeOK
  BY DEF ClockInv, HistoryTypeOK, BudgetTypeOK
<1> QED
  BY <1>1, BudgetClockInvariant, HistoryInvariant, PTL

-----------------------------------------------------------------------------
(* The burst. *)

\* While the clock is behind, simulation time can still be given out, but no
\* more than the clock has to catch up.
BurstInv ==
    /\ lastSim = 0 => bucket = 0
    /\ bucket = 0 \/ \E r \in Rates :
                        bucket + (now - lastSim) <= HalfSecond + Freq \div r

\* What a tick of the throttle adds to it.
LEMMA BurstTick ==
    ASSUME NEW H \in Nat, NEW P \in 1 .. H, NEW Q \in 1 .. H,
           NEW t \in Nat, t >= 1, NEW d \in Nat, NEW last \in Nat, last <= t,
           NEW next, NEW b \in Nat, NEW c,
           last = 0 \/ t - last >= P,
           next = IF last = 0 THEN t
                  ELSE IF t - (last + P) > H THEN t - P ELSE last + P,
           last = 0 => b = 0,
           b = 0 \/ b + (t - last) <= H + Q,
           c = IF b + P - d > 0 THEN b + P - d ELSE 0
    PROVE  /\ next # 0
           /\ c = 0 \/ c + (t + d - next) <= H + P \/ c + (t + d - next) <= H + Q
<1>1. CASE last = 0
  BY <1>1
<1>2. CASE last # 0 /\ t - (last + P) > H
  BY <1>2
<1>3. CASE last # 0 /\ ~(t - (last + P) > H)
  BY <1>3
<1> QED
  BY <1>1, <1>2, <1>3

LEMMA BurstStep ==
    ASSUME ClockInv, HistoryTypeOK, BurstInv, [BudgetNext]_budgetVars
    PROVE  BurstInv'
<1>1. now \in Nat /\ now >= 1 /\ lastSim \in Nat /\ lastSim <= now /\ bucket \in Nat
  BY TimeAssumption DEF ClockInv, ThrottleTypeOK, ClocksBehindNow, HistoryTypeOK
<1>2. \A r \in Rates : Freq \div r \in 1 .. HalfSecond /\ HalfSecond \in Nat
  BY RateAssumption DEF HalfSecond
<1>3. ASSUME lastSim' = lastSim, bucket' = Leaked(bucket),
             NEW d \in Nat, now' = now + d
      PROVE  BurstInv'
  <2>1. bucket' = IF bucket - d > 0 THEN bucket - d ELSE 0
    BY <1>1, <1>3 DEF Leaked
  <2>2. CASE bucket' = 0
    BY <2>2 DEF BurstInv
  <2>3. CASE bucket' # 0
    <3>1. bucket # 0 /\ lastSim # 0 /\ bucket' = bucket - d
      BY <1>1, <1>3, <2>1, <2>3 DEF BurstInv
    <3>2. PICK r \in Rates : bucket + (now - lastSim) <= HalfSecond + Freq \div r
      BY <3>1 DEF BurstInv
    <3>3. Freq \div r \in 1 .. HalfSecond /\ HalfSecond \in Nat
      BY <1>2
    <3> DEFINE Q == Freq \div r  H == HalfSecond
    <3>4. H' = H
      BY DEF HalfSecond
    <3>5. bucket' + (now' - lastSim') <= H + Q
      <4> HIDE DEF Q, H
      <4> QED
        BY <1>1, <1>3, <3>1, <3>2, <3>3 DEF Q, H
    <3> QED
      BY <1>3, <3>1, <3>4, <3>5 DEF BurstInv
  <2> QED
    BY <2>2, <2>3
<1>4. CASE (MainPump \/ AltPump) /\ (CountMain \/ CountAlt)
  <2>1. PICK d \in Nat : now' = now + d
    BY <1>4, TimeAssumption DEF MainPump, AltPump, TimePasses
  <2>2. lastSim' = lastSim /\ bucket' = Leaked(bucket)
    BY <1>4 DEF MainPump, AltPump, CountMain, CountAlt
  <2> QED
    BY <1>3, <2>1, <2>2
<1>5. CASE SimRun /\ CountRun
  <2>1. CASE ~EffectiveThrottling
    <3>1. bucket' = 0
      BY <1>5, <2>1 DEF CountRun
    <3> QED
      BY <3>1 DEF BurstInv
  <2>2. CASE EffectiveThrottling
    <3> DEFINE P == Period  H == HalfSecond
    <3>1. P \in 1 .. H /\ H \in Nat /\ P = Freq \div cfg.hz /\ cfg.hz \in Rates
      BY PeriodInRange DEF ClockInv, ThrottleTypeOK
    <3>2. PICK d \in Nat : now' = now + d
      BY <1>5, TimeAssumption DEF SimRun, TimePasses
    <3>3. lastSim = 0 \/ now - lastSim >= P
      BY <1>5, <2>2 DEF SimRun, Due
    <3>4. lastSim' = IF lastSim = 0 THEN now
                     ELSE IF now - (lastSim + P) > H THEN now - P
                     ELSE lastSim + P
      BY <1>5, <2>2 DEF SimRun, Advanced
    <3>5. bucket' = IF bucket + P - d > 0 THEN bucket + P - d ELSE 0
      <4>1. now' - now = d
        BY <1>1, <3>2
      <4>2. bucket' = Leaked(bucket + P)
        BY <1>5, <2>2 DEF CountRun
      <4> HIDE DEF P
      <4> QED
        BY <1>1, <3>1, <3>2, <4>1, <4>2 DEF Leaked
    <3>6. PICK r \in Rates :
            bucket = 0 \/ bucket + (now - lastSim) <= H + Freq \div r
      <4>1. CASE bucket = 0
        BY <3>1, <4>1
      <4>2. CASE bucket # 0
        BY <4>2 DEF BurstInv
      <4> QED
        BY <4>1, <4>2
    <3> DEFINE Q == Freq \div r
    <3>7. Q \in 1 .. H
      BY <1>2
    <3>8. lastSim = 0 => bucket = 0
      BY DEF BurstInv
    <3>9. /\ lastSim' # 0
          /\ \/ bucket' = 0
             \/ bucket' + (now' - lastSim') <= H + P
             \/ bucket' + (now' - lastSim') <= H + Q
      <4> HIDE DEF P, Q, H
      <4> QED
        BY <1>1, <3>1, <3>2, <3>3, <3>4, <3>5, <3>6, <3>7, <3>8, BurstTick DEF Q
    <3>10. H' = H
      BY DEF HalfSecond
    <3> QED
      BY <3>1, <3>9, <3>10 DEF BurstInv
  <2> QED
    BY <2>1, <2>2
<1>6. CASE UNCHANGED <<now, lastSim, bucket>>
  <2>1. HalfSecond' = HalfSecond
    BY DEF HalfSecond
  <2> QED
    BY <1>6, <2>1 DEF BurstInv
<1>7. CASE SimSkip \/ Camera \/ Render \/ EndScene \/ PostRender
  <2>1. UNCHANGED <<now, lastSim>>
    BY <1>7 DEF SimSkip, Camera, Render, EndScene, PostRender
  <2>2. CASE CountNothing
    BY <1>6, <2>1, <2>2 DEF CountNothing
  <2>3. CASE ~CountNothing
    <3>1. MainPump \/ AltPump \/ SimRun \/ UNCHANGED budgetVars
      BY <2>3 DEF BudgetNext
    <3>2. ~(MainPump \/ AltPump \/ SimRun)
      BY <1>7 DEF MainPump, AltPump, SimRun, SimSkip, Camera, Render, EndScene, PostRender
    <3> QED
      BY <1>6, <3>1, <3>2 DEF budgetVars, throttleVars
  <2> QED
    BY <2>2, <2>3
<1>8. CASE UNCHANGED budgetVars
  BY <1>6, <1>8 DEF budgetVars, throttleVars
<1> QED
  BY <1>4, <1>5, <1>7, <1>8 DEF BudgetNext

\* In throttled time the simulation is never given more than the time that
\* passes, half a second and one period, whatever stalls, however the rate is
\* changed in between.
THEOREM NoBurst == BudgetSpec => []BurstBounded
<1>1. BudgetInit => BurstInv
  BY DEF BudgetInit, ThrottleInit, BurstInv
<1>2. ClockInv /\ HistoryTypeOK /\ BurstInv /\ [BudgetNext]_budgetVars => BurstInv'
  BY BurstStep
<1>3. ClockInv /\ HistoryTypeOK /\ BurstInv => BurstBounded
  <2> SUFFICES ASSUME ClockInv, HistoryTypeOK, BurstInv PROVE BurstBounded
    OBVIOUS
  <2>1. /\ now \in Nat /\ lastSim \in Nat /\ lastSim <= now /\ bucket \in Nat
        /\ HalfSecond \in Nat /\ BaseRate \in Rates
        /\ \A r \in Rates : Freq \div r \in 1 .. HalfSecond
    BY TimeAssumption, RateAssumption
       DEF ClockInv, ThrottleTypeOK, ClocksBehindNow, HistoryTypeOK, HalfSecond
  <2>2. PICK r \in Rates :
          bucket = 0 \/ bucket + (now - lastSim) <= HalfSecond + Freq \div r
    BY <2>1 DEF BurstInv
  <2> DEFINE Q == Freq \div r
  <2>3. Q \in Nat
    BY <2>1
  <2>4. bucket <= HalfSecond + Q
    <3> HIDE DEF Q
    <3> QED
      BY <2>1, <2>2, <2>3 DEF Q
  <2> QED
    BY <2>4 DEF BurstBounded
<1> QED
  BY <1>1, <1>2, <1>3, BudgetClockInvariant, HistoryInvariant, PTL DEF BudgetSpec

-----------------------------------------------------------------------------
(* The flags. *)

LEMMA FlagInvariant == BudgetSpec => []FlagInv
<1>1. BudgetInit => FlagInv
  BY FlagsInitially DEF BudgetInit
<1>2. ClockInv /\ FlagInv /\ [BudgetNext]_budgetVars => FlagInv'
  BY FlagStep, BudgetSteps
<1> QED
  BY <1>1, <1>2, BudgetClockInvariant, PTL DEF BudgetSpec

\* The particles and the overlays ask different flags and move in the same
\* frames, also in the frame after the menu, after a mini-game and when the two
\* pumps alternate.
THEOREM FlagsAgree == BudgetSpec => []VisualsMoveTogether
<1> QED
  BY FlagsTogether, FlagInvariant, PTL

\* While the alt pump is counted, each of its steps is answered by the tick
\* before or by the tick after it.
LeadInv ==
    /\ ~counting => lead = 0
    /\ counting /\ pc = "sim" => lead \in {0, 1}
    /\ counting /\ pc # "sim" /\ simRan => lead \in {-1, 0}
    /\ counting /\ pc # "sim" /\ ~simRan => lead \in {0, 1}

LEMMA LeadStep ==
    ASSUME ClockInv, HistoryTypeOK, LeadInv, [BudgetNext]_budgetVars
    PROVE  LeadInv'
<1> USE DEF LeadInv
<1>1. CASE MainPump /\ CountMain
  BY <1>1 DEF MainPump, CountMain
<1>2. CASE AltPump /\ CountAlt
  <2>1. pc = "idle" /\ pc' = "sim" /\ counting' = SubsystemThrottles
    BY <1>2 DEF AltPump, CountAlt
  <2>2. CASE ~SubsystemThrottles
    <3>1. lead' = 0 /\ ~counting'
      BY <1>2, <2>2 DEF CountAlt
    <3> QED
      BY <3>1
  <2>3. CASE SubsystemThrottles /\ simRan
    <3>1. lead' = lead + 1
      BY <1>2, <2>3 DEF CountAlt, VisualsMove
    <3>2. lead \in {-1, 0}
      BY <2>1, <2>3
    <3>3. lead' \in {0, 1}
      BY <3>1, <3>2
    <3> QED
      BY <2>1, <2>3, <3>3
  <2>4. CASE SubsystemThrottles /\ ~simRan
    <3>1. lead' = lead
      BY <1>2, <2>4 DEF CountAlt, VisualsMove
    <3>2. lead \in {0, 1}
      BY <2>1, <2>4
    <3> QED
      BY <2>1, <2>4, <3>1, <3>2
  <2> QED
    BY <2>2, <2>3, <2>4
<1>3. CASE SimRun /\ CountRun
  <2>1. pc = "sim" /\ pc' = "camera" /\ simRan' /\ counting' = counting
    BY <1>3 DEF SimRun, CountRun
  <2>2. CASE counting
    <3>1. lead' = lead - 1
      BY <1>3, <2>2 DEF CountRun
    <3>2. lead' \in {-1, 0}
      BY <2>1, <2>2, <3>1
    <3> QED
      BY <2>1, <2>2, <3>2
  <2>3. CASE ~counting
    BY <1>3, <2>1, <2>3 DEF CountRun
  <2> QED
    BY <2>2, <2>3
<1>4. CASE SimSkip /\ CountNothing
  BY <1>4 DEF SimSkip, CountNothing, RanAfterSkip
<1>5. CASE (Camera \/ Render \/ EndScene \/ PostRender) /\ CountNothing
  <2>1. pc # "sim" /\ pc' # "sim" /\ simRan' = simRan
    BY <1>5 DEF Camera, Render, EndScene, PostRender
  <2> QED
    BY <1>5, <2>1 DEF CountNothing
<1>6. CASE UNCHANGED budgetVars
  BY <1>6 DEF budgetVars, throttleVars
<1> QED
  BY <1>1, <1>2, <1>3, <1>4, <1>5, <1>6 DEF BudgetNext

\* The consumers of the alt pump, which ask before the tick about the tick
\* before, keep up with the simulation to within one step.
THEOREM AltKeepsUp == BudgetSpec => []AltOncePerTick
<1>1. BudgetInit => LeadInv
  BY DEF BudgetInit, LeadInv
<1>2. ClockInv /\ HistoryTypeOK /\ LeadInv /\ [BudgetNext]_budgetVars => LeadInv'
  BY LeadStep
<1>3. ClockInv /\ HistoryTypeOK /\ LeadInv => AltOncePerTick
  <2> SUFFICES ASSUME ClockInv, HistoryTypeOK, LeadInv PROVE AltOncePerTick
    OBVIOUS
  <2>1. lead \in {-1, 0, 1}
    <3>1. (counting \/ ~counting) /\ (simRan \/ ~simRan)
      OBVIOUS
    <3> QED
      BY <3>1 DEF LeadInv
  <2> QED
    BY <2>1 DEF AltOncePerTick
<1> QED
  BY <1>1, <1>2, <1>3, BudgetClockInvariant, HistoryInvariant, PTL DEF BudgetSpec

-----------------------------------------------------------------------------
(* FramePump: the time step and the camera's view. *)

\* Every step of the frame is a step of the throttle.
LEMMA FrameSteps == [Next]_vars => [ThrottleNext]_throttleVars
BY DEF Next, ThrottleNext, vars, throttleVars

LEMMA ClockInvariant == Spec => []ClockInv
<1>1. Init => ClockInv
  BY ClockInitially DEF Init
<1>2. ClockInv /\ [Next]_vars => ClockInv'
  BY ClockStep, FrameSteps
<1> QED
  BY <1>1, <1>2, PTL DEF Spec

\* The frame pump is the throttle with more hooks.
THEOREM FrameIsThrottled == Spec => ThrottleSpec
<1>1. Init => ThrottleInit
  BY DEF Init
<1>2. [Next]_vars => [ThrottleNext]_throttleVars
  BY FrameSteps
<1> QED
  BY <1>1, <1>2, PTL DEF Spec, ThrottleSpec

-----------------------------------------------------------------------------
(* The step of time. *)

LEMMA ScaledInt ==
    ASSUME cfg \in Settings, NEW d \in Int
    PROVE  Scaled(d) \in Int
<1>1. cfg.hz \in Nat \ {0} /\ BaseRate \in Nat \ {0}
  BY RateAssumption DEF Settings
<1>2. (d * cfg.hz) \div BaseRate \in Int
  BY <1>1
<1> QED
  BY <1>2 DEF Scaled

LEMMA ClampedNat ==
    ASSUME NEW d \in Int
    PROVE  Clamped(d) \in Nat /\ (d \in MinDt .. MaxDt => Clamped(d) = d)
BY DtAssumption DEF Clamped

\* In the real-time mode the clock of each kind of place says when its
\* consumers last read; for the render path, which reads later than the camera
\* writes, the step is still the one the camera wrote.
PaceInv ==
    /\ \A k \in Kinds : err[k] = 0
    /\ readAt["sim"] # 0 => lastActual = readAt["sim"]
    /\ readAt["alt"] # 0 => lastAlt = readAt["alt"]
    /\ readAt["render"] # 0 /\ pc # "render" => lastRender = readAt["render"]
    /\ pc = "render" /\ RealTime => lastRender = now
    /\ pc = "render" /\ RealTime /\ readAt["render"] # 0
           => flt = Clamped(now - readAt["render"])

DtInv == DtTypeOK /\ VanillaWhenDisabled /\ PaceInv

\* What one kind of consumer reads, when the step is the clamped time since it
\* last read.
LEMMA ReadsExact ==
    ASSUME DtTypeOK, PaceInv, NEW k \in Kinds, NEW v \in Nat, NEW t \in Nat,
           Reads(k, v, t),
           RealTime /\ readAt[k] # 0 => v = Clamped(t - readAt[k])
    PROVE  /\ \A j \in Kinds : err'[j] = 0
           /\ readAt' \in [Kinds -> Nat] /\ err' \in [Kinds -> Int]
           /\ readAt'[k] = IF RealTime THEN t ELSE 0
           /\ \A j \in Kinds \ {k} : readAt'[j] = readAt[j]
<1> DEFINE gap == t - readAt[k]
<1>1. readAt \in [Kinds -> Nat] /\ err \in [Kinds -> Int] /\ err[k] = 0
  BY DEF DtTypeOK, PaceInv
<1>2. gap \in Int
  BY <1>1
<1>3. RealTime /\ readAt[k] # 0 /\ gap \in MinDt .. MaxDt => v = gap
  BY <1>2, ClampedNat
<1>4. readAt' = [readAt EXCEPT ![k] = IF RealTime THEN t ELSE 0]
  BY DEF Reads
<1>5. err' = [err EXCEPT ![k] =
                 IF ~RealTime \/ readAt[k] = 0 THEN 0
                 ELSE IF gap \in MinDt .. MaxDt THEN @ + gap - v ELSE @]
  BY DEF Reads
<1>6. err'[k] = 0
  <2>1. CASE ~RealTime \/ readAt[k] = 0
    BY <1>1, <1>5, <2>1
  <2>2. CASE RealTime /\ readAt[k] # 0 /\ gap \in MinDt .. MaxDt
    <3>1. err'[k] = err[k] + gap - v
      BY <1>1, <1>5, <2>2
    <3> HIDE DEF gap
    <3> QED
      BY <1>1, <1>2, <1>3, <2>2, <3>1
  <2>3. CASE RealTime /\ readAt[k] # 0 /\ gap \notin MinDt .. MaxDt
    BY <1>1, <1>5, <2>3
  <2> QED
    BY <2>1, <2>2, <2>3
<1>7. \A j \in Kinds \ {k} : err'[j] = err[j] /\ readAt'[j] = readAt[j]
  BY <1>1, <1>4, <1>5
<1>8. \A j \in Kinds : err'[j] = 0
  BY <1>6, <1>7 DEF PaceInv
<1>9. DOMAIN err' = Kinds /\ err' = [j \in Kinds |-> err'[j]]
  BY <1>1, <1>5
<1>10. err' \in [Kinds -> Int]
  BY <1>8, <1>9
<1>11. readAt' \in [Kinds -> Nat] /\ readAt'[k] = IF RealTime THEN t ELSE 0
  BY <1>1, <1>4
<1> QED
  BY <1>7, <1>8, <1>10, <1>11

\* What is written at a place last reached at `last'.
LEMMA StepExact ==
    ASSUME ClockInv, NEW last \in Nat, now' \in Nat, flt \in Nat
    PROVE  /\ StepWritten(last) \in Nat
           /\ ~cfg.dt => StepWritten(last) = flt
           /\ RealTime /\ last # 0 => StepWritten(last) = Clamped(now' - last)
<1> DEFINE d == now' - last
<1>1. d \in Int /\ cfg \in Settings
  BY DEF ClockInv, ThrottleTypeOK
<1>2. Scaled(d) \in Int
  BY <1>1, ScaledInt
<1>3. Clamped(Scaled(d)) \in Nat
  BY <1>2, ClampedNat
<1>4. RealTime => Scaled(d) = d
  BY DEF RealTime, Scaled
<1>5. StepWritten(last) = IF cfg.dt /\ last # 0 THEN Clamped(Scaled(d)) ELSE flt
  BY DEF StepWritten
<1> QED
  BY <1>3, <1>4, <1>5 DEF RealTime

LEMMA DtStep ==
    ASSUME ClockInv, ClockInv', DtInv, [Next]_vars
    PROVE  DtInv'
<1> USE DEF DtInv
<1>1. /\ now \in Nat /\ now' \in Nat /\ cfg \in Settings
      /\ {"sim", "render", "alt"} = Kinds
  BY TimeAssumption DEF ClockInv, ThrottleTypeOK, Kinds
<1>2. /\ flt \in Nat /\ lastActual \in Nat /\ lastRender \in Nat /\ lastAlt \in Nat
      /\ readAt \in [Kinds -> Nat] /\ err \in [Kinds -> Int]
  BY DEF DtTypeOK
<1>3. ASSUME UNCHANGED dtVars, UNCHANGED cfg, pc # "render", pc' # "render"
      PROVE  DtInv'
  BY <1>3 DEF DtTypeOK, VanillaWhenDisabled, PaceInv, dtVars
<1>4. CASE MainPump /\ UNCHANGED <<dtVars, viewVars>>
  BY <1>3, <1>4 DEF MainPump
<1>5. CASE AltPump /\ WriteForAltPump
  <2>1. /\ pc' = "sim" /\ pc = "idle" /\ UNCHANGED cfg
        /\ flt' = StepWritten(lastAlt) /\ lastAlt' = ClockAfter(lastAlt)
        /\ Reads("alt", flt', now') /\ UNCHANGED <<lastActual, lastRender>>
    BY <1>5 DEF AltPump, WriteForAltPump
  <2>2. flt' \in Nat /\ (~cfg.dt => flt' = flt)
        /\ (RealTime /\ lastAlt # 0 => flt' = Clamped(now' - lastAlt))
    BY <1>1, <1>2, <2>1, StepExact
  <2>3. RealTime /\ readAt["alt"] # 0 => flt' = Clamped(now' - readAt["alt"])
    BY <2>2 DEF PaceInv
  <2>4. /\ \A j \in Kinds : err'[j] = 0
        /\ readAt' \in [Kinds -> Nat] /\ err' \in [Kinds -> Int]
        /\ readAt'["alt"] = IF RealTime THEN now' ELSE 0
        /\ readAt'["sim"] = readAt["sim"] /\ readAt'["render"] = readAt["render"]
    BY <1>1, <2>1, <2>2, <2>3, ReadsExact
  <2>5. lastAlt' \in Nat /\ (RealTime => lastAlt' = now')
    BY <1>1, <1>2, <2>1 DEF ClockAfter, RealTime
  <2>6. DtTypeOK'
    BY <1>2, <2>1, <2>2, <2>4, <2>5 DEF DtTypeOK
  <2>7. VanillaWhenDisabled'
    BY <2>1, <2>2 DEF VanillaWhenDisabled
  <2>8. PaceInv'
    BY <2>1, <2>4, <2>5 DEF PaceInv
  <2> QED
    BY <2>6, <2>7, <2>8
<1>6. CASE SimSkip /\ UNCHANGED <<dtVars, viewVars>>
  BY <1>3, <1>6 DEF SimSkip
<1>7. CASE SimRun /\ WriteForSimRun
  <2>1. /\ pc' = "camera" /\ pc = "sim" /\ UNCHANGED cfg
        /\ lastActual' = now /\ Reads("sim", flt', now)
        /\ UNCHANGED <<lastRender, lastAlt>>
        /\ flt' = IF cfg.dt /\ lastActual # 0
                  THEN Clamped(Scaled(now - lastActual)) ELSE flt
    BY <1>7 DEF SimRun, WriteForSimRun, SimClockAfter, FltAfterParticles
  <2>2. flt' \in Nat
    <3> DEFINE d == now - lastActual
    <3>1. d \in Int
      BY <1>1, <1>2
    <3>2. Clamped(Scaled(d)) \in Nat
      BY <1>1, <3>1, ScaledInt, ClampedNat
    <3> QED
      BY <1>2, <2>1, <3>2
  <2>3. RealTime /\ readAt["sim"] # 0 => flt' = Clamped(now - readAt["sim"])
    BY <2>1 DEF PaceInv, RealTime, Scaled
  <2>4. /\ \A j \in Kinds : err'[j] = 0
        /\ readAt' \in [Kinds -> Nat] /\ err' \in [Kinds -> Int]
        /\ readAt'["sim"] = IF RealTime THEN now ELSE 0
        /\ readAt'["alt"] = readAt["alt"] /\ readAt'["render"] = readAt["render"]
    BY <1>1, <2>1, <2>2, <2>3, ReadsExact
  <2>5. DtTypeOK'
    BY <1>1, <1>2, <2>1, <2>2, <2>4 DEF DtTypeOK
  <2>6. VanillaWhenDisabled'
    BY <2>1 DEF VanillaWhenDisabled
  <2>7. PaceInv'
    BY <2>1, <2>4 DEF PaceInv
  <2> QED
    BY <2>5, <2>6, <2>7
<1>8. CASE Camera /\ WriteForRenderFrame
  <2>1. /\ pc' = "render" /\ pc = "camera" /\ UNCHANGED <<cfg, now>>
        /\ flt' = StepWritten(lastRender) /\ lastRender' = ClockAfter(lastRender)
        /\ UNCHANGED <<lastActual, lastAlt, readAt, err>>
    BY <1>8 DEF Camera, WriteForRenderFrame
  <2>2. flt' \in Nat /\ (~cfg.dt => flt' = flt)
        /\ (RealTime /\ lastRender # 0 => flt' = Clamped(now' - lastRender))
    BY <1>1, <1>2, <2>1, StepExact
  <2>3. lastRender' \in Nat /\ (RealTime => lastRender' = now')
    BY <1>1, <1>2, <2>1 DEF ClockAfter, RealTime
  <2>4. RealTime' = RealTime
    BY <2>1 DEF RealTime
  <2>5. DtTypeOK'
    BY <1>2, <2>1, <2>2, <2>3 DEF DtTypeOK
  <2>6. VanillaWhenDisabled'
    BY <2>1, <2>2 DEF VanillaWhenDisabled
  <2>7. RealTime /\ readAt["render"] # 0 => flt' = Clamped(now' - readAt'["render"])
    BY <2>1, <2>2 DEF PaceInv
  <2>8. Clamped(now' - readAt'["render"]) = Clamped(now - readAt["render"])'
    BY DEF Clamped
  <2>9. PaceInv'
    BY <2>1, <2>3, <2>4, <2>7, <2>8 DEF PaceInv
  <2> QED
    BY <2>5, <2>6, <2>9
<1>9. CASE Render /\ RenderReads
  <2>1. /\ pc' = "endscene" /\ pc = "render" /\ UNCHANGED <<cfg, now>>
        /\ Reads("render", flt, now)
        /\ UNCHANGED <<flt, lastActual, lastRender, lastAlt>>
    BY <1>9 DEF Render, RenderReads
  <2>2. RealTime /\ readAt["render"] # 0 => flt = Clamped(now - readAt["render"])
    BY <2>1 DEF PaceInv
  <2>3. /\ \A j \in Kinds : err'[j] = 0
        /\ readAt' \in [Kinds -> Nat] /\ err' \in [Kinds -> Int]
        /\ readAt'["render"] = IF RealTime THEN now ELSE 0
        /\ readAt'["alt"] = readAt["alt"] /\ readAt'["sim"] = readAt["sim"]
    BY <1>1, <1>2, <2>1, <2>2, ReadsExact
  <2>4. DtTypeOK'
    BY <1>2, <2>1, <2>3 DEF DtTypeOK
  <2>5. VanillaWhenDisabled'
    BY <2>1 DEF VanillaWhenDisabled
  <2>6. PaceInv'
    BY <2>1, <2>3 DEF PaceInv
  <2> QED
    BY <2>4, <2>5, <2>6
<1>10. CASE EndScene /\ SetEnabled
  <2>1. /\ pc' # "render" /\ pc # "render"
        /\ flt' = IF cfg.dt /\ ~cfg'.dt THEN Vanilla ELSE flt
        /\ UNCHANGED <<lastActual, lastRender, lastAlt, readAt, err>>
    BY <1>10 DEF EndScene, SetEnabled, FltAfterMenu
  <2>2. flt' \in Nat
    BY <1>2, <2>1, DtAssumption
  <2>3. DtTypeOK'
    BY <2>1, <2>2 DEF DtTypeOK
  <2>4. VanillaWhenDisabled'
    BY <2>1, DtAssumption DEF VanillaWhenDisabled
  <2>5. PaceInv'
    BY <2>1 DEF PaceInv
  <2> QED
    BY <2>3, <2>4, <2>5
<1>11. CASE PostRender /\ UNCHANGED <<dtVars, viewVars>>
  BY <1>3, <1>11 DEF PostRender
<1>12. CASE UNCHANGED vars
  <2>1. UNCHANGED <<dtVars, pc, cfg, now>>
    BY <1>12 DEF vars, throttleVars
  <2>2. RealTime' = RealTime /\ Clamped(now - readAt["render"])' = Clamped(now - readAt["render"])
    BY <2>1 DEF RealTime, Clamped, dtVars
  <2> QED
    BY <2>1, <2>2 DEF DtTypeOK, VanillaWhenDisabled, PaceInv, dtVars
<1> QED
  BY <1>4, <1>5, <1>6, <1>7, <1>8, <1>9, <1>10, <1>11, <1>12 DEF Next

LEMMA DtInvariant == Spec => []DtInv
<1>1. Init => DtInv
  <2> SUFFICES ASSUME Init PROVE DtInv
    OBVIOUS
  <2> USE DEF Init, DtInit
  <2>1. DtTypeOK
    BY DtAssumption DEF DtTypeOK, Kinds
  <2>2. VanillaWhenDisabled
    BY DEF VanillaWhenDisabled
  <2>3. PaceInv
    BY DEF PaceInv, Kinds, ThrottleInit
  <2> QED
    BY <2>1, <2>2, <2>3 DEF DtInv
<1>2. ClockInv /\ ClockInv' /\ DtInv /\ [Next]_vars => DtInv'
  BY DtStep
<1> QED
  BY <1>1, <1>2, ClockInvariant, PTL DEF Spec

\* In the real-time mode every subsystem goes at the speed of the clock: the
\* steps it reads are the time that passed since it last did, although all
\* three share one variable.
THEOREM EachAtItsPace == Spec => []RealTimePace
<1>1. DtInv => RealTimePace
  BY DEF DtInv, PaceInv, RealTimePace
<1> QED
  BY <1>1, DtInvariant, PTL

\* Switched off, dt_correctness leaves the game's own step behind.
THEOREM OffIsVanilla == Spec => []VanillaWhenDisabled
<1>1. DtInv => VanillaWhenDisabled
  BY DEF DtInv
<1> QED
  BY <1>1, DtInvariant, PTL

-----------------------------------------------------------------------------
(* The view. *)

PeriodOf(hz) == Freq \div hz

\* The snapshots: how old they are, and that the flag of the cut is about the
\* two that are there.
SnapInv ==
    /\ dirty => pc = "camera"
    /\ prevSnap.valid => currSnap.valid /\ prevSnap.ago = currSnap.ago + 1
    /\ ~prevSnap.valid => prevSnap.ago = 0
    /\ currSnap.ago = IF dirty /\ currSnap.valid THEN 1 ELSE 0
    /\ currQpc <= now
    /\ prevSnap.valid /\ ~cut => prevSnap.shot = currSnap.shot
    /\ shown.blend => prevSnap.shot = currSnap.shot

\* The frame on the screen is no later than the next one can be: after a tick
\* it is at most the older snapshot, before it at most as far between the two
\* as time has come.
ShownInv ==
    shown.hz # 0 =>
        /\ prevSnap.valid
        /\ dirty => shown.at <= - PeriodOf(shown.hz)
        /\ ~dirty => shown.at <= 0
        /\ ~dirty /\ ~cut => shown.at <= now - currQpc - PeriodOf(shown.hz)

ViewInv == ViewTypeOK /\ SnapInv /\ ShownInv

LEMMA PeriodOfRange ==
    ASSUME NEW hz \in Rates
    PROVE  PeriodOf(hz) \in Nat /\ PeriodOf(hz) >= 1
BY RateAssumption DEF PeriodOf, HalfSecond

\* What the camera hook makes of the snapshots.
LEMMA CameraSnaps ==
    ASSUME ClockInv, ViewInv
    PROVE  /\ PrevAfter \in [valid : BOOLEAN, ago : 0 .. 1, shot : {0, 1}]
           /\ CurrAfter \in [valid : BOOLEAN, ago : {0}, shot : {0, 1}]
           /\ CurrAfter.valid /\ CurrAfter.ago = 0
           /\ PrevAfter.valid => PrevAfter.ago = 1
           /\ ~PrevAfter.valid => PrevAfter.ago = 0
           /\ CutAfter \in BOOLEAN
           /\ PrevAfter.valid /\ ~CutAfter => PrevAfter.shot = CurrAfter.shot
           /\ QpcAfter \in Nat /\ QpcAfter <= now
<1> USE DEF ViewInv, ViewTypeOK, SnapInv
<1>1. now \in Nat
  BY TimeAssumption DEF ClockInv, ThrottleTypeOK
<1>2. CASE Takes /\ currSnap.valid
  <2>1. /\ PrevAfter = currSnap /\ QpcAfter = now
        /\ CurrAfter = [valid |-> TRUE, ago |-> 0, shot |-> shot]
    BY <1>2 DEF PrevAfter, CurrAfter, QpcAfter
  <2>2. currSnap.ago = 1
    BY <1>2 DEF Takes
  <2>3. CutAfter = (PrevAfter.shot # CurrAfter.shot)
    BY <1>2, <2>1 DEF CutAfter
  <2> QED
    BY <1>1, <1>2, <2>1, <2>2, <2>3
<1>3. CASE Takes /\ ~currSnap.valid
  <2>1. /\ PrevAfter = prevSnap /\ QpcAfter = now /\ ~prevSnap.valid
        /\ CurrAfter = [valid |-> TRUE, ago |-> 0, shot |-> shot]
    BY <1>3 DEF PrevAfter, CurrAfter, QpcAfter
  <2>2. CutAfter = cut
    BY <1>3, <2>1 DEF CutAfter
  <2> QED
    BY <1>1, <1>3, <2>1, <2>2
<1>4. CASE ~Takes
  <2>1. /\ PrevAfter = prevSnap /\ QpcAfter = currQpc /\ CurrAfter = currSnap
        /\ CutAfter = cut /\ ~dirty /\ currSnap.valid
    BY <1>4 DEF PrevAfter, CurrAfter, QpcAfter, CutAfter, Takes
  <2> QED
    BY <1>1, <2>1
<1> QED
  BY <1>2, <1>3, <1>4

\* Where the view is put.
LEMMA CameraShows ==
    ASSUME ClockInv, ViewInv, PrevAfter.valid
    PROVE  /\ ViewShown \in Int /\ ViewShown <= 0
           /\ ~CutAfter => ViewShown <= now - QpcAfter - Period
           /\ shown.hz = cfg.hz => ViewShown >= shown.at
<1> DEFINE P == Period
<1>1. /\ now \in Nat /\ P \in Nat /\ P >= 1 /\ cfg.hz \in Rates
      /\ P = PeriodOf(cfg.hz)
  BY TimeAssumption, PeriodInRange DEF ClockInv, ThrottleTypeOK, PeriodOf
<1>2. /\ PrevAfter.ago = 1 /\ CurrAfter.ago = 0
      /\ QpcAfter \in Nat /\ QpcAfter <= now
  BY CameraSnaps
<1> DEFINE alpha == Alpha(QpcAfter)
<1>3. alpha = IF now - QpcAfter >= P THEN P ELSE now - QpcAfter
  BY DEF Alpha
<1> HIDE DEF P
<1>4. alpha \in Nat /\ alpha <= P /\ alpha <= now - QpcAfter
  BY <1>1, <1>2, <1>3
<1>5. ViewShown = IF CutAfter THEN 0 ELSE alpha - P
  <2>1. ViewShown = IF CutAfter THEN 0 ELSE alpha * (1 - 0) - 1 * P
    BY <1>2 DEF ViewShown, P
  <2> HIDE DEF alpha
  <2> QED
    BY <1>1, <1>4, <2>1
<1> HIDE DEF alpha
<1>6. ViewShown \in Int /\ ViewShown <= 0
  BY <1>1, <1>4, <1>5
<1>7. ~CutAfter => ViewShown <= now - QpcAfter - P
  BY <1>1, <1>2, <1>4, <1>5
<1>8. ASSUME shown.hz = cfg.hz PROVE ViewShown >= shown.at
  <2>1. /\ shown.at \in Int /\ shown.hz # 0 /\ currQpc \in Nat
    BY <1>1, <1>8, RateAssumption DEF ViewInv, ViewTypeOK
  <2>2. CASE CutAfter
    <3>1. shown.at <= - P \/ shown.at <= 0
      BY <1>1, <1>8, <2>1 DEF ViewInv, ShownInv
    <3>2. ViewShown = 0
      BY <1>5, <2>2
    <3> QED
      BY <1>1, <2>1, <3>1, <3>2
  <2>3. CASE ~CutAfter /\ dirty
    <3>1. shown.at <= - P
      BY <1>1, <1>8, <2>1, <2>3 DEF ViewInv, ShownInv
    <3> QED
      BY <1>1, <1>4, <1>5, <2>1, <2>3, <3>1
  <2>4. CASE ~CutAfter /\ ~dirty
    <3>1. ~Takes /\ QpcAfter = currQpc /\ CutAfter = cut
      BY <2>1, <2>4 DEF Takes, QpcAfter, CutAfter, ViewInv, ShownInv, SnapInv
    <3>2. shown.at <= 0 /\ shown.at <= now - currQpc - P
      BY <1>1, <1>8, <2>1, <2>4, <3>1 DEF ViewInv, ShownInv
    <3> QED
      BY <1>1, <1>2, <1>3, <1>5, <2>1, <2>4, <3>1, <3>2
  <2> QED
    BY <2>2, <2>3, <2>4
<1> QED
  BY <1>6, <1>7, <1>8 DEF P

\* What is no later than a view of the time t is no later than one of u >= t.
LEMMA LaterView ==
    ASSUME NEW at \in Int, NEW t \in Nat, NEW u \in Nat, NEW qpc \in Nat,
           NEW p \in Nat, t <= u, at <= t - qpc - p
    PROVE  at <= u - qpc - p
OBVIOUS

LEMMA ViewStep ==
    ASSUME ClockInv, ClockInv', ViewInv, [Next]_vars
    PROVE  ViewInv'
<1> USE DEF ViewInv
<1>1. now \in Nat /\ now' \in Nat
  BY TimeAssumption DEF ClockInv, ThrottleTypeOK
<1>2. ASSUME UNCHANGED viewVars, now' >= now, dirty => pc' = "camera"
      PROVE  ViewInv'
  <2>1. ViewTypeOK'
    BY <1>2 DEF ViewTypeOK, viewVars
  <2>2. SnapInv'
    BY <1>1, <1>2 DEF SnapInv, ViewTypeOK, viewVars
  <2>3. CASE shown.hz = 0
    <3>1. shown'.hz = 0
      BY <1>2, <2>3 DEF viewVars
    <3>2. ShownInv'
      BY <3>1 DEF ShownInv
    <3> QED
      BY <2>1, <2>2, <3>2
  <2>4. CASE shown.hz # 0
    <3> DEFINE Q == PeriodOf(shown.hz)
    <3>0. Q \in Nat /\ shown.at \in Int /\ currQpc \in Nat
      BY <2>4, PeriodOfRange DEF ViewTypeOK
    <3>1. Q' = Q
      BY <1>2 DEF viewVars, PeriodOf
    <3>2. UNCHANGED <<prevSnap, dirty, cut, shown, currQpc>>
      BY <1>2 DEF viewVars
    <3> HIDE DEF Q
    <3>3. now <= now'
      BY <1>1, <1>2
    <3>4. /\ prevSnap.valid
          /\ dirty => shown.at <= - Q
          /\ ~dirty => shown.at <= 0
          /\ ~dirty /\ ~cut => shown.at <= now - currQpc - Q
      BY <2>4 DEF ShownInv, Q
    <3>5. CASE ~dirty /\ ~cut
      <4>1. shown.at <= now - currQpc - Q
        BY <3>4, <3>5
      <4>2. shown.at <= now' - currQpc - Q
        BY ONLY <1>1, <3>0, <3>3, <4>1, LaterView
      <4>3. Q' = PeriodOf(shown.hz)'
        BY DEF Q
      <4>4. ShownInv'
        BY <3>1, <3>2, <3>4, <3>5, <4>2, <4>3 DEF ShownInv
      <4> QED
        BY <2>1, <2>2, <4>4
    <3>6. CASE dirty \/ cut
      <4>3. Q' = PeriodOf(shown.hz)'
        BY DEF Q
      <4>4. ShownInv'
        BY <3>1, <3>2, <3>4, <3>6, <4>3 DEF ShownInv
      <4> QED
        BY <2>1, <2>2, <4>4
    <3> QED
      BY <3>5, <3>6
  <2> QED
    BY <2>1, <2>2, <2>3, <2>4
<1>3. CASE MainPump \/ AltPump \/ SimSkip \/ Render \/ EndScene \/ PostRender
  <2>1. pc # "camera" /\ now' >= now
    BY <1>1, <1>3, TimeAssumption
       DEF MainPump, AltPump, SimSkip, Render, EndScene, PostRender, TimePasses
  <2>2. ~(SimRun \/ Camera) \/ pc' = "camera"
    BY <2>1 DEF SimRun, Camera
  <2>3. ~dirty
    BY <2>1 DEF SnapInv
  <2>4. CASE UNCHANGED viewVars
    BY <1>2, <2>1, <2>3, <2>4
  <2>5. CASE ~UNCHANGED viewVars
    <3>1. SimRun \/ Camera
      BY <2>5 DEF Next, vars
    <3>2. SimRun
      BY <2>1, <3>1 DEF Camera
    <3>3. SimSkip
      BY <1>3, <3>2 DEF SimRun, MainPump, AltPump, SimSkip, Render, EndScene, PostRender
    <3> QED
      BY <3>2, <3>3 DEF SimRun, SimSkip, RanAfterSkip
  <2> QED
    BY <2>4, <2>5
<1>4. CASE SimRun /\ OnSimTickPost
  <2>1. /\ pc = "sim" /\ pc' = "camera" /\ ~dirty /\ dirty' = TRUE /\ now' >= now
        /\ UNCHANGED <<currQpc, cut>> /\ shot' \in {0, 1}
        /\ prevSnap' = Aged(prevSnap) /\ currSnap' = Aged(currSnap)
        /\ shown' = IF shown.hz = 0 THEN shown
                    ELSE [shown EXCEPT !.at = @ - Freq \div shown.hz]
    BY <1>1, <1>4, TimeAssumption DEF SimRun, OnSimTickPost, TimePasses, SnapInv
  <2>2. /\ prevSnap' \in [valid : BOOLEAN, ago : 0 .. 2, shot : {0, 1}]
        /\ currSnap' \in [valid : BOOLEAN, ago : 0 .. 1, shot : {0, 1}]
        /\ prevSnap'.valid = prevSnap.valid /\ currSnap'.valid = currSnap.valid
        /\ prevSnap'.shot = prevSnap.shot /\ currSnap'.shot = currSnap.shot
        /\ prevSnap.valid => prevSnap'.ago = currSnap'.ago + 1
        /\ ~prevSnap.valid => prevSnap'.ago = 0
        /\ currSnap'.ago = IF currSnap.valid THEN 1 ELSE 0
    BY <2>1 DEF ViewTypeOK, SnapInv, Aged
  <2>3. CASE shown.hz = 0
    <3>1. shown' = shown
      BY <2>1, <2>3
    <3> QED
      BY <1>1, <2>1, <2>2, <2>3, <3>1 DEF ViewTypeOK, SnapInv, ShownInv
  <2>4. CASE shown.hz # 0
    <3> DEFINE Q == PeriodOf(shown.hz)
    <3>1. Q \in Nat /\ Q = Freq \div shown.hz
      BY <2>4, PeriodOfRange DEF ViewTypeOK, PeriodOf
    <3>2. shown' = [shown EXCEPT !.at = @ - Q]
      BY <2>1, <2>4, <3>1
    <3>3. shown.at \in Int /\ shown.at <= 0 /\ prevSnap.valid
      BY <2>1, <2>4 DEF ViewTypeOK, ShownInv
    <3>4. shown'.hz = shown.hz /\ shown'.blend = shown.blend /\ shown'.at = shown.at - Q
      BY <3>2 DEF ViewTypeOK
    <3>5. PeriodOf(shown'.hz) = Q
      BY <3>4
    <3>6. shown'.at <= - Q /\ shown'.at \in Int
      <4> HIDE DEF Q
      <4> QED
        BY <3>1, <3>3, <3>4
    <3>7. shown' \in [at : Int, hz : Rates \cup {0}, blend : BOOLEAN]
      <4> HIDE DEF Q
      <4> QED
        BY <3>1, <3>2, <3>3 DEF ViewTypeOK
    <3>8. ViewTypeOK'
      BY <2>1, <2>2, <3>7 DEF ViewTypeOK
    <3>9. SnapInv'
      BY <1>1, <2>1, <2>2, <3>4 DEF SnapInv, ViewTypeOK
    <3>10. ShownInv'
      <4>1. PeriodOf(shown.hz)' = Q
        BY <3>4 DEF PeriodOf
      <4> QED
        BY <2>1, <2>2, <3>3, <3>6, <4>1 DEF ShownInv
    <3> QED
      BY <3>8, <3>9, <3>10
  <2> QED
    BY <2>3, <2>4
<1>5. CASE Camera /\ CameraApply
  <2>1. /\ pc = "camera" /\ pc' = "render" /\ UNCHANGED <<now, cfg, minigame, shot>>
        /\ prevSnap' = PrevAfter /\ currSnap' = CurrAfter /\ currQpc' = QpcAfter
        /\ cut' = CutAfter /\ dirty' = FALSE
    BY <1>5 DEF Camera, CameraApply
  <2>2. \/ /\ Smooth
           /\ shown' = [at |-> ViewShown, hz |-> cfg.hz, blend |-> ~CutAfter]
        \/ shown' = [NotSmooth EXCEPT !.blend = Smooth /\ ~CutAfter]
    BY <1>5 DEF CameraApply
  <2>3. cfg.hz \in Rates /\ Period = PeriodOf(cfg.hz) /\ Period \in Nat
    BY PeriodInRange DEF ClockInv, ThrottleTypeOK, PeriodOf
  <2>4. Smooth \in BOOLEAN /\ (Smooth => PrevAfter.valid)
    BY CameraSnaps DEF Smooth, ClockInv, ThrottleTypeOK, Settings, EffectiveThrottling
  <2>7. /\ shot' \in {0, 1} /\ {dirty', cut'} \subseteq BOOLEAN
        /\ prevSnap' \in [valid : BOOLEAN, ago : 0 .. 2, shot : {0, 1}]
        /\ currSnap' \in [valid : BOOLEAN, ago : 0 .. 1, shot : {0, 1}]
        /\ currQpc' \in Nat
    <3>1. /\ 0 .. 1 \subseteq 0 .. 2 /\ {0} \subseteq 0 .. 1
      OBVIOUS
    <3>2. prevSnap' \in [valid : BOOLEAN, ago : 0 .. 2, shot : {0, 1}]
      BY <2>1, <3>1, CameraSnaps
    <3>3. currSnap' \in [valid : BOOLEAN, ago : 0 .. 1, shot : {0, 1}]
      BY <2>1, <3>1, CameraSnaps
    <3>4. {dirty', cut'} \subseteq BOOLEAN
      BY <2>1, CameraSnaps
    <3> QED
      BY <2>1, <3>2, <3>3, <3>4, CameraSnaps DEF ViewTypeOK
  <2>8. /\ ~dirty'
        /\ prevSnap'.valid => currSnap'.valid /\ prevSnap'.ago = currSnap'.ago + 1
        /\ ~prevSnap'.valid => prevSnap'.ago = 0
        /\ currSnap'.ago = 0
        /\ currQpc' <= now'
        /\ prevSnap'.valid /\ ~cut' => prevSnap'.shot = currSnap'.shot
    BY <2>1, CameraSnaps
  <2>5. CASE Smooth /\ shown' = [at |-> ViewShown, hz |-> cfg.hz, blend |-> ~CutAfter]
    <3>1. ViewShown \in Int /\ ViewShown <= 0
          /\ (~CutAfter => ViewShown <= now - QpcAfter - Period)
      BY <2>4, <2>5, CameraShows
    <3>2. ViewTypeOK'
      <4>1. shown' \in [at : Int, hz : Rates \cup {0}, blend : BOOLEAN]
        BY <2>3, <2>5, <3>1, CameraSnaps
      <4> QED
        BY <2>7, <4>1 DEF ViewTypeOK
    <3>3. SnapInv'
      <4>1. shown'.blend => prevSnap'.shot = currSnap'.shot
        BY <2>1, <2>4, <2>5, <2>8
      <4> QED
        BY <2>8, <4>1 DEF SnapInv
    <3>4. PeriodOf(shown.hz)' = Period
      BY <2>3, <2>5 DEF PeriodOf
    <3>5. ShownInv'
      BY <2>1, <2>4, <2>5, <3>1, <3>4 DEF ShownInv
    <3> QED
      BY <3>2, <3>3, <3>5
  <2>6. CASE shown' = [NotSmooth EXCEPT !.blend = Smooth /\ ~CutAfter]
    <3>1. shown' = [at |-> 0, hz |-> 0, blend |-> Smooth /\ ~CutAfter]
      BY <2>6 DEF NotSmooth
    <3>2. ViewTypeOK'
      <4>1. shown' \in [at : Int, hz : Rates \cup {0}, blend : BOOLEAN]
        BY <2>4, <3>1, CameraSnaps
      <4> QED
        BY <2>7, <4>1 DEF ViewTypeOK
    <3>3. SnapInv'
      <4>1. shown'.blend => prevSnap'.shot = currSnap'.shot
        BY <2>1, <2>4, <3>1, <2>8
      <4> QED
        BY <2>8, <4>1 DEF SnapInv
    <3>4. ShownInv'
      BY <3>1 DEF ShownInv
    <3> QED
      BY <3>2, <3>3, <3>4
  <2> QED
    BY <2>2, <2>5, <2>6
<1>6. CASE UNCHANGED vars
  <2>1. UNCHANGED <<viewVars, now, pc>>
    BY <1>6 DEF vars, throttleVars
  <2> QED
    BY <1>1, <1>2, <2>1 DEF SnapInv
<1> QED
  BY <1>3, <1>4, <1>5, <1>6 DEF Next

LEMMA ViewInvariant == Spec => []ViewInv
<1>1. Init => ViewInv
  <2> SUFFICES ASSUME Init PROVE ViewInv
    OBVIOUS
  <2>1. now = 1
    BY DEF Init, ThrottleInit
  <2>2. /\ shot = 0 /\ prevSnap = NoSnap /\ currSnap = NoSnap /\ currQpc = 0
        /\ dirty = FALSE /\ cut = FALSE /\ shown = NotSmooth
    BY DEF Init, ViewInit
  <2>3. ViewTypeOK
    <3>1. NoSnap.ago = 0 /\ 0 \in 0 .. 1 /\ 0 \in 0 .. 2
      BY DEF NoSnap
    <3>2. NoSnap \in [valid : BOOLEAN, ago : 0 .. 2, shot : {0, 1}]
      BY <3>1 DEF NoSnap
    <3>3. NoSnap \in [valid : BOOLEAN, ago : 0 .. 1, shot : {0, 1}]
      BY <3>1 DEF NoSnap
    <3>4. NotSmooth \in [at : Int, hz : Rates \cup {0}, blend : BOOLEAN]
      BY DEF NotSmooth
    <3>5. {dirty, cut} \subseteq BOOLEAN
      BY <2>2
    <3> QED
      BY <2>2, <3>2, <3>3, <3>4, <3>5 DEF ViewTypeOK
  <2>4. SnapInv /\ ShownInv
    BY <2>1, <2>2 DEF SnapInv, ShownInv, NoSnap, NotSmooth
  <2> QED
    BY <2>3, <2>4 DEF ViewInv
<1>2. ClockInv /\ ClockInv' /\ ViewInv /\ [Next]_vars => ViewInv'
  BY ViewStep
<1> QED
  BY <1>1, <1>2, ClockInvariant, PTL DEF Spec

\* The type invariant of the pump with all its hooks.
THEOREM Typing == Spec => []TypeOK
<1>1. ClockInv /\ DtInv /\ ViewInv => TypeOK
  BY DEF ClockInv, DtInv, ViewInv, TypeOK
<1> QED
  BY <1>1, ClockInvariant, DtInvariant, ViewInvariant, PTL

\* No frame shows a blend of two shots, however the simulation's ticks, its
\* cuts and the frames without a tick come.
THEOREM NoBlend == Spec => []NoBlendAcrossCut
<1>1. ViewInv => NoBlendAcrossCut
  BY DEF ViewInv, SnapInv, NoBlendAcrossCut
<1> QED
  BY <1>1, ViewInvariant, PTL

\* The picture never jumps back between two smoothed frames at one rate.
THEOREM NeverRewinds == Spec => ViewNeverRewinds
<1>1. ASSUME ClockInv, ViewInv, [Next]_vars, pc = "camera", shown.hz # 0,
             shown'.hz = shown.hz, viewVars' # viewVars
      PROVE  shown'.at >= shown.at
  <2>1. CameraApply
    BY <1>1 DEF Next, vars, MainPump, AltPump, SimSkip, SimRun, Render, EndScene,
                PostRender
  <2>2. shown' = [at |-> ViewShown, hz |-> cfg.hz, blend |-> ~CutAfter] /\ Smooth
    BY <1>1, <2>1 DEF CameraApply, NotSmooth
  <2>3. shown.hz = cfg.hz /\ PrevAfter.valid /\ shown'.at = ViewShown
    BY <1>1, <2>2 DEF Smooth
  <2> QED
    BY <1>1, <2>3, CameraShows
<1>2. ClockInv /\ ViewInv /\ [Next]_vars =>
        [pc = "camera" /\ shown.hz # 0 /\ shown'.hz = shown.hz
         => shown'.at >= shown.at]_viewVars
  BY <1>1
<1> QED
  BY <1>2, ClockInvariant, ViewInvariant, PTL DEF Spec, ViewNeverRewinds
=============================================================================
