--------------------------- MODULE ThrottleBudget ---------------------------
(***************************************************************************)
(* SimThrottle with a history of how much it gives: simulation time        *)
(* against real time, and steps of the alt pump's consumers against ticks  *)
(* of the simulation.                                                      *)
(***************************************************************************)
EXTENDS SimThrottle

VARIABLES
    bucket,       \* simulation time given out and not yet passed
    counting,     \* the alt pump runs, throttled, and for a while now its
    lead          \* consumers have advanced this much more often than the sim

budgetVars == <<throttleVars, bucket, counting, lead>>

BudgetInit == ThrottleInit /\ bucket = 0 /\ counting = FALSE /\ lead = 0

\* What is left of an amount when the real time of a step has passed.
Leaked(amount) == LET left == amount - (now' - now) IN IF left > 0 THEN left ELSE 0

CountMain == /\ bucket' = Leaked(bucket)
             /\ counting' = FALSE /\ lead' = 0

CountAlt == /\ bucket' = Leaked(bucket)
            /\ counting' = SubsystemThrottles
            /\ lead' = CASE ~SubsystemThrottles -> 0
                         [] SubsystemThrottles /\ VisualsMove -> lead + 1
                         [] OTHER -> lead

\* A run that the throttle did not time starts the history anew.
CountRun == /\ bucket' = IF EffectiveThrottling THEN Leaked(bucket + Period) ELSE 0
            /\ lead' = IF counting THEN lead - 1 ELSE 0
            /\ UNCHANGED counting

CountNothing == UNCHANGED <<bucket, counting, lead>>

BudgetNext ==
    \/ MainPump /\ CountMain
    \/ AltPump /\ CountAlt
    \/ SimRun /\ CountRun
    \/ SimSkip /\ CountNothing
    \/ Camera /\ CountNothing
    \/ Render /\ CountNothing
    \/ EndScene /\ CountNothing
    \/ PostRender /\ CountNothing

BudgetSpec == BudgetInit /\ [][BudgetNext]_budgetVars

-----------------------------------------------------------------------------
\* The type invariant.
BudgetTypeOK == ThrottleTypeOK /\ bucket \in Nat /\ counting \in BOOLEAN /\ lead \in Int

\* In any stretch of throttled time the simulation is given no more than that
\* time, the half second the drift cap leaves of a stall, and one period: a
\* burst of ticks ends.  (The bucket holds what was given out above the time
\* that has passed since it was last empty.)
BurstBounded == \E r \in Rates : bucket <= HalfSecond + Freq \div r

\* While the alt pump runs throttled, its consumers advance once for each tick
\* of the simulation, at most one late or one early, although they ask before
\* the tick about the tick before.
AltOncePerTick == lead \in -1 .. 1
=============================================================================
