---------------------------- MODULE FramePump ----------------------------
(***************************************************************************)
(* The pump with all its hooks: the throttle, the step of time and the     *)
(* camera's interpolation, as hk_sim_aggregator,                           *)
(* hk_camera_apply_all_active, hk_timer_wheel_pretick and hk_EndScene call *)
(* them.                                                                   *)
(***************************************************************************)
EXTENDS DtCorrectness, CameraView

vars == <<throttleVars, dtVars, viewVars>>

Init == ThrottleInit /\ DtInit /\ ViewInit

Next ==
    \/ MainPump /\ UNCHANGED <<dtVars, viewVars>>
    \/ AltPump /\ WriteForAltPump /\ UNCHANGED viewVars
    \/ SimSkip /\ UNCHANGED <<dtVars, viewVars>>
    \/ SimRun /\ WriteForSimRun /\ OnSimTickPost
    \/ Camera /\ WriteForRenderFrame /\ CameraApply
    \/ Render /\ RenderReads /\ UNCHANGED viewVars
    \/ EndScene /\ SetEnabled /\ UNCHANGED viewVars
    \/ PostRender /\ UNCHANGED <<dtVars, viewVars>>

Spec == Init /\ [][Next]_vars

-----------------------------------------------------------------------------
\* The type invariant.
TypeOK == ThrottleTypeOK /\ DtTypeOK /\ ViewTypeOK
=============================================================================
