---------------------------- MODULE CameraView ----------------------------
(***************************************************************************)
(* The camera's interpolation: two snapshots taken after ticks of the      *)
(* simulation, the detection of cuts, and the view that is shown between   *)
(* them.                                                                   *)
(*                                                                         *)
(* A view is named by the shot it belongs to and by how many ticks ago it  *)
(* was made.  Positions between two ticks are measured in parts of a       *)
(* period, so that they stay integers.  The operators extend the steps of  *)
(* SimThrottle; FramePump puts them together.                              *)
(***************************************************************************)
EXTENDS SimThrottle

VARIABLES
    shot,         \* the shot the engine's camera is in
    prevSnap, currSnap,   \* g_prev and g_curr
    currQpc,      \* g_curr.qpc
    dirty,        \* g_curr_dirty
    cut,          \* g_cut_for_curr
    \* history
    shown         \* the frame on the screen: where, and at which rate

viewVars == <<shot, prevSnap, currSnap, currQpc, dirty, cut, shown>>

NoSnap == [valid |-> FALSE, ago |-> 0, shot |-> 0]
NotSmooth == [at |-> 0, hz |-> 0, blend |-> FALSE]

ViewInit ==
    /\ shot = 0
    /\ prevSnap = NoSnap /\ currSnap = NoSnap /\ currQpc = 0
    /\ dirty = FALSE /\ cut = FALSE
    /\ shown = NotSmooth

-----------------------------------------------------------------------------
\* on_sim_tick_post.  The simulation may have cut to another shot.
Aged(snap) == IF snap.valid THEN [snap EXCEPT !.ago = @ + 1] ELSE snap

OnSimTickPost ==
    /\ shot' \in {0, 1} /\ dirty' = TRUE
    /\ prevSnap' = Aged(prevSnap) /\ currSnap' = Aged(currSnap)
    /\ shown' = IF shown.hz = 0 THEN shown
                ELSE [shown EXCEPT !.at = @ - Freq \div shown.hz]
    /\ UNCHANGED <<currQpc, cut>>

\* A snapshot is taken after a tick, and the first time.
Takes == dirty \/ ~currSnap.valid

PrevAfter == IF Takes /\ currSnap.valid THEN currSnap ELSE prevSnap
CurrAfter == IF Takes THEN [valid |-> TRUE, ago |-> 0, shot |-> shot] ELSE currSnap
QpcAfter == IF Takes THEN now ELSE currQpc

\* detect_cut compares the two snapshots that will be blended.
CutForOneFrame == Takes /\ PrevAfter.valid /\ PrevAfter.shot # CurrAfter.shot
CutAfterEarly == IF Takes /\ PrevAfter.valid THEN prevSnap.shot # currSnap.shot ELSE cut
CutAfter == IF Takes /\ PrevAfter.valid THEN PrevAfter.shot # CurrAfter.shot ELSE cut

\* current_alpha, in parts of a Period.
Alpha(since) == IF now - since >= Period THEN Period ELSE now - since

\* view_apply_interp_for_render_frame blends unless one of its gates is shut.
Smooth == cfg.view /\ PrevAfter.valid /\ EffectiveThrottling

\* 0 is where the engine's own camera is.
ViewShown ==
    IF CutAfter THEN 0
    ELSE Alpha(QpcAfter) * (PrevAfter.ago - CurrAfter.ago) - PrevAfter.ago * Period

\* hk_camera_apply_all_active.  With the aim button down alpha is 1, so that
\* what is shown jumps to the current snapshot.
CameraApply ==
    /\ prevSnap' = PrevAfter /\ currSnap' = CurrAfter /\ currQpc' = QpcAfter
    /\ cut' = CutAfter /\ dirty' = FALSE
    /\ \E aim \in BOOLEAN :
          shown' = IF Smooth /\ ~aim
                   THEN [at |-> ViewShown, hz |-> cfg.hz, blend |-> ~CutAfter]
                   ELSE [NotSmooth EXCEPT !.blend = Smooth /\ ~CutAfter]
    /\ UNCHANGED shot

-----------------------------------------------------------------------------
\* The type invariant.
ViewTypeOK ==
    /\ shot \in {0, 1} /\ {dirty, cut} \subseteq BOOLEAN
    /\ prevSnap \in [valid : BOOLEAN, ago : 0 .. 2, shot : {0, 1}]
    /\ currSnap \in [valid : BOOLEAN, ago : 0 .. 1, shot : {0, 1}]
    /\ currQpc \in Nat
    /\ shown \in [at : Int, hz : Rates \cup {0}, blend : BOOLEAN]

\* The picture never jumps back in time, from one smoothed frame to the next
\* at the same rate, whatever the simulation's jitter, stalls and cuts.
ViewNeverRewinds ==
    [][pc = "camera" /\ shown.hz # 0 /\ shown'.hz = shown.hz
       => shown'.at >= shown.at]_viewVars

\* Two shots are never blended.
NoBlendAcrossCut == shown.blend => prevSnap.shot = currSnap.shot
=============================================================================
