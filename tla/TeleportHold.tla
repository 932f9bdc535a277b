---------------------------- MODULE TeleportHold ----------------------------
(***************************************************************************)
(* The free camera's teleport and its hold, on top of the two clients of   *)
(* InterpFence that write into the same entity.                            *)
(*                                                                         *)
(* A teleport writes the player's logic position (+0x58, mem here) and the *)
(* position of his model (sub+0x10, model here).  The engine would undo    *)
(* both: its next tick moves the player back to where his animation is,    *)
(* and the model falls a little with every frame.  So for a number of      *)
(* ticks the mod has the engine pass over the player's node, writes both   *)
(* positions after each tick, and the model's again in each frame.         *)
(*                                                                         *)
(* The k-th place the player is teleported to is the stamp Spot(k); the    *)
(* stamps of the engine's own poses are its ticks.                         *)
(***************************************************************************)
EXTENDS InterpFence

CONSTANTS
    MaxHold,     \* the largest hold a session's slider gives: 1200 ticks
    MaxSpots     \* bound: the teleports of a session

ASSUME HoldAssumption == {MaxHold, MaxSpots} \subseteq [Sessions -> Nat]

VARIABLES
    ticked,      \* freecam::tick has run in this EndScene, the menu is next
    setting,     \* g_teleport_hold_frames_setting
    hold,        \* g_teleport_hold_remaining
    target,      \* g_teleport_target_x, _y, _z
    model,       \* sub+0x10 of each entity: the stamp of the place and how far
                 \* below it the model is, in frames
    spots,       \* teleports so far
    who,         \* history: the entity the latest of them was to hold, until
                 \* it is the player no more
    served,      \* history: a tick has been held since
    unfenced     \* history: since the last tick of the hold M5 has been
                 \* switched off with its blends in memory, or both clients
                 \* have written into the player

holdVars == <<ticked, setting, hold, target, model, spots, who, served,
              unfenced>>
allVars == <<vars, holdVars>>

Spot(k) == -(k + 1)
At(stamp) == [at |-> stamp, drop |-> 0]
MaxDrop == 2     \* bound: two frames or more

HoldInit ==
    /\ Init
    /\ ticked = FALSE /\ setting \in 0 .. MaxHold[session] /\ hold = 0 /\ target = 0
    /\ model = [e \in Entity |-> At(0)]
    /\ spots = 0 /\ who = NULL /\ served = FALSE /\ unfenced = FALSE

-----------------------------------------------------------------------------
\* write_player_pos and write_player_render_pos: they look the player up.
PlayerPut(m, stamp) ==
    IF player = NULL THEN m ELSE [m EXCEPT ![player] = <<stamp, stamp>>]
ModelPut(m, stamp) ==
    IF player = NULL THEN m ELSE [m EXCEPT ![player] = At(stamp)]

HoldRestore == Restore /\ UNCHANGED holdVars

HoldGate == Gate /\ UNCHANGED holdVars

\* hk_entity_transform_tick sets the skip bit of the player's node around the
\* engine's walk.  The engine moves a model with its entity; that of the held
\* player it may put back to his logic position, if the navmesh is near.
\* (Whoever appears in this tick is placed by the level.)
PassedOverNone == {}
PassedOver == IF hold > 0 THEN {player'} \cap Listed ELSE {}

HoldSim ==
    /\ Tick(PassedOver)
    /\ \E near \in BOOLEAN :
         model' = [e \in Entity |->
                     IF e \notin ToSet(list') THEN model[e]
                     ELSE IF e \notin PassedOver THEN At(tick')
                     ELSE IF near THEN At(mem[e][2]) ELSE model[e]]
    /\ who' = IF player' = player THEN who ELSE NULL
    /\ UNCHANGED <<ticked, setting, hold, target, spots, served, unfenced>>

\* on_post_sim_aggregator: after both clients have captured their poses.
OnPostSim ==
    IF hold = 0 THEN UNCHANGED <<mem, model, hold, served, unfenced>>
    ELSE /\ mem' = PlayerPut(mem, target)
         /\ model' = ModelPut(model, target)
         /\ hold' = hold - 1 /\ served' = TRUE /\ unfenced' = FALSE

HoldCapture ==
    /\ CaptureBoth
    /\ OnPostSim
    /\ UNCHANGED <<list, player, real, ticked, setting, target, spots, who>>

\* A frame: the player's model falls.
Lower(d) == IF d < MaxDrop THEN d + 1 ELSE d

BothWrite == PlayerWrites /\ \E i \in NpcWriters : slots[i].inner = handle

HoldRender ==
    /\ Render
    /\ unfenced' = (unfenced \/ BothWrite)
    /\ model' = [e \in Entity |-> IF e # player THEN model[e]
                                  ELSE [model[e] EXCEPT !.drop = Lower(@)]]
    /\ UNCHANGED <<ticked, setting, hold, target, spots, who, served>>

-----------------------------------------------------------------------------
(* EndScene: freecam::tick, then the menu.                                 *)

\* render_hold_tick.
ModelOnce == model
ModelHeld == IF hold > 0 THEN ModelPut(model, target) ELSE model

\* teleport_player_to: without a player nothing happens, and a hold that is
\* switched off leaves the one that is running as it is.
TeleportTo(stamp) ==
    IF player = NULL
    THEN model' = ModelHeld /\ UNCHANGED <<mem, hold, target, who, served>>
    ELSE /\ mem' = PlayerPut(mem, stamp)
         /\ model' = ModelPut(model, stamp)
         /\ IF setting > 0 THEN hold' = setting /\ target' = stamp
                           ELSE UNCHANGED <<hold, target>>
         /\ who' = IF setting > 0 THEN player ELSE NULL
         /\ served' = FALSE

CameraTick ==
    /\ pc = "menu" /\ ~ticked /\ ticked' = TRUE
    /\ \/ /\ model' = ModelHeld
          /\ UNCHANGED <<mem, hold, target, spots, who, served>>
       \/ /\ spots < MaxSpots[session] /\ spots' = spots + 1
          /\ TeleportTo(Spot(spots'))
    /\ UNCHANGED <<session, pc, tick, throttling, list, player, real,
                   playerVars, npcVars, setting, unfenced>>

\* The Camera tab: the slider and the Release button.
HoldControls ==
    \/ UNCHANGED <<setting, hold>>
    \/ setting' \in 0 .. MaxHold[session] /\ UNCHANGED hold
    \/ hold > 0 /\ hold' = 0 /\ UNCHANGED setting

HoldMenu ==
    /\ ticked /\ ticked' = FALSE
    /\ Menu
    /\ HoldControls
    /\ unfenced' = (unfenced \/ (served /\ n_on /\ ~n_on'))
    /\ UNCHANGED <<target, model, spots, who, served>>

HoldNext == \/ HoldRestore \/ HoldGate \/ HoldSim \/ HoldCapture \/ HoldRender
            \/ CameraTick \/ HoldMenu

HoldSpec == HoldInit /\ [][HoldNext]_allVars

-----------------------------------------------------------------------------
\* The hold that runs is the latest teleport's, and its player is still there.
Holds == hold > 0 /\ who # NULL

\* Until somebody teleports, the fence is what it is without the free camera.
FenceStands == spots = 0 => SimReadsClean

\* From the second tick of a hold on, the simulation finds the teleported
\* player where he was put and leaves him there for the clients to capture,
\* whatever the clients' blends, their check boxes and the throttle did to his
\* memory since the tick before.  Excepted are switching M5 off, which leaves
\* its blends where they are, and a frame in which M5 still has a slot for the
\* player that M4 has just taken up: they restore in the order in which they
\* wrote.
HoldReachesSim ==
    pc \in {"sim", "capture"} /\ Holds /\ served /\ ~unfenced
        => mem[player] = <<target, target>>

\* In every frame of a hold the teleported player's model is drawn at the
\* place, at most one frame's fall below it.
HeldInView ==
    pc = "menu" /\ ~ticked /\ Holds
        => model[player].at = target /\ model[player].drop <= 1
=============================================================================
