---------------------------- MODULE InputRouting ----------------------------
(***************************************************************************)
(* Which input device an entity reads during its tick: the registry of     *)
(* player entities, the hook around every entity's component walk and the  *)
(* device pointer of the engine's ControlMapper.                           *)
(*                                                                         *)
(* Everything runs on the sim thread.  The walk of a player entity may     *)
(* run the walks of other entities inside it, so the hook's frames form a  *)
(* stack; one player's walk does not run inside another's.                 *)
(***************************************************************************)
EXTENDS Integers, Sequences, FiniteSets

CONSTANTS
    Addr,       \* the addresses the factory gives to wilbur entities
    Others,     \* entities of other classes whose tick passes the walker
    NULL,
    MaxDepth    \* bound: walks inside one another

ASSUME AddrAssumption == Addr \cap Others = {} /\ NULL \notin Addr \cup Others
ASSUME DepthAssumption == MaxDepth \in Nat

VARIABLES
    \* the engine
    wilbur, orphans, \* the live player entities: the engine's, the probe's
    dev,             \* the device ControlMapper's instance+4 points to
    \* the registry
    instance,        \* g_instance
    \* controlmapper_dev
    captured,        \* g_captured, and so g_instance and g_dev_p1
    cloned,          \* g_dev_p2 is not null
    \* the walker hook
    frames,          \* its activations, innermost last
    \* history
    first,           \* the first orphan that was built
    buried           \* a player entity has been freed

entityVars == <<wilbur, orphans, instance, first, buried>>
deviceVars == <<captured, cloned>>
vars == <<entityVars, deviceVars, dev, frames>>

Slot == 0 .. 1   \* kMaxInstances
Live == orphans \cup ({wilbur} \ {NULL})
Idle == frames = <<>>

Init ==
    /\ wilbur = NULL /\ orphans = {} /\ dev = "p1"
    /\ instance = [i \in Slot |-> NULL]
    /\ captured = FALSE /\ cloned = FALSE
    /\ frames = <<>> /\ first = NULL /\ buried = FALSE

-----------------------------------------------------------------------------
(* The registry. *)

\* player_idx_for.
PlayerIdx(e) == IF instance[0] = e THEN 0
                ELSE IF instance[1] = e THEN 1 ELSE -1

\* register_instance, which the hook on the wilbur factory calls for every
\* entity the engine or try_spawn_p2 builds.  Nothing calls unregister_instance.
RegisterInstance(e) ==
    instance' = IF PlayerIdx(e) >= 0 THEN instance
                ELSE IF instance[0] = NULL THEN [instance EXCEPT ![0] = e]
                ELSE IF instance[1] = NULL THEN [instance EXCEPT ![1] = e]
                ELSE instance

-----------------------------------------------------------------------------
(* The engine builds and frees player entities between two ticks. *)

LoadLevel ==
    /\ Idle /\ wilbur = NULL
    /\ \E e \in Addr : wilbur' = e /\ RegisterInstance(e)
    /\ UNCHANGED <<orphans, first, buried, deviceVars, dev, frames>>

UnloadLevel ==
    /\ Idle /\ wilbur # NULL
    /\ wilbur' = NULL /\ orphans' = {} /\ buried' = TRUE
    /\ UNCHANGED <<instance, first, deviceVars, dev, frames>>

\* try_spawn_p2: its gates let it call the factory in gameplay only, but do not
\* ask whether an orphan is alive; the Debug tab's button may build one more.
Born(e) == /\ orphans' = orphans \cup {e}
           /\ first' = IF first = NULL THEN e ELSE first
           /\ RegisterInstance(e)
SpawnOrphan ==
    /\ Idle /\ wilbur # NULL
    /\ \E e \in Addr \ Live : Born(e)
    /\ UNCHANGED <<wilbur, buried, deviceVars, dev, frames>>

\* An orphan is freed at once (no session, no keep flag) or when its player
\* is unregistered.
Freed(e) == orphans' = orphans \ {e} /\ buried' = TRUE
DestroyOrphan ==
    /\ Idle /\ \E e \in orphans : Freed(e)
    /\ UNCHANGED <<wilbur, instance, first, deviceVars, dev, frames>>

-----------------------------------------------------------------------------
(* controlmapper_dev. *)

\* hook_tick: the first ControlMapper::Tick that finds a device captures it,
\* once; the clone for player 2 may fail and is not tried again.
CaptureDevice ==
    /\ Idle /\ ~captured
    /\ captured' = TRUE /\ cloned' \in BOOLEAN
    /\ UNCHANGED <<entityVars, dev, frames>>

\* swap_to_player: the device instance+4 points to afterwards.
SwapTo(idx) ==
    CASE captured /\ idx = 0            -> "p1"
      [] captured /\ idx = 1 /\ cloned  -> "p2"
      [] OTHER                          -> dev

-----------------------------------------------------------------------------
(* hook_walker. *)

CanWalk(e) == Idle \/ e \in Others

WalkBegin(e) ==
    /\ e \in Live \cup Others /\ CanWalk(e)
    /\ Len(frames) < MaxDepth
    /\ frames' = Append(frames, [entity |-> e, idx |-> PlayerIdx(e)])
    /\ dev' = SwapTo(PlayerIdx(e))
    /\ UNCHANGED <<entityVars, deviceVars>>

Innermost == frames[Len(frames)]

\* The device when frame f has been left: POST is gated as PRE is.
RestoredAlways(f) == SwapTo(0)
Restored(f) == IF f.idx >= 0 THEN SwapTo(0) ELSE dev

WalkEnd ==
    /\ ~Idle
    /\ frames' = SubSeq(frames, 1, Len(frames) - 1)
    /\ dev' = Restored(Innermost)
    /\ UNCHANGED <<entityVars, deviceVars>>

\* A fault in a walk that is caught further out: every frame's __finally runs.
UnwoundSkipping == dev
Unwound == IF \E i \in 1 .. Len(frames) : frames[i].idx >= 0
           THEN SwapTo(0) ELSE dev

WalkFaults ==
    /\ ~Idle
    /\ frames' = <<>> /\ dev' = Unwound
    /\ UNCHANGED <<entityVars, deviceVars>>

-----------------------------------------------------------------------------
Next ==
    \/ LoadLevel \/ UnloadLevel \/ SpawnOrphan \/ DestroyOrphan
    \/ CaptureDevice
    \/ (\E e \in Addr \cup Others : WalkBegin(e)) \/ WalkEnd \/ WalkFaults

Spec == Init /\ [][Next]_vars

-----------------------------------------------------------------------------
Frame == [entity : Addr \cup Others, idx : -1 .. 1]

\* The type invariant; no entity has two slots, so its index is unique.
TypeOK ==
    /\ {wilbur, first} \subseteq Addr \cup {NULL} /\ orphans \subseteq Addr
    /\ dev \in {"p1", "p2"}
    /\ instance \in [Slot -> Addr \cup {NULL}]
    /\ instance[0] = instance[1] => instance[0] = NULL
    /\ captured \in BOOLEAN /\ cloned \in BOOLEAN
    /\ frames \in Seq(Frame) /\ buried \in BOOLEAN

\* Outside every walk the engine reads its own device: neither a return nor a
\* fault leaves instance+4 at the clone, at whatever depth it happens.
DeviceRestored == Idle => dev = "p1"

\* The local player's walk reads the hardware, the first orphan's walk the idle
\* clone, also between and after the walks nested in it, and whatever orphans
\* are built later: the registry has no place for those.
RightDevice ==
    ~Idle => /\ Innermost.entity = wilbur => dev = "p1"
             /\ Innermost.entity = first /\ cloned => dev = "p2"

\* It is so for as long as no player entity has been freed.
RightDeviceAtFirst == ~buried => RightDevice
=============================================================================
