------------------------ MODULE OrphanSpawn_proofs ------------------------
(***************************************************************************)
(* Theorems about InputRouting, for every set of addresses and every depth *)
(* of nesting, and about OrphanSpawn, for every set of keys too.           *)
(*                                                                         *)
(* InputRouting: the registry changes only while no walk runs, so a        *)
(* frame's index still is its entity's, and only the outermost frame can   *)
(* be a player's: the device is a function of that frame (DeviceInv).      *)
(*                                                                         *)
(* OrphanSpawn: an attempt begins outside every walk and with an entity of *)
(* its own still to be made (AttemptInv), so each of its steps is          *)
(* InputRouting's SpawnOrphan or DestroyOrphan, or is invisible there: the *)
(* theorems about InputRouting hold of the whole.                          *)
(***************************************************************************)
EXTENDS OrphanSpawn, TLAPS

-----------------------------------------------------------------------------
(* InputRouting: the device and the registry. *)

FrameInv ==
    \A i \in 1 .. Len(frames) :
        /\ frames[i].idx = PlayerIdx(frames[i].entity)
        /\ i > 1 => frames[i].entity \in Others

DeviceInv ==
    /\ cloned => captured
    /\ dev = IF ~Idle /\ frames[1].idx = 1 /\ cloned THEN "p2" ELSE "p1"

TypeInv == TypeOK /\ FrameInv /\ DeviceInv

\* Before any player entity has died, slot 0 is Wilbur's and slot 1 the
\* first orphan's.
RegistryInv ==
    ~buried => /\ instance[0] = wilbur /\ instance[1] = first
               /\ wilbur = NULL => first = NULL

-----------------------------------------------------------------------------
(* Lemmas about the operators. *)

\* register_instance fills at most one slot, with the new entity, and never
\* gives an entity a second one.
LEMMA RegisterFacts ==
    ASSUME TypeOK, NEW e \in Addr, RegisterInstance(e)
    PROVE  /\ instance' \in [Slot -> Addr \cup {NULL}]
           /\ instance'[0] = instance'[1] => instance'[0] = NULL
<1>1. e # NULL
  BY AddrAssumption
<1>2. QED
  BY <1>1 DEF TypeOK, RegisterInstance, PlayerIdx, Slot

\* Entities of other classes have no index.
LEMMA OthersHaveNone ==
    ASSUME TypeOK, NEW e \in Others
    PROVE  PlayerIdx(e) = -1
<1>1. e \notin Addr \cup {NULL}
  BY AddrAssumption
<1>2. instance[0] \in Addr \cup {NULL} /\ instance[1] \in Addr \cup {NULL}
  BY DEF TypeOK, Slot
<1>3. QED
  BY <1>1, <1>2 DEF PlayerIdx

LEMMA IndexRange == \A e : PlayerIdx(e) \in -1 .. 1
BY DEF PlayerIdx

\* A walk in progress has a first and an innermost frame.
LEMMA Ends ==
    ASSUME TypeOK, ~Idle
    PROVE  Len(frames) \in Nat /\ Len(frames) >= 1
BY DEF TypeOK, Idle

LEMMA PopSeq ==
    ASSUME NEW S, NEW s \in Seq(S), NEW n \in Nat, Len(s) = n + 1
    PROVE  /\ SubSeq(s, 1, n) \in Seq(S) /\ Len(SubSeq(s, 1, n)) = n
           /\ \A i \in 1 .. n : SubSeq(s, 1, n)[i] = s[i]
OBVIOUS

\* Leaving the innermost frame leaves the others as they are.
LEMMA PopFacts ==
    ASSUME TypeOK, ~Idle, frames' = SubSeq(frames, 1, Len(frames) - 1)
    PROVE  /\ frames' \in Seq(Frame) /\ Len(frames') = Len(frames) - 1
           /\ \A i \in 1 .. Len(frames') : frames'[i] = frames[i]
<1>1. Len(frames) \in Nat /\ Len(frames) >= 1 /\ frames \in Seq(Frame)
  BY Ends DEF TypeOK
<1>2. PICK n \in Nat : Len(frames) = n + 1 /\ Len(frames) - 1 = n
  BY <1>1
<1>3. QED
  BY <1>1, <1>2, PopSeq

-----------------------------------------------------------------------------
LEMMA TypeInit == Init => TypeInv
BY DEF Init, TypeInv, TypeOK, FrameInv, DeviceInv, Idle, Slot

\* The steps that change player entities run between two walks.
LEMMA EntityStep ==
    ASSUME TypeInv, Idle, UNCHANGED <<deviceVars, dev, frames>>,
           {wilbur', first'} \subseteq Addr \cup {NULL}, orphans' \subseteq Addr,
           buried' \in BOOLEAN,
           instance' \in [Slot -> Addr \cup {NULL}],
           instance'[0] = instance'[1] => instance'[0] = NULL
    PROVE  TypeInv'
BY DEF TypeInv, TypeOK, FrameInv, DeviceInv, Idle, deviceVars

LEMMA WalkBeginStep ==
    ASSUME TypeInv, NEW e \in Addr \cup Others, WalkBegin(e)
    PROVE  TypeInv'
<1> DEFINE f == [entity |-> e, idx |-> PlayerIdx(e)]
<1>1. f \in Frame /\ frames \in Seq(Frame) /\ frames' = Append(frames, f)
  BY IndexRange DEF WalkBegin, Frame, TypeInv, TypeOK
<1>2. /\ Len(frames') = Len(frames) + 1 /\ Len(frames) \in Nat
      /\ frames' \in Seq(Frame)
      /\ \A i \in 1 .. Len(frames) : frames'[i] = frames[i]
      /\ frames'[Len(frames) + 1] = f
  BY <1>1
<1>3. UNCHANGED <<entityVars, deviceVars>>
  BY DEF WalkBegin
<1>4. \A x : PlayerIdx(x)' = PlayerIdx(x)
  BY <1>3 DEF entityVars, PlayerIdx
<1>5. f.entity = e /\ f.idx = PlayerIdx(e)
  OBVIOUS
<1>6. FrameInv'
  <2> SUFFICES ASSUME NEW i \in 1 .. Len(frames')
               PROVE  /\ frames'[i].idx = PlayerIdx(frames'[i].entity)
                      /\ i > 1 => frames'[i].entity \in Others
    BY <1>4 DEF FrameInv
  <2>1. CASE i \in 1 .. Len(frames)
    BY <2>1, <1>2 DEF TypeInv, FrameInv
  <2>2. CASE i = Len(frames) + 1
    <3>1. i > 1 => ~Idle
      BY <2>2, <1>1 DEF Idle
    <3>2. QED
      BY <2>2, <3>1, <1>2, <1>5 DEF WalkBegin, CanWalk
  <2>3. QED
    BY <2>1, <2>2, <1>2
<1>7. DeviceInv'
  <2>1. dev' = SwapTo(PlayerIdx(e)) /\ ~Idle'
    BY <1>2 DEF WalkBegin, Idle
  <2>2. CASE Idle
    <3>1. frames'[1].idx = PlayerIdx(e) /\ dev = "p1"
      BY <2>2, <1>2, <1>5 DEF Idle, TypeInv, DeviceInv
    <3>2. PlayerIdx(e) \in {-1, 0, 1}
      BY IndexRange
    <3>3. QED
      BY <2>1, <3>1, <3>2, <1>3 DEF SwapTo, TypeInv, DeviceInv, deviceVars
  <2>3. CASE ~Idle
    <3>1. PlayerIdx(e) = -1
      BY <2>3, OthersHaveNone DEF WalkBegin, CanWalk, TypeInv
    <3>2. frames'[1] = frames[1]
      BY <2>3, <1>2, Ends DEF TypeInv
    <3>3. QED
      BY <2>1, <2>3, <3>1, <3>2, <1>3 DEF SwapTo, TypeInv, DeviceInv, deviceVars
  <2>4. QED
    BY <2>2, <2>3
<1>8. TypeOK'
  <2>1. dev' \in {"p1", "p2"}
    BY <1>7 DEF DeviceInv
  <2>2. QED
    BY <2>1, <1>2, <1>3 DEF TypeInv, TypeOK, entityVars, deviceVars
<1>9. QED
  BY <1>6, <1>7, <1>8 DEF TypeInv

\* Only the outermost frame can be a player's.
LEMMA OuterOnly ==
    ASSUME TypeInv, NEW i \in 1 .. Len(frames), frames[i].idx >= 0
    PROVE  i = 1
<1>1. frames[i].idx = PlayerIdx(frames[i].entity)
  BY DEF TypeInv, FrameInv
<1>2. CASE i > 1
  BY <1>1, <1>2, OthersHaveNone DEF TypeInv, FrameInv
<1>3. QED
  BY <1>2

LEMMA WalkEndStep ==
    ASSUME TypeInv, WalkEnd
    PROVE  TypeInv'
<1>1. /\ frames' \in Seq(Frame) /\ Len(frames') = Len(frames) - 1
      /\ \A i \in 1 .. Len(frames') : frames'[i] = frames[i]
  BY PopFacts DEF WalkEnd, TypeInv
<1>2. Len(frames) \in Nat /\ Len(frames) >= 1 /\ ~Idle
  BY Ends DEF WalkEnd, TypeInv
<1>3. UNCHANGED <<entityVars, deviceVars>> /\ dev' = Restored(Innermost)
  BY DEF WalkEnd
<1>4. \A x : PlayerIdx(x)' = PlayerIdx(x)
  BY <1>3 DEF entityVars, PlayerIdx
<1>5. FrameInv'
  BY <1>1, <1>2, <1>4 DEF TypeInv, FrameInv
<1>6. DeviceInv'
  <2>1. CASE Len(frames) = 1
    <3>1. Idle' /\ Innermost = frames[1]
      BY <2>1, <1>1 DEF Idle, Innermost
    <3>2. frames[1].idx \in {-1, 0, 1}
      BY <1>2, IndexRange DEF TypeInv, FrameInv
    <3>3. QED
      BY <1>2, <1>3, <3>1, <3>2
         DEF Restored, SwapTo, TypeInv, DeviceInv, deviceVars
  <2>2. CASE Len(frames) > 1
    <3>1. ~Idle' /\ frames'[1] = frames[1]
      BY <2>2, <1>1, <1>2 DEF Idle
    <3>2. ~(Innermost.idx >= 0)
      BY <2>2, <1>2, OuterOnly DEF Innermost
    <3>3. QED
      BY <1>2, <1>3, <3>1, <3>2 DEF Restored, TypeInv, DeviceInv, deviceVars
  <2>3. Len(frames) = 1 \/ Len(frames) > 1
    <3>1. \A k \in Nat : k >= 1 => k = 1 \/ k > 1
      OBVIOUS
    <3>2. QED
      BY <1>2, <3>1
  <2>4. QED
    BY <2>1, <2>2, <2>3
<1>7. TypeOK'
  <2>1. dev' \in {"p1", "p2"}
    BY <1>6 DEF DeviceInv
  <2>2. QED
    BY <2>1, <1>1, <1>3 DEF TypeInv, TypeOK, entityVars, deviceVars
<1>8. QED
  BY <1>5, <1>6, <1>7 DEF TypeInv

LEMMA WalkFaultsStep ==
    ASSUME TypeInv, WalkFaults
    PROVE  TypeInv'
<1>1. ~Idle /\ Idle' /\ frames' = <<>> /\ UNCHANGED <<entityVars, deviceVars>>
  BY DEF WalkFaults, Idle
<1>2. 1 \in 1 .. Len(frames)
  BY <1>1, Ends DEF TypeInv
<1>3. dev' = "p1"
  <2>1. CASE \E i \in 1 .. Len(frames) : frames[i].idx >= 0
    BY <2>1, <1>2 DEF WalkFaults, Unwound, SwapTo, TypeInv, DeviceInv
  <2>2. CASE ~\E i \in 1 .. Len(frames) : frames[i].idx >= 0
    <3>1. dev' = dev /\ frames[1].idx # 1
      BY <2>2, <1>2 DEF WalkFaults, Unwound
    <3>2. QED
      BY <3>1 DEF TypeInv, DeviceInv
  <2>3. QED
    BY <2>1, <2>2
<1>4. QED
  BY <1>1, <1>3
     DEF TypeInv, TypeOK, FrameInv, DeviceInv, entityVars, deviceVars

LEMMA TypeStep == TypeInv /\ [Next]_vars => TypeInv'
<1> SUFFICES ASSUME TypeInv, [Next]_vars PROVE TypeInv'
  OBVIOUS
<1>1. CASE LoadLevel
  BY <1>1, EntityStep, RegisterFacts DEF LoadLevel, TypeInv, TypeOK
<1>2. CASE UnloadLevel
  BY <1>2, EntityStep DEF UnloadLevel, TypeInv, TypeOK
<1>3. CASE SpawnOrphan
  BY <1>3, EntityStep, RegisterFacts DEF SpawnOrphan, Born, TypeInv, TypeOK
<1>4. CASE DestroyOrphan
  BY <1>4, EntityStep DEF DestroyOrphan, Freed, TypeInv, TypeOK
<1>5. CASE CaptureDevice
  BY <1>5 DEF CaptureDevice, entityVars, TypeInv, TypeOK, FrameInv, DeviceInv,
              PlayerIdx, Idle
<1>6. CASE \E e \in Addr \cup Others : WalkBegin(e)
  BY <1>6, WalkBeginStep
<1>7. CASE WalkEnd
  BY <1>7, WalkEndStep
<1>8. CASE WalkFaults
  BY <1>8, WalkFaultsStep
<1>9. CASE UNCHANGED vars
  BY <1>9 DEF vars, entityVars, deviceVars, TypeInv, TypeOK, FrameInv,
              DeviceInv, PlayerIdx, Idle
<1>10. QED
  BY <1>1, <1>2, <1>3, <1>4, <1>5, <1>6, <1>7, <1>8, <1>9 DEF Next

LEMMA TypeAlways == Spec => []TypeInv
BY TypeInit, TypeStep, PTL DEF Spec

-----------------------------------------------------------------------------
\* Every variable keeps its range and no entity owns both slots of the registry.
THEOREM Typing == Spec => []TypeOK
<1>1. TypeInv => TypeOK
  BY DEF TypeInv
<1>2. QED
  BY <1>1, TypeAlways, PTL

\* However deep the walks nest and wherever one faults, ControlMapper is back
\* at the engine's own device when the outermost walk has been left.
THEOREM DeviceGivenBack == Spec => []DeviceRestored
<1>1. TypeInv => DeviceRestored
  BY DEF TypeInv, DeviceInv, DeviceRestored
<1>2. QED
  BY <1>1, TypeAlways, PTL

LEMMA RegistryStep == TypeInv /\ RegistryInv /\ [Next]_vars => RegistryInv'
<1> SUFFICES ASSUME TypeInv, RegistryInv, [Next]_vars PROVE RegistryInv'
  OBVIOUS
<1>1. CASE LoadLevel
  <2>1. PICK e \in Addr : wilbur' = e /\ RegisterInstance(e)
    BY <1>1 DEF LoadLevel
  <2>2. e # NULL /\ wilbur = NULL /\ UNCHANGED <<first, buried>>
    BY <1>1, AddrAssumption DEF LoadLevel
  <2>3. QED
    BY <2>1, <2>2 DEF RegistryInv, RegisterInstance, PlayerIdx, TypeInv,
                      TypeOK, Slot
<1>2. CASE SpawnOrphan
  <2>1. PICK e \in Addr \ Live : Born(e)
    BY <1>2 DEF SpawnOrphan
  <2>2. e \notin {NULL, wilbur} /\ wilbur # NULL /\ UNCHANGED <<wilbur, buried>>
    BY <1>2, <2>1, AddrAssumption DEF SpawnOrphan, Live
  <2>3. QED
    BY <2>1, <2>2 DEF Born, RegistryInv, RegisterInstance, PlayerIdx, TypeInv,
                      TypeOK, Slot
<1>3. CASE UnloadLevel \/ DestroyOrphan
  BY <1>3 DEF UnloadLevel, DestroyOrphan, Freed, RegistryInv
<1>4. CASE \/ CaptureDevice \/ (\E e \in Addr \cup Others : WalkBegin(e))
           \/ WalkEnd \/ WalkFaults \/ UNCHANGED vars
  BY <1>4 DEF CaptureDevice, WalkBegin, WalkEnd, WalkFaults, vars, entityVars,
              RegistryInv
<1>5. QED
  BY <1>1, <1>2, <1>3, <1>4 DEF Next

\* As long as no player entity has died, Wilbur's walk reads the hardware and
\* the first orphan's walk the clone, at every point of every walk, whatever
\* orphans are built later.
THEOREM DevicesMatchPlayers == Spec => []RightDeviceAtFirst
<1>1. Init => RegistryInv
  BY DEF Init, RegistryInv, Slot
<1>2. TypeInv /\ RegistryInv => RightDeviceAtFirst
  <2> SUFFICES ASSUME TypeInv, RegistryInv, ~buried, ~Idle
               PROVE  /\ Innermost.entity = wilbur => dev = "p1"
                      /\ Innermost.entity = first /\ cloned => dev = "p2"
    BY DEF RightDeviceAtFirst, RightDevice
  <2>1. Len(frames) \in Nat /\ Len(frames) >= 1 /\ frames \in Seq(Frame)
    BY Ends DEF TypeInv, TypeOK
  <2>2. Innermost.entity \in Addr \cup Others
    <3>1. frames[Len(frames)] \in Frame
      BY <2>1
    <3>2. QED
      BY <3>1 DEF Innermost, Frame
  <2>3. /\ wilbur # NULL => PlayerIdx(wilbur) = 0
        /\ first # NULL => PlayerIdx(first) = 1
    BY DEF RegistryInv, PlayerIdx, TypeInv, TypeOK
  <2>4. ASSUME Innermost.entity \in {wilbur, first}
        PROVE  Innermost = frames[1] /\ frames[1].idx = PlayerIdx(Innermost.entity)
    <3>1. Innermost.entity # NULL /\ Innermost.entity \notin Others
      BY <2>2, <2>4, AddrAssumption DEF TypeInv, TypeOK
    <3>2. ~(Len(frames) > 1)
      <4>1. ASSUME Len(frames) > 1 PROVE FALSE
        <5>1. Len(frames) \in 1 .. Len(frames)
          BY <2>1
        <5>2. QED
          BY <3>1, <4>1, <5>1 DEF TypeInv, FrameInv, Innermost
      <4>2. QED
        BY <4>1
    <3>3. QED
      BY <2>1, <3>2 DEF TypeInv, FrameInv, Innermost
  <2>5. Innermost.entity # NULL
    BY <2>2, AddrAssumption
  <2>6. QED
    BY <2>3, <2>4, <2>5 DEF TypeInv, DeviceInv
<1>3. QED
  BY <1>1, <1>2, TypeAlways, RegistryStep, PTL DEF Spec

-----------------------------------------------------------------------------
(* OrphanSpawn: the phases of an attempt. *)

Phases == {"idle", "hooks", "unhook", "entity", "mirror"} \cup InFactory

AttemptInv ==
    /\ spawn_pc \in Phases
    /\ spawn_pc # "idle" => Idle /\ wilbur # NULL
    /\ made # NULL => made \in orphans
    /\ spawn_pc \in {"hooks", "registry_lookup", "alloc"} => made = NULL
    /\ spawn_pc \in {"entity", "mirror"} => made # NULL

\* The hooks are all there in the factory, and gone after it.
HookInv ==
    /\ spawn_pc = "hooks" => observing
    /\ spawn_pc \in {"idle", "entity", "mirror"} => hooked = {} /\ ~observing
    /\ spawn_pc \in InFactory \cup {"unhook"} => hooked = Rungs /\ observing

Hooked == Rungs \cup BootHooks
OwnTrail == \/ last.trail = reached \cap Hooked
            \/ last.trail = {} /\ ~last.succeeded

\* The breadcrumbs are cleared before the first hook is placed, and every
\* function with a hook then leaves one.
TrailInv ==
    /\ spawn_pc = "hooks" => crumbs = {} /\ reached = {}
    /\ spawn_pc \in InFactory \cup {"unhook"} => crumbs = reached \cap Hooked
    /\ spawn_pc \in {"idle", "entity", "mirror"} => OwnTrail

-----------------------------------------------------------------------------
(* The attempt as InputRouting sees it. *)

LEMMA AttemptInit == SpawnInit => AttemptInv /\ HookInv /\ TrailInv
BY DEF SpawnInit, AttemptInv, HookInv, TrailInv, OwnTrail, Phases, InFactory

\* What the steps of the factory that only pass a function have in common.
PassesThrough ==
    RegistryLookup \/ BagMerge \/ TransformSetup \/ ActorInit \/ BBD10
      \/ RegisterInScene \/ PostInit

\* The steps in which the entity leaves the attempt's hands.
MayLose == Validate1 \/ ActorInitReturns \/ FactoryFaults \/ TearDown

Quiet == GateFails \/ Begin \/ PlaceHook \/ HookFails \/ HooksReady
           \/ UninstallHooks \/ AttachMapper
           \/ (\E k \in Key : MirrorKey(k) \/ MissKey(k)) \/ MirrorFaults
           \/ HandOver

LEMMA Actions ==
    SpawnNext <=> Routing \/ Quiet \/ PassesThrough \/ MayLose \/ Construct
BY DEF SpawnNext, Factory, Quiet, PassesThrough, MayLose

\* InputRouting does not see the hooks, the breadcrumbs and the cells.
LEMMA QuietSteps == Quiet \/ PassesThrough => UNCHANGED vars
BY DEF Quiet, PassesThrough, GateFails, Begin, PlaceHook, HookFails,
       HooksReady, UninstallHooks, AttachMapper, MirrorKey, MissKey,
       MirrorFaults, HandOver, RegistryLookup, BagMerge, TransformSetup,
       ActorInit, BBD10, RegisterInScene, PostInit, routingVars, vars

LEMMA AttemptStep ==
    AttemptInv /\ [SpawnNext]_<<vars, spawnVars>> => AttemptInv'
<1> SUFFICES ASSUME AttemptInv, [SpawnNext]_<<vars, spawnVars>>
             PROVE  AttemptInv'
  OBVIOUS
<1> USE DEF AttemptInv, Phases, InFactory, Idle
<1>1. CASE Routing
  BY <1>1 DEF Routing
<1>2. CASE Quiet
  <2>1. UNCHANGED vars
    BY <1>2, QuietSteps
  <2>2. CASE GateFails \/ Begin \/ PlaceHook \/ HookFails \/ HooksReady
    BY <2>1, <2>2 DEF GateFails, Begin, PlaceHook, HookFails, HooksReady, vars,
                      entityVars, routingVars
  <2>3. CASE UninstallHooks \/ AttachMapper
    BY <2>1, <2>3 DEF UninstallHooks, AttachMapper, vars, entityVars, routingVars
  <2>4. CASE (\E k \in Key : MirrorKey(k) \/ MissKey(k)) \/ MirrorFaults \/ HandOver
    BY <2>1, <2>4 DEF MirrorKey, MissKey, MirrorFaults, HandOver, vars, entityVars, routingVars
  <2>5. QED
    BY <1>2, <2>2, <2>3, <2>4 DEF Quiet
<1>3. CASE PassesThrough
  <2>1. UNCHANGED vars
    BY <1>3, QuietSteps
  <2>2. QED
    BY <1>3, <2>1 DEF PassesThrough, RegistryLookup, BagMerge, TransformSetup,
         ActorInit, BBD10, RegisterInScene, PostInit, vars, entityVars, routingVars
<1>4. CASE MayLose
  BY <1>4 DEF MayLose, Validate1, ActorInitReturns, FactoryFaults, TearDown, Lose
<1>5. CASE Construct
  BY <1>5 DEF Construct, Born
<1>6. CASE UNCHANGED <<vars, spawnVars>>
  BY <1>6 DEF vars, spawnVars, entityVars
<1>7. QED
  BY <1>1, <1>2, <1>3, <1>4, <1>5, <1>6, Actions

\* Every step of an attempt is one of InputRouting's, or none.
LEMMA RoutingStep ==
    TypeOK /\ AttemptInv /\ [SpawnNext]_<<vars, spawnVars>> => [Next]_vars
<1> SUFFICES ASSUME TypeOK, AttemptInv, [SpawnNext]_<<vars, spawnVars>>
             PROVE  [Next]_vars
  OBVIOUS
<1>1. CASE Routing
  BY <1>1 DEF Routing, Next
<1>2. CASE Quiet \/ PassesThrough
  BY <1>2, QuietSteps
<1>3. CASE MayLose
  <2>1. Idle /\ UNCHANGED <<wilbur, instance, first, deviceVars, dev, frames>>
        /\ (Lose \/ UNCHANGED <<orphans, buried>>)
    BY <1>3 DEF MayLose, Validate1, ActorInitReturns, FactoryFaults, TearDown,
                AttemptInv, InFactory
  <2>2. CASE Lose /\ made # NULL
    BY <2>1, <2>2 DEF Lose, DestroyOrphan, Next, AttemptInv
  <2>3. CASE Lose /\ made = NULL
    BY <2>1, <2>3 DEF Lose, vars, entityVars
  <2>4. CASE UNCHANGED <<orphans, buried>>
    BY <2>1, <2>4 DEF vars, entityVars
  <2>5. QED
    BY <2>1, <2>2, <2>3, <2>4
<1>4. CASE Construct
  BY <1>4 DEF Construct, SpawnOrphan, Next, AttemptInv
<1>5. CASE UNCHANGED <<vars, spawnVars>>
  BY <1>5
<1>6. QED
  BY <1>1, <1>2, <1>3, <1>4, <1>5, Actions

\* A spawn hook by hook is a spawn: InputRouting is what try_spawn_p2 and its
\* failures look like to the registry, the device and the walker hook.
THEOREM SpawnIsRouting == SpawnSpec => Spec
<1>1. SpawnInit => Init
  BY DEF SpawnInit
<1>2. TypeInv /\ AttemptInv /\ [SpawnNext]_<<vars, spawnVars>>
        => [Next]_vars /\ TypeInv' /\ AttemptInv'
  BY RoutingStep, AttemptStep, TypeStep DEF TypeInv
<1>3. QED
  BY <1>1, <1>2, TypeInit, AttemptInit, PTL DEF SpawnSpec, Spec

LEMMA AttemptAlways == SpawnSpec => []AttemptInv
BY AttemptInit, AttemptStep, PTL DEF SpawnSpec

-----------------------------------------------------------------------------
(* Hooks and breadcrumbs. *)

LEMMA HookStep == HookInv /\ [SpawnNext]_<<vars, spawnVars>> => HookInv'
<1> SUFFICES ASSUME HookInv, [SpawnNext]_<<vars, spawnVars>> PROVE HookInv'
  OBVIOUS
<1> USE DEF HookInv, InFactory, hookVars
<1>1. CASE Routing
  BY <1>1 DEF Routing
<1>2. CASE GateFails \/ Begin \/ PlaceHook \/ HookFails \/ HooksReady
  BY <1>2 DEF GateFails, Begin, PlaceHook, HookFails, HooksReady, TakenBack
<1>3. CASE UninstallHooks
  <2>1. hooked' = {} /\ observing' = FALSE /\ spawn_pc' \in {"idle", "entity"}
    BY <1>3 DEF UninstallHooks, TakenBack
  <2>2. QED
    BY <2>1
<1>4. CASE AttachMapper
  BY <1>4 DEF AttachMapper
<1>5. CASE (\E k \in Key : MirrorKey(k) \/ MissKey(k)) \/ MirrorFaults \/ HandOver
  BY <1>5 DEF MirrorKey, MissKey, MirrorFaults, HandOver
<1>6. CASE PassesThrough
  BY <1>6 DEF PassesThrough, RegistryLookup, BagMerge, TransformSetup,
       ActorInit, BBD10, RegisterInScene, PostInit, Enter
<1>7. CASE MayLose
  BY <1>7 DEF MayLose, Validate1, ActorInitReturns, FactoryFaults, TearDown,
              Enter
<1>8. CASE Construct
  <2>1. spawn_pc = "alloc" /\ spawn_pc' = "bag_merge" /\ UNCHANGED <<hooked, observing>>
    BY <1>8 DEF Construct, Enter
  <2>2. QED
    BY <2>1
<1>9. CASE UNCHANGED <<vars, spawnVars>>
  BY <1>9 DEF spawnVars
<1>10. QED
  BY <1>1, <1>2, <1>3, <1>4, <1>5, <1>6, <1>7, <1>8, <1>9, Actions DEF Quiet

\* Outside an attempt the engine runs its own functions.
THEOREM HooksTakenBack == SpawnSpec => []EngineUnhooked
<1>1. HookInv => EngineUnhooked
  BY DEF HookInv, EngineUnhooked
<1>2. QED
  BY <1>1, HookStep, AttemptInit, PTL DEF SpawnSpec

\* Passing a function adds it to what was reached and to what is recorded.
LEMMA EnterKeepsTrail ==
    ASSUME HookInv, spawn_pc \in InFactory, crumbs = reached \cap Hooked,
           NEW f, Enter(f)
    PROVE  crumbs' = reached' \cap Hooked
<1>1. Seen(f) <=> f \in Hooked
  BY DEF HookInv, Seen, Hooked
<1>2. QED
  BY <1>1 DEF Enter

LEMMA TrailStep ==
    HookInv /\ TrailInv /\ [SpawnNext]_<<vars, spawnVars>> => TrailInv'
<1> SUFFICES ASSUME HookInv, TrailInv, [SpawnNext]_<<vars, spawnVars>>
             PROVE  TrailInv'
  OBVIOUS
<1> USE DEF TrailInv, hookVars
<1>1. CASE Routing
  BY <1>1 DEF Routing, OwnTrail, InFactory
<1>2. CASE GateFails \/ HookFails
  BY <1>2 DEF GateFails, HookFails, OwnTrail, InFactory
<1>3. CASE Begin \/ PlaceHook \/ HooksReady
  BY <1>3 DEF Begin, PlaceHook, HooksReady, InFactory
<1>4. CASE UninstallHooks
  <2>1. last'.trail = crumbs /\ crumbs = reached \cap Hooked /\ reached' = reached
        /\ spawn_pc' \in {"idle", "entity"}
    BY <1>4 DEF UninstallHooks
  <2>2. QED
    BY <2>1 DEF OwnTrail, InFactory
<1>5. CASE AttachMapper
  BY <1>5 DEF AttachMapper, OwnTrail, InFactory
<1>6. CASE (\E k \in Key : MirrorKey(k) \/ MissKey(k)) \/ MirrorFaults \/ HandOver
  BY <1>6 DEF MirrorKey, MissKey, MirrorFaults, HandOver, OwnTrail, InFactory
<1>7. CASE TearDown
  BY <1>7 DEF TearDown, OwnTrail, InFactory
<1>8. CASE PassesThrough \/ Construct \/ Validate1 \/ ActorInitReturns \/ FactoryFaults
  <2>1. spawn_pc \in InFactory /\ spawn_pc' \in InFactory \cup {"unhook"}
        /\ (UNCHANGED hookVars \/ \E f \in Hooked : Enter(f))
    <3>1. CASE PassesThrough
      BY <3>1 DEF PassesThrough, RegistryLookup, BagMerge, TransformSetup,
           ActorInit, BBD10, RegisterInScene, PostInit, InFactory, Hooked,
           BootHooks, Rungs, Ladder
    <3>2. CASE Construct
      BY <3>2 DEF Construct, InFactory, Hooked, Rungs, Ladder
    <3>3. CASE Validate1 \/ ActorInitReturns \/ FactoryFaults
      BY <3>3 DEF Validate1, ActorInitReturns, FactoryFaults, InFactory, Hooked,
                  Rungs, Ladder
    <3>4. QED
      BY <1>8, <3>1, <3>2, <3>3
  <2>2. crumbs' = reached' \cap Hooked
    BY <2>1, EnterKeepsTrail
  <2>3. QED
    BY <2>1, <2>2 DEF InFactory
<1>9. CASE UNCHANGED <<vars, spawnVars>>
  BY <1>9 DEF spawnVars, OwnTrail
<1>10. QED
  BY <1>1, <1>2, <1>3, <1>4, <1>5, <1>6, <1>7, <1>8, <1>9, Actions
     DEF Quiet, MayLose

\* A result names the functions of its own attempt.
THEOREM TrailsAreOwn == SpawnSpec => []TrailIsOwn
<1>1. TrailInv => TrailIsOwn
  BY DEF TrailInv, OwnTrail, TrailIsOwn, Hooked
<1>2. QED
  BY <1>1, HookStep, TrailStep, AttemptInit, PTL DEF SpawnSpec

-----------------------------------------------------------------------------
(* The registry of the entity. *)

Cell == [wide : BOOLEAN, holds : Key \cup {NULL, "absent"}]

\* There is no entity yet, or nothing has been put into its registry.
Untouched == IF spawn_pc = "idle" THEN made = NULL ELSE spawn_pc # "mirror"

Mirrored(k) == cells[k] = [wide |-> k \in Wide, holds |-> k]

CellType ==
    /\ cells \in [Key -> Cell] /\ todo \subseteq Key
    /\ by_slot \in BOOLEAN /\ mirror_on \in BOOLEAN

\* A key is copied once, so its cell is made for it, but for the Mapper's.
CellInv ==
    /\ Untouched => cells = NoCells /\ missed = {} /\ ~attached
    /\ spawn_pc # "mirror" => todo = {}
    /\ cells[Mapper].wide = FALSE
    /\ attached => cells[Mapper].holds = Mapper
    /\ by_slot => ~spilled
    /\ by_slot => \A k \in todo \ {Mapper} : cells[k] = Absent
    /\ ~Untouched /\ by_slot /\ mirror_on =>
         \A k \in Key \ (missed \cup todo) : Mirrored(k)

RegistryCopied == CellType /\ CellInv

LEMMA NoCellsType == NoCells \in [Key -> Cell]
BY DEF NoCells, Absent, Cell

\* The engine's insert changes one cell, and only where there was none.
LEMMA InsertedFacts ==
    ASSUME NEW c \in [Key -> Cell], NEW n \in Key, NEW wide \in BOOLEAN
    PROVE  /\ Inserted(c, n, wide) \in [Key -> Cell]
           /\ \A x \in Key \ {n} : Inserted(c, n, wide)[x] = c[x]
           /\ c[n] = Absent =>
                Inserted(c, n, wide)[n] = [wide |-> wide, holds |-> NULL]
           /\ c[n] # Absent => Inserted(c, n, wide)[n] = c[n]
BY DEF Inserted, NoCell, Cell

LEMMA InsertedKey ==
    ASSUME NEW c \in [Key -> Cell], NEW n \in Key, NEW k \in Key
    PROVE  /\ Inserted(c, n, k \in Wide) \in [Key -> Cell]
           /\ \A x \in Key \ {n} : Inserted(c, n, k \in Wide)[x] = c[x]
           /\ c[n] = Absent => Inserted(c, n, k \in Wide)[n]
                                 = [wide |-> k \in Wide, holds |-> NULL]
           /\ c[n] # Absent => Inserted(c, n, k \in Wide)[n] = c[n]
<1>1. (k \in Wide) \in BOOLEAN
  OBVIOUS
<1>2. Inserted(c, n, k \in Wide) \in [Key -> Cell]
  BY <1>1, InsertedFacts, Zenon
<1>3. \A x \in Key \ {n} : Inserted(c, n, k \in Wide)[x] = c[x]
  BY DEF Inserted
<1>4. c[n] = Absent =>
        Inserted(c, n, k \in Wide)[n] = [wide |-> k \in Wide, holds |-> NULL]
  BY DEF Inserted, NoCell
<1>5. c[n] # Absent => Inserted(c, n, k \in Wide)[n] = c[n]
  BY DEF Inserted
<1>6. QED
  BY <1>2, <1>3, <1>4, <1>5, Zenon

LEMMA HoldsSet ==
    ASSUME NEW r \in Cell, NEW h
    PROVE  [r EXCEPT !.holds = h] = [wide |-> r.wide, holds |-> h]
BY DEF Cell

LEMMA CopiedFacts ==
    ASSUME NEW c \in [Key -> Cell], NEW n \in Key, NEW k \in Key
    PROVE  /\ Copied(c, n, k) \in [Key -> Cell]
           /\ \A x \in Key \ {n} : Copied(c, n, k)[x] = c[x]
           /\ Copied(c, n, k)[n].holds = k
           /\ c[n] = Absent => Copied(c, n, k)[n] = [wide |-> k \in Wide, holds |-> k]
           /\ c[n] # Absent => Copied(c, n, k)[n] = [wide |-> c[n].wide, holds |-> k]
<1> DEFINE d == Inserted(c, n, k \in Wide)
<1>1. /\ d \in [Key -> Cell] /\ \A x \in Key \ {n} : d[x] = c[x]
      /\ c[n] = Absent => d[n] = [wide |-> k \in Wide, holds |-> NULL]
      /\ c[n] # Absent => d[n] = c[n]
  BY InsertedKey
<1>2. Copied(c, n, k) = [d EXCEPT ![n].holds = k]
  BY DEF Copied
<1> HIDE DEF d
<1>3. d[n] \in Cell
  BY <1>1
<1>4. [d[n] EXCEPT !.holds = k] = [wide |-> d[n].wide, holds |-> k]
  BY <1>3, HoldsSet, Zenon
<1>5. [wide |-> d[n].wide, holds |-> k] \in Cell
  BY <1>3 DEF Cell
<1>6. /\ Copied(c, n, k) \in [Key -> Cell]
      /\ \A x \in Key \ {n} : Copied(c, n, k)[x] = c[x]
      /\ Copied(c, n, k)[n] = [wide |-> d[n].wide, holds |-> k]
  BY <1>1, <1>2, <1>4, <1>5
<1>7. c[n] = Absent => d[n].wide = (k \in Wide)
  BY <1>1
<1>8. QED
  BY <1>1, <1>6, <1>7

\* Only the Mapper's own key is taken for the Mapper.
LEMMA NameFacts ==
    ASSUME NEW k \in Key
    PROVE  /\ NameOf(k) \in Key /\ (NameOf(k) = Mapper <=> k = Mapper)
           /\ by_slot => NameOf(k) = k
<1>1. CASE by_slot \/ k \notin Twin
  BY <1>1 DEF NameOf
<1>2. CASE ~by_slot /\ k \in Twin
  <2>1. FirstOf(Twin) \in Twin
    BY <1>2 DEF FirstOf
  <2>2. QED
    BY <1>2, <2>1, KeyAssumption DEF NameOf
<1>3. QED
  BY <1>1, <1>2

LEMMA CellsInit == SpawnInit => RegistryCopied
BY KeyAssumption, NoCellsType
   DEF SpawnInit, Init, RegistryCopied, CellType, CellInv, Untouched, NoCells, Absent

\* Steps of an attempt that leave the registry alone.
LEMMA CellsKept ==
    ASSUME RegistryCopied, UNCHANGED cellVars, Untouched' <=> Untouched,
           (spawn_pc = "mirror" <=> spawn_pc' = "mirror") \/ todo = {}
    PROVE  RegistryCopied'
BY DEF RegistryCopied, CellType, CellInv, Mirrored, cellVars

\* An attempt begins, or the entity is gone.
LEMMA CellsCleared ==
    ASSUME RegistryCopied, NoRegistry, Untouched',
           spawn_pc # "mirror", spawn_pc' # "mirror"
    PROVE  RegistryCopied'
<1>1. /\ cells' = NoCells /\ missed' = {} /\ attached' = FALSE
      /\ UNCHANGED <<todo, spilled, mirror_on, by_slot>>
  BY DEF NoRegistry
<1>2. NoCells[Mapper].wide = FALSE /\ \A k \in Key : NoCells[k] = Absent
  BY KeyAssumption DEF NoCells, Absent
<1>3. CellType'
  BY <1>1, NoCellsType DEF RegistryCopied, CellType
<1>4. CellInv'
  BY <1>1, <1>2 DEF RegistryCopied, CellInv
<1>5. QED
  BY <1>3, <1>4 DEF RegistryCopied

LEMMA AttachStep ==
    ASSUME RegistryCopied, AttachMapper
    PROVE  RegistryCopied'
<1>1. cells = NoCells /\ missed = {} /\ UNCHANGED <<missed, spilled, mirror_on, by_slot>>
  BY DEF AttachMapper, RegistryCopied, CellInv, Untouched
<1>2. todo' = (IF mirror_on THEN Key ELSE {}) /\ spawn_pc' = "mirror"
  BY DEF AttachMapper
<1>3. Mapper \in Key /\ NoCells[Mapper] = Absent
  BY KeyAssumption DEF NoCells
<1> DEFINE mapped == Inserted(NoCells, Mapper, FALSE)
<1>4. /\ mapped \in [Key -> Cell] /\ mapped[Mapper] = [wide |-> FALSE, holds |-> NULL]
      /\ \A k \in Key \ {Mapper} : mapped[k] = NoCells[k]
  BY <1>3, InsertedFacts, NoCellsType
<1> HIDE DEF mapped
<1>5. Wired(NoCells) = [mapped EXCEPT ![Mapper].holds = Mapper]
  BY DEF Wired, mapped
<1>6. /\ Wired(NoCells) \in [Key -> Cell]
      /\ Wired(NoCells)[Mapper] = [wide |-> FALSE, holds |-> Mapper]
      /\ \A k \in Key \ {Mapper} : Wired(NoCells)[k] = NoCells[k]
  <2>1. [mapped[Mapper] EXCEPT !.holds = Mapper] = [wide |-> FALSE, holds |-> Mapper]
    <3>1. mapped[Mapper] \in Cell
      BY <1>3, <1>4
    <3>2. [mapped[Mapper] EXCEPT !.holds = Mapper]
            = [wide |-> mapped[Mapper].wide, holds |-> Mapper]
      BY <3>1, HoldsSet, Zenon
    <3>3. mapped[Mapper].wide = FALSE
      BY <1>4
    <3>4. QED
      BY <3>2, <3>3
  <2>2. [wide |-> FALSE, holds |-> Mapper] \in Cell
    BY <1>3 DEF Cell
  <2>3. QED
    BY <1>3, <1>4, <1>5, <2>1, <2>2
<1>7. cells' \in {NoCells, mapped, Wired(NoCells)} /\ (attached' => cells' = Wired(NoCells))
  BY <1>1 DEF AttachMapper, mapped
<1>8. /\ cells' \in [Key -> Cell] /\ cells'[Mapper].wide = FALSE
      /\ attached' => cells'[Mapper].holds = Mapper
      /\ \A k \in Key \ {Mapper} : cells'[k] = Absent
  <2>1. NoCells[Mapper].wide = FALSE /\ \A k \in Key : NoCells[k] = Absent
    BY <1>3 DEF NoCells, Absent
  <2>2. CASE cells' = NoCells
    BY <1>3, <1>6, <1>7, <2>1, <2>2, NoCellsType
  <2>3. CASE cells' = mapped
    BY <1>3, <1>4, <1>6, <1>7, <2>1, <2>3
  <2>4. CASE cells' = Wired(NoCells)
    BY <1>6, <2>1, <2>4
  <2>5. QED
    BY <1>7, <2>2, <2>3, <2>4
<1>9. QED
  BY <1>1, <1>2, <1>8
     DEF RegistryCopied, CellType, CellInv, Untouched

LEMMA MirrorStep ==
    ASSUME RegistryCopied, NEW k \in Key, MirrorKey(k)
    PROVE  RegistryCopied'
<1> DEFINE n == NameOf(k)
<1>1. n \in Key /\ (n = Mapper <=> k = Mapper) /\ (by_slot => n = k)
  BY NameFacts
<1> HIDE DEF n
<1>2. /\ cells' = Copied(cells, n, k) /\ todo' = todo \ {k} /\ k \in todo
      /\ spilled' = (spilled \/ (k \in Wide /\ ~cells'[n].wide))
      /\ UNCHANGED <<missed, attached, mirror_on, by_slot>>
      /\ spawn_pc = "mirror" /\ spawn_pc' = "mirror"
  BY DEF MirrorKey, n
<1>3. /\ cells' \in [Key -> Cell] /\ \A x \in Key \ {n} : cells'[x] = cells[x]
      /\ cells'[n].holds = k
      /\ cells[n] = Absent => cells'[n] = [wide |-> k \in Wide, holds |-> k]
      /\ cells[n] # Absent => cells'[n] = [wide |-> cells[n].wide, holds |-> k]
  <2>1. cells \in [Key -> Cell]
    BY DEF RegistryCopied, CellType
  <2>2. QED
    BY <1>1, <1>2, <2>1, CopiedFacts
<1>4. cells'[Mapper].wide = FALSE /\ (attached' => cells'[Mapper].holds = Mapper)
  <2>1. cells[Mapper].wide = FALSE /\ (attached => cells[Mapper].holds = Mapper)
    BY DEF RegistryCopied, CellInv
  <2>2. CASE k = Mapper
    <3>1. n = Mapper /\ (k \in Wide) = FALSE
      BY <1>1, <2>2, KeyAssumption
    <3>2. cells'[Mapper].wide = FALSE
      <4>1. CASE cells[Mapper] = Absent
        <5>1. cells'[Mapper] = [wide |-> k \in Wide, holds |-> k]
          BY <1>3, <3>1, <4>1
        <5>2. cells'[Mapper].wide = (k \in Wide)
          BY <5>1
        <5>3. QED
          BY <3>1, <5>2
      <4>2. CASE cells[Mapper] # Absent
        BY <1>3, <2>1, <3>1, <4>2
      <4>3. QED
        BY <4>1, <4>2
    <3>3. QED
      BY <1>3, <2>2, <3>1, <3>2
  <2>3. CASE k # Mapper
    <3>1. cells'[Mapper] = cells[Mapper]
      BY <1>1, <1>3, <2>3, KeyAssumption
    <3>2. QED
      BY <1>2, <2>1, <3>1
  <2>4. QED
    BY <2>2, <2>3
<1>5. by_slot => cells'[k] = [wide |-> k \in Wide, holds |-> k]
  <2>1. SUFFICES ASSUME by_slot
                 PROVE  cells'[k] = [wide |-> k \in Wide, holds |-> k]
    OBVIOUS
  <2>2. n = k
    BY <1>1, <2>1
  <2>3. CASE cells[k] = Absent
    BY <1>3, <2>2, <2>3
  <2>4. CASE cells[k] # Absent
    <3>1. k = Mapper
      BY <1>2, <2>1, <2>4 DEF RegistryCopied, CellInv
    <3>2. cells[k].wide = FALSE /\ (k \in Wide) = FALSE
      BY <3>1, KeyAssumption DEF RegistryCopied, CellInv
    <3>3. QED
      BY <1>3, <2>2, <2>4, <3>2
  <2>5. QED
    BY <2>3, <2>4
<1>6. by_slot => ~spilled'
  <2>1. by_slot => cells'[n].wide = (k \in Wide)
    BY <1>1, <1>5
  <2>2. QED
    BY <1>2, <2>1 DEF RegistryCopied, CellInv
<1>7. by_slot => cells'[k] = [wide |-> k \in Wide, holds |-> k]
                   /\ \A x \in Key \ {k} : cells'[x] = cells[x]
  BY <1>1, <1>3, <1>5
<1>8. CellInv'
  BY <1>2, <1>4, <1>6, <1>7 DEF RegistryCopied, CellType, CellInv, Untouched, Mirrored
<1>9. QED
  BY <1>2, <1>3, <1>8 DEF RegistryCopied, CellType

LEMMA MissStep ==
    ASSUME RegistryCopied, NEW k \in Key, MissKey(k)
    PROVE  RegistryCopied'
<1> DEFINE n == NameOf(k)
<1>1. n \in Key /\ (n = Mapper <=> k = Mapper) /\ (by_slot => n = k)
  BY NameFacts
<1> HIDE DEF n
<1>2. /\ cells' \in {cells, Inserted(cells, n, k \in Wide)}
      /\ todo' = todo \ {k} /\ missed' = missed \cup {k}
      /\ UNCHANGED <<attached, spilled, mirror_on, by_slot>>
      /\ spawn_pc = "mirror" /\ spawn_pc' = "mirror"
  BY DEF MissKey, n
<1>3. /\ cells' \in [Key -> Cell] /\ \A x \in Key \ {n} : cells'[x] = cells[x]
      /\ cells'[n] # cells[n] => cells[n] = Absent
                                   /\ cells'[n] = [wide |-> k \in Wide, holds |-> NULL]
  BY <1>1, <1>2, InsertedKey DEF RegistryCopied, CellType
<1>4. cells'[Mapper].wide = FALSE /\ (attached' => cells'[Mapper].holds = Mapper)
  <2>1. CASE cells'[Mapper] = cells[Mapper]
    BY <1>2, <2>1 DEF RegistryCopied, CellInv
  <2>2. CASE cells'[Mapper] # cells[Mapper]
    <3>1. n = Mapper /\ k = Mapper /\ cells[Mapper] = Absent
      BY <1>1, <1>3, <2>2, KeyAssumption
    <3>2. ~attached
      BY <3>1, KeyAssumption DEF RegistryCopied, CellInv, Absent
    <3>3. cells'[Mapper] = [wide |-> k \in Wide, holds |-> NULL]
      BY <1>3, <2>2, <3>1
    <3>4. (k \in Wide) = FALSE
      BY <3>1, KeyAssumption
    <3>5. cells'[Mapper].wide = (k \in Wide)
      BY <3>3
    <3>6. QED
      BY <1>2, <3>2, <3>4, <3>5
  <2>3. QED
    BY <2>1, <2>2
<1>5. by_slot => \A x \in Key \ {k} : cells'[x] = cells[x]
  BY <1>1, <1>3
<1>6. CellInv'
  BY <1>2, <1>4, <1>5 DEF RegistryCopied, CellType, CellInv, Untouched, Mirrored
<1>7. QED
  BY <1>2, <1>3, <1>6 DEF RegistryCopied, CellType

LEMMA CellsStep ==
    AttemptInv /\ RegistryCopied /\ [SpawnNext]_<<vars, spawnVars>> => RegistryCopied'
<1> SUFFICES ASSUME AttemptInv, RegistryCopied, [SpawnNext]_<<vars, spawnVars>>
             PROVE  RegistryCopied'
  OBVIOUS
<1>1. CASE Routing
  <2>1. CASE made' = NULL
    <3>1. spawn_pc = "idle" /\ spawn_pc' = "idle" /\ NoRegistry
      BY <1>1, <2>1 DEF Routing
    <3>2. QED
      BY <2>1, <3>1, CellsCleared DEF Untouched
  <2>2. CASE made' # NULL
    <3>1. made' = made /\ UNCHANGED <<spawn_pc, cellVars>>
      BY <1>1, <2>2 DEF Routing
    <3>2. QED
      BY <3>1, CellsKept DEF Untouched
  <2>3. QED
    BY <2>1, <2>2
<1>0. CASE Begin
  BY <1>0, CellsCleared DEF Begin, Untouched
<1>2. CASE GateFails \/ PlaceHook \/ HookFails \/ HooksReady \/ UninstallHooks
  <2>1. UNCHANGED <<made, cellVars>>
    BY <1>2 DEF GateFails, PlaceHook, HookFails, HooksReady, UninstallHooks, routingVars
  <2>2. (Untouched' <=> Untouched) /\ spawn_pc # "mirror" /\ spawn_pc' # "mirror"
    BY <1>2, <2>1 DEF GateFails, PlaceHook, HookFails, HooksReady, UninstallHooks,
                      Untouched, AttemptInv
  <2>3. QED
    BY <2>1, <2>2, CellsKept
<1>3. CASE AttachMapper
  BY <1>3, AttachStep
<1>4. CASE \E k \in Key : MirrorKey(k) \/ MissKey(k)
  BY <1>4, MirrorStep, MissStep
<1>5. CASE MirrorFaults
  BY <1>5 DEF MirrorFaults, RegistryCopied, CellType, CellInv, Untouched, Mirrored
<1>6. CASE HandOver
  <2>1. UNCHANGED <<made, cellVars>> /\ todo = {} /\ made # NULL
        /\ spawn_pc = "mirror" /\ spawn_pc' = "idle"
    BY <1>6 DEF HandOver, routingVars, AttemptInv
  <2>2. QED
    BY <2>1, CellsKept DEF Untouched
<1>7. CASE PassesThrough \/ MayLose \/ Construct
  <2>1. UNCHANGED cellVars /\ Untouched /\ spawn_pc # "mirror"
        /\ spawn_pc' # "mirror" /\ (spawn_pc' = "idle" => made' = NULL)
    <3>1. CASE PassesThrough
      BY <3>1 DEF PassesThrough, RegistryLookup, BagMerge, TransformSetup,
           ActorInit, BBD10, RegisterInScene, PostInit, Enter, Untouched
    <3>2. CASE MayLose
      BY <3>2 DEF MayLose, Validate1, ActorInitReturns, FactoryFaults, TearDown,
                  Enter, Lose, Untouched, InFactory
    <3>3. CASE Construct
      BY <3>3 DEF Construct, Enter, Untouched
    <3>4. QED
      BY <1>7, <3>1, <3>2, <3>3
  <2>2. QED
    BY <2>1, CellsKept DEF Untouched
<1>8. CASE UNCHANGED <<vars, spawnVars>>
  BY <1>8, CellsKept DEF vars, spawnVars, entityVars, Untouched
<1>9. QED
  BY <1>0, <1>1, <1>2, <1>3, <1>4, <1>5, <1>6, <1>7, <1>8, Actions DEF Quiet

\* A kept orphan answers like engine_wilbur, but for keys passed over.
THEOREM OrphansAreComplete == SpawnSpec => []OrphanComplete
<1>1. RegistryCopied => OrphanComplete
  <2> SUFFICES ASSUME RegistryCopied, spawn_pc = "idle", made # NULL
               PROVE  /\ attached => cells[Mapper] = [wide |-> FALSE, holds |-> Mapper]
                      /\ mirror_on /\ by_slot =>
                           \A k \in Key \ missed : Mirrored(k)
                      /\ by_slot => ~spilled
    BY DEF OrphanComplete, Mirrored
  <2>1. todo = {} /\ ~Untouched
    BY DEF RegistryCopied, CellInv, Untouched
  <2>2. cells[Mapper] \in Cell
    BY KeyAssumption DEF RegistryCopied, CellType
  <2>3. QED
    BY <2>1, <2>2 DEF RegistryCopied, CellInv, Cell
<1>2. QED
  BY <1>1, CellsInit, CellsStep, AttemptInit, AttemptStep, PTL DEF SpawnSpec
=============================================================================
