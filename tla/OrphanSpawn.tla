---------------------------- MODULE OrphanSpawn ----------------------------
(***************************************************************************)
(* try_spawn_p2, step by step, inside the system of InputRouting: the      *)
(* gates, the hooks that are placed for the time of one factory call, the  *)
(* engine's way through the factory, and what is put into the registry of  *)
(* the entity it returns (the engine's ControlMapper, then a mirror of     *)
(* engine_wilbur's registry).                                              *)
(*                                                                         *)
(* The call runs on the sim thread, so nothing of InputRouting happens     *)
(* while it lasts.  The order in which the factory passes the hooked       *)
(* functions is the engine's and is taken from the breadcrumbs' numbers.   *)
(***************************************************************************)
EXTENDS InputRouting

CONSTANTS
    Key,      \* the names in an entity's registry
    Mapper,   \* the name "ControlMapper"
    Wide,     \* the keys whose cell is larger than the one of a resource
    Twin      \* keys that share one name hash

ASSUME KeyAssumption ==
    Mapper \in Key /\ NULL \notin Key /\ "absent" \notin Key
      /\ Wide \subseteq Key /\ Twin \subseteq Key /\ Mapper \notin Wide \cup Twin

VARIABLES
    spawn_pc,
    made,        \* the entity of the last attempt, while it lives
    \* the hooks
    hooked,      \* the hooks of one probe that are in place now
    observing,   \* g_observing
    crumbs,      \* the breadcrumb sentinels that are set
    reached,     \* history: the functions the last attempt went through
    last,        \* g_last
    \* the registry of that entity
    cells,       \* by name: the size of the cell and the value in it
    todo,        \* the keys of engine_wilbur that are not mirrored yet
    missed,      \* keys whose insert, lookup or copy faulted
    attached,    \* attach_engine_cm_to_orphan returned true
    spilled,     \* a copy was larger than the cell it went to
    mirror_on,   \* -mtrasi-coop-mirror-registry; chosen once
    by_slot      \* the hash table's entries point to the slots; chosen once

hookVars == <<hooked, observing, crumbs, reached, last>>
cellVars == <<cells, todo, missed, attached, spilled, mirror_on, by_slot>>
spawnVars == <<spawn_pc, made, hookVars, cellVars>>
routingVars == <<entityVars, made, deviceVars, dev, frames>>

\* install() places these for good.
BootHooks == {"registry_lookup", "bag_merge", "actor_init"}

\* The hooks of a probe, in the order in which they are placed.
Ladder == <<"post_init", "ctor", "validate1", "transform_setup", "bbd10",
            "register_active", "register_queued">>
Rungs == {Ladder[i] : i \in 1 .. Len(Ladder)}

NoCell == [wide |-> FALSE, holds |-> NULL]
Absent == [wide |-> FALSE, holds |-> "absent"]
NoCells == [k \in Key |-> Absent]

\* There is no entity whose registry it would be.
NoRegistry == /\ cells' = NoCells /\ missed' = {} /\ attached' = FALSE
              /\ UNCHANGED <<todo, spilled, mirror_on, by_slot>>

SpawnInit ==
    /\ Init
    /\ spawn_pc = "idle" /\ made = NULL
    /\ hooked = {} /\ observing = FALSE /\ crumbs = {} /\ reached = {}
    /\ last = [succeeded |-> FALSE, trail |-> {}]
    /\ cells = NoCells /\ todo = {} /\ missed = {}
    /\ attached = FALSE /\ spilled = FALSE
    /\ mirror_on \in BOOLEAN /\ by_slot \in BOOLEAN /\ (mirror_on \/ by_slot)

-----------------------------------------------------------------------------
(* The gates and the hooks. *)

\* The early returns publish a result without a trail.
GateFails ==
    /\ spawn_pc = "idle" /\ Idle
    /\ reached' = {} /\ last' = [succeeded |-> FALSE, trail |-> {}]
    /\ UNCHANGED <<spawn_pc, hooked, observing, crumbs, cellVars, routingVars>>

\* The gates pass in gameplay, whether an orphan is alive or not; the sentinels
\* are reset for this attempt.
Begin ==
    /\ spawn_pc = "idle" /\ Idle /\ wilbur # NULL
    /\ crumbs' = {} /\ reached' = {} /\ observing' = TRUE
    /\ spawn_pc' = "hooks" /\ made' = NULL /\ NoRegistry
    /\ UNCHANGED <<hooked, last, entityVars, deviceVars, dev, frames>>

\* create_and_enable for the next rung.
NextRung == Ladder[Cardinality(hooked) + 1]

PlaceHook ==
    /\ spawn_pc = "hooks" /\ hooked # Rungs
    /\ hooked' = hooked \cup {NextRung}
    /\ UNCHANGED <<spawn_pc, observing, crumbs, reached, last,
                   cellVars, routingVars>>

\* Every hook that was placed is disabled and removed, and none observes.
TakenBack == hooked' = {} /\ observing' = FALSE

\* cleanup_on_fail takes back what was placed; the attempt ends.
HookFailsAtOnce ==
    /\ spawn_pc = "hooks" /\ hooked # Rungs
    /\ UNCHANGED hooked
    /\ observing' = FALSE /\ spawn_pc' = "idle"
    /\ last' = [succeeded |-> FALSE, trail |-> {}]
    /\ UNCHANGED <<crumbs, reached, cellVars, routingVars>>
HookFails ==
    /\ spawn_pc = "hooks" /\ hooked # Rungs
    /\ TakenBack /\ spawn_pc' = "idle"
    /\ last' = [succeeded |-> FALSE, trail |-> {}]
    /\ UNCHANGED <<crumbs, reached, cellVars, routingVars>>

HooksReady ==
    /\ spawn_pc = "hooks" /\ hooked = Rungs
    /\ spawn_pc' = "registry_lookup"
    /\ UNCHANGED <<hookVars, cellVars, routingVars>>

-----------------------------------------------------------------------------
(* The factory. *)

Seen(f) == observing /\ f \in hooked \cup BootHooks

\* The engine enters f; its hook, where there is one, leaves a breadcrumb.
Enter(f) ==
    /\ reached' = reached \cup {f}
    /\ crumbs' = IF Seen(f) THEN crumbs \cup {f} ELSE crumbs
    /\ UNCHANGED <<hooked, observing, last, cellVars>>

RegistryLookup ==
    /\ spawn_pc = "registry_lookup" /\ Enter("registry_lookup")
    /\ spawn_pc' = "alloc"
    /\ UNCHANGED routingVars

\* The class factory builds the entity, and the hook on it registers the
\* entity.  The class's constructor may pass the hooked one.
Construct ==
    /\ spawn_pc = "alloc"
    /\ \E e \in Addr \ Live : made' = e /\ Born(e)
    /\ \/ Enter("ctor")
       \/ UNCHANGED <<hookVars, cellVars>>
    /\ spawn_pc' = "bag_merge"
    /\ UNCHANGED <<wilbur, buried, deviceVars, dev, frames>>

BagMerge ==
    /\ spawn_pc = "bag_merge" /\ Enter("bag_merge")
    /\ spawn_pc' = "validate1"
    /\ UNCHANGED routingVars

\* The entity leaves our hands without a result: the factory has deleted it,
\* or a fault has left it half built in the engine's lists.
Lose == made' = NULL /\ IF made = NULL THEN UNCHANGED <<orphans, buried>> ELSE Freed(made)

\* While it observes, the hook turns a refusal of validate1 into a pass.
Validate1 ==
    /\ spawn_pc = "validate1" /\ Enter("validate1")
    /\ \/ spawn_pc' = "transform_setup" /\ UNCHANGED <<orphans, made, buried>>
       \/ ~Seen("validate1") /\ spawn_pc' = "unhook" /\ Lose
    /\ UNCHANGED <<wilbur, instance, first, deviceVars, dev, frames>>

TransformSetup ==
    /\ spawn_pc = "transform_setup" /\ Enter("transform_setup")
    /\ spawn_pc' = "actor_init"
    /\ UNCHANGED routingVars

ActorInit ==
    /\ spawn_pc = "actor_init" /\ Enter("actor_init")
    /\ spawn_pc' \in {"bbd10", "actor_init_done"}
    /\ UNCHANGED routingVars

\* actor_init calls sub_5BBD10, with a null argument in our case: the hook
\* returns at once where the engine's code would fault.
BBD10 ==
    /\ spawn_pc = "bbd10" /\ Enter("bbd10")
    /\ Seen("bbd10") /\ spawn_pc' = "actor_init_done"
    /\ UNCHANGED routingVars

ActorInitReturns ==
    /\ spawn_pc = "actor_init_done"
    /\ \/ spawn_pc' = "register" /\ UNCHANGED <<orphans, made, buried>>
       \/ spawn_pc' = "unhook" /\ Lose
    /\ UNCHANGED <<hookVars, cellVars, wilbur, instance, first, deviceVars, dev, frames>>

RegisterInScene ==
    /\ spawn_pc = "register"
    /\ Enter("register_active") \/ Enter("register_queued")
    /\ spawn_pc' = "post_init"
    /\ UNCHANGED routingVars

PostInit ==
    /\ spawn_pc = "post_init" /\ Enter("post_init")
    /\ spawn_pc' = "unhook"
    /\ UNCHANGED routingVars

InFactory == {"registry_lookup", "alloc", "bag_merge", "validate1",
              "transform_setup", "actor_init", "bbd10", "actor_init_done",
              "register", "post_init"}

\* A fault inside the call; try_spawn_p2 catches it.
FactoryFaults ==
    /\ spawn_pc \in InFactory
    /\ Lose /\ spawn_pc' = "unhook"
    /\ UNCHANGED <<hookVars, cellVars, wilbur, instance, first, deviceVars, dev, frames>>

UninstallHooks ==
    /\ spawn_pc = "unhook" /\ TakenBack
    /\ last' = [succeeded |-> made # NULL, trail |-> crumbs]
    /\ spawn_pc' = IF made = NULL THEN "idle" ELSE "entity"
    /\ UNCHANGED <<crumbs, reached, cellVars, routingVars>>

-----------------------------------------------------------------------------
(* The entity's registry. *)

\* The engine's insert makes a cell of the type's size, unless the name has
\* one already.
Inserted(c, k, wide) ==
    IF c[k] = Absent THEN [c EXCEPT ![k] = [NoCell EXCEPT !.wide = wide]] ELSE c

Wired(c) == [Inserted(c, Mapper, FALSE) EXCEPT ![Mapper].holds = Mapper]

\* attach_engine_cm_to_orphan: it may give up before the insert, or fault
\* after it.  A session or the flag keeps the entity; else it is torn down.
AttachMapper ==
    /\ spawn_pc = "entity"
    /\ \/ attached' = TRUE /\ cells' = Wired(cells)
       \/ attached' = FALSE /\ cells' \in {cells, Inserted(cells, Mapper, FALSE)}
    /\ todo' = IF mirror_on THEN Key ELSE {}
    /\ spawn_pc' = "mirror"
    /\ UNCHANGED <<hookVars, missed, spilled, mirror_on, by_slot, routingVars>>

TearDown ==
    /\ spawn_pc = "entity"
    /\ Lose /\ spawn_pc' = "idle"
    /\ UNCHANGED <<hookVars, cellVars, wilbur, instance, first, deviceVars, dev, frames>>

\* find_name_for_slot: the entry of the slot; where the entries do not point
\* to slots, the first one with its hash, which is the same for all twins.
FirstOf(S) == CHOOSE k \in S : TRUE
NameByHash(k) == IF k \in Twin THEN FirstOf(Twin) ELSE k
NameOf(k) == IF by_slot \/ k \notin Twin THEN k ELSE FirstOf(Twin)

\* Copy the value of engine_wilbur's key k into the cell called n.
Copied(c, n, k) ==
    [Inserted(c, n, k \in Wide) EXCEPT ![n].holds = k]

MirrorKey(k) ==
    /\ spawn_pc = "mirror" /\ k \in todo
    /\ cells' = Copied(cells, NameOf(k), k)
    /\ spilled' = (spilled \/ (k \in Wide /\ ~cells'[NameOf(k)].wide))
    /\ todo' = todo \ {k}
    /\ UNCHANGED <<spawn_pc, hookVars, missed, attached, mirror_on, by_slot,
                   routingVars>>

\* A key without a name, an insert, a lookup or a copy that faults: the key
\* is passed over, with its cell made or not.
MissKey(k) ==
    /\ spawn_pc = "mirror" /\ k \in todo
    /\ cells' \in {cells, Inserted(cells, NameOf(k), k \in Wide)}
    /\ todo' = todo \ {k} /\ missed' = missed \cup {k}
    /\ UNCHANGED <<spawn_pc, hookVars, attached, spilled, mirror_on, by_slot,
                   routingVars>>

\* A fault in the walk of the slots themselves ends the mirror.
MirrorFaults ==
    /\ spawn_pc = "mirror" /\ todo # {}
    /\ todo' = {} /\ missed' = missed \cup todo
    /\ UNCHANGED <<spawn_pc, hookVars, cells, attached, spilled, mirror_on,
                   by_slot, routingVars>>

\* The entity is handed to the MtrPlayerManager, whatever the attach said.
HandOver ==
    /\ spawn_pc = "mirror" /\ todo = {}
    /\ spawn_pc' = "idle"
    /\ UNCHANGED <<hookVars, cellVars, routingVars>>

-----------------------------------------------------------------------------
\* InputRouting's steps; SpawnOrphan is the call above.  An orphan takes its
\* registry with it.
Routing ==
    /\ spawn_pc = "idle"
    /\ \/ LoadLevel \/ UnloadLevel \/ DestroyOrphan \/ CaptureDevice
       \/ (\E e \in Addr \cup Others : WalkBegin(e)) \/ WalkEnd \/ WalkFaults
    /\ made' = IF made \in orphans' THEN made ELSE NULL
    /\ IF made' = NULL THEN NoRegistry ELSE UNCHANGED cellVars
    /\ UNCHANGED <<spawn_pc, hookVars>>

Factory ==
    \/ RegistryLookup \/ Construct \/ BagMerge \/ Validate1 \/ TransformSetup
    \/ ActorInit \/ BBD10 \/ ActorInitReturns \/ RegisterInScene \/ PostInit
    \/ FactoryFaults

SpawnNext ==
    \/ Routing
    \/ GateFails \/ Begin \/ PlaceHook \/ HookFails \/ HooksReady
    \/ Factory \/ UninstallHooks
    \/ AttachMapper \/ TearDown
    \/ (\E k \in Key : MirrorKey(k) \/ MissKey(k)) \/ MirrorFaults \/ HandOver

SpawnSpec == SpawnInit /\ [][SpawnNext]_<<vars, spawnVars>>

-----------------------------------------------------------------------------
\* Some of the hooks change what the engine does (validate1 is made to pass,
\* sub_5BBD10 returns early).  Outside an attempt the engine runs its own
\* functions, whichever hook failed and wherever the factory faulted.
EngineUnhooked == spawn_pc = "idle" => hooked = {} /\ ~observing

\* The breadcrumbs of a result are those of its own attempt: they name just
\* the functions this attempt went through, and none that an earlier attempt
\* or the engine's own construction of entities reached.
TrailIsOwn ==
    spawn_pc = "idle" =>
        \/ last.trail = reached \cap (Rungs \cup BootHooks)
        \/ last.trail = {} /\ ~last.succeeded

\* An orphan that is handed over answers for every key as engine_wilbur did,
\* from a cell of the key's size, unless a fault made the mirror pass the key
\* over; the ControlMapper that was attached first survives the mirror.
OrphanComplete ==
    spawn_pc = "idle" /\ made # NULL =>
        /\ attached => cells[Mapper] = [wide |-> FALSE, holds |-> Mapper]
        /\ mirror_on /\ by_slot =>
             \A k \in Key \ missed : cells[k] = [wide |-> k \in Wide, holds |-> k]
        /\ by_slot => ~spilled
=============================================================================
