---------------------------- MODULE InterpFence ----------------------------
(***************************************************************************)
(* The two interpolation clients that write blended poses into the         *)
(* engine's own entities: M4 for the player and M5 for everybody else in   *)
(* the engine's transform list.  Both promise the same fence: a blend is   *)
(* in an entity's memory only between camera_apply and the next            *)
(* simulation tick, which finds the pose the previous tick left there.     *)
(*                                                                         *)
(* Everything runs on the engine's main thread.  pc walks through one pump *)
(* iteration: restore (PRE hook of the simulation), gate (throttle), sim,  *)
(* capture (POST hook), render (camera_apply), menu (EndScene).            *)
(*                                                                         *)
(* A pose is <<lo, hi>>: the pose simulation tick t left is <<t, t>>, the  *)
(* blend of two such poses p and c is <<p, c>>.                            *)
(***************************************************************************)
EXTENDS Integers, Sequences, FiniteSets, SequencesExt

CONSTANTS
    Entity,         \* the entities, by the address of their transform
    Home,           \* hash bucket of an entity: (address >> 4) mod NSlots
    NSlots,         \* kMaxNpcSlots: 64
    AgeOut,         \* kStaleSlotsAgeoutFrames: 6
    Refresh,        \* kPlayerHandleRefreshFrames: 10
    Sessions,       \* the sessions looked at, see Session
    NULL

ASSUME HomeAssumption == Home \in [Entity -> 0 .. NSlots - 1]
ASSUME NumberAssumption ==
    NSlots \in Nat \ {0} /\ {AgeOut, Refresh} \subseteq Nat
ASSUME EntityAssumption == NULL \notin Entity

\* The entities that may appear and those among them that may be the player;
\* whether there is one player only ("same"), he is replaced at once ("swap")
\* or gone for a while before the next one ("gap"); whether the menu's check
\* boxes are used while the game runs; and the bound on simulation ticks.
Session == [entities : SUBSET Entity, players : SUBSET Entity,
            changes : {"same", "swap", "gap"}, toggles : BOOLEAN, ticks : Nat]
ASSUME SessionAssumption == Sessions \subseteq Session

VARIABLES
    session,     \* the session this is; never changes
    pc, tick, throttling,
    \* the engine
    list,        \* the transform list, nodes without the skip flag
    player,      \* what entity_lookup_by_name_retry("player") finds
    mem,         \* the pose in each entity's memory
    real,        \* history: the pose the last simulation tick left there
    \* M4, the player client
    p_on, handle, age, p_prev, p_curr, p_saved, p_save_valid, p_teleport,
    p_who,       \* history: the entities p_prev and p_curr come from
    \* M5, the NPC client
    n_on, slots, n_tick

engineVars == <<list, player, mem, real>>
playerVars == <<p_on, handle, age, p_prev, p_curr, p_saved, p_save_valid,
                p_teleport, p_who>>
npcVars == <<n_on, slots, n_tick>>
vars == <<session, pc, tick, throttling, engineVars, playerVars, npcVars>>

-----------------------------------------------------------------------------
Index == 0 .. NSlots - 1
NoPose == <<-1, -1>>   \* a snapshot whose valid flag is false
Blend(p, c) == <<p[1], c[2]>>

EmptySlot == [inner |-> NULL, prev |-> NoPose, curr |-> NoPose,
              saved |-> NoPose, save_valid |-> FALSE, teleport |-> FALSE,
              seen |-> 0]

Listed == ToSet(list)

Init ==
    /\ session \in Sessions
    /\ pc = "restore" /\ tick = 0 /\ throttling = TRUE
    /\ list = <<>> /\ player = NULL
    /\ mem = [e \in Entity |-> <<0, 0>>] /\ real = mem
    /\ p_on = TRUE /\ handle = NULL /\ age = 0
    /\ p_prev = NoPose /\ p_curr = NoPose /\ p_saved = NoPose
    /\ p_save_valid = FALSE /\ p_teleport = FALSE /\ p_who = <<NULL, NULL>>
    /\ n_on = TRUE /\ slots = [i \in Index |-> EmptySlot] /\ n_tick = 0

-----------------------------------------------------------------------------
(* PRE hook of the simulation: put the saved poses back.                   *)

\* pre_sim_restore_player: what it leaves in memory.
PlayerRestored(m) ==
    IF p_save_valid /\ handle # NULL THEN [m EXCEPT ![handle] = p_saved] ELSE m

\* The slots pre_sim_restore_npcs writes back, in index order.
Pending == {i \in Index : slots[i].inner # NULL /\ slots[i].save_valid}

LastOf(S) == CHOOSE i \in S : \A j \in S : j <= i

NpcsRestored(m) ==
    [e \in Entity |->
        LET mine == {i \in Pending : slots[i].inner = e}
        IN IF mine = {} THEN m[e] ELSE slots[LastOf(mine)].saved]

\* Slots whose access may fault: their entity has left the list and its
\* memory may have been freed.  The __except path empties the slot.
MayFault(S) == {i \in S : slots[i].inner \notin Listed}

\* A saved pose is dropped with its flag; nothing reads it any more.
StillSaved(s) == s
Unsaved(s) == [s EXCEPT !.saved = NoPose, !.save_valid = FALSE]

PreSimRestore ==
    /\ p_save_valid' = FALSE /\ p_saved' = NoPose
    /\ IF n_on
       THEN \E faults \in SUBSET MayFault(Pending) :
              /\ mem' = NpcsRestored(PlayerRestored(mem))
              /\ slots' = [i \in Index |->
                             IF i \in faults THEN EmptySlot
                             ELSE Unsaved(slots[i])]
       ELSE mem' = PlayerRestored(mem) /\ UNCHANGED slots

Restore ==
    /\ pc = "restore" /\ pc' = "gate"
    /\ PreSimRestore
    /\ UNCHANGED <<session, tick, throttling, list, player, real, p_on, handle, age,
                   p_prev, p_curr, p_teleport, p_who, n_on, n_tick>>

\* The throttle may skip this iteration's simulation.
Gate ==
    /\ pc = "gate"
    /\ \/ throttling /\ pc' = "render"
       \/ pc' = "sim"
    /\ UNCHANGED <<session, tick, throttling, engineVars, playerVars, npcVars>>

-----------------------------------------------------------------------------
(* One simulation tick of the engine: it may add, drop or replace an       *)
(* entity, and moves every entity in the list.                             *)

\* Its node is unlinked; nobody is in the list twice.
Without(e) == RemoveAt(list, CHOOSE n \in DOMAIN list : list[n] = e)

Population ==
    \/ UNCHANGED <<list, player>>
    \/ \E e \in session.entities \ (Listed \cup session.players) :
         list' = <<e>> \o list /\ UNCHANGED player
    \/ \E e \in Listed \ {player} : list' = Without(e) /\ UNCHANGED player
    \/ \E e \in session.players \ Listed :
         /\ player = NULL /\ list' = <<e>> \o list /\ player' = e
    \/ \E e \in session.players \ Listed :
         /\ session.changes = "swap" /\ player # NULL
         /\ list' = <<e>> \o Without(player) /\ player' = e
    \/ /\ session.changes = "gap" /\ player # NULL
       /\ list' = Without(player) /\ player' = NULL

\* The entities of still are those whose node the tick passes over.
Tick(still) ==
    /\ pc = "sim" /\ tick < session.ticks
    /\ Population
    /\ tick' = tick + 1
    /\ LET moved == ToSet(list') \ still
           After(m) == [e \in Entity |-> IF e \in moved THEN <<tick', tick'>>
                                                       ELSE m[e]]
       IN mem' = After(mem) /\ real' = After(real)
    /\ pc' = "capture"
    /\ UNCHANGED <<session, throttling, playerVars, npcVars>>

Sim == Tick({})

-----------------------------------------------------------------------------
(* POST hook: capture the poses the tick left.                             *)

\* get_player: is the cached handle looked up again, and does that drop the
\* snapshots of the entity it pointed to?
LooksUp(force) == handle = NULL \/ age >= Refresh \/ force
NeverSwaps(h) == FALSE
Swaps(h) == h # NULL /\ h # handle /\ handle # NULL

\* post_sim_capture_player.
CapturePlayer(jumped) ==
    IF ~p_on
    THEN UNCHANGED <<handle, age, p_prev, p_curr, p_save_valid, p_teleport,
                     p_who>>
    ELSE \E force \in BOOLEAN :
         LET look == LooksUp(force)
             h == IF look THEN player ELSE handle
             swap == look /\ Swaps(h)
             old == IF swap THEN NoPose ELSE p_curr
             older == IF swap THEN NoPose ELSE p_prev
         IN /\ age' = IF look THEN 0 ELSE age + 1
            /\ p_save_valid' = (p_save_valid /\ ~swap)
            /\ \/ /\ h = NULL
                  /\ handle' = h /\ p_prev' = older /\ p_curr' = old
                  /\ UNCHANGED <<p_teleport, p_who>>
               \/ /\ h \notin Listed \cup {NULL}  \* freed: the capture faults
                  /\ handle' = NULL /\ p_prev' = NoPose /\ p_curr' = NoPose
                  /\ UNCHANGED <<p_teleport, p_who>>
               \/ /\ h # NULL
                  /\ handle' = h /\ p_curr' = mem[h]
                  /\ p_prev' = IF old # NoPose THEN old ELSE older
                  /\ p_who' = <<IF old # NoPose THEN p_who[2] ELSE p_who[1], h>>
                  /\ p_teleport' = IF p_prev' = NoPose THEN p_teleport
                                                       ELSE h \in jumped

\* find_or_alloc_npc: the bucket the linear probe stops at, or none.
Probe(s, e) ==
    LET at(k) == (Home[e] + k) % NSlots
        hits == {k \in Index : s[at(k)].inner \in {e, NULL}}
    IN IF hits = {} THEN {}
       ELSE {at(CHOOSE k \in hits : \A j \in hits : k <= j)}

\* The body of the walk for one node, on slot table s.
Captured(s, e, now, jumped) ==
    [i \in Index |->
        IF i \notin Probe(s, e) THEN s[i]
        ELSE LET old == IF s[i].inner = e THEN s[i] ELSE EmptySlot
                 prev == IF old.curr # NoPose THEN old.curr ELSE old.prev
             IN [old EXCEPT !.inner = e, !.seen = now, !.prev = prev,
                            !.curr = mem[e],
                            !.teleport = IF prev = NoPose THEN @
                                                          ELSE e \in jumped]]

Aged(s, now) == [i \in Index |->
    IF s[i].inner # NULL /\ now - s[i].seen > AgeOut THEN EmptySlot ELSE s[i]]

\* The table after walk_transform_list, which passes over the player.
TableAfter(h, jumped) ==
    LET walk[k \in 0 .. Len(list)] ==
            IF k = 0 THEN slots
            ELSE IF list[k] = h THEN walk[k - 1]
            ELSE Captured(walk[k - 1], list[k], n_tick + 1, jumped)
    IN walk[Len(list)]

\* post_sim_capture_npcs; the player is the handle M4 has just refreshed.

CaptureNpcs(jumped) ==
    IF ~n_on THEN UNCHANGED <<slots, n_tick>>
    ELSE /\ n_tick' = n_tick + 1
         /\ slots' = Aged(TableAfter(handle', jumped), n_tick + 1)

\* jumped: the entities that moved further than the teleport threshold.
CaptureBoth ==
    /\ pc = "capture" /\ pc' = "render"
    /\ \E jumped \in {{}, Entity} : CapturePlayer(jumped) /\ CaptureNpcs(jumped)
    /\ UNCHANGED <<session, tick, throttling, p_on, p_saved, n_on>>

Capture == CaptureBoth /\ UNCHANGED engineVars

-----------------------------------------------------------------------------
(* camera_apply: first M4, then M5 in slot order, save a pose and write a  *)
(* blend over it.                                                          *)

PlayerWrites ==
    /\ throttling /\ p_on /\ handle # NULL
    /\ p_prev # NoPose /\ p_curr # NoPose /\ ~p_teleport

AfterPlayer == IF PlayerWrites
               THEN [mem EXCEPT ![handle] = Blend(p_prev, p_curr)] ELSE mem

NpcWriters ==
    {i \in Index : /\ throttling /\ n_on
                   /\ slots[i].inner # NULL /\ ~slots[i].teleport
                   /\ slots[i].prev # NoPose /\ slots[i].curr # NoPose}

SlotBlend(i) == Blend(slots[i].prev, slots[i].curr)

\* What slot i finds in its entity when its turn comes, and so saves.
Found(i) ==
    LET before == {j \in NpcWriters : j < i /\ slots[j].inner = slots[i].inner}
    IN IF before = {} THEN AfterPlayer[slots[i].inner]
                      ELSE SlotBlend(LastOf(before))

Render ==
    /\ pc = "render" /\ pc' = "menu"
    /\ p_saved' = IF PlayerWrites THEN mem[handle] ELSE p_saved
    /\ p_save_valid' = (p_save_valid \/ PlayerWrites)
    /\ \E faults \in SUBSET MayFault(NpcWriters) :
         slots' = [i \in Index |->
                     IF i \in faults THEN EmptySlot
                     ELSE IF i \in NpcWriters
                          THEN [slots[i] EXCEPT !.saved = Found(i),
                                                !.save_valid = TRUE]
                          ELSE slots[i]]
    /\ mem' = [e \in Entity |->
                 LET mine == {i \in NpcWriters : slots[i].inner = e}
                 IN IF mine = {} THEN AfterPlayer[e] ELSE SlotBlend(LastOf(mine))]
    /\ UNCHANGED <<session, tick, throttling, list, player, real, p_on, handle, age,
                   p_prev, p_curr, p_teleport, p_who, n_on, n_tick>>

-----------------------------------------------------------------------------
(* EndScene: the menu may toggle a client; the mini-game test may toggle   *)
(* the throttle.                                                           *)

NoToggle == UNCHANGED <<mem, playerVars, npcVars>>

\* set_player_interp_enabled: turning it off restores the pending save.
TogglePlayer ==
    /\ session.toggles
    /\ p_on' = ~p_on
    /\ IF p_on THEN p_save_valid' = FALSE /\ p_saved' = NoPose
               ELSE UNCHANGED <<p_save_valid, p_saved>>
    /\ mem' = IF p_on THEN PlayerRestored(mem) ELSE mem
    /\ UNCHANGED <<handle, age, p_prev, p_curr, p_teleport, p_who, npcVars>>

\* set_npc_interp_enabled: the flag is already off when it calls
\* pre_sim_restore_npcs, which then returns at once; the table is cleared.
TableKept == slots
TableAfterOff == [i \in Index |-> EmptySlot]

ToggleNpcs ==
    /\ session.toggles
    /\ n_on' = ~n_on
    /\ slots' = IF n_on THEN TableAfterOff ELSE slots
    /\ UNCHANGED <<mem, playerVars, n_tick>>

Menu ==
    /\ pc = "menu" /\ pc' = "restore"
    /\ NoToggle \/ TogglePlayer \/ ToggleNpcs
    /\ throttling' \in BOOLEAN
    /\ UNCHANGED <<session, tick, list, player, real>>

Next == Restore \/ Gate \/ Sim \/ Capture \/ Render \/ Menu

Spec == Init /\ [][Next]_vars

-----------------------------------------------------------------------------
\* There is one player entity, whether or not it goes and comes back.
OnePlayer == session.changes = "same" \/ \A a, b \in session.players : a = b

\* The fence: when the simulation runs, every entity it moves holds the pose
\* the previous tick left there, never a blend for the screen, as long as the
\* check boxes are left alone and no other entity takes the player's part.
SimReadsClean ==
    ~session.toggles /\ OnePlayer /\ pc = "sim" => \A e \in Listed : mem[e] = real[e]

\* M5 shows every entity between two poses of its own, the newer of which the
\* latest tick left and the older of which is no older than a slot can get,
\* also after M5 was off and on again.
NpcBlendIsRecent ==
    pc = "menu" => \A e \in Listed \ session.players :
        mem[e][2] = real[e][2] /\ real[e][1] - mem[e][1] <= AgeOut + 1

\* Pointer swap detection: a window of M4 never blends from the pose of one
\* player entity to the pose of the one that replaced it, unless there was no
\* player in between.
PlayerBlendsOneEntity ==
    (session.changes = "gap" => OnePlayer) /\ pc = "render" /\ PlayerWrites
        => p_who[1] = p_who[2]
=============================================================================
