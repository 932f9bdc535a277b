--------------------------- MODULE PlayerManager ---------------------------
(***************************************************************************)
(* MtrPlayerManager and the MtrRemotePlayer wrappers it owns, in one of    *)
(* the two processes of a co-op session.                                   *)
(*                                                                         *)
(* Two threads use the manager.  The sim thread runs do_pulse (spawn the   *)
(* peer's orphan, pulse the wrappers, emit the local pose), the Debug tab  *)
(* button, unregister and the engine itself.  The recv thread runs         *)
(* on_remote_packet.  Every section the code runs under m_mu is one        *)
(* action; where the code releases m_mu between two sections, sim_pc or    *)
(* recv_pc has a label, so the other thread can run in between.            *)
(*                                                                         *)
(* Wrappers are numbered in creation order.  m_players only grows at its   *)
(* end, so it is the set of numbers still registered and "the first match" *)
(* is the smallest one.                                                    *)
(*                                                                         *)
(* The k-th pose the peer sends is the number k; the network may deliver   *)
(* any of its last Lag poses at any time, any number of times, or never.   *)
(***************************************************************************)
EXTENDS TimeCtx, FiniteSets

CONSTANTS
    Mode,           \* SessionMode: "Disabled", "Host" or "Client"
    KeepOrphan,     \* -mtrasi-coop-keep-orphan is on the command line
    ManualProbe,    \* somebody presses the Debug tab's "Run probe" button
    LevelChanges,   \* the engine unloads a level, freeing its entities
    Disconnects,    \* unregister() is called
    Addr,           \* the addresses the engine's allocator hands out
    NULL,
    Lag,            \* a pose is delivered at most Lag - 1 sends later
    MaxSeq,         \* bound: poses the peer sends
    MaxWrapper      \* bound: wrappers ever created

ASSUME ModeAssumption == Mode \in {"Disabled", "Host", "Client"}
ASSUME FlagAssumption ==
    {KeepOrphan, ManualProbe, LevelChanges, Disconnects} \subseteq BOOLEAN
ASSUME AddrAssumption == NULL \notin Addr
ASSUME LagAssumption == Lag \in Nat /\ Lag <= HalfCtx
ASSUME BoundAssumption == MaxSeq \in Nat /\ MaxWrapper \in Nat

VARIABLES
    \* the engine
    level,           \* "none", "loading" or "play"
    wilbur,          \* engine_wilbur_ptr()
    alloc,           \* addresses that hold a live entity
    \* the manager
    players,         \* m_players
    wr,              \* the wrapper objects, by number
    made,            \* how many wrappers have been created
    by_engine,       \* m_by_engine; 0 where the map has no entry
    peer_seen,       \* m_peer_seen
    next_player_id,  \* m_next_player_id
    send_time_ctx,   \* m_send_time_ctx
    \* the sim thread
    sim_pc, resume, spawned, condemned,
    written,         \* addresses the last locked pulse wrote a pose to
    \* the recv thread
    recv_pc, recv_seq,
    \* the peer
    peer_seq         \* poses the peer has sent

engineVars == <<level, wilbur, alloc>>
managerVars == <<players, wr, made, by_engine, peer_seen, next_player_id,
                 send_time_ctx>>
simVars == <<sim_pc, resume, spawned, condemned, written>>
recvVars == <<recv_pc, recv_seq>>
vars == <<engineVars, managerVars, simVars, recvVars, peer_seq>>

-----------------------------------------------------------------------------
(* The session's role and the wire ids that follow from it. *)

WireId(m) == IF m = "Client" THEN 1 ELSE 0
PeerMode == IF Mode = "Host" THEN "Client" ELSE "Host"

Active == Mode # "Disabled"
LocalWireId == WireId(Mode)
RemoteWireId == IF Active THEN 1 - LocalWireId ELSE 0

\* time_ctx of the peer's k-th pose: its m_send_time_ctx starts at 0.
WireCtx(k) == (k - 1) % CtxMod

\* The poses the network may still deliver.
Deliverable == {k \in 1 .. peer_seq : peer_seq - k < Lag}

-----------------------------------------------------------------------------
Wrappers == 1 .. MaxWrapper

\* prev and curr are the poses of the two snapshots, 0 when not valid;
\* last_seq is the pose that last moved last_time_ctx, 0 before any did.
Wrapper(id, role, entity) ==
    [id |-> id, role |-> role, entity |-> entity, interp_enabled |-> FALSE,
     last_time_ctx |-> InitialCtx, prev |-> 0, curr |-> 0, last_seq |-> 0]

NoWrapper == Wrapper(0, "Local", NULL)

IsRemote(w) == wr[w].role = "Remote"
HasRemote == \E w \in players : IsRemote(w)

\* Bound: a spawn may still create its two wrappers.
RoomForTwo == made + 2 <= MaxWrapper

\* by_player_id_locked: the first wrapper with that id.
ByPlayerId(id) == {w \in players : /\ wr[w].id = id
                                   /\ \A v \in players : wr[v].id = id => w <= v}

InGameplay == level = "play"

Init ==
    /\ level = "none" /\ wilbur = NULL /\ alloc = {}
    /\ players = {} /\ made = 0 /\ wr = [w \in Wrappers |-> NoWrapper]
    /\ by_engine = [a \in Addr |-> 0]
    /\ peer_seen = FALSE /\ next_player_id = 0 /\ send_time_ctx = 0
    /\ sim_pc = "idle" /\ resume = "idle" /\ spawned = NULL /\ condemned = 0
    /\ written = {}
    /\ recv_pc = "wait" /\ recv_seq = 0
    /\ peer_seq = 0

-----------------------------------------------------------------------------
(* The engine.  It runs on the sim thread, between two of our hooks. *)

LoadLevel ==
    /\ sim_pc = "idle" /\ level = "none"
    /\ \E a \in Addr \ alloc : wilbur' = a /\ alloc' = alloc \cup {a}
    /\ level' = "loading"
    /\ UNCHANGED <<managerVars, simVars, recvVars, peer_seq>>

\* A cutscene or a menu takes the level out of gameplay and back.
ToggleGameplay ==
    /\ sim_pc = "idle"
    /\ \/ level = "loading" /\ level' = "play"
       \/ level = "play" /\ level' = "loading"
    /\ UNCHANGED <<wilbur, alloc, managerVars, simVars, recvVars, peer_seq>>

UnloadLevel ==
    /\ LevelChanges
    /\ sim_pc = "idle" /\ level # "none"
    /\ level' = "none" /\ wilbur' = NULL /\ alloc' = {}
    /\ UNCHANGED <<managerVars, simVars, recvVars, peer_seq>>

-----------------------------------------------------------------------------
(* do_pulse, part 1: spawn the peer's orphan if it is missing. *)

NeedSpawn == ~HasRemote

PulseBegin ==
    /\ sim_pc = "idle"
    /\ sim_pc' = IF Active /\ peer_seen THEN "check" ELSE "pulse"
    /\ UNCHANGED <<engineVars, managerVars, resume, spawned, condemned,
                   written, recvVars, peer_seq>>

SpawnCheckOneShot ==
    /\ sim_pc = "check"
    /\ sim_pc' = IF NeedSpawn /\ InGameplay THEN "spawn" ELSE "pulse"
    /\ resume' = "pulse" /\ peer_seen' = FALSE
    /\ UNCHANGED <<engineVars, players, wr, made, by_engine, next_player_id,
                   send_time_ctx, spawned, condemned, written, recvVars,
                   peer_seq>>

SpawnCheck ==
    /\ sim_pc = "check"
    /\ IF NeedSpawn /\ InGameplay
       THEN sim_pc' = "spawn" /\ resume' = "pulse"
       ELSE sim_pc' = "pulse" /\ UNCHANGED resume
    /\ UNCHANGED <<engineVars, managerVars, spawned, condemned, written,
                   recvVars, peer_seq>>

\* The "Run probe" button of the Debug tab.
RunProbe ==
    /\ ManualProbe
    /\ sim_pc = "idle"
    /\ sim_pc' = "spawn" /\ resume' = "idle"
    /\ UNCHANGED <<engineVars, managerVars, spawned, condemned, written,
                   recvVars, peer_seq>>

(* try_spawn_p2.  A gate, a hook or the factory may fail, and then nothing *)
(* is registered; otherwise the factory returns an entity at a free        *)
(* address.  It survives the call only if the flag or a session keeps it.  *)
SpawnFails ==
    /\ sim_pc = "spawn"
    /\ sim_pc' = resume
    /\ UNCHANGED <<engineVars, managerVars, resume, spawned, condemned,
                   written, recvVars, peer_seq>>

SpawnSucceeds ==
    /\ sim_pc = "spawn" /\ InGameplay
    /\ RoomForTwo
    /\ \E a \in Addr \ alloc :
         IF KeepOrphan \/ Active
         THEN spawned' = a /\ alloc' = alloc \cup {a} /\ sim_pc' = "register"
         ELSE sim_pc' = resume /\ UNCHANGED <<alloc, spawned>>
    /\ UNCHANGED <<level, wilbur, managerVars, resume, condemned, written,
                   recvVars, peer_seq>>

\* Create wrapper made + 1 around an entity and enter it in both indexes.
Register(id, role, entity) ==
    /\ made' = made + 1
    /\ wr' = [wr EXCEPT ![made + 1] = Wrapper(id, role, entity)]
    /\ players' = players \cup {made + 1}
    /\ by_engine' = [by_engine EXCEPT ![entity] = made + 1]

\* The id of a new wrapper: fixed by the session's role, else a counter.
PlayerId(wire_id) == IF Active THEN wire_id ELSE next_player_id

TakeId == next_player_id' = IF Active THEN next_player_id
                                      ELSE next_player_id + 1

\* by_engine_entity_locked; 0 stands for nullptr.
ByEngineEntity(entity) == by_engine[entity]

RegisterRemote ==
    /\ sim_pc = "register"
    /\ IF ByEngineEntity(spawned) # 0
       THEN UNCHANGED <<made, wr, players, by_engine, next_player_id>>
       ELSE Register(PlayerId(RemoteWireId), "Remote", spawned) /\ TakeId
    /\ sim_pc' = "local" /\ spawned' = NULL
    /\ UNCHANGED <<engineVars, peer_seen, send_time_ctx, resume, condemned,
                   written, recvVars, peer_seq>>

\* local(): wrap engine_wilbur unless a Local wrapper or a map entry exists.
RegisterLocal ==
    /\ sim_pc = "local"
    /\ IF \/ \E w \in players : wr[w].role = "Local"
          \/ wilbur = NULL
          \/ ByEngineEntity(wilbur) # 0
       THEN UNCHANGED <<made, wr, players, by_engine, next_player_id>>
       ELSE Register(PlayerId(LocalWireId), "Local", wilbur) /\ TakeId
    /\ sim_pc' = resume
    /\ UNCHANGED <<engineVars, peer_seen, send_time_ctx, resume, spawned,
                   condemned, written, recvVars, peer_seq>>

-----------------------------------------------------------------------------
(* do_pulse, part 2: pulse every wrapper under m_mu. *)

\* The guards of MtrRemotePlayer::do_pulse.
WritesPose(w) ==
    /\ wr[w].interp_enabled /\ IsRemote(w)
    /\ wr[w].entity # NULL /\ wr[w].curr # 0

\* The __except path of MtrRemotePlayer::do_pulse.
Faulted(r) == [r EXCEPT !.entity = NULL, !.prev = 0, !.curr = 0]

\* A write to a freed entity either faults or lands in whatever is there.
Pulse ==
    /\ sim_pc = "pulse"
    /\ LET writers == {w \in players : WritesPose(w)}
           stale == {w \in writers : wr[w].entity \notin alloc}
       IN \E faults \in SUBSET stale :
            /\ wr' = [w \in Wrappers |-> IF w \in faults THEN Faulted(wr[w])
                                                         ELSE wr[w]]
            /\ written' = {wr[w].entity : w \in writers \ faults}
    /\ sim_pc' = "emit"
    /\ UNCHANGED <<engineVars, players, made, by_engine, peer_seen,
                   next_player_id, send_time_ctx, resume, spawned, condemned,
                   recvVars, peer_seq>>

(* do_pulse, part 3: capture and send the local pose, outside m_mu. *)
Emit ==
    /\ sim_pc = "emit"
    /\ \/ Active /\ wilbur # NULL /\ send_time_ctx' = NextCtx(send_time_ctx)
       \/ UNCHANGED send_time_ctx
    /\ sim_pc' = "idle" /\ written' = {}
    /\ UNCHANGED <<engineVars, players, wr, made, by_engine, peer_seen,
                   next_player_id, resume, spawned, condemned, recvVars,
                   peer_seq>>

-----------------------------------------------------------------------------
(* unregister: the locked section, then the engine teardown outside m_mu. *)

Unregister(w) ==
    /\ Disconnects /\ RoomForTwo
    /\ sim_pc = "idle" /\ w \in players
    /\ players' = players \ {w}
    /\ by_engine' = [a \in Addr |-> IF a = wr[w].entity THEN 0 ELSE by_engine[a]]
    /\ peer_seen' = IF IsRemote(w) /\ ~\E v \in players \ {w} : IsRemote(v)
                    THEN FALSE ELSE peer_seen
    /\ condemned' = w /\ sim_pc' = "destroy"
    /\ UNCHANGED <<engineVars, wr, made, next_player_id, send_time_ctx,
                   resume, spawned, written, recvVars, peer_seq>>

\* owns_engine is set by register_remote and by nothing else.
OwnsEngineNever(w) == FALSE
OwnsEngine(w) == IsRemote(w)

\* destroy_engine_entity_seh: the engine frees whatever is at the address.
DestroyEntity ==
    /\ sim_pc = "destroy"
    /\ alloc' = IF OwnsEngine(condemned) THEN alloc \ {wr[condemned].entity}
                                         ELSE alloc
    /\ wr' = [wr EXCEPT ![condemned] = NoWrapper]
    /\ condemned' = 0 /\ sim_pc' = "idle"
    /\ UNCHANGED <<level, wilbur, players, made, by_engine, peer_seen,
                   next_player_id, send_time_ctx, resume, spawned, written,
                   recvVars, peer_seq>>

-----------------------------------------------------------------------------
(* The engine ticks the VibrateJoystick of an entity. *)

\* hook_vt13 lets the rumble through to the local pad, unless the entity is
\* the one of a Remote wrapper.
RumbleForAll(e) == TRUE
RumblePasses(e) == ~\E w \in players : w = ByEngineEntity(e) /\ IsRemote(w)

-----------------------------------------------------------------------------
(* The recv thread, and the peer at the other end of the network. *)

\* A pose arrives; on_remote_packet stamps it before it asks for m_mu.
Receive(k) ==
    /\ Active
    /\ recv_pc = "wait" /\ k \in Deliverable
    /\ recv_pc' = "stamped" /\ recv_seq' = k
    /\ UNCHANGED <<engineVars, managerVars, simVars, peer_seq>>

\* update_time_ctx, set_interp_enabled and push_interp_snapshot_at.
Pushed(r) ==
    [r EXCEPT !.last_time_ctx = WireCtx(recv_seq), !.last_seq = recv_seq,
              !.interp_enabled = TRUE, !.prev = r.curr, !.curr = recv_seq]

OnRemotePacket ==
    /\ recv_pc = "stamped"
    /\ LET target == ByPlayerId(WireId(PeerMode))
       IN IF target = {}
          THEN peer_seen' = TRUE /\ UNCHANGED wr
          ELSE /\ wr' = [w \in Wrappers |->
                           IF /\ w \in target
                              /\ IsFresh(WireCtx(recv_seq), wr[w].last_time_ctx)
                           THEN Pushed(wr[w]) ELSE wr[w]]
               /\ UNCHANGED peer_seen
    /\ recv_pc' = "wait" /\ recv_seq' = 0
    /\ UNCHANGED <<engineVars, players, made, by_engine, next_player_id,
                   send_time_ctx, simVars, peer_seq>>

PeerEmit ==
    /\ Active /\ peer_seq < MaxSeq
    /\ peer_seq' = peer_seq + 1
    /\ UNCHANGED <<engineVars, managerVars, simVars, recvVars>>

-----------------------------------------------------------------------------
Engine == LoadLevel \/ ToggleGameplay \/ UnloadLevel

DoPulse == PulseBegin \/ SpawnCheck \/ Pulse \/ Emit

TrySpawn == SpawnFails \/ SpawnSucceeds \/ RegisterRemote \/ RegisterLocal

Recv == (\E k \in Deliverable : Receive(k)) \/ OnRemotePacket

Next ==
    \/ Engine
    \/ DoPulse \/ RunProbe \/ TrySpawn
    \/ (\E w \in players : Unregister(w)) \/ DestroyEntity
    \/ Recv \/ PeerEmit

Spec == Init /\ [][Next]_vars

\* The sim thread keeps ticking.  The engine stays in gameplay long enough
\* for a tick to begin there, whenever it enters gameplay again and again,
\* and the factory does not fail for ever.
LiveSpec ==
    /\ Spec
    /\ WF_vars(DoPulse \/ TrySpawn \/ DestroyEntity)
    /\ SF_vars(PulseBegin /\ InGameplay)
    /\ SF_vars(SpawnSucceeds)

-----------------------------------------------------------------------------
Role == {"Local", "Remote"}
Pose == 0 .. MaxSeq

WrapperType ==
    [id : Nat, role : Role, entity : Addr \cup {NULL},
     interp_enabled : BOOLEAN, last_time_ctx : Ctx,
     prev : Pose, curr : Pose, last_seq : Pose]

\* The type invariant: every variable keeps the range its C++ type gives it,
\* and no index names a wrapper that was never created.
TypeOK ==
    /\ level \in {"none", "loading", "play"}
    /\ wilbur \in Addr \cup {NULL} /\ alloc \subseteq Addr
    /\ made \in 0 .. MaxWrapper /\ players \subseteq 1 .. made
    /\ wr \in [Wrappers -> WrapperType]
    /\ by_engine \in [Addr -> 0 .. made]
    /\ peer_seen \in BOOLEAN /\ next_player_id \in Nat
    /\ send_time_ctx \in Ctx
    /\ sim_pc \in {"idle", "check", "spawn", "register", "local", "pulse",
                   "emit", "destroy"}
    /\ resume \in {"idle", "pulse"}
    /\ spawned \in Addr \cup {NULL} /\ condemned \in 0 .. made
    /\ written \subseteq Addr
    /\ recv_pc \in {"wait", "stamped"} /\ recv_seq \in Pose
    /\ peer_seq \in Pose

\* The two-player session has at most one Remote wrapper, although do_pulse
\* gives up m_mu between has_remote_locked and register_remote.  It holds
\* when only do_pulse spawns: the Debug tab's probe skips has_remote.
OneRemote ==
    \A v, w \in players : IsRemote(v) /\ IsRemote(w) => v = w

\* The sidecar map answers with the right wrapper: looking up the entity of a
\* registered wrapper gives that wrapper, even when the engine has freed the
\* entity and built another one at the same address.
MapComplete ==
    \A w \in players : wr[w].entity # NULL => by_engine[wr[w].entity] = w

\* do_pulse blends from an older pose of the peer to a newer one: the two
\* snapshots of a wrapper never come from the peer's future and past swapped,
\* and curr is the newest pose that on_remote_packet ever accepted.
PosesInOrder ==
    \A w \in players : wr[w].curr # 0 =>
        wr[w].prev <= wr[w].curr /\ wr[w].curr = wr[w].last_seq

\* The time_ctx gate of on_remote_packet never accepts a pose that is older
\* than one it accepted before, across any wrap of the 16-bit counter, for as
\* long as the network delays a datagram by less than half the counter.
NoStalePose ==
    [][\A w \in players \cap players' : wr'[w].last_seq >= wr[w].last_seq]_vars

\* The same gate never turns away a newer pose: once a wrapper has accepted
\* one, any later pose less than half the counter ahead of it is taken.
FreshPoseTaken ==
    [][recv_pc = "stamped" /\ recv_pc' = "wait" =>
         \A w \in ByPlayerId(WireId(PeerMode)) :
            wr[w].last_seq \in 1 .. recv_seq - 1
              /\ recv_seq - wr[w].last_seq < HalfCtx
            => wr'[w].curr = recv_seq]_vars

\* Both endpoints agree whose pose a datagram carries: a pose of the peer is
\* only ever pushed into a Remote wrapper, never into the local player's,
\* whichever of the two was registered first.
PosesGoToRemote == \A w \in players : wr[w].last_seq # 0 => IsRemote(w)

\* While a level lasts, every entity the factory built still has an owner:
\* the spawn in progress, a registered wrapper, or the teardown in progress.
NoLeakedOrphan ==
    alloc \subseteq {wilbur, spawned} \cup {wr[w].entity : w \in players}
                    \cup (IF condemned = 0 THEN {} ELSE {wr[condemned].entity})

\* While a level lasts, the rumble of the pad is the local player's alone: no
\* live entity of the factory passes hook_vt13, and engine_wilbur always does.
RumbleIsLocal ==
    sim_pc = "idle" => \A e \in alloc : RumblePasses(e) <=> e = wilbur

\* m_peer_seen is a latch: a peer that has been heard gets its avatar, however
\* often the engine leaves gameplay, the factory fails or players disconnect
\* in between.
PeerGetsAvatar == []<>InGameplay => (peer_seen /\ ~HasRemote ~> HasRemote)

-----------------------------------------------------------------------------
(* The abstract specification this module implements. *)

\* An avatar is a registered Remote wrapper; what it shows are its snapshots.
ShownFeed ==
    [w \in {v \in players : IsRemote(v)} |->
        [newest |-> wr[w].last_seq, from |-> wr[w].prev, to |-> wr[w].curr]]

Feed == INSTANCE PoseFeed
            WITH Avatar <- Wrappers, sent <- peer_seq, feed <- ShownFeed

\* Without the Debug tab's probe, the session keeps PoseFeed's promise, across
\* spawns, faults, level changes and disconnects, and whatever the network
\* loses, repeats or delays: one avatar, never led back to an older pose.
ShowsFeed == Feed!FeedSpec

-----------------------------------------------------------------------------
(* What a comment of the code says, and its steps do not keep. *)

\* remote_player.h: a Local player owns its own pose, interp never writes it.
LocalPoseUntouched == wilbur \notin written
=============================================================================
