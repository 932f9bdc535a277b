----------------------- MODULE PlayerManager_proofs -----------------------
(***************************************************************************)
(* Theorems about PlayerManager, for every value of its constants: first   *)
(* the arithmetic of the pose counter, then the manager's invariants, then *)
(* that it implements PoseFeed.                                            *)
(***************************************************************************)
EXTENDS PlayerManager, TLAPS

-----------------------------------------------------------------------------
(* The counter test compares the positions of two poses correctly, however *)
(* often the counter has wrapped, as long as they are close enough.        *)

\* A number has one remainder.
LEMMA RemainderUnique ==
    ASSUME NEW M \in Nat \ {0}, NEW p \in Int, NEW q \in Int,
           NEW s \in 0 .. M - 1, NEW t \in 0 .. M - 1,
           p * M + s = q * M + t
    PROVE  s = t
<1>1. (p - q) * M = t - s
  OBVIOUS
<1>2. CASE p = q
  BY <1>1, <1>2
<1>3. CASE p >= q + 1
  <2>1. (p - q) * M >= M
    <3>1. p - q - 1 \in Nat
      BY <1>3
    <3>2. (p - q - 1) * M >= 0
      BY <3>1
    <3>3. QED
      BY <3>2
  <2>2. QED
    BY <1>1, <2>1
<1>4. CASE q >= p + 1
  <2>1. (q - p) * M >= M
    <3>1. q - p - 1 \in Nat
      BY <1>4
    <3>2. (q - p - 1) * M >= 0
      BY <3>1
    <3>3. QED
      BY <3>2
  <2>2. (q - p) * M = s - t
    OBVIOUS
  <2>3. QED
    BY <2>1, <2>2
<1>5. QED
  BY <1>2, <1>3, <1>4

LEMMA DivideWithRemainder ==
    ASSUME NEW M \in Nat \ {0}, NEW a \in Nat
    PROVE  /\ a % M \in 0 .. M - 1 /\ a \div M \in Int
           /\ a = (a \div M) * M + (a % M)
OBVIOUS

\* Adding d < M to a number adds d to its remainder, or d - M.
LEMMA RemainderPlus ==
    ASSUME NEW M \in Nat \ {0}, NEW a \in Nat, NEW d \in 0 .. M - 1
    PROVE  (a + d) % M = IF (a % M) + d < M THEN (a % M) + d
                                            ELSE (a % M) + d - M
<1> DEFINE r == a % M
           p == a \div M
           s == (a + d) % M
           q == (a + d) \div M
<1>1. r \in 0 .. M - 1 /\ p \in Int /\ a = p * M + r
  BY DivideWithRemainder
<1>2. s \in 0 .. M - 1 /\ q \in Int /\ a + d = q * M + s
  BY DivideWithRemainder, a + d \in Nat
<1> HIDE DEF r, p, s, q
<1>3. CASE r + d < M
  <2>1. q * M + s = p * M + (r + d) /\ r + d \in 0 .. M - 1
    BY <1>1, <1>2, <1>3
  <2>2. s = r + d
    BY <1>1, <1>2, <2>1, RemainderUnique
  <2>3. QED
    BY <1>3, <2>2 DEF r, s
<1>4. CASE ~(r + d < M)
  <2>1. r + d - M \in 0 .. M - 1 /\ p + 1 \in Int
    BY <1>1, <1>4
  <2>2. (p + 1) * M = p * M + M
    BY <1>1
  <2>3. q * M + s = (p + 1) * M + (r + d - M)
    BY <1>1, <1>2, <2>1, <2>2
  <2>4. s = r + d - M
    BY <1>1, <1>2, <2>1, <2>3, RemainderUnique
  <2>5. QED
    BY <1>4, <2>4 DEF r, s
<1>5. QED
  BY <1>3, <1>4

\* Two counter values of poses d apart: the distance forward is d, the
\* distance backward is CtxMod - d.
LEMMA CtxDistance ==
    ASSUME NEW a \in Nat, NEW d \in 1 .. CtxMod - 1
    PROVE  /\ CtxDelta((a + d) % CtxMod, a % CtxMod) = d
           /\ CtxDelta(a % CtxMod, (a + d) % CtxMod) = CtxMod - d
<1>1. CtxMod \in Nat \ {0} /\ d \in 0 .. CtxMod - 1
  BY CtxModAssumption
<1>2. a % CtxMod \in 0 .. CtxMod - 1
  BY <1>1, DivideWithRemainder
<1>3. (a + d) % CtxMod = IF (a % CtxMod) + d < CtxMod
                         THEN (a % CtxMod) + d ELSE (a % CtxMod) + d - CtxMod
  BY <1>1, RemainderPlus
<1> DEFINE r == a % CtxMod
           s == (a + d) % CtxMod
<1> HIDE DEF r, s
<1>4. r \in 0 .. CtxMod - 1 /\ s = IF r + d < CtxMod THEN r + d ELSE r + d - CtxMod
  BY <1>2, <1>3 DEF r, s
<1>5. CtxDelta(s, r) = d /\ CtxDelta(r, s) = CtxMod - d
  BY <1>1, <1>4 DEF CtxDelta
<1>6. QED
  BY <1>5 DEF r, s

\* The freshness test of on_remote_packet tells newer from older: of two poses
\* less than half the counter apart, the newer is fresh after the older and
\* the older is not fresh after the newer.
THEOREM FreshIffNewer ==
    ASSUME NEW a \in Nat, NEW d \in 1 .. HalfCtx - 1
    PROVE  /\ IsFresh((a + d) % CtxMod, a % CtxMod)
           /\ ~IsFresh(a % CtxMod, (a + d) % CtxMod)
<1>1. HalfCtx \in Nat /\ CtxMod = 2 * HalfCtx
  BY CtxModAssumption DEF HalfCtx
<1>2. d \in 1 .. CtxMod - 1
  BY <1>1
<1>3. /\ CtxDelta((a + d) % CtxMod, a % CtxMod) = d
      /\ CtxDelta(a % CtxMod, (a + d) % CtxMod) = CtxMod - d
  BY <1>2, CtxDistance
<1>4. QED
  BY <1>1, <1>3 DEF IsFresh

-----------------------------------------------------------------------------
(* The manager.                                                            *)

\* A spawn in progress still has room for the wrappers it may create.
RoomInv ==
    /\ sim_pc = "register" => made + 2 <= MaxWrapper /\ spawned \in Addr
    /\ sim_pc = "local" => made + 1 <= MaxWrapper

TypeInv == TypeOK /\ RoomInv

LEMMA NextCtxType == \A tc \in Ctx : NextCtx(tc) \in Ctx
BY CtxModAssumption DEF Ctx, NextCtx

LEMMA WireCtxType == \A k \in Nat : WireCtx(k) \in Ctx
BY CtxModAssumption DEF Ctx, WireCtx

\* Creating a wrapper keeps the type invariant while there is room for it.
LEMMA RegisterType ==
    ASSUME TypeOK, made + 1 <= MaxWrapper,
           NEW id \in Nat, NEW role \in Role, NEW entity \in Addr \cup {NULL},
           Register(id, role, entity)
    PROVE  /\ made' = made + 1 /\ made' \in 0 .. MaxWrapper
           /\ players' \subseteq 1 .. made'
           /\ wr' \in [Wrappers -> WrapperType]
           /\ by_engine' \in [Addr -> 0 .. made']
<1>1. made' = made + 1 /\ made \in Nat /\ made' \in 0 .. MaxWrapper
  BY BoundAssumption DEF TypeOK, Register
<1>2. Wrapper(id, role, entity) \in WrapperType
  BY CtxModAssumption, BoundAssumption
     DEF Wrapper, WrapperType, InitialCtx, Ctx, Pose
<1>3. players' \subseteq 1 .. made'
  BY <1>1 DEF TypeOK, Register
<1>4. wr' \in [Wrappers -> WrapperType]
  BY <1>2 DEF TypeOK, Register
<1>5. by_engine' \in [Addr -> 0 .. made']
  <2>1. by_engine \in [Addr -> 0 .. made] /\ made + 1 \in 0 .. made'
    BY <1>1 DEF TypeOK
  <2>2. by_engine \in [Addr -> 0 .. made']
    BY <1>1, <2>1
  <2>3. by_engine' = [by_engine EXCEPT ![entity] = made + 1]
    BY DEF Register
  <2>4. QED
    BY <2>1, <2>2, <2>3
<1>6. QED
  BY <1>1, <1>3, <1>4, <1>5

LEMMA NoWrapperType == NoWrapper \in WrapperType
BY CtxModAssumption, BoundAssumption
   DEF NoWrapper, Wrapper, WrapperType, Role, Pose, InitialCtx, Ctx

LEMMA TypeInit == Init => TypeInv
<1> SUFFICES ASSUME Init PROVE TypeInv
  OBVIOUS
<1>1. wr \in [Wrappers -> WrapperType] /\ by_engine \in [Addr -> 0 .. made]
  BY NoWrapperType DEF Init
<1>2. /\ recv_seq \in Pose /\ peer_seq \in Pose /\ send_time_ctx \in Ctx
      /\ made \in 0 .. MaxWrapper /\ condemned \in 0 .. made
      /\ next_player_id \in Nat
  BY CtxModAssumption, BoundAssumption DEF Ctx, Pose, Init
<1>3. TypeOK
  BY <1>1, <1>2, Zenon DEF Init, TypeOK
<1>4. RoomInv
  BY DEF Init, RoomInv
<1>5. QED
  BY <1>3, <1>4 DEF TypeInv

LEMMA TypeStep == TypeInv /\ [Next]_vars => TypeInv'
<1> SUFFICES ASSUME TypeInv, [Next]_vars PROVE TypeInv'
  OBVIOUS
<1> USE BoundAssumption DEF TypeInv
<1>1. CASE Engine
  BY <1>1 DEF Engine, LoadLevel, ToggleGameplay, UnloadLevel, TypeOK, RoomInv,
              managerVars, simVars, recvVars
<1>2. CASE PulseBegin \/ SpawnCheck \/ RunProbe \/ SpawnFails
  BY <1>2 DEF PulseBegin, SpawnCheck, RunProbe, SpawnFails, TypeOK, RoomInv,
              engineVars, managerVars, recvVars
<1>3. CASE SpawnSucceeds
  BY <1>3 DEF SpawnSucceeds, RoomForTwo, TypeOK, RoomInv, managerVars, recvVars
<1>4. CASE RegisterRemote
  <2>1. CASE ByEngineEntity(spawned) # 0
    <3>1. UNCHANGED <<made, wr, players, by_engine, next_player_id>>
      BY <1>4, <2>1 DEF RegisterRemote
    <3>2. TypeOK'
      BY <1>4, <3>1 DEF RegisterRemote, TypeOK, engineVars, recvVars
    <3>3. RoomInv'
      BY <1>4, <3>1 DEF RegisterRemote, TypeOK, RoomInv
    <3>4. QED
      BY <3>2, <3>3
  <2>2. CASE ByEngineEntity(spawned) = 0
    <3>1. PlayerId(RemoteWireId) \in Nat /\ next_player_id' \in Nat
      BY <1>4, <2>2 DEF RegisterRemote, PlayerId, TakeId, RemoteWireId,
                        LocalWireId, WireId, TypeOK
    <3>2. Register(PlayerId(RemoteWireId), "Remote", spawned)
      BY <1>4, <2>2 DEF RegisterRemote
    <3>3. made \in Nat /\ made + 2 <= MaxWrapper /\ spawned \in Addr
      BY <1>4 DEF RegisterRemote, RoomInv, TypeOK
    <3>4. /\ made' = made + 1 /\ made' \in 0 .. MaxWrapper
          /\ players' \subseteq 1 .. made'
          /\ wr' \in [Wrappers -> WrapperType]
          /\ by_engine' \in [Addr -> 0 .. made']
      BY <3>1, <3>2, <3>3, RegisterType DEF Role
    <3>5. QED
      BY <1>4, <3>1, <3>3, <3>4
         DEF RegisterRemote, TypeOK, RoomInv, engineVars, recvVars
  <2>3. QED
    BY <2>1, <2>2
<1>5. CASE RegisterLocal
  <2>1. CASE UNCHANGED <<made, wr, players, by_engine, next_player_id>>
    BY <1>5, <2>1 DEF RegisterLocal, TypeOK, RoomInv, engineVars, recvVars
  <2>2. CASE Register(PlayerId(LocalWireId), "Local", wilbur) /\ TakeId
    <3>1. PlayerId(LocalWireId) \in Nat /\ next_player_id' \in Nat
      BY <2>2 DEF PlayerId, TakeId, LocalWireId, WireId, TypeOK
    <3>2. made + 1 <= MaxWrapper /\ wilbur \in Addr \cup {NULL}
      BY <1>5 DEF RegisterLocal, RoomInv, TypeOK
    <3>3. /\ made' = made + 1 /\ made' \in 0 .. MaxWrapper
          /\ players' \subseteq 1 .. made'
          /\ wr' \in [Wrappers -> WrapperType]
          /\ by_engine' \in [Addr -> 0 .. made']
      BY <2>2, <3>1, <3>2, RegisterType DEF Role
    <3>4. QED
      BY <1>5, <3>1, <3>3
         DEF RegisterLocal, TypeOK, RoomInv, engineVars, recvVars
  <2>3. QED
    BY <1>5, <2>1, <2>2 DEF RegisterLocal
<1>6. CASE Pulse
  <2>1. \A r \in WrapperType : Faulted(r) \in WrapperType
    <3>1. 0 \in Pose
      BY DEF Pose
    <3>2. QED
      BY <3>1 DEF Faulted, WrapperType
  <2>2. wr' \in [Wrappers -> WrapperType]
    BY <1>6, <2>1 DEF Pulse, TypeOK
  <2>3. written' \subseteq Addr
    <3>1. \A w \in players : WritesPose(w) => wr[w].entity \in Addr
      BY DEF WritesPose, TypeOK, Wrappers, WrapperType
    <3>2. QED
      BY <1>6, <3>1 DEF Pulse
  <2>4. QED
    BY <1>6, <2>2, <2>3 DEF Pulse, TypeOK, RoomInv, engineVars, recvVars
<1>7. CASE Emit
  BY <1>7, NextCtxType DEF Emit, TypeOK, RoomInv, engineVars, recvVars
<1>8. CASE \E w \in players : Unregister(w)
  <2>1. PICK w \in players : Unregister(w)
    BY <1>8
  <2>2. by_engine' \in [Addr -> 0 .. made] /\ made' = made
    BY <2>1 DEF Unregister, TypeOK
  <2>3. w \in 0 .. made /\ players' \subseteq 1 .. made
    BY <2>1 DEF Unregister, TypeOK
  <2>4. peer_seen' \in BOOLEAN
    BY <2>1 DEF Unregister, TypeOK
  <2>5. QED
    BY <2>1, <2>2, <2>3, <2>4
       DEF Unregister, TypeOK, RoomInv, engineVars, recvVars
<1>9. CASE DestroyEntity
  <2>1. wr' \in [Wrappers -> WrapperType] /\ alloc' \subseteq Addr
    BY <1>9, NoWrapperType DEF DestroyEntity, TypeOK
  <2>2. QED
    BY <1>9, <2>1 DEF DestroyEntity, TypeOK, RoomInv, recvVars
<1>10. CASE \E k \in Deliverable : Receive(k)
  BY <1>10 DEF Receive, Deliverable, TypeOK, RoomInv, Pose, engineVars,
               managerVars, simVars
<1>11. CASE OnRemotePacket
  <2>1. WireCtx(recv_seq) \in Ctx
    BY WireCtxType DEF TypeOK, Pose
  <2>2. \A r \in WrapperType : Pushed(r) \in WrapperType
    BY <2>1 DEF Pushed, WrapperType, TypeOK
  <2>3. wr' \in [Wrappers -> WrapperType] /\ peer_seen' \in BOOLEAN
    BY <1>11, <2>2 DEF OnRemotePacket, TypeOK
  <2>4. QED
    BY <1>11, <2>3 DEF OnRemotePacket, TypeOK, RoomInv, Pose, engineVars, simVars
<1>12. CASE PeerEmit
  BY <1>12 DEF PeerEmit, TypeOK, RoomInv, WrapperType, Pose, engineVars,
               managerVars, simVars, recvVars
<1>13. CASE UNCHANGED vars
  BY <1>13 DEF vars, engineVars, managerVars, simVars, recvVars, TypeOK, RoomInv
<1>14. QED
  BY <1>1, <1>2, <1>3, <1>4, <1>5, <1>6, <1>7, <1>8, <1>9, <1>10, <1>11,
     <1>12, <1>13 DEF Next, DoPulse, TrySpawn, Recv

\* Every variable keeps its type, for any modulus of the wire counter and any
\* number of addresses, poses and wrappers.
THEOREM Typing == Spec => []TypeOK
<1>1. Init => TypeInv
  BY TypeInit
<1>2. TypeInv /\ [Next]_vars => TypeInv'
  BY TypeStep
<1>3. TypeInv => TypeOK
  BY DEF TypeInv
<1>4. QED
  BY <1>1, <1>2, <1>3, PTL DEF Spec

-----------------------------------------------------------------------------
(* One Remote wrapper, when only do_pulse spawns. *)

\* A new wrapper leaves the others as they were.
LEMMA RegisterEffect ==
    ASSUME TypeOK, made + 1 <= MaxWrapper,
           NEW id, NEW role, NEW entity, Register(id, role, entity)
    PROVE  /\ made + 1 \in Wrappers \ players
           /\ players' = players \cup {made + 1}
           /\ \A w \in players : wr'[w] = wr[w]
           /\ wr'[made + 1] = Wrapper(id, role, entity)
BY BoundAssumption DEF Register, TypeOK, Wrappers

LEMMA PlayersAreWrappers == TypeOK => players \subseteq Wrappers
BY BoundAssumption DEF TypeOK, Wrappers

\* A pulse faults a wrapper or leaves it alone.
LEMMA PulseEffect ==
    ASSUME TypeOK, Pulse, NEW w \in Wrappers
    PROVE  \/ wr'[w] = wr[w]
           \/ /\ wr'[w] = Faulted(wr[w]) /\ wr[w].entity \notin alloc
              /\ IsRemote(w)
BY DEF Pulse, WritesPose

\* A received pose reaches the wrapper with the peer's id or is dropped.
LEMMA PacketEffect ==
    ASSUME TypeOK, OnRemotePacket, NEW w \in Wrappers
    PROVE  \/ wr'[w] = wr[w]
           \/ /\ wr'[w] = Pushed(wr[w])
              /\ w \in ByPlayerId(WireId(PeerMode))
              /\ IsFresh(WireCtx(recv_seq), wr[w].last_time_ctx)
BY DEF OnRemotePacket

\* Every other step keeps a wrapper's role and entity, unless it is being torn
\* down or its write faults.
LEMMA RoleKept ==
    ASSUME TypeOK, [Next]_vars, ~RegisterRemote, ~RegisterLocal
    PROVE  /\ players' \subseteq players
           /\ \A w \in players' : wr'[w].role = "Remote" => wr[w].role = "Remote"
<1>0. \A w \in players : w \in Wrappers /\ wr[w] \in WrapperType
  BY PlayersAreWrappers DEF TypeOK
<1>1. CASE Pulse
  <2>1. \A r \in WrapperType : Faulted(r).role = r.role
    BY DEF Faulted, WrapperType
  <2>2. players' = players
    BY <1>1 DEF Pulse
  <2>3. QED
    BY <1>0, <1>1, <2>1, <2>2, PulseEffect
<1>2. CASE DestroyEntity
  BY <1>0, <1>2 DEF DestroyEntity, NoWrapper, Wrapper, TypeOK
<1>3. CASE OnRemotePacket
  <2>1. \A r \in WrapperType : Pushed(r).role = r.role
    BY DEF Pushed, WrapperType
  <2>2. players' = players
    BY <1>3 DEF OnRemotePacket
  <2>3. QED
    BY <1>0, <1>3, <2>1, <2>2, PacketEffect
<1>4. CASE \E w \in players : Unregister(w)
  BY <1>4 DEF Unregister
<1>5. CASE UNCHANGED <<players, wr>>
  BY <1>5
<1>6. QED
  BY <1>1, <1>2, <1>3, <1>4, <1>5
     DEF Next, Engine, DoPulse, TrySpawn, Recv, vars, managerVars, LoadLevel,
         ToggleGameplay, UnloadLevel, PulseBegin, SpawnCheck, Emit, RunProbe,
         SpawnFails, SpawnSucceeds, Receive, PeerEmit

SpawnInv == sim_pc \in {"spawn", "register"} => ~HasRemote

OneRemoteInv == TypeInv /\ OneRemote /\ SpawnInv

LEMMA OneRemoteStep ==
    ASSUME ManualProbe = FALSE, OneRemoteInv, [Next]_vars
    PROVE  OneRemote' /\ SpawnInv'
<1> USE DEF OneRemoteInv, TypeInv, OneRemote, SpawnInv, HasRemote, IsRemote
<1>1. CASE RegisterRemote
  <2>1. CASE UNCHANGED <<made, wr, players, by_engine, next_player_id>>
    BY <1>1, <2>1 DEF RegisterRemote
  <2>2. CASE Register(PlayerId(RemoteWireId), "Remote", spawned)
    <3>1. made + 1 <= MaxWrapper
      BY <1>1, BoundAssumption DEF RegisterRemote, RoomInv, TypeOK
    <3>2. /\ players' = players \cup {made + 1}
          /\ \A w \in players : wr'[w] = wr[w]
      BY <2>2, <3>1, RegisterEffect
    <3>3. sim_pc = "register" /\ sim_pc' = "local"
      BY <1>1 DEF RegisterRemote
    <3>4. QED
      BY <3>2, <3>3
  <2>3. QED
    BY <1>1, <2>1, <2>2 DEF RegisterRemote
<1>2. CASE RegisterLocal
  <2>1. CASE UNCHANGED <<made, wr, players, by_engine, next_player_id>>
    BY <1>2, <2>1 DEF RegisterLocal, TypeOK
  <2>2. CASE Register(PlayerId(LocalWireId), "Local", wilbur)
    <3>1. made + 1 <= MaxWrapper
      BY <1>2 DEF RegisterLocal, RoomInv
    <3>2. /\ players' = players \cup {made + 1}
          /\ \A w \in players : wr'[w] = wr[w]
          /\ wr'[made + 1] = Wrapper(PlayerId(LocalWireId), "Local", wilbur)
      BY <2>2, <3>1, RegisterEffect
    <3>3. wr'[made + 1].role # "Remote"
      BY <3>2 DEF Wrapper
    <3>4. sim_pc' \in {"idle", "pulse"}
      BY <1>2 DEF RegisterLocal, TypeOK
    <3>5. QED
      BY <3>2, <3>3, <3>4
  <2>3. QED
    BY <1>2, <2>1, <2>2 DEF RegisterLocal
<1>3. CASE ~RegisterRemote /\ ~RegisterLocal
  <2>1. OneRemote' /\ (~HasRemote => ~HasRemote')
    BY <1>3, RoleKept
  <2>2. sim_pc' \in {"spawn", "register"} =>
          sim_pc \in {"spawn", "register"} \/ ~HasRemote
    BY <1>3, FlagAssumption
       DEF Next, Engine, DoPulse, TrySpawn, Recv, vars, simVars, LoadLevel,
           ToggleGameplay, UnloadLevel, PulseBegin, SpawnCheck, NeedSpawn,
           Pulse, Emit, RunProbe, SpawnFails, SpawnSucceeds, Unregister,
           DestroyEntity, Receive, OnRemotePacket, PeerEmit, TypeOK
  <2>3. QED
    BY <2>1, <2>2
<1>4. QED
  BY <1>1, <1>2, <1>3

\* With the Debug tab's probe out of the picture there is never a second
\* avatar of the peer, although has_remote_locked and register_remote take
\* m_mu separately: nothing but the sim thread registers.
THEOREM AtMostOneRemote ==
    ASSUME ManualProbe = FALSE
    PROVE  Spec => []OneRemote
<1>1. Init => OneRemoteInv
  BY TypeInit DEF Init, OneRemoteInv, OneRemote, SpawnInv
<1>2. OneRemoteInv /\ [Next]_vars => OneRemoteInv'
  BY TypeStep, OneRemoteStep DEF OneRemoteInv
<1>3. OneRemoteInv => OneRemote
  BY DEF OneRemoteInv
<1>4. QED
  BY <1>1, <1>2, <1>3, PTL DEF Spec

-----------------------------------------------------------------------------
(* The sidecar map answers for every registered wrapper. *)

\* Entering a new wrapper around an entity the map does not know.
LEMMA RegisterMaps ==
    ASSUME TypeOK, MapComplete, made + 1 <= MaxWrapper,
           NEW id, NEW role, NEW entity \in Addr, by_engine[entity] = 0,
           Register(id, role, entity)
    PROVE  MapComplete'
<1>1. /\ players' = players \cup {made + 1}
      /\ \A w \in players : wr'[w] = wr[w]
      /\ wr'[made + 1] = Wrapper(id, role, entity)
  BY RegisterEffect
<1>2. wr'[made + 1].entity = entity
  BY <1>1 DEF Wrapper
<1>3. by_engine' = [by_engine EXCEPT ![entity] = made + 1]
  BY DEF Register
<1>4. \A w \in players : wr[w].entity # NULL =>
        wr[w].entity \in Addr /\ wr[w].entity # entity
  BY PlayersAreWrappers DEF MapComplete, TypeOK, WrapperType
<1>5. by_engine'[entity] = made + 1
  BY <1>3 DEF TypeOK
<1>6. QED
  BY <1>1, <1>2, <1>3, <1>4, <1>5 DEF MapComplete, TypeOK

LEMMA MapCompleteStep ==
    ASSUME TypeInv, MapComplete, [Next]_vars
    PROVE  MapComplete'
<1>0. /\ TypeOK
      /\ \A w \in players : w \in Wrappers /\ wr[w] \in WrapperType
  BY PlayersAreWrappers DEF TypeInv, TypeOK
<1>1. CASE RegisterRemote
  <2>1. CASE UNCHANGED <<made, wr, players, by_engine, next_player_id>>
    BY <2>1 DEF MapComplete
  <2>2. CASE /\ by_engine[spawned] = 0
             /\ Register(PlayerId(RemoteWireId), "Remote", spawned)
    <3>1. made + 1 <= MaxWrapper /\ spawned \in Addr
      BY <1>1, BoundAssumption DEF RegisterRemote, TypeInv, RoomInv, TypeOK
    <3>2. QED
      BY <1>0, <2>2, <3>1, RegisterMaps
  <2>3. QED
    BY <1>1, <2>1, <2>2 DEF RegisterRemote, ByEngineEntity
<1>2. CASE RegisterLocal
  <2>1. CASE UNCHANGED <<made, wr, players, by_engine, next_player_id>>
    BY <2>1 DEF MapComplete
  <2>2. CASE /\ wilbur # NULL /\ by_engine[wilbur] = 0
             /\ Register(PlayerId(LocalWireId), "Local", wilbur)
    <3>1. made + 1 <= MaxWrapper /\ wilbur \in Addr
      BY <1>2, <2>2 DEF RegisterLocal, TypeInv, RoomInv, TypeOK
    <3>2. QED
      BY <1>0, <2>2, <3>1, RegisterMaps
  <2>3. QED
    BY <1>2, <2>1, <2>2 DEF RegisterLocal, ByEngineEntity
<1>3. CASE Pulse
  <2>1. \A r \in WrapperType : Faulted(r).entity = NULL
    BY DEF Faulted, WrapperType
  <2>2. players' = players /\ by_engine' = by_engine
    BY <1>3 DEF Pulse
  <2>3. QED
    BY <1>0, <1>3, <2>1, <2>2, PulseEffect DEF MapComplete
<1>4. CASE OnRemotePacket
  <2>1. \A r \in WrapperType : Pushed(r).entity = r.entity
    BY DEF Pushed, WrapperType
  <2>2. players' = players /\ by_engine' = by_engine
    BY <1>4 DEF OnRemotePacket
  <2>3. QED
    BY <1>0, <1>4, <2>1, <2>2, PacketEffect DEF MapComplete
<1>5. CASE DestroyEntity
  <2>1. NoWrapper.entity = NULL
    BY DEF NoWrapper, Wrapper
  <2>2. QED
    BY <1>0, <1>5, <2>1 DEF DestroyEntity, MapComplete, TypeOK
<1>6. CASE \E w \in players : Unregister(w)
  <2>1. PICK w \in players : Unregister(w)
    BY <1>6
  <2>2. \A v \in players' : v \in players /\ v # w /\ wr'[v] = wr[v]
    BY <2>1 DEF Unregister
  <2>3. ASSUME NEW v \in players', wr[v].entity # NULL
        PROVE  by_engine'[wr[v].entity] = v
    <3>1. wr[v].entity \in Addr /\ by_engine[wr[v].entity] = v
      BY <1>0, <2>2, <2>3 DEF MapComplete, WrapperType
    <3>2. wr[w].entity # wr[v].entity
      BY <2>2, <2>3, <3>1 DEF MapComplete
    <3>3. QED
      BY <2>1, <3>1, <3>2 DEF Unregister
  <2>4. QED
    BY <2>2, <2>3 DEF MapComplete
<1>7. CASE UNCHANGED <<players, wr, by_engine>>
  BY <1>7 DEF MapComplete
<1>8. QED
  BY <1>1, <1>2, <1>3, <1>4, <1>5, <1>6, <1>7
     DEF Next, Engine, DoPulse, TrySpawn, Recv, vars, managerVars, LoadLevel,
         ToggleGameplay, UnloadLevel, PulseBegin, SpawnCheck, Emit, RunProbe,
         SpawnFails, SpawnSucceeds, Receive, PeerEmit

\* Looking up the entity of a registered wrapper finds that wrapper, whatever
\* the engine frees and whichever address its allocator hands out again.
THEOREM SidecarComplete == Spec => []MapComplete
<1>1. Init => TypeInv /\ MapComplete
  BY TypeInit DEF Init, MapComplete
<1>2. TypeInv /\ MapComplete /\ [Next]_vars => TypeInv' /\ MapComplete'
  BY TypeStep, MapCompleteStep
<1>3. QED
  BY <1>1, <1>2, PTL DEF Spec

-----------------------------------------------------------------------------
(* The poses a wrapper holds: whose they are and in which order. *)

WrapperInv(r) ==
    /\ Active => r.id = IF r.role = "Remote" THEN RemoteWireId ELSE LocalWireId
    /\ r.last_seq # 0 => /\ r.role = "Remote"
                         /\ r.last_time_ctx = WireCtx(r.last_seq)
    /\ r.curr # 0 => r.prev <= r.curr /\ r.curr = r.last_seq

\* A pose being handled is not so old that the counter could have wrapped.
RecvInv ==
    recv_pc = "stamped" =>
        /\ Active /\ recv_seq \in 1 .. peer_seq
        /\ \A w \in players : wr[w].last_seq - recv_seq < HalfCtx

PoseInv ==
    /\ TypeInv
    /\ \A w \in players : WrapperInv(wr[w]) /\ wr[w].last_seq <= peer_seq
    /\ RecvInv
    /\ condemned \notin players

LEMMA HalfCtxType == HalfCtx \in Nat
BY CtxModAssumption DEF HalfCtx

\* The counter test, read in terms of the poses themselves.
LEMMA FreshPose ==
    ASSUME NEW j \in Nat \ {0}, NEW k \in Nat \ {0}
    PROVE  /\ j < k /\ k - j < HalfCtx => IsFresh(WireCtx(k), WireCtx(j))
           /\ k < j /\ j - k < HalfCtx => ~IsFresh(WireCtx(k), WireCtx(j))
<1>1. CASE j < k /\ k - j < HalfCtx
  <2>1. j - 1 \in Nat /\ k - j \in 1 .. HalfCtx - 1 /\ k - 1 = (j - 1) + (k - j)
    BY <1>1, HalfCtxType
  <2>2. IsFresh(((j - 1) + (k - j)) % CtxMod, (j - 1) % CtxMod)
    BY <2>1, FreshIffNewer
  <2>3. QED
    BY <1>1, <2>1, <2>2 DEF WireCtx
<1>2. CASE k < j /\ j - k < HalfCtx
  <2>1. k - 1 \in Nat /\ j - k \in 1 .. HalfCtx - 1 /\ j - 1 = (k - 1) + (j - k)
    BY <1>2, HalfCtxType
  <2>2. ~IsFresh((k - 1) % CtxMod, ((k - 1) + (j - k)) % CtxMod)
    BY <2>1, FreshIffNewer
  <2>3. QED
    BY <1>2, <2>1, <2>2 DEF WireCtx
<1>3. QED
  BY <1>1, <1>2

\* The two endpoints' wire ids: the peer sends under our Remote wrapper's id.
LEMMA WireIds ==
    Active => WireId(PeerMode) = RemoteWireId /\ RemoteWireId # LocalWireId
BY ModeAssumption DEF Active, WireId, PeerMode, RemoteWireId, LocalWireId

\* The wrapper that a datagram addresses is the peer's avatar.
LEMMA TargetIsRemote ==
    ASSUME PoseInv, Active, NEW w \in ByPlayerId(WireId(PeerMode))
    PROVE  w \in players /\ w \in Wrappers /\ IsRemote(w)
<1>1. w \in players /\ wr[w].id = WireId(PeerMode) /\ WrapperInv(wr[w])
  BY DEF ByPlayerId, PoseInv
<1>2. IsRemote(w)
  BY <1>1, WireIds DEF WrapperInv, IsRemote
<1>3. QED
  BY <1>1, <1>2, PlayersAreWrappers DEF PoseInv, TypeInv

\* A pose that is taken is no older than the last one taken.
LEMMA TakenIsNewer ==
    ASSUME PoseInv, recv_pc = "stamped", NEW w \in players,
           IsFresh(WireCtx(recv_seq), wr[w].last_time_ctx)
    PROVE  wr[w].last_seq <= recv_seq
<1>1. /\ wr[w].last_seq \in Nat /\ recv_seq \in Nat \ {0}
      /\ wr[w].last_seq - recv_seq < HalfCtx
  BY PlayersAreWrappers, BoundAssumption
     DEF PoseInv, RecvInv, TypeInv, TypeOK, WrapperType, Pose
<1>2. SUFFICES ASSUME recv_seq < wr[w].last_seq PROVE FALSE
  BY <1>1
<1>3. wr[w].last_time_ctx = WireCtx(wr[w].last_seq)
  BY <1>1, <1>2 DEF PoseInv, WrapperInv
<1>4. QED
  BY <1>1, <1>2, <1>3, FreshPose

\* A registration adds one wrapper that obeys WrapperInv and holds no pose.
LEMMA RegisterPoses ==
    ASSUME PoseInv, made + 1 <= MaxWrapper,
           NEW id, NEW role, NEW entity, Register(id, role, entity),
           Active => id = IF role = "Remote" THEN RemoteWireId ELSE LocalWireId,
           UNCHANGED <<condemned, peer_seq, recvVars>>
    PROVE  /\ \A w \in players' : WrapperInv(wr'[w]) /\ wr'[w].last_seq <= peer_seq'
           /\ RecvInv'
           /\ condemned' \notin players'
<1>1. /\ made + 1 \in Wrappers \ players
      /\ players' = players \cup {made + 1}
      /\ \A w \in players : wr'[w] = wr[w]
      /\ wr'[made + 1] = Wrapper(id, role, entity)
  BY RegisterEffect DEF PoseInv, TypeInv
<1>2. WrapperInv(wr'[made + 1]) /\ wr'[made + 1].last_seq = 0
  BY <1>1 DEF WrapperInv, Wrapper
<1>3. peer_seq \in Nat /\ condemned # made + 1
  BY BoundAssumption DEF PoseInv, TypeInv, TypeOK, Pose
<1>4. \A w \in players' : WrapperInv(wr'[w]) /\ wr'[w].last_seq <= peer_seq'
  BY <1>1, <1>2, <1>3 DEF PoseInv
<1>5. RecvInv'
  BY <1>1, <1>2, <1>3, HalfCtxType DEF PoseInv, RecvInv, recvVars
<1>6. QED
  BY <1>1, <1>3, <1>4, <1>5 DEF PoseInv

LEMMA PoseStep ==
    ASSUME PoseInv, [Next]_vars
    PROVE  /\ \A w \in players' : WrapperInv(wr'[w]) /\ wr'[w].last_seq <= peer_seq'
           /\ RecvInv'
           /\ condemned' \notin players'
<1>0. /\ TypeOK /\ peer_seq \in Nat /\ recv_seq \in Nat
      /\ \A w \in players : w \in Wrappers /\ wr[w] \in WrapperType
  BY PlayersAreWrappers, BoundAssumption DEF PoseInv, TypeInv, TypeOK, Pose
<1>1. CASE RegisterRemote
  <2>1. CASE UNCHANGED <<made, wr, players, by_engine, next_player_id>>
    BY <1>1, <2>1 DEF RegisterRemote, PoseInv, RecvInv, recvVars
  <2>2. CASE Register(PlayerId(RemoteWireId), "Remote", spawned)
    <3>1. made + 1 <= MaxWrapper
      BY <1>1, BoundAssumption DEF RegisterRemote, PoseInv, TypeInv, RoomInv, TypeOK
    <3>2. Active => PlayerId(RemoteWireId) = RemoteWireId
      BY DEF PlayerId
    <3>3. UNCHANGED <<condemned, peer_seq, recvVars>>
      BY <1>1 DEF RegisterRemote
    <3>4. QED
      BY <2>2, <3>1, <3>2, <3>3, RegisterPoses
  <2>3. QED
    BY <1>1, <2>1, <2>2 DEF RegisterRemote
<1>2. CASE RegisterLocal
  <2>1. CASE UNCHANGED <<made, wr, players, by_engine, next_player_id>>
    BY <1>2, <2>1 DEF RegisterLocal, PoseInv, RecvInv, recvVars
  <2>2. CASE Register(PlayerId(LocalWireId), "Local", wilbur)
    <3>1. made + 1 <= MaxWrapper
      BY <1>2 DEF RegisterLocal, PoseInv, TypeInv, RoomInv
    <3>2. Active => PlayerId(LocalWireId) = LocalWireId
      BY DEF PlayerId
    <3>3. UNCHANGED <<condemned, peer_seq, recvVars>>
      BY <1>2 DEF RegisterLocal
    <3>4. QED
      BY <2>2, <3>1, <3>2, <3>3, RegisterPoses
  <2>3. QED
    BY <1>2, <2>1, <2>2 DEF RegisterLocal
<1>3. CASE Pulse
  <2>1. \A r \in WrapperType : WrapperInv(r) =>
          WrapperInv(Faulted(r)) /\ Faulted(r).last_seq = r.last_seq
    BY DEF Faulted, WrapperType, WrapperInv
  <2>2. UNCHANGED <<players, condemned, peer_seq, recv_pc, recv_seq>>
    BY <1>3 DEF Pulse, recvVars
  <2>3. \A w \in players : WrapperInv(wr'[w]) /\ wr'[w].last_seq = wr[w].last_seq
    BY <1>0, <1>3, <2>1, PulseEffect DEF PoseInv
  <2>4. QED
    BY <2>2, <2>3 DEF PoseInv, RecvInv
<1>4. CASE \E w \in players : Unregister(w)
  BY <1>4 DEF Unregister, PoseInv, RecvInv, recvVars
<1>5. CASE DestroyEntity
  <2>1. \A w \in players : wr'[w] = wr[w]
    BY <1>0, <1>5 DEF DestroyEntity, PoseInv, TypeOK
  <2>2. 0 \notin players
    BY <1>0 DEF TypeOK
  <2>3. QED
    BY <1>5, <2>1, <2>2 DEF DestroyEntity, PoseInv, RecvInv, recvVars
<1>6. CASE \E k \in Deliverable : Receive(k)
  <2>1. PICK k \in Deliverable : Receive(k)
    BY <1>6
  <2>2. k \in 1 .. peer_seq /\ peer_seq - k < HalfCtx
    BY <1>0, <2>1, LagAssumption, HalfCtxType DEF Deliverable
  <2>3. \A w \in players : wr[w].last_seq \in Nat /\ wr[w].last_seq <= peer_seq
    BY <1>0, BoundAssumption DEF PoseInv, WrapperType, Pose
  <2>4. \A w \in players : wr[w].last_seq - k < HalfCtx
    BY <1>0, <2>2, <2>3, HalfCtxType
  <2>5. QED
    BY <2>1, <2>2, <2>4 DEF Receive, PoseInv, RecvInv, managerVars, simVars
<1>7. CASE OnRemotePacket
  <2>1. UNCHANGED <<players, condemned, peer_seq>> /\ recv_pc = "stamped" /\ recv_pc' = "wait"
    BY <1>7 DEF OnRemotePacket, simVars
  <2>2. ASSUME NEW w \in players, wr'[w] # wr[w]
        PROVE  WrapperInv(wr'[w]) /\ wr'[w].last_seq <= peer_seq
    <3>1. /\ wr'[w] = Pushed(wr[w]) /\ w \in ByPlayerId(WireId(PeerMode))
          /\ IsFresh(WireCtx(recv_seq), wr[w].last_time_ctx)
      BY <1>0, <1>7, <2>2, PacketEffect
    <3>2. Active /\ IsRemote(w) /\ recv_seq \in 1 .. peer_seq
      BY <2>1, <3>1, TargetIsRemote DEF PoseInv, RecvInv
    <3>3. wr[w].last_seq <= recv_seq /\ wr[w] \in WrapperType
      BY <1>0, <2>1, <3>1, TakenIsNewer
    <3>4. wr[w].curr <= recv_seq
      BY <1>0, <3>3 DEF PoseInv, WrapperInv, WrapperType
    <3>5. QED
      BY <1>0, <3>1, <3>2, <3>3, <3>4
         DEF PoseInv, WrapperInv, Pushed, WrapperType, IsRemote
  <2>3. QED
    BY <2>1, <2>2 DEF PoseInv, RecvInv
<1>8. CASE PeerEmit
  <2>1. UNCHANGED <<players, wr, condemned, recv_pc, recv_seq>> /\ peer_seq' = peer_seq + 1
    BY <1>8 DEF PeerEmit, managerVars, simVars, recvVars
  <2>2. \A w \in players : wr[w].last_seq \in Nat
    BY <1>0, BoundAssumption DEF WrapperType, Pose
  <2>3. QED
    BY <1>0, <2>1, <2>2 DEF PoseInv, RecvInv
<1>9. CASE UNCHANGED <<players, wr, condemned, recvVars, peer_seq>>
  BY <1>9 DEF PoseInv, RecvInv, recvVars
<1>10. QED
  BY <1>1, <1>2, <1>3, <1>4, <1>5, <1>6, <1>7, <1>8, <1>9
     DEF Next, Engine, DoPulse, TrySpawn, Recv, vars, managerVars, simVars,
         LoadLevel, ToggleGameplay, UnloadLevel, PulseBegin, SpawnCheck, Emit,
         RunProbe, SpawnFails, SpawnSucceeds

LEMMA PoseInvariant == Spec => []PoseInv
<1>1. Init => PoseInv
  BY TypeInit DEF Init, PoseInv, RecvInv
<1>2. PoseInv /\ [Next]_vars => PoseInv'
  BY TypeStep, PoseStep DEF PoseInv
<1>3. QED
  BY <1>1, <1>2, PTL DEF Spec

\* A pose of the peer never lands in the local player's wrapper: both ends
\* derive the same wire ids from their roles, in whatever order they register.
THEOREM PosesStayRemote == Spec => []PosesGoToRemote
<1>1. PoseInv => PosesGoToRemote
  BY DEF PoseInv, WrapperInv, PosesGoToRemote, IsRemote
<1>2. QED
  BY <1>1, PoseInvariant, PTL

\* The two snapshots that are blended are in the order in which the peer took
\* them, whatever the network loses, repeats or delays.
THEOREM SnapshotsOrdered == Spec => []PosesInOrder
<1>1. PoseInv => PosesInOrder
  BY DEF PoseInv, WrapperInv, PosesInOrder
<1>2. QED
  BY <1>1, PoseInvariant, PTL

LEMMA LastSeqGrows ==
    ASSUME PoseInv, [Next]_vars, NEW w \in players \cap players'
    PROVE  wr'[w].last_seq >= wr[w].last_seq
<1>0. TypeOK /\ w \in Wrappers /\ wr[w] \in WrapperType /\ wr[w].last_seq \in Nat
  BY PlayersAreWrappers, BoundAssumption
     DEF PoseInv, TypeInv, TypeOK, WrapperType, Pose
<1>1. CASE \E id, role, entity : made + 1 <= MaxWrapper /\ Register(id, role, entity)
  <2>1. wr'[w] = wr[w]
    BY <1>0, <1>1, RegisterEffect
  <2>2. QED
    BY <1>0, <2>1
<1>2. CASE Pulse
  <2>1. Faulted(wr[w]).last_seq = wr[w].last_seq
    BY <1>0 DEF Faulted, WrapperType
  <2>2. QED
    BY <1>0, <1>2, <2>1, PulseEffect
<1>3. CASE DestroyEntity
  BY <1>0, <1>3 DEF DestroyEntity, PoseInv
<1>4. CASE OnRemotePacket
  <2>1. Pushed(wr[w]).last_seq = recv_seq
    BY <1>0 DEF Pushed, WrapperType
  <2>2. CASE wr'[w] = Pushed(wr[w]) /\ IsFresh(WireCtx(recv_seq), wr[w].last_time_ctx)
    <3>1. wr[w].last_seq <= recv_seq
      BY <1>4, <2>2, TakenIsNewer DEF OnRemotePacket
    <3>2. recv_seq \in Nat
      BY <1>0, BoundAssumption DEF TypeOK, Pose
    <3>3. QED
      BY <1>0, <2>1, <2>2, <3>1, <3>2
  <2>3. QED
    BY <1>0, <1>4, <2>2, PacketEffect
<1>5. CASE UNCHANGED wr
  BY <1>0, <1>5
<1>6. (RegisterRemote \/ RegisterLocal) /\ ~UNCHANGED wr =>
        \E id, role, entity : made + 1 <= MaxWrapper /\ Register(id, role, entity)
  BY <1>0, BoundAssumption
     DEF RegisterRemote, RegisterLocal, PoseInv, TypeInv, RoomInv, TypeOK
<1>7. QED
  BY <1>1, <1>2, <1>3, <1>4, <1>5, <1>6
     DEF Next, Engine, DoPulse, TrySpawn, Recv, vars, managerVars,
         LoadLevel, ToggleGameplay, UnloadLevel, PulseBegin, SpawnCheck, Emit,
         RunProbe, SpawnFails, SpawnSucceeds, Unregister, Receive, PeerEmit

\* The 16-bit time_ctx gate never lets an older pose replace a newer one.
THEOREM NoStalePoseEver == Spec => NoStalePose
<1>1. PoseInv /\ [Next]_vars =>
        [\A w \in players \cap players' : wr'[w].last_seq >= wr[w].last_seq]_vars
  BY LastSeqGrows
<1>2. QED
  BY <1>1, PoseInvariant, PTL DEF Spec, NoStalePose

LEMMA FreshPoseStep ==
    ASSUME PoseInv, [Next]_vars, recv_pc = "stamped", recv_pc' = "wait",
           NEW w \in ByPlayerId(WireId(PeerMode)),
           wr[w].last_seq \in 1 .. recv_seq - 1,
           recv_seq - wr[w].last_seq < HalfCtx
    PROVE  wr'[w].curr = recv_seq
<1>1. OnRemotePacket
  BY DEF Next, Engine, DoPulse, TrySpawn, Recv, vars, recvVars, LoadLevel,
         ToggleGameplay, UnloadLevel, PulseBegin, SpawnCheck, Pulse, Emit,
         RunProbe, SpawnFails, SpawnSucceeds, RegisterRemote, RegisterLocal,
         Unregister, DestroyEntity, Receive, PeerEmit
<1>2. w \in players /\ w \in Wrappers
  BY PlayersAreWrappers DEF ByPlayerId, PoseInv, TypeInv
<1>3. recv_seq \in Nat \ {0} /\ wr[w].last_seq \in Nat \ {0}
  BY BoundAssumption DEF PoseInv, TypeInv, TypeOK, Pose
<1>4. IsFresh(WireCtx(recv_seq), wr[w].last_time_ctx)
  <2>1. wr[w].last_time_ctx = WireCtx(wr[w].last_seq)
    BY <1>2, <1>3 DEF PoseInv, WrapperInv
  <2>2. QED
    BY <1>3, <2>1, FreshPose
<1>5. wr'[w] = Pushed(wr[w])
  BY <1>1, <1>2, <1>4 DEF OnRemotePacket
<1>6. QED
  BY <1>2, <1>5 DEF Pushed, PoseInv, TypeInv, TypeOK, WrapperType

\* The same gate never turns away a newer pose that comes within half the
\* counter of the last one: play goes on across the wrap at 65536.
THEOREM FreshPoseAlwaysTaken == Spec => FreshPoseTaken
<1>1. PoseInv /\ [Next]_vars =>
        [recv_pc = "stamped" /\ recv_pc' = "wait" =>
           \A w \in ByPlayerId(WireId(PeerMode)) :
              wr[w].last_seq \in 1 .. recv_seq - 1
                /\ recv_seq - wr[w].last_seq < HalfCtx
              => wr'[w].curr = recv_seq]_vars
  BY FreshPoseStep
<1>2. QED
  BY <1>1, PoseInvariant, PTL DEF Spec, FreshPoseTaken

-----------------------------------------------------------------------------
(* Nothing the factory built is lost while a level lasts. *)

Owned(w) == /\ wr[w].entity \in alloc
            /\ IsRemote(w) <=> wr[w].entity # wilbur

OrphanInv ==
    /\ \A w \in players : Owned(w)
    /\ \A a \in Addr : by_engine[a] # 0 =>
          by_engine[a] \in players /\ wr[by_engine[a]].entity = a
    /\ sim_pc = "register" =>
          spawned \in alloc /\ spawned # wilbur /\ by_engine[spawned] = 0
    /\ sim_pc # "register" => spawned = NULL
    /\ wilbur = NULL <=> level = "none"
    /\ wilbur # NULL => wilbur \in alloc
    /\ sim_pc = "destroy" <=> condemned # 0
    /\ condemned # 0 =>
          /\ condemned \in Wrappers /\ Owned(condemned)
          /\ \A w \in players : wr[w].entity # wr[condemned].entity
    /\ condemned \notin players

LeakInv == TypeInv /\ MapComplete /\ OrphanInv /\ NoLeakedOrphan

LEMMA LeakStep ==
    ASSUME LevelChanges = FALSE, LeakInv, [Next]_vars
    PROVE  OrphanInv' /\ NoLeakedOrphan'
<1>0. /\ TypeOK /\ RoomInv /\ MapComplete /\ OrphanInv /\ NoLeakedOrphan
      /\ \A w \in players : w \in Wrappers /\ wr[w] \in WrapperType
      /\ condemned = 0 \/ sim_pc = "destroy"
  BY PlayersAreWrappers DEF LeakInv, TypeInv, TypeOK, OrphanInv
<1>1. CASE LoadLevel
  <2>1. PICK a \in Addr \ alloc : wilbur' = a /\ alloc' = alloc \cup {a}
    BY <1>1 DEF LoadLevel
  <2>2. /\ UNCHANGED <<players, wr, by_engine, condemned, spawned, sim_pc>>
        /\ sim_pc = "idle" /\ condemned = 0 /\ wilbur = NULL
        /\ level' = "loading" /\ a # NULL
    BY <1>0, <1>1, AddrAssumption
       DEF LoadLevel, managerVars, simVars, OrphanInv
  <2>3. \A w \in players : Owned(w)'
    BY <1>0, <2>1, <2>2, AddrAssumption DEF OrphanInv, Owned, IsRemote, TypeOK
  <2>4. OrphanInv'
    BY <1>0, <2>1, <2>2, <2>3 DEF OrphanInv
  <2>5. NoLeakedOrphan'
    BY <1>0, <2>1, <2>2, AddrAssumption DEF NoLeakedOrphan, TypeOK
  <2>6. QED
    BY <2>4, <2>5
<1>2. CASE SpawnSucceeds
  <2>1. CASE UNCHANGED <<alloc, spawned>> /\ sim_pc' = resume
    BY <1>0, <1>2, <2>1
       DEF SpawnSucceeds, OrphanInv, NoLeakedOrphan, Owned, IsRemote, TypeOK,
           managerVars
  <2>2. CASE \E a \in Addr \ alloc :
               spawned' = a /\ alloc' = alloc \cup {a} /\ sim_pc' = "register"
    <3>1. PICK a \in Addr \ alloc :
            spawned' = a /\ alloc' = alloc \cup {a} /\ sim_pc' = "register"
      BY <2>2
    <3>2. /\ UNCHANGED <<level, wilbur, players, wr, by_engine, condemned>>
          /\ sim_pc = "spawn" /\ condemned = 0 /\ level = "play"
      BY <1>0, <1>2 DEF SpawnSucceeds, managerVars, InGameplay
    <3>3. OrphanInv'
      BY <1>0, <3>1, <3>2 DEF OrphanInv, Owned, IsRemote
    <3>4. spawned = NULL
      BY <1>0, <3>2 DEF OrphanInv
    <3>5. NoLeakedOrphan'
      BY <1>0, <3>1, <3>2, <3>4, AddrAssumption DEF NoLeakedOrphan, TypeOK
    <3>6. QED
      BY <3>3, <3>5
  <2>3. QED
    BY <1>2, <2>1, <2>2 DEF SpawnSucceeds
<1>3. CASE RegisterRemote
  <2>1. /\ sim_pc = "register" /\ sim_pc' = "local" /\ spawned' = NULL
        /\ UNCHANGED <<level, wilbur, alloc, condemned>> /\ condemned = 0
        /\ spawned \in alloc /\ spawned # wilbur /\ by_engine[spawned] = 0
        /\ spawned \in Addr /\ made + 1 <= MaxWrapper
    BY <1>0, <1>3, BoundAssumption
       DEF RegisterRemote, engineVars, OrphanInv, RoomInv, TypeOK
  <2>2. Register(PlayerId(RemoteWireId), "Remote", spawned)
    BY <1>3, <2>1 DEF RegisterRemote, ByEngineEntity
  <2>3. /\ made + 1 \in Wrappers \ players
        /\ players' = players \cup {made + 1}
        /\ \A w \in players : wr'[w] = wr[w]
        /\ wr'[made + 1] = Wrapper(PlayerId(RemoteWireId), "Remote", spawned)
    BY <1>0, <2>1, <2>2, RegisterEffect
  <2>4. wr'[made + 1].entity = spawned /\ wr'[made + 1].role = "Remote"
    BY <2>3 DEF Wrapper
  <2>5. \A w \in players' : Owned(w)'
    BY <1>0, <2>1, <2>3, <2>4 DEF OrphanInv, Owned, IsRemote
  <2>6. \A a \in Addr : by_engine'[a] = IF a = spawned THEN made + 1 ELSE by_engine[a]
    BY <1>0, <2>1, <2>2 DEF Register, TypeOK
  <2>7. \A a \in Addr : by_engine'[a] # 0 =>
          by_engine'[a] \in players' /\ wr'[by_engine'[a]].entity = a
    BY <1>0, <2>3, <2>4, <2>6 DEF OrphanInv
  <2>8. OrphanInv'
    BY <1>0, <2>1, <2>3, <2>5, <2>7 DEF OrphanInv, TypeOK
  <2>9. NoLeakedOrphan'
    BY <1>0, <2>1, <2>3, <2>4 DEF NoLeakedOrphan
  <2>10. QED
    BY <2>8, <2>9
<1>4. CASE RegisterLocal
  <2>1. /\ sim_pc = "local" /\ sim_pc' = resume /\ UNCHANGED spawned
        /\ UNCHANGED <<level, wilbur, alloc, condemned>> /\ condemned = 0
        /\ resume \in {"idle", "pulse"} /\ made + 1 <= MaxWrapper
    BY <1>0, <1>4 DEF RegisterLocal, engineVars, RoomInv, TypeOK
  <2>2. CASE UNCHANGED <<made, wr, players, by_engine, next_player_id>>
    BY <1>0, <2>1, <2>2 DEF OrphanInv, NoLeakedOrphan, Owned, IsRemote
  <2>3. CASE /\ wilbur # NULL /\ by_engine[wilbur] = 0
             /\ Register(PlayerId(LocalWireId), "Local", wilbur)
    <3>1. /\ made + 1 \in Wrappers \ players
          /\ players' = players \cup {made + 1}
          /\ \A w \in players : wr'[w] = wr[w]
          /\ wr'[made + 1] = Wrapper(PlayerId(LocalWireId), "Local", wilbur)
      BY <1>0, <2>1, <2>3, RegisterEffect
    <3>2. wr'[made + 1].entity = wilbur /\ wr'[made + 1].role # "Remote"
      BY <3>1 DEF Wrapper
    <3>3. \A w \in players' : Owned(w)'
      BY <1>0, <2>1, <2>3, <3>1, <3>2 DEF OrphanInv, Owned, IsRemote
    <3>4. \A a \in Addr : by_engine'[a] = IF a = wilbur THEN made + 1 ELSE by_engine[a]
      BY <1>0, <2>3 DEF Register, TypeOK
    <3>5. \A a \in Addr : by_engine'[a] # 0 =>
            by_engine'[a] \in players' /\ wr'[by_engine'[a]].entity = a
      BY <1>0, <3>1, <3>2, <3>4 DEF OrphanInv
    <3>6. OrphanInv'
      BY <1>0, <2>1, <3>1, <3>3, <3>5 DEF OrphanInv, TypeOK
    <3>7. NoLeakedOrphan'
      BY <1>0, <2>1, <3>1 DEF NoLeakedOrphan
    <3>8. QED
      BY <3>6, <3>7
  <2>4. QED
    BY <1>4, <2>2, <2>3 DEF RegisterLocal, ByEngineEntity
<1>5. CASE Pulse
  <2>1. UNCHANGED <<players, wr, by_engine, condemned, spawned, alloc, wilbur, level>>
    <3>1. \A w \in players : wr[w].entity \in alloc
      BY <1>0 DEF OrphanInv, Owned
    <3>2. \A w \in Wrappers : wr'[w] = wr[w]
      BY <1>5, <3>1 DEF Pulse
    <3>3. wr' = wr
      BY <1>0, <1>5, <3>2 DEF Pulse, TypeOK
    <3>4. QED
      BY <1>5, <3>3 DEF Pulse, engineVars
  <2>2. sim_pc = "pulse" /\ sim_pc' = "emit"
    BY <1>5 DEF Pulse
  <2>3. QED
    BY <1>0, <2>1, <2>2 DEF OrphanInv, NoLeakedOrphan, Owned, IsRemote
<1>6. CASE \E w \in players : Unregister(w)
  <2>1. PICK w \in players : Unregister(w)
    BY <1>6
  <2>2. /\ UNCHANGED <<level, wilbur, alloc, wr, spawned>>
        /\ sim_pc = "idle" /\ sim_pc' = "destroy"
        /\ condemned = 0 /\ condemned' = w /\ players' = players \ {w} /\ w # 0
    BY <1>0, <2>1 DEF Unregister, engineVars, TypeOK
  <2>3. \A v \in players : Owned(v) /\ Owned(v)'
    BY <1>0, <2>2 DEF OrphanInv, Owned, IsRemote
  <2>4. \A v \in players : wr[v].entity \in Addr /\ by_engine[wr[v].entity] = v
    BY <1>0, <2>3, AddrAssumption DEF MapComplete, Owned, TypeOK
  <2>5. \A a \in Addr : by_engine'[a] # 0 =>
          by_engine'[a] \in players' /\ wr'[by_engine'[a]].entity = a
    BY <1>0, <2>1, <2>2, <2>4 DEF Unregister, OrphanInv
  <2>6. OrphanInv'
    BY <1>0, <2>2, <2>3, <2>4, <2>5 DEF OrphanInv
  <2>7. NoLeakedOrphan'
    BY <1>0, <2>2 DEF NoLeakedOrphan
  <2>8. QED
    BY <2>6, <2>7
<1>7. CASE DestroyEntity
  <2>1. /\ UNCHANGED <<level, wilbur, players, by_engine, spawned>>
        /\ sim_pc = "destroy" /\ sim_pc' = "idle" /\ condemned' = 0
        /\ alloc' = IF IsRemote(condemned) THEN alloc \ {wr[condemned].entity}
                                           ELSE alloc
        /\ \A w \in players : wr'[w] = wr[w]
    BY <1>0, <1>7 DEF DestroyEntity, OwnsEngine, OrphanInv, TypeOK
  <2>2. \A w \in players : Owned(w) /\ w # 0
    BY <1>0 DEF OrphanInv, TypeOK
  <2>3. /\ condemned # 0 /\ Owned(condemned)
        /\ \A w \in players : wr[w].entity # wr[condemned].entity
    BY <1>0, <2>1 DEF OrphanInv
  <2>4. /\ \A w \in players : wr[w].entity \in alloc'
        /\ wilbur # NULL => wilbur \in alloc'
    BY <1>0, <2>1, <2>2, <2>3 DEF OrphanInv, Owned
  <2>5. \A w \in players' : Owned(w)'
    BY <2>1, <2>2, <2>4 DEF Owned, IsRemote
  <2>6. OrphanInv'
    BY <1>0, <2>1, <2>2, <2>4, <2>5 DEF OrphanInv
  <2>7. NoLeakedOrphan'
    BY <1>0, <2>1, <2>3 DEF Owned, NoLeakedOrphan
  <2>8. QED
    BY <2>6, <2>7
<1>8. CASE OnRemotePacket
  <2>1. UNCHANGED <<players, by_engine, condemned, spawned, alloc, wilbur, level, sim_pc>>
    BY <1>8 DEF OnRemotePacket, engineVars, simVars
  <2>2. \A r \in WrapperType : Pushed(r).entity = r.entity /\ Pushed(r).role = r.role
    BY DEF Pushed, WrapperType
  <2>3. \A w \in Wrappers : wr'[w].entity = wr[w].entity /\ wr'[w].role = wr[w].role
    BY <1>0, <1>8, <2>2, PacketEffect DEF TypeOK
  <2>4. OrphanInv'
    BY <1>0, <2>1, <2>3 DEF OrphanInv, Owned, IsRemote
  <2>5. NoLeakedOrphan'
    BY <1>0, <2>1, <2>3 DEF OrphanInv, NoLeakedOrphan
  <2>6. QED
    BY <2>4, <2>5
<1>9. CASE /\ UNCHANGED <<wilbur, alloc, players, wr, by_engine, condemned, spawned>>
           /\ sim_pc' = "register" <=> sim_pc = "register"
           /\ sim_pc' = "destroy" <=> sim_pc = "destroy"
           /\ level' = "none" <=> level = "none"
  BY <1>0, <1>9 DEF OrphanInv, NoLeakedOrphan, Owned, IsRemote
<1>10. QED
  <2>1. CASE ToggleGameplay \/ PulseBegin \/ SpawnCheck \/ Emit \/ RunProbe
             \/ SpawnFails \/ (\E k \in Deliverable : Receive(k)) \/ PeerEmit
             \/ UNCHANGED vars
    BY <1>0, <1>9, <2>1
       DEF ToggleGameplay, PulseBegin, SpawnCheck, Emit, RunProbe, SpawnFails,
           Receive, PeerEmit, vars, engineVars, managerVars, simVars, recvVars,
           TypeOK
  <2>2. QED
    BY <1>1, <1>2, <1>3, <1>4, <1>5, <1>6, <1>7, <1>8, <2>1
       DEF Next, Engine, DoPulse, TrySpawn, Recv, UnloadLevel

\* While the engine keeps its level, no entity the factory built is ever
\* without an owner that will destroy it.
THEOREM OrphansKeepOwners ==
    ASSUME LevelChanges = FALSE
    PROVE  Spec => []NoLeakedOrphan
<1>1. Init => LeakInv
  BY TypeInit DEF Init, LeakInv, MapComplete, OrphanInv, NoLeakedOrphan
<1>2. LeakInv /\ [Next]_vars => LeakInv'
  BY TypeStep, MapCompleteStep, LeakStep DEF LeakInv
<1>3. LeakInv => NoLeakedOrphan
  BY DEF LeakInv
<1>4. QED
  BY <1>1, <1>2, <1>3, PTL DEF Spec

\* A live entity of the factory never drives the local pad: the sidecar map
\* has its Remote wrapper, and no such entry is left for engine_wilbur.
THEOREM RumbleStaysLocal ==
    ASSUME LevelChanges = FALSE
    PROVE  Spec => []RumbleIsLocal
<1>1. Init => LeakInv
  BY TypeInit DEF Init, LeakInv, MapComplete, OrphanInv, NoLeakedOrphan
<1>2. LeakInv /\ [Next]_vars => LeakInv'
  BY TypeStep, MapCompleteStep, LeakStep DEF LeakInv
<1>3. LeakInv => RumbleIsLocal
  <2> SUFFICES ASSUME LeakInv, sim_pc = "idle", NEW e \in alloc
               PROVE  RumblePasses(e) <=> e = wilbur
    BY DEF RumbleIsLocal
  <2>1. /\ TypeOK /\ MapComplete /\ OrphanInv /\ NoLeakedOrphan
        /\ spawned = NULL /\ condemned = 0 /\ e \in Addr /\ e # NULL
    BY AddrAssumption DEF LeakInv, TypeInv, TypeOK, OrphanInv
  <2>2. CASE e = wilbur
    <3>1. \A w \in players : w = by_engine[e] => ~IsRemote(w)
      BY <2>1, <2>2 DEF OrphanInv, Owned, TypeOK
    <3>2. QED
      BY <2>2, <3>1 DEF RumblePasses, ByEngineEntity
  <2>3. CASE e # wilbur
    <3>1. PICK w \in players : wr[w].entity = e
      BY <2>1, <2>3 DEF NoLeakedOrphan
    <3>2. by_engine[e] = w /\ IsRemote(w)
      BY <2>1, <2>3, <3>1 DEF MapComplete, OrphanInv, Owned
    <3>3. QED
      BY <2>3, <3>2 DEF RumblePasses, ByEngineEntity
  <2>4. QED
    BY <2>2, <2>3
<1>4. QED
  BY <1>1, <1>2, <1>3, PTL DEF Spec

-----------------------------------------------------------------------------
(* With only do_pulse spawning, the initial state is one of PoseFeed, and  *)
(* each step is a step of PoseFeed or leaves the feed alone.               *)

Remotes == {v \in players : IsRemote(v)}

Shown(w) == [newest |-> wr[w].last_seq, from |-> wr[w].prev, to |-> wr[w].curr]

LEMMA FeedByWrapper == ShownFeed = [w \in Remotes |-> Shown(w)]
BY DEF ShownFeed, Remotes, Shown

FeedInv == PoseInv /\ OneRemoteInv

\* What makes a step invisible in the feed.
LEMMA SameFeed ==
    ASSUME Remotes' = Remotes, \A w \in Remotes : Shown(w)' = Shown(w)
    PROVE  ShownFeed' = ShownFeed
BY DEF ShownFeed, Remotes, Shown

LEMMA FeedStart == Init => Feed!FeedInit
<1> SUFFICES ASSUME Init PROVE Feed!FeedInit
  OBVIOUS
<1>1. peer_seq = 0 /\ Remotes = {}
  BY DEF Init, Remotes
<1>2. ShownFeed = [a \in {} |-> Feed!NoPose]
  BY <1>1 DEF ShownFeed, Remotes
<1>3. QED
  BY <1>1, <1>2 DEF Feed!FeedInit

\* A new Remote wrapper shows nothing, and there is no other.
LEMMA RegisterAppears ==
    ASSUME FeedInv, RegisterRemote
    PROVE  Feed!FeedNext \/ ShownFeed' = ShownFeed
<1>0. TypeOK /\ RoomInv /\ SpawnInv
  BY DEF FeedInv, OneRemoteInv, TypeInv
<1>1. CASE UNCHANGED <<made, wr, players, by_engine, next_player_id>>
  BY <1>1, SameFeed DEF Remotes, Shown, IsRemote
<1>2. CASE Register(PlayerId(RemoteWireId), "Remote", spawned)
  <2>1. made + 1 <= MaxWrapper /\ sim_pc = "register" /\ peer_seq' = peer_seq
    BY <1>0, BoundAssumption DEF RegisterRemote, RoomInv, TypeOK
  <2>2. /\ made + 1 \in Wrappers \ players
        /\ players' = players \cup {made + 1}
        /\ \A w \in players : wr'[w] = wr[w]
        /\ wr'[made + 1] = Wrapper(PlayerId(RemoteWireId), "Remote", spawned)
    BY <1>0, <1>2, <2>1, RegisterEffect
  <2>3. Remotes = {}
    BY <1>0, <2>1 DEF SpawnInv, HasRemote, Remotes
  <2>4. /\ Remotes' = {made + 1}
        /\ [newest |-> wr'[made + 1].last_seq, from |-> wr'[made + 1].prev,
            to |-> wr'[made + 1].curr] = Feed!NoPose
    <3>0. /\ wr'[made + 1].role = "Remote" /\ wr'[made + 1].last_seq = 0
          /\ wr'[made + 1].prev = 0 /\ wr'[made + 1].curr = 0
      BY <2>2 DEF Wrapper
    <3>1. [newest |-> wr'[made + 1].last_seq, from |-> wr'[made + 1].prev,
           to |-> wr'[made + 1].curr] = Feed!NoPose
      BY <3>0 DEF Feed!NoPose
    <3>2. \A w \in players : wr'[w].role # "Remote"
      BY <2>2, <2>3 DEF Remotes, IsRemote
    <3>3. QED
      BY <2>2, <3>0, <3>1, <3>2 DEF Remotes, IsRemote
  <2>5. DOMAIN ShownFeed = {}
    BY <2>3, FeedByWrapper
  <2>6. ShownFeed' = [b \in {made + 1} |-> Feed!NoPose]
    BY <2>4 DEF ShownFeed, Remotes
  <2>7. Feed!Appear(made + 1)
    BY <2>1, <2>5, <2>6 DEF Feed!Appear
  <2>8. QED
    BY <2>2, <2>7 DEF Feed!FeedNext
<1>3. QED
  BY <1>1, <1>2 DEF RegisterRemote

\* The local player's wrapper is no part of the feed.
LEMMA LocalIsUnseen ==
    ASSUME FeedInv, RegisterLocal
    PROVE  ShownFeed' = ShownFeed
<1>0. TypeOK /\ RoomInv
  BY DEF FeedInv, OneRemoteInv, TypeInv
<1>1. CASE UNCHANGED <<made, wr, players, by_engine, next_player_id>>
  BY <1>1, SameFeed DEF Remotes, Shown, IsRemote
<1>2. CASE Register(PlayerId(LocalWireId), "Local", wilbur)
  <2>1. made + 1 <= MaxWrapper
    BY <1>0 DEF RegisterLocal, RoomInv
  <2>2. /\ players' = players \cup {made + 1}
        /\ \A w \in players : wr'[w] = wr[w]
        /\ wr'[made + 1] = Wrapper(PlayerId(LocalWireId), "Local", wilbur)
    BY <1>0, <1>2, <2>1, RegisterEffect
  <2>3. wr'[made + 1].role # "Remote"
    BY <2>2 DEF Wrapper
  <2>4. Remotes' = Remotes /\ \A w \in Remotes : Shown(w)' = Shown(w)
    BY <2>2, <2>3 DEF Remotes, Shown, IsRemote
  <2>5. QED
    BY <2>4, SameFeed
<1>3. QED
  BY <1>1, <1>2 DEF RegisterLocal

\* unregister takes an avatar away, or a wrapper that was none.
LEMMA UnregisterDisappears ==
    ASSUME FeedInv, NEW w \in players, Unregister(w)
    PROVE  Feed!FeedNext \/ ShownFeed' = ShownFeed
<1>0. w \in Wrappers
  BY PlayersAreWrappers DEF FeedInv, OneRemoteInv, TypeInv
<1>1. players' = players \ {w} /\ wr' = wr /\ peer_seq' = peer_seq
  BY DEF Unregister
<1>2. Remotes' = Remotes \ {w} /\ \A v \in Remotes : Shown(v)' = Shown(v)
  BY <1>1 DEF Remotes, Shown, IsRemote
<1>3. CASE w \in Remotes
  <2>1. DOMAIN ShownFeed = Remotes /\ \A v \in Remotes : ShownFeed[v] = Shown(v)
    BY FeedByWrapper
  <2>2. ShownFeed' = [b \in Remotes \ {w} |-> Shown(b)]
    BY <1>1, <1>2 DEF ShownFeed, Remotes, Shown
  <2>3. ShownFeed' = [b \in DOMAIN ShownFeed \ {w} |-> ShownFeed[b]]
    BY <2>1, <2>2
  <2>4. Feed!Disappear(w)
    BY <1>1, <1>3, <2>1, <2>3 DEF Feed!Disappear
  <2>5. QED
    BY <1>0, <2>4 DEF Feed!FeedNext
<1>4. CASE w \notin Remotes
  BY <1>2, <1>4, SameFeed
<1>5. QED
  BY <1>3, <1>4

\* One avatar's record changes and nothing else does.
LEMMA OneChanges ==
    ASSUME NEW w \in Remotes, NEW r, Remotes' = Remotes,
           [newest |-> wr'[w].last_seq, from |-> wr'[w].prev,
            to |-> wr'[w].curr] = r,
           \A v \in Remotes \ {w} : wr'[v] = wr[v]
    PROVE  ShownFeed' = [ShownFeed EXCEPT ![w] = r]
BY DEF ShownFeed, Remotes, IsRemote

LEMMA RemotesAreOne ==
    ASSUME FeedInv, NEW v \in Remotes, NEW w \in Remotes
    PROVE  v = w
BY DEF FeedInv, OneRemoteInv, OneRemote, Remotes

\* do_pulse leaves the snapshots alone or, after a fault, empties them.
LEMMA PulseBlanks ==
    ASSUME FeedInv, Pulse
    PROVE  Feed!FeedNext \/ ShownFeed' = ShownFeed
<1>0. /\ TypeOK /\ players' = players /\ peer_seq' = peer_seq
      /\ \A w \in players : w \in Wrappers /\ wr[w] \in WrapperType
  BY PlayersAreWrappers DEF FeedInv, OneRemoteInv, TypeInv, TypeOK, Pulse
<1>1. \A w \in players : wr'[w] = wr[w] \/ wr'[w] = Faulted(wr[w])
  BY <1>0, PulseEffect
<1>2. \A r \in WrapperType :
        /\ Faulted(r).role = r.role /\ Faulted(r).last_seq = r.last_seq
        /\ Faulted(r).prev = 0 /\ Faulted(r).curr = 0
  BY DEF Faulted, WrapperType
<1>3. Remotes' = Remotes
  BY <1>0, <1>1, <1>2 DEF Remotes, IsRemote
<1>4. CASE \A w \in Remotes : wr'[w] = wr[w]
  <2>1. \A w \in Remotes : Shown(w)' = Shown(w)
    BY <1>4 DEF Shown
  <2>2. QED
    BY <1>3, <2>1, SameFeed
<1>5. CASE \E w \in Remotes : wr'[w] = Faulted(wr[w])
  <2>1. PICK w \in Remotes : wr'[w] = Faulted(wr[w])
    BY <1>5
  <2>2. DOMAIN ShownFeed = Remotes /\ ShownFeed[w].newest = wr[w].last_seq
    BY <2>1, FeedByWrapper DEF Shown
  <2>3. w \in Wrappers /\ wr[w] \in WrapperType
    BY <1>0 DEF Remotes
  <2>4. wr'[w].last_seq = wr[w].last_seq /\ wr'[w].prev = 0 /\ wr'[w].curr = 0
    BY <1>2, <2>1, <2>3
  <2>5. [newest |-> wr'[w].last_seq, from |-> wr'[w].prev, to |-> wr'[w].curr]
          = [Feed!NoPose EXCEPT !.newest = ShownFeed[w].newest]
    BY <2>2, <2>4 DEF Feed!NoPose
  <2>6. \A v \in Remotes \ {w} : wr'[v] = wr[v]
    BY RemotesAreOne
  <2>7. ShownFeed' = [ShownFeed EXCEPT ![w] =
                        [Feed!NoPose EXCEPT !.newest = ShownFeed[w].newest]]
    BY <1>3, <2>5, <2>6, OneChanges
  <2>8. Feed!Blank(w)
    BY <1>0, <2>2, <2>7 DEF Feed!Blank
  <2>9. QED
    BY <2>3, <2>8 DEF Feed!FeedNext
<1>6. QED
  BY <1>1, <1>4, <1>5 DEF Remotes

\* on_remote_packet drops a pose or gives the avatar one that is no older.
LEMMA PacketShows ==
    ASSUME FeedInv, OnRemotePacket
    PROVE  Feed!FeedNext \/ ShownFeed' = ShownFeed
<1>0. /\ TypeOK /\ PoseInv /\ players' = players /\ peer_seq' = peer_seq
      /\ recv_pc = "stamped"
      /\ \A w \in players : w \in Wrappers /\ wr[w] \in WrapperType
  BY PlayersAreWrappers
     DEF FeedInv, OneRemoteInv, TypeInv, TypeOK, OnRemotePacket
<1>1. \A w \in players :
        \/ wr'[w] = wr[w]
        \/ /\ wr'[w] = Pushed(wr[w]) /\ w \in ByPlayerId(WireId(PeerMode))
           /\ IsFresh(WireCtx(recv_seq), wr[w].last_time_ctx)
  BY <1>0, PacketEffect
<1>2. \A r \in WrapperType :
        /\ Pushed(r).role = r.role /\ Pushed(r).last_seq = recv_seq
        /\ Pushed(r).prev = r.curr /\ Pushed(r).curr = recv_seq
  BY DEF Pushed, WrapperType
<1>3. Remotes' = Remotes
  BY <1>0, <1>1, <1>2 DEF Remotes, IsRemote
<1>4. CASE \A w \in Remotes : wr'[w] = wr[w]
  <2>1. \A w \in Remotes : Shown(w)' = Shown(w)
    BY <1>4 DEF Shown
  <2>2. QED
    BY <1>3, <2>1, SameFeed
<1>5. CASE \E w \in Remotes : wr'[w] # wr[w]
  <2>1. PICK w \in Remotes : wr'[w] # wr[w]
    BY <1>5
  <2>2. w \in players /\ w \in Wrappers /\ wr[w] \in WrapperType
    BY <1>0 DEF Remotes
  <2>3. wr'[w] = Pushed(wr[w]) /\ IsFresh(WireCtx(recv_seq), wr[w].last_time_ctx)
    BY <1>1, <2>1, <2>2
  <2>4. wr[w].last_seq <= recv_seq /\ recv_seq \in 1 .. peer_seq
    BY <1>0, <2>2, <2>3, TakenIsNewer DEF PoseInv, RecvInv
  <2>5. /\ DOMAIN ShownFeed = Remotes
        /\ ShownFeed[w].newest = wr[w].last_seq /\ ShownFeed[w].to = wr[w].curr
    BY <2>1, FeedByWrapper DEF Shown
  <2>6. /\ wr'[w].last_seq = recv_seq /\ wr'[w].prev = wr[w].curr
        /\ wr'[w].curr = recv_seq
    BY <1>2, <2>2, <2>3
  <2>7. [newest |-> wr'[w].last_seq, from |-> wr'[w].prev, to |-> wr'[w].curr]
          = [newest |-> recv_seq, from |-> ShownFeed[w].to, to |-> recv_seq]
    BY <2>5, <2>6
  <2>8. \A v \in Remotes \ {w} : wr'[v] = wr[v]
    BY RemotesAreOne
  <2>9. ShownFeed' =
          [ShownFeed EXCEPT ![w] =
             [newest |-> recv_seq, from |-> ShownFeed[w].to, to |-> recv_seq]]
    BY <1>3, <2>7, <2>8, OneChanges
  <2>10. recv_seq >= ShownFeed[w].newest
    <3>1. wr[w].last_seq \in Int /\ recv_seq \in Int
      BY <1>0, <2>2, <2>4, BoundAssumption DEF WrapperType, Pose
    <3>2. QED
      BY <2>4, <2>5, <3>1
  <2>11. Feed!Show(w, recv_seq)
    BY <1>0, <2>4, <2>5, <2>9, <2>10 DEF Feed!Show
  <2>12. QED
    BY <2>2, <2>4, <2>11 DEF Feed!FeedNext
<1>6. QED
  BY <1>4, <1>5

LEMMA FeedStep ==
    ASSUME FeedInv, [Next]_vars
    PROVE  Feed!FeedNext \/ UNCHANGED <<peer_seq, ShownFeed>>
<1>1. CASE RegisterRemote
  BY <1>1, RegisterAppears DEF RegisterRemote
<1>2. CASE RegisterLocal
  BY <1>2, LocalIsUnseen DEF RegisterLocal
<1>3. CASE Pulse
  BY <1>3, PulseBlanks DEF Pulse
<1>4. CASE \E w \in players : Unregister(w)
  BY <1>4, UnregisterDisappears DEF Unregister
<1>5. CASE DestroyEntity
  <2>1. \A w \in players : wr'[w] = wr[w]
    BY <1>5, PlayersAreWrappers
       DEF DestroyEntity, FeedInv, PoseInv, TypeInv, TypeOK
  <2>2. players' = players /\ peer_seq' = peer_seq
    BY <1>5 DEF DestroyEntity
  <2>3. Remotes' = Remotes /\ \A w \in Remotes : Shown(w)' = Shown(w)
    BY <2>1, <2>2 DEF Remotes, Shown, IsRemote
  <2>4. QED
    BY <2>2, <2>3, SameFeed
<1>6. CASE OnRemotePacket
  BY <1>6, PacketShows DEF OnRemotePacket
<1>7. CASE PeerEmit
  <2>1. peer_seq' = peer_seq + 1 /\ UNCHANGED <<players, wr>>
    BY <1>7 DEF PeerEmit, managerVars
  <2>2. ShownFeed' = ShownFeed
    BY <2>1, SameFeed DEF Remotes, Shown, IsRemote
  <2>3. QED
    BY <2>1, <2>2 DEF Feed!Send, Feed!FeedNext
<1>8. CASE UNCHANGED <<players, wr, peer_seq>>
  BY <1>8, SameFeed DEF Remotes, Shown, IsRemote
<1>9. QED
  BY <1>1, <1>2, <1>3, <1>4, <1>5, <1>6, <1>7, <1>8
     DEF Next, Engine, DoPulse, TrySpawn, Recv, vars, managerVars, simVars,
         LoadLevel, ToggleGameplay, UnloadLevel, PulseBegin, SpawnCheck, Emit,
         RunProbe, SpawnFails, SpawnSucceeds, Receive

\* The session keeps PoseFeed's promise to whoever looks at the peer's avatar:
\* never two of them, never back to an older pose, across every interleaving
\* of the two threads and any loss, repetition or delay of datagrams.
THEOREM SessionImplementsFeed ==
    ASSUME ManualProbe = FALSE
    PROVE  Spec => ShowsFeed
<1>1. Init => FeedInv
  BY TypeInit DEF Init, FeedInv, PoseInv, RecvInv, OneRemoteInv, OneRemote, SpawnInv
<1>2. FeedInv /\ [Next]_vars => FeedInv'
  BY TypeStep, PoseStep, OneRemoteStep DEF FeedInv, PoseInv, OneRemoteInv
<1>3. FeedInv /\ [Next]_vars => [Feed!FeedNext]_<<peer_seq, ShownFeed>>
  BY FeedStep
<1>4. QED
  BY <1>1, <1>2, <1>3, FeedStart, PTL DEF Spec, ShowsFeed, Feed!FeedSpec
=============================================================================
