------------------------ MODULE TeleportHold_proofs ------------------------
(***************************************************************************)
(* Theorems about the two interpolation clients and the teleport's hold    *)
(* over them, for any number of entities, slots and ticks.                 *)
(*                                                                         *)
(* What a client does is proved for the steps of both specifications, with *)
(* and without the hold, and the hold's promises from it.                  *)
(***************************************************************************)
EXTENDS TeleportHold, WellFoundedInduction, TLAPS

-----------------------------------------------------------------------------
(* The player client's snapshots. *)

\* The steps of either specification, as the player client sees them.
ClientStep ==
    \/ Restore \/ Gate \/ (\E still : Tick(still))
    \/ CaptureBoth /\ UNCHANGED <<list, player>>
    \/ Render \/ Menu
    \/ UNCHANGED <<session, pc, tick, throttling, list, player, playerVars, npcVars>>

LEMMA NextIsClientStep == [Next]_vars => ClientStep
BY DEF Next, Sim, Capture, ClientStep, vars, engineVars

LEMMA HoldIsClientStep == [HoldNext]_allVars => ClientStep
<1> SUFFICES ASSUME [HoldNext]_allVars PROVE ClientStep
  OBVIOUS
<1> USE DEF ClientStep
<1>1. CASE HoldSim
  BY <1>1 DEF HoldSim
<1>2. CASE HoldCapture
  BY <1>2 DEF HoldCapture
<1>3. CASE CameraTick
  BY <1>3 DEF CameraTick
<1>4. CASE HoldRestore \/ HoldGate \/ HoldRender \/ HoldMenu \/ UNCHANGED allVars
  BY <1>4 DEF HoldRestore, HoldGate, HoldRender, HoldMenu, allVars, vars, engineVars
<1>5. QED
  BY <1>1, <1>2, <1>3, <1>4 DEF HoldNext

OneByOne == session.changes = "gap" => OnePlayer

\* Who plays, and whose entity the handle is.
PlayerInv ==
    /\ session \in Session /\ NULL \notin session.players
    /\ player \in session.players \cup {NULL} /\ handle \in session.players \cup {NULL}
    /\ session.changes # "gap" /\ handle # NULL => player # NULL
    /\ session.changes = "same" /\ handle # NULL => handle = player

\* Whose pose a snapshot is, as long as it is one.
ComesFrom(pose, e) ==
    pose # NoPose => /\ e \in session.players
                     /\ handle # NULL => e = handle
                     /\ session.changes # "gap" => handle # NULL
WhoInv == OneByOne => ComesFrom(p_prev, p_who[1]) /\ ComesFrom(p_curr, p_who[2])

LEMMA WhoInit == Init => PlayerInv /\ WhoInv
BY SessionAssumption, EntityAssumption DEF Init, PlayerInv, WhoInv, ComesFrom, Session

\* The refresh of the handle, and the four ways a capture ends.
LEMMA CapturePlayerStep ==
    ASSUME PlayerInv, WhoInv, NEW jumped, CapturePlayer(jumped), UNCHANGED <<session, list, player>>
    PROVE  PlayerInv' /\ WhoInv'
<1>1. CASE ~p_on
  BY <1>1 DEF CapturePlayer, PlayerInv, WhoInv, ComesFrom, OneByOne, OnePlayer
<1>2. CASE p_on
  <2>0. PICK force \in BOOLEAN :
          LET look == LooksUp(force)
              h == IF look THEN player ELSE handle
              swap == look /\ Swaps(h)
              old == IF swap THEN NoPose ELSE p_curr
              older == IF swap THEN NoPose ELSE p_prev
          IN  \/ /\ h = NULL /\ handle' = h /\ p_prev' = older /\ p_curr' = old /\ UNCHANGED p_who
              \/ /\ h # NULL /\ handle' = NULL /\ p_prev' = NoPose /\ p_curr' = NoPose /\ UNCHANGED p_who
              \/ /\ h # NULL /\ handle' = h
                 /\ p_prev' = IF old # NoPose THEN old ELSE older
                 /\ p_who' = <<IF old # NoPose THEN p_who[2] ELSE p_who[1], h>>
    BY <1>2 DEF CapturePlayer
  <2> DEFINE look == LooksUp(force)
             h == IF look THEN player ELSE handle
             swap == look /\ Swaps(h)
             old == IF swap THEN NoPose ELSE p_curr
             older == IF swap THEN NoPose ELSE p_prev
  <2>1. /\ look = (handle = NULL \/ age >= Refresh \/ force)
        /\ h = IF look THEN player ELSE handle
        /\ swap = (look /\ h # NULL /\ h # handle /\ handle # NULL)
        /\ old = IF swap THEN NoPose ELSE p_curr
        /\ older = IF swap THEN NoPose ELSE p_prev
        /\ \/ /\ h = NULL /\ handle' = h /\ p_prev' = older /\ p_curr' = old /\ UNCHANGED p_who
           \/ /\ h # NULL /\ handle' = NULL /\ p_prev' = NoPose /\ p_curr' = NoPose /\ UNCHANGED p_who
           \/ /\ h # NULL /\ handle' = h
              /\ p_prev' = IF old # NoPose THEN old ELSE older
              /\ p_who' = <<IF old # NoPose THEN p_who[2] ELSE p_who[1], h>>
    BY <2>0 DEF LooksUp, Swaps
  <2> HIDE DEF look, h, swap, old, older
  <2>2. h \in session.players \cup {NULL} /\ (h # NULL => (look /\ h = player) \/ h = handle)
    BY <2>1 DEF PlayerInv
  <2>3. PlayerInv'
    BY <2>1, <2>2 DEF PlayerInv
  <2>4. OneByOne' = OneByOne
    BY DEF OneByOne, OnePlayer
  <2>5. ASSUME OneByOne, ~swap, h # NULL, NEW pose, NEW e, ComesFrom(pose, e), pose # NoPose
        PROVE  e = h
    <3>1. CASE handle # NULL
      BY <2>1, <2>5, <3>1 DEF ComesFrom
    <3>2. CASE handle = NULL
      BY <2>2, <2>5, <3>2 DEF ComesFrom, OneByOne, OnePlayer
    <3>3. QED
      BY <3>1, <3>2
  <2>6. ASSUME OneByOne, h = NULL, NEW pose, NEW e, ComesFrom(pose, e), pose # NoPose
        PROVE  e \in session.players /\ session.changes = "gap"
    BY <2>1, <2>6 DEF ComesFrom, PlayerInv
  <2>7. WhoInv'
    <3> SUFFICES ASSUME OneByOne PROVE ComesFrom(p_prev, p_who[1])' /\ ComesFrom(p_curr, p_who[2])'
      BY <2>4 DEF WhoInv
    <3>1. ComesFrom(p_prev, p_who[1]) /\ ComesFrom(p_curr, p_who[2])
      BY DEF WhoInv
    <3>2. CASE h = NULL /\ handle' = h /\ p_prev' = older /\ p_curr' = old /\ UNCHANGED p_who
      BY <2>1, <2>6, <3>1, <3>2 DEF ComesFrom
    <3>3. CASE p_prev' = NoPose /\ p_curr' = NoPose
      BY <3>3 DEF ComesFrom
    <3>4. CASE /\ h # NULL /\ handle' = h
               /\ p_prev' = IF old # NoPose THEN old ELSE older
               /\ p_who' = <<IF old # NoPose THEN p_who[2] ELSE p_who[1], h>>
      <4>1. h \in session.players /\ p_who'[2] = h
        BY <2>2, <3>4
      <4>2. CASE swap
        BY <2>1, <3>4, <4>1, <4>2 DEF ComesFrom
      <4>3. CASE ~swap
        <5>1. CASE p_curr # NoPose
          <6>1. p_prev' = p_curr /\ p_who'[1] = p_who[2] /\ p_who[2] = h
            BY <2>1, <2>5, <3>1, <3>4, <4>3, <5>1
          <6>2. QED
            BY <3>4, <4>1, <6>1 DEF ComesFrom
        <5>2. CASE p_curr = NoPose
          <6>1. p_prev' = p_prev /\ p_who'[1] = p_who[1] /\ (p_prev # NoPose => p_who[1] = h)
            BY <2>1, <2>5, <3>1, <3>4, <4>3, <5>2
          <6>2. QED
            BY <3>4, <4>1, <6>1 DEF ComesFrom
        <5>3. QED
          BY <5>1, <5>2
      <4>4. QED
        BY <4>2, <4>3
    <3>5. QED
      BY <2>1, <3>2, <3>3, <3>4
  <2>8. QED
    BY <2>3, <2>7
<1>3. QED
  BY <1>1, <1>2

LEMMA PopulationKeepsPlayer ==
    ASSUME PlayerInv, Population, UNCHANGED <<session, handle>>
    PROVE  PlayerInv'
BY DEF PlayerInv, Population

LEMMA WhoStep == PlayerInv /\ WhoInv /\ ClientStep => PlayerInv' /\ WhoInv'
<1> SUFFICES ASSUME PlayerInv, WhoInv, ClientStep PROVE PlayerInv' /\ WhoInv'
  OBVIOUS
<1>1. CASE \E still : Tick(still)
  <2>1. Population /\ UNCHANGED <<session, playerVars>>
    BY <1>1 DEF Tick
  <2>2. WhoInv'
    BY <2>1 DEF WhoInv, ComesFrom, OneByOne, OnePlayer, playerVars
  <2>3. QED
    BY <2>1, <2>2, PopulationKeepsPlayer DEF playerVars
<1>2. CASE CaptureBoth /\ UNCHANGED <<list, player>>
  BY <1>2, CapturePlayerStep DEF CaptureBoth
<1>3. ASSUME UNCHANGED <<session, player, handle, p_prev, p_curr, p_who>> PROVE PlayerInv' /\ WhoInv'
  BY <1>3 DEF PlayerInv, WhoInv, ComesFrom, OneByOne, OnePlayer
<1>4. CASE Restore \/ Gate \/ Render \/ Menu
          \/ UNCHANGED <<session, pc, tick, throttling, list, player, playerVars, npcVars>>
  BY <1>3, <1>4 DEF Restore, Gate, Render, Menu, NoToggle, TogglePlayer, ToggleNpcs,
                    engineVars, playerVars
<1>5. QED
  BY <1>1, <1>2, <1>4 DEF ClientStep

LEMMA WhoSpec == Spec \/ HoldSpec => [](PlayerInv /\ WhoInv)
<1>1. Init \/ HoldInit => PlayerInv /\ WhoInv
  BY WhoInit DEF HoldInit
<1>2. PlayerInv /\ WhoInv /\ ([Next]_vars \/ [HoldNext]_allVars) => (PlayerInv /\ WhoInv)'
  BY WhoStep, NextIsClientStep, HoldIsClientStep
<1>3. QED
  BY <1>1, <1>2, PTL DEF Spec, HoldSpec

(* Pointer swap detection, for sessions of any length and any number of      *)
(* player entities: no frame blends the poses of two of them, with or        *)
(* without teleports in between.                                             *)
THEOREM BlendsOne == Spec \/ HoldSpec => []PlayerBlendsOneEntity
<1>1. PlayerInv /\ WhoInv => PlayerBlendsOneEntity
  BY DEF PlayerInv, WhoInv, ComesFrom, OneByOne, PlayerBlendsOneEntity, PlayerWrites
<1>2. QED
  BY <1>1, WhoSpec, PTL

-----------------------------------------------------------------------------
(* The held model. *)

\* Wherever the model is not about to be written, it is where the hold wants
\* it; a frame lowers it once, and the camera's tick follows at once.
ViewInv ==
    /\ who # NULL => who = player
    /\ ticked => pc = "menu"
    /\ Holds /\ (pc \in {"restore", "gate", "sim", "render"} \/ ticked) => model[player] = At(target)
    /\ HeldInView

LEMMA ViewInit == HoldInit => ViewInv
BY DEF HoldInit, Init, ViewInv, Holds, HeldInView

ModelType == DOMAIN model = Entity

LEMMA ViewStep == PlayerInv /\ ModelType /\ ViewInv /\ [HoldNext]_allVars => (ModelType /\ ViewInv)'
<1> SUFFICES ASSUME PlayerInv, ModelType, ViewInv, [HoldNext]_allVars PROVE (ModelType /\ ViewInv)'
  OBVIOUS
<1>0. player # NULL => player \in Entity
  BY DEF PlayerInv, Session
<1> USE DEF ViewInv, Holds, HeldInView, ModelType
<1>1. CASE HoldRestore \/ HoldGate \/ UNCHANGED allVars
  BY <1>1 DEF HoldRestore, Restore, HoldGate, Gate, allVars, vars, holdVars, engineVars, playerVars
<1>2. CASE HoldSim
  BY <1>2 DEF HoldSim, Tick
<1>3. CASE HoldCapture
  BY <1>0, <1>3 DEF HoldCapture, CaptureBoth, OnPostSim, ModelPut
<1>4. CASE HoldRender
  <2>1. /\ pc = "render" /\ pc' = "menu" /\ UNCHANGED <<player, hold, who, target, ticked>>
        /\ model' = [e \in Entity |-> IF e # player THEN model[e]
                                      ELSE [model[e] EXCEPT !.drop = Lower(@)]]
    BY <1>4 DEF HoldRender, Render
  <2>2. ~ticked
    BY <2>1
  <2>3. ASSUME Holds PROVE model'[player].at = target /\ model'[player].drop <= 1
    <3>1. model[player] = [at |-> target, drop |-> 0] /\ player \in Entity
      BY <1>0, <2>1, <2>3 DEF At
    <3>2. model'[player] = [at |-> target, drop |-> Lower(0)]
      BY <2>1, <3>1
    <3>3. Lower(0) = 1
      BY DEF Lower, MaxDrop
    <3>4. QED
      BY <3>2, <3>3
  <2>4. QED
    BY <2>1, <2>2, <2>3
<1>5. CASE CameraTick
  BY <1>0, <1>5 DEF CameraTick, ModelHeld, ModelPut, TeleportTo
<1>6. CASE HoldMenu
  BY <1>6 DEF HoldMenu, Menu, HoldControls
<1>7. QED
  BY <1>1, <1>2, <1>3, <1>4, <1>5, <1>6 DEF HoldNext

(* Every frame of a hold shows the player where he was put, whatever the     *)
(* engine, the slider and the Release button do in between.                  *)
THEOREM InView == HoldSpec => []HeldInView
<1>1. HoldInit => PlayerInv /\ WhoInv /\ ModelType /\ ViewInv
  BY WhoInit, ViewInit DEF HoldInit, ModelType
<1>2. PlayerInv /\ WhoInv /\ ModelType /\ ViewInv /\ [HoldNext]_allVars
        => (PlayerInv /\ WhoInv /\ ModelType /\ ViewInv)'
  BY WhoStep, HoldIsClientStep, ViewStep
<1>3. QED
  BY <1>1, <1>2, PTL DEF HoldSpec, ViewInv

-----------------------------------------------------------------------------
(* The walk over the list: what holds of the table after each node holds of  *)
(* it in the end.  Induction over the nodes, in first-order form.            *)

LEMMA NatSet ==
    ASSUME NEW K \in SUBSET Nat, 0 \in K, \A n \in K : n + 1 \in K
    PROVE  K = Nat
<1> SUFFICES ASSUME Nat \ K # {} PROVE FALSE
  OBVIOUS
<1>1. \E x \in Nat \ K : \A y \in Nat \ K : ~ (<<y, x>> \in OpToRel(<, Nat))
  BY NatLessThanWellFounded, WFMin, Zenon
<1>2. PICK x \in Nat \ K : \A y \in Nat \ K : ~ (y < x)
  <2>1. \A x, y \in Nat : y < x => <<y, x>> \in OpToRel(<, Nat)
    BY DEF OpToRel
  <2>2. QED
    BY <1>1, <2>1
<1>3. x - 1 \in Nat /\ x - 1 < x /\ x - 1 + 1 = x
  BY <1>2
<1>4. x - 1 \in K
  BY <1>2, <1>3
<1>5. QED
  BY <1>2, <1>3, <1>4

\* w[k] is the table after the first k nodes.
IsWalk(w, h, jumped, n) ==
    w = [k \in 0 .. n |-> IF k = 0 THEN slots
                          ELSE IF list[k] = h THEN w[k - 1]
                          ELSE Captured(w[k - 1], list[k], n_tick + 1, jumped)]

LEMMA WalkExists ==
    ASSUME NEW h, NEW jumped, NEW n \in Nat
    PROVE  \E w : IsWalk(w, h, jumped, n)
<1> DEFINE Step(w, k) == IF k = 0 THEN slots ELSE IF list[k] = h THEN w[k - 1]
                          ELSE Captured(w[k - 1], list[k], n_tick + 1, jumped)
           K == {m \in Nat : \E w : w = [k \in 0 .. m |-> Step(w, k)]}
<1>1. 0 \in K
  <2> DEFINE w == [k \in 0 .. 0 |-> slots]
  <2>1. w = [k \in 0 .. 0 |-> Step(w, k)]
    OBVIOUS
  <2>2. QED
    BY <2>1
<1>2. ASSUME NEW m \in K PROVE m + 1 \in K
  <2>1. PICK w : w = [k \in 0 .. m |-> Step(w, k)]
    OBVIOUS
  <2> DEFINE v == [k \in 0 .. m + 1 |-> Step(w, k)]
  <2>2. \A k \in 0 .. m : v[k] = w[k]
    BY <2>1
  <2>3. \A k \in 0 .. m + 1 : k # 0 => k - 1 \in 0 .. m
    OBVIOUS
  <2>4. v = [k \in 0 .. m + 1 |-> Step(v, k)]
    BY <2>2, <2>3
  <2>5. m + 1 \in Nat /\ \E u : u = [k \in 0 .. m + 1 |-> Step(u, k)]
    <3> HIDE DEF v, Step
    <3>1. QED
      BY <2>4
  <2>6. QED
    BY <2>5
<1>3. K = Nat
  <2> HIDE DEF K
  <2>1. K \in SUBSET Nat
    BY DEF K
  <2>2. QED
    BY <1>1, <1>2, <2>1, NatSet
<1>4. QED
  BY <1>3 DEF IsWalk

LEMMA WalkIs ==
    ASSUME NEW h, NEW jumped, Len(list) \in Nat
    PROVE  \E w : IsWalk(w, h, jumped, Len(list)) /\ TableAfter(h, jumped) = w[Len(list)]
<1> DEFINE w == CHOOSE w : IsWalk(w, h, jumped, Len(list))
<1>1. TableAfter(h, jumped) = w[Len(list)]
  BY DEF TableAfter, IsWalk
<1> HIDE DEF w
<1>2. IsWalk(w, h, jumped, Len(list))
  BY WalkExists DEF w
<1>3. QED
  BY <1>1, <1>2

LEMMA WalkInduction ==
    ASSUME NEW h, NEW jumped, Len(list) \in Nat, NEW Q,
           slots \in Q[0],
           \A k \in 1 .. Len(list) : \A s \in Q[k - 1] :
               IF list[k] = h THEN s \in Q[k]
               ELSE Captured(s, list[k], n_tick + 1, jumped) \in Q[k]
    PROVE  TableAfter(h, jumped) \in Q[Len(list)]
<1>1. PICK w : IsWalk(w, h, jumped, Len(list)) /\ TableAfter(h, jumped) = w[Len(list)]
  BY WalkIs
<1> DEFINE K == {m \in Nat : m <= Len(list) => w[m] \in Q[m]}
<1>2. w[0] = slots
  BY <1>1 DEF IsWalk
<1>3. ASSUME NEW m \in Nat, m + 1 <= Len(list)
      PROVE  w[m + 1] = IF list[m + 1] = h THEN w[m]
                        ELSE Captured(w[m], list[m + 1], n_tick + 1, jumped)
  <2>1. m + 1 \in 0 .. Len(list) /\ m + 1 # 0 /\ (m + 1) - 1 = m
    BY <1>3
  <2>2. w[m + 1] = IF list[m + 1] = h THEN w[(m + 1) - 1]
                   ELSE Captured(w[(m + 1) - 1], list[m + 1], n_tick + 1, jumped)
    BY <1>1, <2>1 DEF IsWalk
  <2>3. QED
    BY <2>1, <2>2
<1>4. 0 \in K
  BY <1>2
<1>5. ASSUME NEW m \in K PROVE m + 1 \in K
  <2>1. m + 1 \in Nat
    OBVIOUS
  <2>2. ASSUME m + 1 <= Len(list) PROVE w[m + 1] \in Q[m + 1]
    <3>1. m \in Nat /\ m <= Len(list) /\ m + 1 \in 1 .. Len(list) /\ (m + 1) - 1 = m
      BY <2>2
    <3>2. w[m] \in Q[m]
      BY <3>1
    <3>3. IF list[m + 1] = h THEN w[m] \in Q[m + 1]
          ELSE Captured(w[m], list[m + 1], n_tick + 1, jumped) \in Q[m + 1]
      BY <3>1, <3>2
    <3>4. QED
      BY <1>3, <2>2, <3>1, <3>3
  <2>3. QED
    BY <2>1, <2>2
<1>6. K = Nat
  <2> HIDE DEF K
  <2>1. K \in SUBSET Nat
    BY DEF K
  <2>2. QED
    BY <1>4, <1>5, <2>1, NatSet
<1>7. Len(list) \in K /\ Len(list) <= Len(list)
  BY <1>6
<1>8. QED
  BY <1>1, <1>7

-----------------------------------------------------------------------------
(* One node of the walk. *)

Pose == Int \X Int
Slot == [inner : Entity \cup {NULL}, prev : Pose, curr : Pose, saved : Pose,
         save_valid : BOOLEAN, teleport : BOOLEAN, seen : Nat]

LEMMA EmptyIsSlot == EmptySlot \in Slot
BY DEF EmptySlot, Slot, NoPose, Pose

LEMMA NatMin ==
    ASSUME NEW T \in SUBSET Nat, T # {}
    PROVE  \E x \in T : \A y \in T : x <= y
<1>1. \E x \in T : \A y \in T : ~ (<<y, x>> \in OpToRel(<, Nat))
  BY NatLessThanWellFounded, WFMin, Zenon
<1>2. \A x, y \in Nat : y < x => <<y, x>> \in OpToRel(<, Nat)
  BY DEF OpToRel
<1>3. PICK x \in T : \A y \in T : ~ (y < x)
  BY <1>1, <1>2
<1>4. QED
  BY <1>3

\* The probe visits every bucket.
LEMMA ProbeVisits ==
    ASSUME NEW h \in Index
    PROVE  /\ \A k \in Index : (h + k) % NSlots \in Index
           /\ \A i \in Index : \E k \in Index : (h + k) % NSlots = i
<1> USE NumberAssumption DEF Index
<1>1. ASSUME NEW k \in Index PROVE (h + k) % NSlots \in Index
  OBVIOUS
<1>2. ASSUME NEW i \in Index PROVE \E k \in Index : (h + k) % NSlots = i
  <2>1. CASE i >= h
    <3>1. i - h \in Index /\ h + (i - h) = i /\ i % NSlots = i
      BY <2>1
    <3>2. QED
      BY <3>1
  <2>2. CASE i < h
    <3>1. i - h + NSlots \in Index /\ h + (i - h + NSlots) = i + NSlots /\ (i + NSlots) % NSlots = i
      BY <2>2
    <3>2. QED
      BY <3>1
  <2>3. QED
    BY <2>1, <2>2
<1>3. QED
  BY <1>1, <1>2

\* It stops at the entity's own slot or at an empty one, and at none only if
\* there is neither.
LEMMA ProbeStops ==
    ASSUME NEW s, NEW e \in Entity
    PROVE  /\ \A i \in Probe(s, e) : i \in Index /\ s[i].inner \in {e, NULL}
           /\ Probe(s, e) = {} => \A i \in Index : s[i].inner \notin {e, NULL}
           /\ \A i, j \in Probe(s, e) : i = j
<1> DEFINE At0(k) == (Home[e] + k) % NSlots
           hits == {k \in Index : s[At0(k)].inner \in {e, NULL}}
           first == CHOOSE k \in hits : \A j \in hits : k <= j
<1>1. Home[e] \in Index
  BY HomeAssumption DEF Index
<1>2. Probe(s, e) = IF hits = {} THEN {} ELSE {At0(first)}
  BY DEF Probe
<1>3. CASE hits = {}
  <2>1. \A i \in Index : \E k \in Index : At0(k) = i
    BY <1>1, ProbeVisits
  <2>2. QED
    BY <1>2, <1>3, <2>1
<1>4. CASE hits # {}
  <2>1. hits \in SUBSET Nat
    BY NumberAssumption DEF Index
  <2>2. \E k \in hits : \A j \in hits : k <= j
    <3> HIDE DEF hits
    <3>1. QED
      BY <1>4, <2>1, NatMin
  <2>3. first \in hits
    <3> HIDE DEF hits
    <3>1. QED
      BY <2>2
  <2>4. At0(first) \in Index /\ s[At0(first)].inner \in {e, NULL}
    <3> HIDE DEF first
    <3>1. QED
      BY <1>1, <2>3, ProbeVisits
  <2>5. QED
    BY <1>2, <1>4, <2>4
<1>5. QED
  BY <1>3, <1>4

\* The slot of the node, and all others.
LEMMA CapturedIs ==
    ASSUME NEW s \in [Index -> Slot], NEW e \in Entity, NEW now \in Nat, NEW jumped,
           mem \in [Entity -> Pose]
    PROVE  /\ Captured(s, e, now, jumped) \in [Index -> Slot]
           /\ \A i \in Index \ Probe(s, e) : Captured(s, e, now, jumped)[i] = s[i]
           /\ \A i \in Probe(s, e) :
                LET old == IF s[i].inner = e THEN s[i] ELSE EmptySlot
                    new == Captured(s, e, now, jumped)[i]
                IN  /\ new.inner = e /\ new.seen = now /\ new.curr = mem[e]
                    /\ new.prev = IF old.curr # NoPose THEN old.curr ELSE old.prev
                    /\ new.saved = old.saved /\ new.save_valid = old.save_valid
<1> DEFINE Old(i) == IF s[i].inner = e THEN s[i] ELSE EmptySlot
           Prev(i) == IF Old(i).curr # NoPose THEN Old(i).curr ELSE Old(i).prev
           Jump(i) == IF Prev(i) = NoPose THEN Old(i).teleport ELSE e \in jumped
           New(i) == [Old(i) EXCEPT !.inner = e, !.seen = now, !.prev = Prev(i), !.curr = mem[e],
                                    !.teleport = Jump(i)]
<1>1. Captured(s, e, now, jumped) = [i \in Index |-> IF i \notin Probe(s, e) THEN s[i] ELSE New(i)]
  BY DEF Captured
<1>2. ASSUME NEW i \in Index
      PROVE  Old(i) \in Slot /\ Prev(i) \in Pose /\ Jump(i) \in BOOLEAN /\ mem[e] \in Pose
  <2>1. Old(i) \in Slot
    BY EmptyIsSlot
  <2>2. Old(i).curr \in Pose /\ Old(i).prev \in Pose /\ Old(i).teleport \in BOOLEAN
    <3> HIDE DEF Old
    <3>1. QED
      BY <2>1 DEF Slot
  <2>3. (e \in jumped) \in BOOLEAN
    OBVIOUS
  <2>4. Jump(i) \in BOOLEAN
    <3> HIDE DEF Old, Prev
    <3>1. CASE Prev(i) = NoPose
      BY <2>2, <3>1, Zenon
    <3>2. CASE Prev(i) # NoPose
      BY <2>3, <3>2, Zenon
    <3>3. QED
      BY <3>1, <3>2
  <2>5. QED
    BY <2>1, <2>2, <2>4
<1>3. ASSUME NEW i \in Index
      PROVE  /\ New(i) \in Slot /\ New(i).inner = e /\ New(i).seen = now /\ New(i).prev = Prev(i)
             /\ New(i).curr = mem[e] /\ New(i).saved = Old(i).saved
             /\ New(i).save_valid = Old(i).save_valid
  <2> DEFINE New2(r, p, m, t) ==
               [r EXCEPT !.inner = e, !.seen = now, !.prev = p, !.curr = m, !.teleport = t]
  <2>1. ASSUME NEW r \in Slot, NEW p \in Pose, NEW m \in Pose, NEW t \in BOOLEAN
        PROVE  /\ New2(r, p, m, t) \in Slot /\ New2(r, p, m, t).inner = e
               /\ New2(r, p, m, t).seen = now /\ New2(r, p, m, t).prev = p
               /\ New2(r, p, m, t).curr = m /\ New2(r, p, m, t).saved = r.saved
               /\ New2(r, p, m, t).save_valid = r.save_valid
    BY DEF Slot
  <2>2. New(i) = New2(Old(i), Prev(i), mem[e], Jump(i))
    OBVIOUS
  <2> HIDE DEF Old, Prev, Jump, New, New2
  <2>3. QED
    BY <1>2, <2>1, <2>2
<1>4. \A i \in Probe(s, e) : i \in Index
  BY ProbeStops
<1> HIDE DEF New
<1>5. QED
  BY <1>1, <1>3, <1>4

-----------------------------------------------------------------------------
(* The transform list: nobody is in it twice, and the only player entity in  *)
(* it is the player's.                                                       *)

LEMMA RemoveAtIs ==
    ASSUME NEW S, NEW s \in Seq(S), NEW n \in 1 .. Len(s)
    PROVE  /\ RemoveAt(s, n) \in Seq(S) /\ Len(RemoveAt(s, n)) = Len(s) - 1
           /\ \A k \in 1 .. Len(s) - 1 : RemoveAt(s, n)[k] = IF k < n THEN s[k] ELSE s[k + 1]
<1> DEFINE a == SubSeq(s, 1, n - 1)
           b == SubSeq(s, n + 1, Len(s))
<1>1. a \in Seq(S) /\ Len(a) = n - 1 /\ \A k \in 1 .. n - 1 : a[k] = s[k]
  OBVIOUS
<1>2. b \in Seq(S) /\ Len(b) = Len(s) - n /\ \A k \in 1 .. Len(s) - n : b[k] = s[n + k]
  OBVIOUS
<1>3. RemoveAt(s, n) = a \o b
  BY DEF RemoveAt
<1> HIDE DEF a, b
<1>4. RemoveAt(s, n) \in Seq(S) /\ Len(RemoveAt(s, n)) = Len(s) - 1
  BY <1>1, <1>2, <1>3
<1>5. ASSUME NEW k \in 1 .. Len(s) - 1
      PROVE  RemoveAt(s, n)[k] = IF k < n THEN s[k] ELSE s[k + 1]
  <2>1. CASE k < n
    BY <1>1, <1>2, <1>3, <2>1
  <2>2. CASE ~(k < n)
    <3>1. (a \o b)[k] = b[k - (n - 1)] /\ k - (n - 1) \in 1 .. Len(s) - n
      BY <1>1, <1>2, <2>2
    <3>2. b[k - (n - 1)] = s[n + (k - (n - 1))] /\ n + (k - (n - 1)) = k + 1
      BY <1>2, <3>1
    <3>3. QED
      BY <1>3, <2>2, <3>1, <3>2
  <2>3. QED
    BY <2>1, <2>2
<1>6. QED
  BY <1>4, <1>5

Injective(s) == \A m, n \in DOMAIN s : s[m] = s[n] => m = n

LEMMA ToSetIs == ASSUME NEW s PROVE ToSet(s) = {s[n] : n \in DOMAIN s}
BY DEF ToSet

LEMMA WithoutIs ==
    ASSUME list \in Seq(Entity), Injective(list), NEW e \in Listed
    PROVE  /\ Without(e) \in Seq(Entity) /\ Injective(Without(e))
           /\ ToSet(Without(e)) = Listed \ {e}
<1> DEFINE c == CHOOSE n \in DOMAIN list : list[n] = e
           w == RemoveAt(list, c)
<1>1. c \in 1 .. Len(list) /\ list[c] = e
  BY ToSetIs DEF Listed
<1>2. Without(e) = w
  BY DEF Without
<1> HIDE DEF c, w
<1>3. /\ w \in Seq(Entity) /\ Len(w) = Len(list) - 1
      /\ \A k \in 1 .. Len(list) - 1 : w[k] = IF k < c THEN list[k] ELSE list[k + 1]
  BY <1>1, RemoveAtIs DEF w
<1>4. DOMAIN w = 1 .. Len(list) - 1 /\ DOMAIN list = 1 .. Len(list) /\ Len(list) \in Nat
  BY <1>3
<1>5. Injective(w)
  BY <1>1, <1>3, <1>4 DEF Injective
<1>6. ASSUME NEW k \in DOMAIN w PROVE w[k] \in Listed \ {e}
  <2>1. \E m \in DOMAIN list : w[k] = list[m] /\ m # c
    BY <1>1, <1>3, <1>4
  <2>2. QED
    BY <1>1, <1>4, <2>1, ToSetIs DEF Listed, Injective
<1>7. ASSUME NEW x \in Listed \ {e} PROVE \E k \in DOMAIN w : w[k] = x
  <2>1. PICK m \in 1 .. Len(list) : list[m] = x
    BY <1>4, ToSetIs DEF Listed
  <2>2. CASE m < c
    BY <1>1, <1>3, <1>4, <2>1, <2>2
  <2>3. CASE m > c
    <3>1. m - 1 \in DOMAIN w /\ (m - 1) + 1 = m /\ ~(m - 1 < c)
      BY <1>1, <1>4, <2>1, <2>3
    <3>2. QED
      BY <1>3, <1>4, <2>1, <3>1
  <2>4. QED
    BY <1>1, <2>1, <2>2, <2>3
<1>8. ToSet(w) = Listed \ {e}
  BY <1>6, <1>7, ToSetIs
<1>9. QED
  BY <1>2, <1>3, <1>5, <1>8

LEMMA PushIs ==
    ASSUME NEW s \in Seq(Entity), Injective(s), NEW e \in Entity, e \notin ToSet(s)
    PROVE  /\ <<e>> \o s \in Seq(Entity) /\ Injective(<<e>> \o s)
           /\ ToSet(<<e>> \o s) = ToSet(s) \cup {e}
<1> DEFINE t == <<e>> \o s
<1>1. t \in Seq(Entity) /\ Len(t) = Len(s) + 1 /\ t[1] = e /\ \A k \in 1 .. Len(s) : t[k + 1] = s[k]
  OBVIOUS
<1>2. ASSUME NEW k \in DOMAIN t PROVE k = 1 \/ (k - 1 \in 1 .. Len(s) /\ t[k] = s[k - 1])
  <2>1. k = 1 \/ (k - 1 \in 1 .. Len(s) /\ k = (k - 1) + 1)
    OBVIOUS
  <2>2. QED
    BY <1>1, <2>1
<1> HIDE DEF t
<1>3. DOMAIN t = 1 .. Len(s) + 1 /\ DOMAIN s = 1 .. Len(s) /\ Len(s) \in Nat
  BY <1>1
<1>4. ToSet(t) = ToSet(s) \cup {e}
  <2>1. ASSUME NEW k \in DOMAIN t PROVE t[k] \in ToSet(s) \cup {e}
    BY <1>1, <1>2, <1>3, ToSetIs
  <2>2. ASSUME NEW x \in ToSet(s) \cup {e} PROVE \E k \in DOMAIN t : t[k] = x
    <3>1. CASE x = e
      BY <1>1, <1>3, <3>1
    <3>2. CASE x \in ToSet(s)
      <4>1. PICK k \in 1 .. Len(s) : s[k] = x
        BY <1>3, <3>2, ToSetIs
      <4>2. k + 1 \in DOMAIN t /\ t[k + 1] = x
        BY <1>1, <1>3, <4>1
      <4>3. QED
        BY <4>2
    <3>3. QED
      BY <2>2, <3>1, <3>2
  <2>3. QED
    BY <2>1, <2>2, ToSetIs
<1>5. ASSUME NEW m \in DOMAIN t, NEW n \in DOMAIN t, t[m] = t[n] PROVE m = n
  <2>1. \A k \in 1 .. Len(s) : s[k] # e
    BY <1>3, ToSetIs
  <2>2. CASE m = 1 \/ n = 1
    BY <1>1, <1>2, <1>5, <2>1, <2>2
  <2>3. CASE m # 1 /\ n # 1
    <3>1. s[m - 1] = s[n - 1] /\ m - 1 \in DOMAIN s /\ n - 1 \in DOMAIN s
      BY <1>2, <1>3, <1>5, <2>3
    <3>2. m - 1 = n - 1
      BY <3>1 DEF Injective
    <3>3. QED
      BY <1>3, <3>2
  <2>4. QED
    BY <2>2, <2>3
<1>6. QED
  BY <1>1, <1>4, <1>5 DEF t, Injective

ListInv ==
    /\ list \in Seq(Entity) /\ Injective(list)
    /\ player # NULL => player \in Listed
    /\ Listed \cap session.players \subseteq {player}

LEMMA ListStep ==
    ASSUME PlayerInv, ListInv, Population, UNCHANGED session
    PROVE  /\ ListInv'
           /\ \A e \in Listed' : e \in Listed \/ e \notin session.players \/ (e = player' /\ player' # player)
<1>0. session.entities \subseteq Entity /\ session.players \subseteq Entity /\ NULL \notin session.players
  BY DEF PlayerInv, Session
<1>1. CASE UNCHANGED <<list, player>>
  <2>1. Listed' = Listed
    BY <1>1, ToSetIs DEF Listed
  <2>2. QED
    BY <1>1, <2>1 DEF ListInv, Injective
<1>2. ASSUME NEW e \in session.entities \ (Listed \cup session.players),
             list' = <<e>> \o list, UNCHANGED player
      PROVE  ListInv' /\ Listed' = Listed \cup {e}
  BY <1>0, <1>2, PushIs DEF ListInv, Listed
<1>3. ASSUME NEW e \in Listed \ {player}, list' = Without(e), UNCHANGED player
      PROVE  ListInv' /\ Listed' \subseteq Listed
  BY <1>3, WithoutIs DEF ListInv, Listed
<1>4. ASSUME NEW e \in session.players \ Listed, player = NULL, list' = <<e>> \o list, player' = e
      PROVE  ListInv' /\ Listed' = Listed \cup {e}
  BY <1>0, <1>4, PushIs, EntityAssumption DEF ListInv, Listed
<1>5. ASSUME NEW e \in session.players \ Listed, player # NULL,
             list' = <<e>> \o Without(player), player' = e
      PROVE  ListInv' /\ Listed' \subseteq Listed \cup {e}
  <2>1. Without(player) \in Seq(Entity) /\ Injective(Without(player)) /\ ToSet(Without(player)) = Listed \ {player}
    BY <1>5, WithoutIs DEF ListInv
  <2>2. e \in Entity /\ e \notin ToSet(Without(player))
    BY <1>0, <1>5, <2>1
  <2>3. list' \in Seq(Entity) /\ Injective(list') /\ Listed' = (Listed \ {player}) \cup {e}
    BY <1>5, <2>1, <2>2, PushIs DEF Listed
  <2>4. QED
    BY <1>5, <2>3 DEF ListInv
<1>6. ASSUME player # NULL, list' = Without(player), player' = NULL
      PROVE  ListInv' /\ Listed' \subseteq Listed
  BY <1>6, WithoutIs DEF ListInv, Listed
<1>7. \/ UNCHANGED <<list, player>>
      \/ \E e \in session.entities \ (Listed \cup session.players) : list' = <<e>> \o list /\ UNCHANGED player
      \/ \E e \in Listed \ {player} : list' = Without(e) /\ UNCHANGED player
      \/ \E e \in session.players \ Listed : player = NULL /\ list' = <<e>> \o list /\ player' = e
      \/ \E e \in session.players \ Listed : /\ player # NULL /\ list' = <<e>> \o Without(player) /\ player' = e
      \/ player # NULL /\ list' = Without(player) /\ player' = NULL
  BY DEF Population
<1>8. ListInv'
  BY <1>1, <1>2, <1>3, <1>4, <1>5, <1>6, <1>7
<1>9. \A e \in Listed' : e \in Listed \/ e \notin session.players \/ (e = player' /\ player' # player)
  <2>1. player # NULL => player \in Listed
    BY DEF ListInv
  <2>2. CASE UNCHANGED <<list, player>>
    BY <2>2, ToSetIs DEF Listed
  <2>3. QED
    BY <1>0, <1>2, <1>3, <1>4, <1>5, <1>6, <1>7, <2>1, <2>2
<1>10. QED
  BY <1>8, <1>9

-----------------------------------------------------------------------------
(* What the walk makes of the table: R are slots as they may be at any time, *)
(* F those that it has just visited.                                         *)

Visit(t, r, e) ==
    /\ t.inner = e /\ t.seen = n_tick + 1 /\ t.curr = mem[e]
    /\ t.prev = IF r.curr # NoPose THEN r.curr ELSE r.prev
    /\ t.saved = r.saved /\ t.save_valid = r.save_valid
Visits(e, R, F) == \A r \in R : \A t \in Slot : (r.inner = e \/ r = EmptySlot) /\ Visit(t, r, e) => t \in F

HasOnly(s, e, F) == \/ \E i \in Index : s[i].inner = e /\ s[i] \in F
                    \/ \A i \in Index : s[i].inner # e

LEMMA VisitStep ==
    ASSUME mem \in [Entity -> Pose], n_tick \in Nat, NEW jumped, NEW e \in Entity,
           NEW R \in SUBSET Slot, NEW F \in SUBSET R, EmptySlot \in R, Visits(e, R, F),
           NEW s \in [Index -> R]
    PROVE  /\ Captured(s, e, n_tick + 1, jumped) \in [Index -> R]
           /\ HasOnly(Captured(s, e, n_tick + 1, jumped), e, F)
           /\ \A d \in Entity \ {e} : HasOnly(s, d, F) => HasOnly(Captured(s, e, n_tick + 1, jumped), d, F)
<1> DEFINE c == Captured(s, e, n_tick + 1, jumped)
<1>1. s \in [Index -> Slot] /\ n_tick + 1 \in Nat
  OBVIOUS
<1>2. /\ c \in [Index -> Slot]
      /\ \A i \in Index \ Probe(s, e) : c[i] = s[i]
      /\ \A i \in Probe(s, e) :
           LET old == IF s[i].inner = e THEN s[i] ELSE EmptySlot
           IN  /\ c[i].inner = e /\ c[i].seen = n_tick + 1 /\ c[i].curr = mem[e]
               /\ c[i].prev = IF old.curr # NoPose THEN old.curr ELSE old.prev
               /\ c[i].saved = old.saved /\ c[i].save_valid = old.save_valid
  BY <1>1, CapturedIs
<1> HIDE DEF c
<1>3. /\ \A i \in Probe(s, e) : i \in Index /\ s[i].inner \in {e, NULL}
      /\ Probe(s, e) = {} => \A i \in Index : s[i].inner \notin {e, NULL}
      /\ \A i, j \in Probe(s, e) : i = j
  BY ProbeStops
<1>4. ASSUME NEW i \in Probe(s, e) PROVE c[i] \in F
  <2> DEFINE old == IF s[i].inner = e THEN s[i] ELSE EmptySlot
  <2>1. i \in Index /\ old \in R /\ (old.inner = e \/ old = EmptySlot)
    BY <1>3
  <2>2. Visit(c[i], old, e)
    BY <1>2 DEF Visit
  <2>3. c[i] \in Slot
    BY <1>2, <2>1
  <2> HIDE DEF old
  <2>4. QED
    BY <2>1, <2>2, <2>3 DEF Visits
<1>5. \A i \in Index : c[i] \in R
  BY <1>2, <1>4
<1>6. c \in [Index -> R]
  BY <1>2, <1>5
<1>7. HasOnly(c, e, F)
  <2>1. CASE Probe(s, e) = {}
    BY <1>2, <1>3, <2>1 DEF HasOnly
  <2>2. CASE Probe(s, e) # {}
    BY <1>2, <1>3, <1>4, <2>2 DEF HasOnly
  <2>3. QED
    BY <2>1, <2>2
<1>8. ASSUME NEW d \in Entity \ {e}, HasOnly(s, d, F) PROVE HasOnly(c, d, F)
  <2>1. ASSUME NEW i \in Index, s[i].inner = d PROVE c[i] = s[i]
    BY <1>2, <1>3, <2>1, EntityAssumption
  <2>2. ASSUME NEW i \in Index, c[i].inner = d PROVE s[i].inner = d
    BY <1>2, <2>2
  <2>3. QED
    BY <1>8, <2>1, <2>2 DEF HasOnly
<1>9. QED
  BY <1>6, <1>7, <1>8 DEF c

LEMMA WalkProps ==
    ASSUME list \in Seq(Entity), mem \in [Entity -> Pose], n_tick \in Nat, NEW h, NEW jumped,
           NEW R \in SUBSET Slot, NEW F \in SUBSET R, EmptySlot \in R, slots \in [Index -> R],
           \A e \in Listed \ {h} : Visits(e, R, F)
    PROVE  /\ TableAfter(h, jumped) \in [Index -> R]
           /\ \A e \in Listed \ {h} : HasOnly(TableAfter(h, jumped), e, F)
<1> DEFINE Q == [k \in Nat |-> {s \in [Index -> R] :
                    \A j \in 1 .. k : list[j] # h => HasOnly(s, list[j], F)}]
<1>1. Len(list) \in Nat /\ DOMAIN list = 1 .. Len(list) /\ \A j \in 1 .. Len(list) : list[j] \in Listed /\ list[j] \in Entity
  BY ToSetIs DEF Listed
<1>2. slots \in Q[0]
  OBVIOUS
<1>3. ASSUME NEW k \in 1 .. Len(list), NEW s \in Q[k - 1]
      PROVE  IF list[k] = h THEN s \in Q[k]
             ELSE Captured(s, list[k], n_tick + 1, jumped) \in Q[k]
  <2>1. k \in Nat /\ k - 1 \in Nat /\ \A j \in 1 .. k : (j \in 1 .. k - 1 \/ j = k) /\ j \in 1 .. Len(list)
    BY <1>1
  <2>2. s \in [Index -> R] /\ \A j \in 1 .. k - 1 : list[j] # h => HasOnly(s, list[j], F)
    BY <2>1
  <2>3. CASE list[k] = h
    BY <2>1, <2>2, <2>3
  <2>4. CASE list[k] # h
    <3> DEFINE c == Captured(s, list[k], n_tick + 1, jumped)
    <3>1. list[k] \in Entity /\ Visits(list[k], R, F)
      BY <1>1, <2>4
    <3>2. /\ c \in [Index -> R] /\ HasOnly(c, list[k], F)
          /\ \A d \in Entity \ {list[k]} : HasOnly(s, d, F) => HasOnly(c, d, F)
      BY <2>2, <3>1, VisitStep
    <3> HIDE DEF c
    <3>3. ASSUME NEW j \in 1 .. k, list[j] # h PROVE HasOnly(c, list[j], F)
      BY <1>1, <2>1, <2>2, <3>2, <3>3
    <3>4. c \in Q[k]
      BY <2>1, <3>2, <3>3
    <3>5. QED
      BY <2>4, <3>4 DEF c
  <2>5. QED
    BY <2>3, <2>4
<1>4. TableAfter(h, jumped) \in Q[Len(list)]
  <2> HIDE DEF Q
  <2>1. QED
    BY <1>1, <1>2, <1>3, WalkInduction
<1>5. ASSUME NEW e \in Listed \ {h} PROVE HasOnly(TableAfter(h, jumped), e, F)
  <2>1. PICK j \in 1 .. Len(list) : list[j] = e
    BY <1>1, ToSetIs DEF Listed
  <2>2. QED
    BY <1>1, <1>4, <1>5, <2>1
<1>6. QED
  BY <1>1, <1>4, <1>5

\* The old slots are emptied afterwards.
LEMMA AgedIs ==
    ASSUME NEW s \in [Index -> Slot], NEW now \in Nat
    PROVE  /\ Aged(s, now) \in [Index -> Slot]
           /\ \A i \in Index : \/ Aged(s, now)[i] = EmptySlot
                               \/ Aged(s, now)[i] = s[i] /\ (s[i].inner # NULL => now - s[i].seen <= AgeOut)
           /\ \A i \in Index : s[i].seen = now => Aged(s, now)[i] = s[i]
<1>1. \A i \in Index : s[i].seen \in Nat
  BY DEF Slot
<1>2. QED
  BY <1>1, EmptyIsSlot, NumberAssumption DEF Aged

-----------------------------------------------------------------------------
(* The state of the two clients, and when a saved pose may be pending. *)

TableInv ==
    /\ pc \in {"restore", "gate", "sim", "capture", "render", "menu"}
    /\ tick \in Nat /\ n_tick \in Nat /\ n_on \in BOOLEAN /\ p_on \in BOOLEAN
    /\ p_prev \in Pose /\ p_curr \in Pose /\ p_saved \in Pose
    /\ slots \in [Index -> Slot]
    /\ ~n_on => \A i \in Index : slots[i] = EmptySlot
    /\ pc \notin {"menu", "restore"} => ~p_save_valid /\ \A i \in Index : ~slots[i].save_valid
MemType == mem \in [Entity -> Pose]
ClientInv == PlayerInv /\ ListInv /\ TableInv /\ MemType

LEMMA Bounds == Index \in SUBSET Nat /\ NoPose \in Pose /\ \A p, c \in Pose : Blend(p, c) \in Pose
BY NumberAssumption DEF Index, NoPose, Pose, Blend

LEMMA LastOfIs ==
    ASSUME NEW S \in SUBSET Index, S # {}
    PROVE  LastOf(S) \in S /\ \A j \in S : j <= LastOf(S)
<1> DEFINE T == {(NSlots - 1) - i : i \in S}
<1>1. T \in SUBSET Nat /\ T # {}
  <2>1. \A i \in S : (NSlots - 1) - i \in Nat
    BY NumberAssumption DEF Index
  <2>2. QED
    BY <2>1
<1>2. PICK x \in T : \A y \in T : x <= y
  <2> HIDE DEF T
  <2>1. QED
    BY <1>1, NatMin
<1>3. PICK i \in S : x = (NSlots - 1) - i
  OBVIOUS
<1>4. \A j \in S : j <= i
  BY <1>2, <1>3, NumberAssumption DEF Index
<1>5. QED
  BY <1>3, <1>4 DEF LastOf

LEMMA UnsavedIs ==
    ASSUME NEW r \in Slot
    PROVE  /\ Unsaved(r) \in Slot /\ ~Unsaved(r).save_valid
           /\ Unsaved(r).inner = r.inner /\ Unsaved(r).prev = r.prev /\ Unsaved(r).curr = r.curr
           /\ Unsaved(r).seen = r.seen
BY Bounds DEF Unsaved, Slot

Saved(r, p) == [r EXCEPT !.saved = p, !.save_valid = TRUE]

LEMMA SavedIs ==
    ASSUME NEW r \in Slot, NEW p \in Pose
    PROVE  /\ Saved(r, p) \in Slot /\ Saved(r, p).save_valid /\ Saved(r, p).saved = p
           /\ Saved(r, p).inner = r.inner /\ Saved(r, p).prev = r.prev
           /\ Saved(r, p).curr = r.curr /\ Saved(r, p).seen = r.seen
BY DEF Slot, Saved

LEMMA EmptyIs == EmptySlot.inner = NULL /\ ~EmptySlot.save_valid /\ EmptySlot.curr = NoPose
BY DEF EmptySlot

\* The poses that a restore and a frame leave in memory.
LEMMA RestoredType ==
    ASSUME PlayerInv, TableInv, MemType
    PROVE  /\ PlayerRestored(mem) \in [Entity -> Pose]
           /\ NpcsRestored(PlayerRestored(mem)) \in [Entity -> Pose]
<1>1. PlayerRestored(mem) \in [Entity -> Pose]
  BY DEF PlayerRestored, PlayerInv, TableInv, MemType, Session
<1>2. ASSUME NEW m \in [Entity -> Pose] PROVE NpcsRestored(m) \in [Entity -> Pose]
  <2>1. ASSUME NEW e \in Entity
        PROVE  LET mine == {i \in Pending : slots[i].inner = e}
               IN (IF mine = {} THEN m[e] ELSE slots[LastOf(mine)].saved) \in Pose
    <3> DEFINE mine == {i \in Pending : slots[i].inner = e}
    <3>1. mine \in SUBSET Index
      BY DEF Pending
    <3>2. mine # {} => LastOf(mine) \in Index
      <4> HIDE DEF mine
      <4>1. QED
        BY <3>1, LastOfIs
    <3>3. \A i \in Index : slots[i].saved \in Pose
      BY DEF TableInv, Slot
    <3>4. QED
      BY <3>2, <3>3
  <2>2. QED
    BY <2>1 DEF NpcsRestored
<1>3. QED
  BY <1>1, <1>2

LEMMA WritersAre ==
    NpcWriters \in SUBSET Index
    /\ \A i \in NpcWriters : slots[i].inner # NULL /\ slots[i].prev # NoPose /\ throttling /\ n_on
BY DEF NpcWriters

LEMMA FrameType ==
    ASSUME PlayerInv, TableInv, MemType
    PROVE  /\ AfterPlayer \in [Entity -> Pose]
           /\ \A i \in Index : SlotBlend(i) \in Pose
           /\ \A i \in NpcWriters : Found(i) \in Pose
<1>1. AfterPlayer \in [Entity -> Pose]
  BY Bounds DEF AfterPlayer, PlayerInv, TableInv, MemType, Session, PlayerWrites
<1>2. ASSUME NEW i \in Index PROVE SlotBlend(i) \in Pose
  <2>1. slots[i].prev \in Pose /\ slots[i].curr \in Pose
    BY DEF TableInv, Slot
  <2>2. QED
    BY <2>1, Bounds DEF SlotBlend
<1>3. ASSUME NEW i \in NpcWriters PROVE Found(i) \in Pose
  <2> DEFINE before == {j \in NpcWriters : j < i /\ slots[j].inner = slots[i].inner}
  <2>1. before \in SUBSET Index
    BY WritersAre
  <2>2. before # {} => LastOf(before) \in Index
    <3> HIDE DEF before
    <3>1. QED
      BY <2>1, LastOfIs
  <2>3. slots[i].inner \in Entity
    BY WritersAre DEF TableInv, Slot
  <2>4. Found(i) = IF before = {} THEN AfterPlayer[slots[i].inner] ELSE SlotBlend(LastOf(before))
    BY DEF Found
  <2> HIDE DEF before
  <2>5. QED
    BY <1>1, <1>2, <2>2, <2>3, <2>4
<1>4. QED
  BY <1>1, <1>2, <1>3

LEMMA RestoreTable == ASSUME ClientInv, Restore PROVE TableInv' /\ MemType'
<1> USE DEF ClientInv
<1>1. /\ pc' = "gate" /\ ~p_save_valid' /\ p_saved' \in Pose
      /\ UNCHANGED <<tick, n_tick, n_on, p_on, p_prev, p_curr>>
  BY Bounds DEF Restore, PreSimRestore
<1>2. MemType'
  BY RestoredType DEF Restore, PreSimRestore, MemType
<1>3. slots' \in [Index -> Slot] /\ \A i \in Index : ~slots'[i].save_valid
  <2>1. CASE n_on
    <3>1. PICK faults : slots' = [i \in Index |-> IF i \in faults THEN EmptySlot ELSE Unsaved(slots[i])]
      BY <2>1 DEF Restore, PreSimRestore
    <3>2. \A i \in Index : slots[i] \in Slot
      BY DEF TableInv
    <3>3. QED
      BY <3>1, <3>2, UnsavedIs, EmptyIsSlot, EmptyIs
  <2>2. CASE ~n_on
    BY <2>2, EmptyIs DEF Restore, PreSimRestore, TableInv
  <2>3. QED
    BY <2>1, <2>2
<1>4. ~n_on => \A i \in Index : slots'[i] = EmptySlot
  BY DEF Restore, PreSimRestore, TableInv
<1>5. QED
  BY <1>1, <1>2, <1>3, <1>4 DEF TableInv

LEMMA TickTable == ASSUME ClientInv, NEW still, Tick(still) PROVE TableInv' /\ MemType'
<1> USE DEF ClientInv
<1>1. /\ pc = "sim" /\ pc' = "capture" /\ tick' = tick + 1
      /\ UNCHANGED <<n_tick, n_on, p_on, p_prev, p_curr, p_saved, p_save_valid, slots>>
  BY DEF Tick, playerVars, npcVars
<1>2. <<tick', tick'>> \in Pose
  BY <1>1 DEF TableInv, Pose
<1>3. MemType'
  BY <1>2 DEF MemType, Tick
<1>4. QED
  BY <1>1, <1>3 DEF TableInv

LEMMA CaptureTable ==
    ASSUME ClientInv, CaptureBoth, UNCHANGED <<list, player>>
    PROVE  TableInv'
<1> USE DEF ClientInv
<1>1. PICK jumped \in {{}, Entity} : CapturePlayer(jumped) /\ CaptureNpcs(jumped)
  BY DEF CaptureBoth
<1>2. pc = "capture" /\ pc' = "render" /\ UNCHANGED <<tick, p_on, p_saved, n_on>>
  BY DEF CaptureBoth
<1>3. ~p_save_valid /\ \A i \in Index : ~slots[i].save_valid
  BY <1>2 DEF TableInv
<1>4. p_prev' \in Pose /\ p_curr' \in Pose /\ ~p_save_valid'
  <2>1. CASE ~p_on
    BY <1>1, <1>3, <2>1 DEF CapturePlayer, TableInv
  <2>2. CASE p_on
    <3>1. \A h \in session.players : mem[h] \in Pose
      BY DEF MemType, PlayerInv, Session
    <3>2. QED
      BY <1>1, <1>3, <2>2, <3>1, Bounds DEF CapturePlayer, TableInv, PlayerInv
  <2>3. QED
    BY <2>1, <2>2
<1>5. /\ slots' \in [Index -> Slot] /\ n_tick' \in Nat /\ (~n_on => UNCHANGED slots)
      /\ \A i \in Index : ~slots'[i].save_valid
  <2>1. CASE ~n_on
    BY <1>1, <1>3, <2>1 DEF CaptureNpcs, TableInv
  <2>2. CASE n_on
    <3> DEFINE R == {r \in Slot : ~r.save_valid}
               t == TableAfter(handle', jumped)
    <3>1. R \in SUBSET Slot /\ EmptySlot \in R /\ slots \in [Index -> R]
      BY <1>3, EmptyIsSlot, EmptyIs DEF TableInv
    <3>2. \A e \in Listed \ {handle'} : Visits(e, R, R)
      BY DEF Visits, Visit
    <3>3. t \in [Index -> R]
      <4> HIDE DEF R
      <4>1. QED
        BY <3>1, <3>2, WalkProps DEF ListInv, MemType, TableInv
    <3> HIDE DEF t
    <3>4. slots' = Aged(t, n_tick + 1) /\ n_tick' = n_tick + 1
      BY <1>1, <2>2 DEF CaptureNpcs, t
    <3>5. t \in [Index -> Slot] /\ n_tick + 1 \in Nat /\ \A i \in Index : ~t[i].save_valid
      BY <3>3 DEF TableInv
    <3>6. QED
      BY <2>2, <3>4, <3>5, AgedIs, EmptyIs
  <2>3. QED
    BY <2>1, <2>2
<1>6. QED
  BY <1>2, <1>4, <1>5 DEF TableInv

LEMMA RenderTable == ASSUME ClientInv, Render PROVE TableInv' /\ MemType'
<1> USE DEF ClientInv
<1>1. /\ pc' = "menu" /\ UNCHANGED <<tick, n_tick, n_on, p_on, p_prev, p_curr>>
  BY DEF Render
<1>2. p_saved' \in Pose
  <2>1. PlayerWrites => handle \in Entity
    BY DEF PlayerWrites, PlayerInv, Session
  <2>2. QED
    BY <2>1 DEF Render, TableInv, MemType
<1>3. MemType'
  <2>1. mem' = [e \in Entity |-> LET mine == {i \in NpcWriters : slots[i].inner = e}
                                 IN IF mine = {} THEN AfterPlayer[e] ELSE SlotBlend(LastOf(mine))]
    BY DEF Render
  <2>2. ASSUME NEW e \in Entity
        PROVE  LET mine == {i \in NpcWriters : slots[i].inner = e}
               IN (IF mine = {} THEN AfterPlayer[e] ELSE SlotBlend(LastOf(mine))) \in Pose
    <3> DEFINE mine == {i \in NpcWriters : slots[i].inner = e}
    <3>1. mine \in SUBSET Index
      BY WritersAre
    <3>2. mine # {} => LastOf(mine) \in Index
      <4> HIDE DEF mine
      <4>1. QED
        BY <3>1, LastOfIs
    <3>3. QED
      BY <3>2, FrameType
  <2>3. QED
    BY <2>1, <2>2 DEF MemType
<1>4. slots' \in [Index -> Slot] /\ (~n_on => UNCHANGED slots)
  <2>1. PICK faults \in SUBSET MayFault(NpcWriters) :
          slots' = [i \in Index |->
                     IF i \in faults THEN EmptySlot
                     ELSE IF i \in NpcWriters THEN Saved(slots[i], Found(i))
                     ELSE slots[i]]
    BY DEF Render, Saved
  <2>2. \A i \in Index : slots[i] \in Slot
    BY DEF TableInv
  <2>3. ASSUME NEW i \in NpcWriters
        PROVE  Saved(slots[i], Found(i)) \in Slot
    BY <2>2, FrameType, SavedIs, WritersAre
  <2>4. slots' \in [Index -> Slot]
    BY <2>1, <2>2, <2>3, EmptyIsSlot
  <2>5. ~n_on => UNCHANGED slots
    BY <2>1, WritersAre DEF MayFault, TableInv
  <2>6. QED
    BY <2>4, <2>5
<1>5. QED
  BY <1>1, <1>2, <1>3, <1>4 DEF TableInv

LEMMA MenuTable == ASSUME ClientInv, Menu PROVE TableInv' /\ MemType'
<1> USE DEF ClientInv
<1>1. pc = "menu" /\ pc' = "restore" /\ UNCHANGED tick
  BY DEF Menu
<1>2. CASE NoToggle
  BY <1>1, <1>2 DEF NoToggle, playerVars, npcVars, TableInv, MemType
<1>3. CASE TogglePlayer
  <2>1. /\ UNCHANGED <<n_tick, n_on, slots, p_prev, p_curr>> /\ p_on' = ~p_on
        /\ p_saved' = p_saved \/ p_saved' = NoPose
    BY <1>3 DEF TogglePlayer, npcVars
  <2>2. MemType'
    BY <1>3, RestoredType DEF TogglePlayer, MemType
  <2>3. QED
    BY <1>1, <2>1, <2>2, Bounds DEF TableInv
<1>4. CASE ToggleNpcs
  <2>1. UNCHANGED <<mem, n_tick, p_prev, p_curr, p_saved, p_on>> /\ n_on' = ~n_on
    BY <1>4 DEF ToggleNpcs, playerVars
  <2>2. CASE n_on
    <3>1. slots' = [i \in Index |-> EmptySlot]
      BY <1>4, <2>2 DEF ToggleNpcs, TableAfterOff
    <3>2. QED
      BY <1>1, <2>1, <3>1, EmptyIsSlot DEF TableInv, MemType
  <2>3. CASE ~n_on
    <3>1. UNCHANGED slots
      BY <1>4, <2>3 DEF ToggleNpcs
    <3>2. QED
      BY <1>1, <2>1, <2>3, <3>1 DEF TableInv, MemType
  <2>4. QED
    BY <2>2, <2>3
<1>5. QED
  BY <1>2, <1>3, <1>4 DEF Menu

\* Both clients' steps keep all of it, whatever else writes into memory after
\* they have captured.
LEMMA ClientInvStep ==
    ASSUME ClientInv, WhoInv, ClientStep,
           CaptureBoth \/ UNCHANGED <<session, pc, tick, throttling, list, player, playerVars, npcVars>> => MemType'
    PROVE  ClientInv'
<1>1. CASE \E still : Tick(still)
  <2>1. Population /\ UNCHANGED session
    BY <1>1 DEF Tick
  <2>2. ListInv'
    BY <2>1, ListStep DEF ClientInv
  <2>3. QED
    BY <1>1, <2>2, TickTable, WhoStep DEF ClientInv
<1>2. ASSUME ~ \E still : Tick(still) PROVE ListInv'
  <2>1. UNCHANGED <<session, list, player>>
    BY <1>2 DEF ClientStep, Restore, Gate, Render, Menu, CaptureBoth, engineVars
  <2>2. Listed' = Listed
    BY <2>1, ToSetIs DEF Listed
  <2>3. QED
    BY <2>1, <2>2 DEF ClientInv, ListInv, Injective
<1>3. ASSUME ~ \E still : Tick(still) PROVE TableInv' /\ MemType'
  <2>1. CASE Restore
    BY <2>1, RestoreTable
  <2>2. CASE Gate
    BY <2>2 DEF Gate, ClientInv, TableInv, MemType, engineVars, playerVars, npcVars
  <2>3. CASE CaptureBoth /\ UNCHANGED <<list, player>>
    BY <2>3, CaptureTable
  <2>4. CASE Render
    BY <2>4, RenderTable
  <2>5. CASE Menu
    BY <2>5, MenuTable
  <2>6. CASE UNCHANGED <<session, pc, tick, throttling, list, player, playerVars, npcVars>>
    BY <2>6 DEF ClientInv, TableInv, playerVars, npcVars
  <2>7. QED
    BY <1>3, <2>1, <2>2, <2>3, <2>4, <2>5, <2>6 DEF ClientStep
<1>4. QED
  BY <1>1, <1>2, <1>3, WhoStep DEF ClientInv

LEMMA ClientInit == Init => ClientInv
<1> SUFFICES ASSUME Init PROVE ClientInv
  OBVIOUS
<1>1. ListInv
  BY ToSetIs DEF Init, ListInv, Listed, Injective
<1>2. TableInv /\ MemType
  BY Bounds, EmptyIsSlot DEF Init, TableInv, MemType, Pose
<1>3. QED
  BY <1>1, <1>2, WhoInit DEF ClientInv

LEMMA PlainStep == ClientInv /\ WhoInv /\ [Next]_vars => (ClientInv /\ WhoInv)'
<1> SUFFICES ASSUME ClientInv, WhoInv, [Next]_vars PROVE (ClientInv /\ WhoInv)'
  OBVIOUS
<1>1. ClientStep
  BY NextIsClientStep
<1>2. CaptureBoth \/ UNCHANGED <<session, pc, tick, throttling, list, player, playerVars, npcVars>> => MemType'
  BY DEF Next, Restore, Gate, Sim, Tick, Capture, CaptureBoth, Render, Menu, vars, engineVars, ClientInv, MemType, TableInv
<1>3. QED
  BY <1>1, <1>2, ClientInvStep, WhoStep DEF ClientInv

-----------------------------------------------------------------------------
(* The fence around one entity: pose v, which the simulation is to find, is  *)
(* in memory, or kept by everybody who has written over it.                  *)

OneSlotEach == \A i, j \in Index : slots[i].inner = slots[j].inner /\ slots[i].inner # NULL => i = j

SavedBySlot(e) == \E i \in Index : slots[i].inner = e /\ slots[i].save_valid
Fence(e, v) ==
    /\ pc \in {"gate", "sim", "capture", "render"} => mem[e] = v
    /\ pc \in {"menu", "restore"} =>
         /\ p_save_valid /\ handle = e => p_saved = v
         /\ \A i \in Index : slots[i].inner = e /\ slots[i].save_valid => slots[i].saved = v
         /\ mem[e] = v \/ (p_save_valid /\ handle = e) \/ SavedBySlot(e)

LEMMA RestoreFence ==
    ASSUME ClientInv, NEW e \in Entity, NEW v, Fence(e, v), Restore
    PROVE  Fence(e, v)'
<1> DEFINE mine == {i \in Pending : slots[i].inner = e}
           m == PlayerRestored(mem)
<1>1. pc = "restore" /\ pc' = "gate"
  BY DEF Restore
<1>2. e # NULL
  BY EntityAssumption
<1>3. mine = {i \in Index : slots[i].inner = e /\ slots[i].save_valid}
  BY <1>2 DEF Pending
<1>4. m[e] = IF p_save_valid /\ handle = e THEN p_saved ELSE mem[e]
  BY <1>2 DEF PlayerRestored, ClientInv, MemType
<1>5. mine = {} => m[e] = v
  BY <1>1, <1>3, <1>4 DEF Fence, SavedBySlot
<1>6. mine # {} => slots[LastOf(mine)].saved = v
  <2>1. mine # {} => LastOf(mine) \in mine
    <3>1. mine \in SUBSET Index
      BY <1>3
    <3> HIDE DEF mine
    <3>2. QED
      BY <3>1, LastOfIs
  <2>2. QED
    BY <1>1, <1>3, <2>1 DEF Fence
<1>7. CASE n_on
  <2>1. mem' = NpcsRestored(m)
    BY <1>7 DEF Restore, PreSimRestore
  <2>2. mem'[e] = IF mine = {} THEN m[e] ELSE slots[LastOf(mine)].saved
    BY <2>1 DEF NpcsRestored
  <2> HIDE DEF mine, m
  <2>3. QED
    BY <1>1, <1>5, <1>6, <2>2 DEF Fence
<1>8. CASE ~n_on
  <2>1. mem' = m /\ mine = {}
    BY <1>3, <1>8, EmptyIs DEF Restore, PreSimRestore, ClientInv, TableInv
  <2> HIDE DEF mine, m
  <2>2. QED
    BY <1>1, <1>5, <2>1 DEF Fence
<1>9. QED
  BY <1>7, <1>8

LEMMA RenderFence ==
    ASSUME ClientInv, OneSlotEach, NEW e \in Listed, NEW v, Fence(e, v), Render,
           ~(PlayerWrites /\ handle = e /\ \E i \in NpcWriters : slots[i].inner = e)
    PROVE  Fence(e, v)'
<1> DEFINE mine == {i \in NpcWriters : slots[i].inner = e}
<1>0. e \in Entity /\ e # NULL
  BY ToSetIs, EntityAssumption DEF Listed, ClientInv, ListInv
<1>1. /\ pc = "render" /\ pc' = "menu" /\ mem[e] = v /\ UNCHANGED handle
      /\ ~p_save_valid /\ \A i \in Index : ~slots[i].save_valid
  BY DEF Render, Fence, ClientInv, TableInv
<1>2. AfterPlayer[e] = IF PlayerWrites /\ handle = e THEN Blend(p_prev, p_curr) ELSE v
  BY <1>0, <1>1 DEF AfterPlayer, PlayerWrites, ClientInv, MemType
<1>3. (p_save_valid /\ handle = e => p_saved = v)'
  BY <1>1 DEF Render
<1>4. mem'[e] = IF mine = {} THEN AfterPlayer[e] ELSE SlotBlend(LastOf(mine))
  BY <1>0 DEF Render
<1>5. PICK faults \in SUBSET MayFault(NpcWriters) :
        slots' = [i \in Index |->
                   IF i \in faults THEN EmptySlot
                   ELSE IF i \in NpcWriters THEN Saved(slots[i], Found(i))
                   ELSE slots[i]]
  BY DEF Render, Saved
<1>6. \A i \in Index : slots[i] \in Slot
  BY DEF ClientInv, TableInv
<1>7. ASSUME NEW i \in mine
      PROVE  i \in Index /\ slots'[i].inner = e /\ slots'[i].save_valid /\ slots'[i].saved = Found(i)
  <2>1. i \in Index /\ i \in NpcWriters /\ i \notin faults
    BY WritersAre DEF MayFault
  <2>2. Found(i) \in Pose
    BY <2>1, FrameType DEF ClientInv
  <2>3. slots'[i] = Saved(slots[i], Found(i))
    BY <1>5, <2>1
  <2>4. QED
    BY <1>6, <2>1, <2>2, <2>3, SavedIs
<1>8. ASSUME NEW i \in Index \ mine PROVE ~(slots'[i].inner = e /\ slots'[i].save_valid)
  <2>1. CASE i \in faults
    BY <1>0, <1>5, <2>1, EmptyIs
  <2>2. CASE i \notin faults /\ i \in NpcWriters
    <3>1. slots'[i] = Saved(slots[i], Found(i)) /\ slots[i].inner # e
      BY <1>5, <1>8, <2>2
    <3>2. Found(i) \in Pose
      BY <2>2, FrameType DEF ClientInv
    <3>3. QED
      BY <1>6, <3>1, <3>2, SavedIs
  <2>3. CASE i \notin faults /\ i \notin NpcWriters
    BY <1>1, <1>5, <2>3
  <2>4. QED
    BY <2>1, <2>2, <2>3
<1>9. ASSUME NEW i \in mine PROVE Found(i) = v
  <2>1. i \in NpcWriters /\ slots[i].inner = e /\ ~(PlayerWrites /\ handle = e)
    OBVIOUS
  <2>2. {j \in NpcWriters : j < i /\ slots[j].inner = slots[i].inner} = {}
    <3>1. ASSUME NEW j \in NpcWriters, j < i, slots[j].inner = slots[i].inner PROVE FALSE
      <4>1. i \in Index /\ j \in Index /\ slots[j].inner # NULL
        BY <2>1, <3>1, WritersAre
      <4>2. i = j
        BY <3>1, <4>1 DEF OneSlotEach
      <4>3. QED
        BY <3>1, <4>1, <4>2, Bounds
    <3>2. QED
      BY <3>1
  <2>3. Found(i) = AfterPlayer[e]
    BY <2>1, <2>2 DEF Found
  <2>4. QED
    BY <1>2, <2>1, <2>3
<1>10. mem'[e] = v \/ (p_save_valid /\ handle = e)' \/ SavedBySlot(e)'
  <2>1. CASE mine # {}
    BY <1>7, <2>1 DEF SavedBySlot
  <2>2. CASE mine = {}
    BY <1>1, <1>2, <1>4, <2>2 DEF Render
  <2>3. QED
    BY <2>1, <2>2
<1>11. \A i \in Index : slots'[i].inner = e /\ slots'[i].save_valid => slots'[i].saved = v
  BY <1>7, <1>8, <1>9
<1>12. QED
  BY <1>1, <1>3, <1>10, <1>11 DEF Fence

LEMMA MenuFence ==
    ASSUME ClientInv, NEW e \in Entity, NEW v, Fence(e, v), Menu, n_on => n_on'
    PROVE  Fence(e, v)'
<1>1. pc = "menu" /\ pc' = "restore"
  BY DEF Menu
<1>2. CASE NoToggle \/ ToggleNpcs
  <2>1. UNCHANGED <<mem, handle, p_saved, p_save_valid, slots>>
    BY <1>2 DEF NoToggle, ToggleNpcs, playerVars, npcVars, ClientInv, TableInv
  <2>2. QED
    BY <1>1, <2>1 DEF Fence, SavedBySlot
<1>3. CASE TogglePlayer
  <2>1. UNCHANGED <<handle, slots>>
    BY <1>3 DEF TogglePlayer, npcVars
  <2>2. CASE p_on
    <3>1. p_save_valid' = FALSE /\ mem' = PlayerRestored(mem)
      BY <1>3, <2>2 DEF TogglePlayer
    <3>2. mem'[e] = IF p_save_valid /\ handle = e THEN p_saved ELSE mem[e]
      BY <3>1, EntityAssumption DEF PlayerRestored, ClientInv, MemType
    <3>3. QED
      BY <1>1, <2>1, <3>1, <3>2 DEF Fence, SavedBySlot
  <2>3. CASE ~p_on
    BY <1>1, <1>3, <2>1, <2>3 DEF TogglePlayer, Fence, SavedBySlot
  <2>4. QED
    BY <2>2, <2>3
<1>4. QED
  BY <1>2, <1>3 DEF Menu

-----------------------------------------------------------------------------
(* Buckets of their own give every entity one slot at most. *)

Spread == \A d, e \in Entity : Home[d] = Home[e] => d = e
AtHome(s) == \A i \in Index : s[i].inner # NULL => Home[s[i].inner] = i

LEMMA ProbeAtHome ==
    ASSUME Spread, NEW s \in [Index -> Slot], AtHome(s), NEW e \in Entity
    PROVE  \A i \in Probe(s, e) : i = Home[e]
<1> DEFINE At0(k) == (Home[e] + k) % NSlots
           hits == {k \in Index : s[At0(k)].inner \in {e, NULL}}
           first == CHOOSE k \in hits : \A j \in hits : k <= j
<1>1. Home[e] \in Index /\ 0 \in Index /\ At0(0) = Home[e]
  BY HomeAssumption, NumberAssumption DEF Index
<1>2. s[Home[e]].inner \in {e, NULL}
  BY <1>1 DEF Spread, AtHome, Slot
<1>3. 0 \in hits
  BY <1>1, <1>2
<1>4. hits \in SUBSET Nat
  BY NumberAssumption DEF Index
<1>5. first = 0
  <2> HIDE DEF hits
  <2>1. \A j \in hits : 0 <= j
    BY <1>4
  <2>2. first \in hits /\ \A j \in hits : first <= j
    BY <1>3, <2>1
  <2> HIDE DEF first
  <2>3. first \in Nat /\ first <= 0
    BY <1>3, <1>4, <2>2
  <2>4. QED
    BY <2>3
<1>6. Probe(s, e) = IF hits = {} THEN {} ELSE {At0(first)}
  BY DEF Probe
<1>7. QED
  <2> HIDE DEF hits, first
  <2>1. QED
    BY <1>1, <1>3, <1>5, <1>6

\* But for a capture, a slot is emptied or goes on with what it has seen.
Same(t, r) == t.inner = r.inner /\ t.prev = r.prev /\ t.curr = r.curr /\ t.seen = r.seen

LEMMA SlotKept ==
    ASSUME ClientInv, ClientStep, ~CaptureBoth
    PROVE  \A i \in Index : slots'[i].inner = NULL \/ Same(slots'[i], slots[i])
<1>1. \A i \in Index : slots[i] \in Slot
  BY DEF ClientInv, TableInv
<1>2. CASE Restore
  BY <1>1, <1>2, UnsavedIs, EmptyIs DEF Restore, PreSimRestore, Same
<1>3. CASE Render
  <2>1. PICK faults \in SUBSET MayFault(NpcWriters) :
          slots' = [i \in Index |->
                     IF i \in faults THEN EmptySlot
                     ELSE IF i \in NpcWriters THEN Saved(slots[i], Found(i))
                     ELSE slots[i]]
    BY <1>3 DEF Render, Saved
  <2>2. \A i \in NpcWriters : Same(Saved(slots[i], Found(i)), slots[i])
    BY <1>1, FrameType, SavedIs, WritersAre DEF ClientInv, Same
  <2>3. QED
    BY <2>1, <2>2, EmptyIs DEF Same
<1>4. CASE Menu
  BY <1>4, EmptyIs DEF Menu, NoToggle, TogglePlayer, ToggleNpcs, TableAfterOff, npcVars, Same
<1>5. CASE Gate \/ (\E still : Tick(still))
           \/ UNCHANGED <<session, pc, tick, throttling, list, player, playerVars, npcVars>>
  BY <1>5 DEF Gate, Tick, npcVars, Same
<1>6. QED
  BY <1>2, <1>3, <1>4, <1>5 DEF ClientStep

LEMMA AtHomeStep == ASSUME Spread, ClientInv, AtHome(slots), ClientStep PROVE AtHome(slots')
<1>1. CASE CaptureBoth
  <2>1. PICK jumped \in {{}, Entity} : CaptureNpcs(jumped)
    BY <1>1 DEF CaptureBoth
  <2>2. CASE ~n_on
    BY <2>1, <2>2 DEF CaptureNpcs, AtHome
  <2>3. CASE n_on
    <3> DEFINE A == {s \in [Index -> Slot] : AtHome(s)}
               Q == [k \in Nat |-> A]
               t == TableAfter(handle', jumped)
    <3>1. /\ slots \in [Index -> Slot] /\ n_tick + 1 \in Nat /\ mem \in [Entity -> Pose]
          /\ Len(list) \in Nat /\ \A k \in 1 .. Len(list) : list[k] \in Entity
      BY DEF ClientInv, TableInv, MemType, ListInv
    <3>2. ASSUME NEW s \in A, NEW e \in Entity PROVE Captured(s, e, n_tick + 1, jumped) \in A
      <4> DEFINE c == Captured(s, e, n_tick + 1, jumped)
      <4>1. /\ c \in [Index -> Slot] /\ \A i \in Index \ Probe(s, e) : c[i] = s[i]
            /\ \A i \in Probe(s, e) : c[i].inner = e
        BY <3>1, CapturedIs
      <4>2. \A i \in Probe(s, e) : i = Home[e]
        BY ProbeAtHome
      <4> HIDE DEF c
      <4>3. AtHome(c)
        BY <4>1, <4>2 DEF AtHome
      <4>4. QED
        BY <4>1, <4>3 DEF c
    <3>3. slots \in Q[0] /\ \A k \in 1 .. Len(list) : Q[k - 1] = A /\ Q[k] = A
      BY <3>1
    <3>4. \A k \in 1 .. Len(list) : \A s \in Q[k - 1] :
            IF list[k] = handle' THEN s \in Q[k]
            ELSE Captured(s, list[k], n_tick + 1, jumped) \in Q[k]
      <4> HIDE DEF A, Q
      <4>1. QED
        BY <3>1, <3>2, <3>3
    <3>5. t \in Q[Len(list)]
      <4> HIDE DEF Q
      <4>1. QED
        BY <3>1, <3>3, <3>4, WalkInduction
    <3>6. t \in [Index -> Slot] /\ AtHome(t)
      BY <3>1, <3>5
    <3> HIDE DEF t
    <3>7. slots' = Aged(t, n_tick + 1)
      BY <2>1, <2>3 DEF CaptureNpcs, t
    <3>8. \A i \in Index : slots'[i].inner = NULL \/ slots'[i] = t[i]
      BY <3>1, <3>6, <3>7, AgedIs, EmptyIs
    <3>9. QED
      BY <3>6, <3>8 DEF AtHome
  <2>4. QED
    BY <2>2, <2>3 DEF ClientInv, TableInv
<1>2. CASE ~CaptureBoth
  BY <1>2, SlotKept DEF AtHome, Same
<1>3. QED
  BY <1>1, <1>2

LEMMA AtHomeIsOne == AtHome(slots) => OneSlotEach
BY DEF AtHome, OneSlotEach

LEMMA AtHomeInit == Init => AtHome(slots)
BY EmptyIs DEF Init, AtHome

LEMMA SpreadOne == ASSUME Spread PROVE Spec => []OneSlotEach
<1>1. Init => ClientInv /\ WhoInv /\ AtHome(slots)
  BY ClientInit, WhoInit, AtHomeInit
<1>2. ClientInv /\ WhoInv /\ AtHome(slots) /\ [Next]_vars => (ClientInv /\ WhoInv /\ AtHome(slots))'
  BY PlainStep, AtHomeStep, NextIsClientStep
<1>3. QED
  BY <1>1, <1>2, AtHomeIsOne, PTL DEF Spec

-----------------------------------------------------------------------------
(* The hold. *)

Put == <<target, target>>
SpotInv == target \in Int /\ spots \in Nat
HoldFence == Holds /\ served /\ ~unfenced => Fence(player, Put)
HoldInv == ClientInv /\ WhoInv /\ ModelType /\ ViewInv /\ SpotInv /\ HoldFence

LEMMA HoldClientStep ==
    ASSUME HoldInv, [HoldNext]_allVars
    PROVE  (ClientInv /\ WhoInv /\ ModelType /\ ViewInv /\ SpotInv)'
<1> USE DEF HoldInv
<1>1. ClientStep
  BY HoldIsClientStep
<1>2. player # NULL => player \in Entity
  BY DEF ClientInv, PlayerInv, Session
<1>3. ASSUME NEW stamp \in Int PROVE PlayerPut(mem, stamp) \in [Entity -> Pose]
  BY <1>2, <1>3 DEF PlayerPut, ClientInv, MemType, Pose
<1>4. SpotInv'
  <2>1. CASE CameraTick
    BY <2>1 DEF CameraTick, TeleportTo, Spot, SpotInv
  <2>2. CASE ~CameraTick
    BY <2>2 DEF HoldNext, HoldRestore, HoldGate, HoldSim, HoldCapture, HoldRender, HoldMenu,
                holdVars, allVars, SpotInv
  <2>3. QED
    BY <2>1, <2>2
<1>5. CaptureBoth \/ UNCHANGED <<session, pc, tick, throttling, list, player, playerVars, npcVars>>
        => MemType'
  <2>1. CASE CameraTick
    <3>1. mem' = mem \/ mem' = PlayerPut(mem, Spot(spots'))
      BY <2>1 DEF CameraTick, TeleportTo
    <3>2. Spot(spots') \in Int
      BY <1>4 DEF Spot, SpotInv
    <3>3. QED
      BY <1>3, <3>1, <3>2 DEF ClientInv, MemType
  <2>2. CASE HoldCapture
    BY <1>3, <2>2 DEF HoldCapture, OnPostSim, SpotInv, ClientInv, MemType
  <2>3. CASE UNCHANGED allVars
    BY <2>3 DEF allVars, vars, engineVars, ClientInv, MemType
  <2>4. CASE HoldRestore \/ HoldGate \/ HoldSim \/ HoldRender \/ HoldMenu
    BY <2>4 DEF HoldRestore, Restore, HoldGate, Gate, HoldSim, Tick, HoldRender, Render, HoldMenu, Menu,
                CaptureBoth
  <2>5. QED
    BY <2>1, <2>2, <2>3, <2>4 DEF HoldNext
<1>6. QED
  BY <1>1, <1>4, <1>5, ClientInvStep, WhoStep, ViewStep DEF ClientInv

LEMMA HoldFenceStep == ASSUME HoldInv, OneSlotEach, [HoldNext]_allVars PROVE HoldFence'
<1> USE DEF HoldInv
<1> SUFFICES ASSUME Holds', served', ~unfenced' PROVE Fence(player, Put)'
  BY DEF HoldFence
<1>0. /\ who # NULL => who = player
      /\ player # NULL => player \in Entity /\ player \in Listed
  BY DEF ViewInv, ClientInv, PlayerInv, Session, ListInv
<1>1. ASSUME Holds, served, ~unfenced PROVE Fence(player, Put) /\ player \in Entity /\ player \in Listed
  BY <1>0, <1>1 DEF HoldFence, Holds
<1>2. CASE HoldRestore
  <2>1. Restore /\ UNCHANGED <<player, hold, who, served, unfenced, target>>
    BY <1>2 DEF HoldRestore, Restore, holdVars
  <2>2. Fence(player, Put) /\ player \in Entity
    BY <1>1, <2>1 DEF Holds
  <2> DEFINE e == player
             v == Put
  <2>3. e' = e /\ v' = v
    BY <2>1 DEF Put
  <2> HIDE DEF e, v
  <2>4. Fence(e, v) /\ e \in Entity
    BY <2>2 DEF e, v
  <2>5. QED
    BY <2>1, RestoreFence, <2>2, <2>3, <2>4 DEF Fence, SavedBySlot, e, v
<1>3. CASE HoldGate \/ UNCHANGED allVars
  <2>1. /\ UNCHANGED <<mem, handle, p_saved, p_save_valid, slots, player, hold, who, served, unfenced, target>>
        /\ pc' = pc \/ (pc = "gate" /\ pc' \in {"sim", "render"})
    BY <1>3 DEF HoldGate, Gate, holdVars, allVars, vars, engineVars, playerVars, npcVars
  <2>2. Fence(player, Put)
    BY <1>1, <2>1 DEF Holds
  <2>3. QED
    BY <2>1, <2>2 DEF Fence, SavedBySlot, Put
<1>4. CASE HoldSim
  <2>1. /\ pc = "sim" /\ pc' = "capture" /\ player' = player
        /\ UNCHANGED <<hold, who, served, unfenced, target>>
    BY <1>4 DEF HoldSim, Tick, Holds
  <2>2. Fence(player, Put) /\ player \in Listed /\ player \in Entity
    BY <1>1, <2>1 DEF Holds
  <2>3. player \in PassedOver
    BY <2>1, <2>2 DEF PassedOver, Holds
  <2>4. mem'[player] = mem[player]
    BY <1>4, <2>2, <2>3 DEF HoldSim, Tick
  <2>5. QED
    BY <2>1, <2>2, <2>4 DEF Fence, Put
<1>5. CASE HoldCapture
  <2>1. pc' = "render" /\ UNCHANGED <<player, who, target>>
    BY <1>5 DEF HoldCapture, CaptureBoth
  <2>2. hold # 0
    <3>1. hold = 0 => hold' = 0
      BY <1>5 DEF HoldCapture, OnPostSim
    <3>2. hold' > 0
      BY DEF Holds
    <3>3. QED
      BY <3>1, <3>2
  <2>3. mem' = PlayerPut(mem, target) /\ player \in Entity
    BY <1>0, <1>5, <2>1, <2>2, EntityAssumption DEF HoldCapture, OnPostSim, Holds
  <2>4. mem'[player] = Put
    BY <2>3, EntityAssumption DEF PlayerPut, Put, ClientInv, MemType
  <2>5. QED
    BY <2>1, <2>4 DEF Fence, Put
<1>6. CASE HoldRender
  <2>1. Render /\ ~BothWrite /\ UNCHANGED <<player, hold, who, served, target>> /\ ~unfenced
    BY <1>6 DEF HoldRender, Render
  <2>2. Fence(player, Put) /\ player \in Listed
    BY <1>1, <2>1 DEF Holds
  <2>3. ~(PlayerWrites /\ handle = player /\ \E i \in NpcWriters : slots[i].inner = player)
    BY <2>1 DEF BothWrite
  <2> DEFINE e == player
             v == Put
  <2>4. e' = e /\ v' = v
    BY <2>1 DEF Put
  <2> HIDE DEF e, v
  <2>5. Fence(e, v) /\ e \in Listed /\ ~(PlayerWrites /\ handle = e /\ \E i \in NpcWriters : slots[i].inner = e)
    BY <2>2, <2>3 DEF e, v
  <2>6. QED
    BY <2>1, <2>4, <2>5, RenderFence DEF Fence, SavedBySlot, e, v
<1>7. CASE CameraTick
  <2>1. /\ UNCHANGED <<mem, hold, target, who, served>>
        /\ UNCHANGED <<pc, player, playerVars, npcVars, unfenced>>
    BY <1>0, <1>7 DEF CameraTick, TeleportTo, Holds
  <2>2. QED
    BY <1>1, <2>1 DEF Holds, playerVars, npcVars, Fence, SavedBySlot, Put
<1>8. CASE HoldMenu
  <2>1. Menu /\ UNCHANGED <<player, who, served, target>> /\ ~unfenced /\ (n_on => n_on')
    BY <1>8 DEF HoldMenu, Menu, ClientInv, TableInv
  <2>2. Holds
    BY <1>8, <2>1 DEF HoldMenu, HoldControls, Holds
  <2>3. Fence(player, Put) /\ player \in Entity
    BY <1>1, <2>1, <2>2
  <2> DEFINE e == player
             v == Put
  <2>4. e' = e /\ v' = v
    BY <2>1 DEF Put
  <2> HIDE DEF e, v
  <2>5. Fence(e, v) /\ e \in Entity
    BY <2>3 DEF e, v
  <2>6. QED
    BY <2>1, <2>4, <2>5, MenuFence DEF Fence, SavedBySlot, e, v
<1>9. QED
  BY <1>2, <1>3, <1>4, <1>5, <1>6, <1>7, <1>8 DEF HoldNext

(* As long as no entity has two slots, the simulation finds the teleported   *)
(* player where he was put, whatever the two clients wrote over him for the  *)
(* frames in between.                                                        *)
THEOREM ReachesSim == HoldSpec /\ []OneSlotEach => []HoldReachesSim
<1>1. HoldInit => HoldInv
  BY ClientInit, WhoInit, ViewInit DEF HoldInit, HoldInv, ModelType, SpotInv, HoldFence, Holds
<1>2. HoldInv /\ OneSlotEach /\ [HoldNext]_allVars => HoldInv'
  BY HoldClientStep, HoldFenceStep DEF HoldInv
<1>3. HoldInv => HoldReachesSim
  BY DEF HoldInv, HoldFence, HoldReachesSim, Fence, Put
<1>4. QED
  BY <1>1, <1>2, <1>3, PTL DEF HoldSpec

(* When every entity has a bucket of its own, none ever has two.             *)
COROLLARY ReachesSimSpread == ASSUME Spread PROVE HoldSpec => []HoldReachesSim
<1>1. HoldInit => HoldInv /\ AtHome(slots)
  BY ClientInit, WhoInit, ViewInit, AtHomeInit
     DEF HoldInit, HoldInv, ModelType, SpotInv, HoldFence, Holds
<1>2. HoldInv /\ AtHome(slots) /\ [HoldNext]_allVars => (HoldInv /\ AtHome(slots))'
  BY HoldClientStep, HoldFenceStep, AtHomeStep, AtHomeIsOne, HoldIsClientStep DEF HoldInv
<1>3. HoldInv => HoldReachesSim
  BY DEF HoldInv, HoldFence, HoldReachesSim, Fence, Put
<1>4. QED
  BY <1>1, <1>2, <1>3, PTL DEF HoldSpec

-----------------------------------------------------------------------------
(* The fence around every entity of the list. *)

Calm == ~session.toggles /\ OnePlayer
FenceReal(e) == Fence(e, real[e])
CleanInv ==
    Calm => /\ p_on /\ n_on
            /\ \A i \in Index : slots[i].inner \notin session.players
            /\ \A e \in Listed : FenceReal(e)

\* The walk passes over the player, since the handle has just been refreshed.
LEMMA HandleIsPlayer ==
    ASSUME ClientInv, OnePlayer, p_on, NEW jumped, CapturePlayer(jumped), player \in Listed
    PROVE  handle' = player
<1>1. PICK force \in BOOLEAN :
        LET look == LooksUp(force)
            h == IF look THEN player ELSE handle
        IN  \/ h = NULL /\ handle' = h
            \/ h \notin Listed \cup {NULL} /\ handle' = NULL
            \/ h # NULL /\ handle' = h
  BY DEF CapturePlayer
<1>2. handle = NULL => LooksUp(force)
  BY DEF LooksUp
<1>3. player \in Entity /\ player # NULL
  BY ToSetIs, EntityAssumption DEF Listed, ClientInv, ListInv
<1>4. handle # NULL => handle = player
  BY <1>3 DEF ClientInv, PlayerInv, OnePlayer
<1>5. QED
  BY <1>1, <1>2, <1>3, <1>4

LEMMA NoPlayersSlot ==
    ASSUME ClientInv, CleanInv, Calm, CaptureBoth, UNCHANGED <<list, player>>
    PROVE  \A i \in Index : slots'[i].inner \notin session.players
<1>1. PICK jumped \in {{}, Entity} : CapturePlayer(jumped) /\ CaptureNpcs(jumped)
  BY DEF CaptureBoth
<1>2. p_on /\ n_on /\ \A i \in Index : slots[i].inner \notin session.players
  BY DEF CleanInv
<1> DEFINE R == {r \in Slot : r.inner \notin session.players}
           t == TableAfter(handle', jumped)
<1>3. NULL \notin session.players /\ Listed \cap session.players \subseteq {player}
  BY DEF ClientInv, PlayerInv, ListInv
<1>4. R \in SUBSET Slot /\ EmptySlot \in R /\ slots \in [Index -> R]
  BY <1>2, <1>3, EmptyIsSlot, EmptyIs DEF ClientInv, TableInv
<1>5. \A e \in Listed \ {handle'} : e \notin session.players
  BY <1>1, <1>2, <1>3, HandleIsPlayer DEF Calm
<1>6. \A e \in Listed \ {handle'} : Visits(e, R, R)
  BY <1>5 DEF Visits, Visit
<1>7. t \in [Index -> R]
  <2> HIDE DEF R
  <2>1. QED
    BY <1>4, <1>6, WalkProps DEF ClientInv, ListInv, MemType, TableInv
<1> HIDE DEF t
<1>8. slots' = Aged(t, n_tick + 1)
  BY <1>1, <1>2 DEF CaptureNpcs, t
<1>9. t \in [Index -> Slot] /\ n_tick + 1 \in Nat
  BY <1>7 DEF ClientInv, TableInv
<1>10. \A i \in Index : slots'[i] \in R
  BY <1>4, <1>7, <1>8, <1>9, AgedIs
<1>11. QED
  BY <1>10

LEMMA CleanStep == ASSUME ClientInv, CleanInv, OneSlotEach, [Next]_vars PROVE CleanInv'
<1> SUFFICES ASSUME Calm PROVE /\ p_on' /\ n_on'
                               /\ \A i \in Index : slots'[i].inner \notin session.players
                               /\ \A e \in Listed' : FenceReal(e)'
  <2>1. session' = session
    BY DEF Next, Restore, Gate, Sim, Tick, Capture, CaptureBoth, Render, Menu, vars
  <2>2. QED
    BY <2>1 DEF CleanInv, Calm, OnePlayer
<1>1. /\ p_on /\ n_on /\ \A i \in Index : slots[i].inner \notin session.players
      /\ \A e \in Listed : FenceReal(e)
  BY DEF CleanInv
<1>2. NULL \notin session.players /\ \A e \in Listed : e \in Entity
  BY ToSetIs DEF ClientInv, PlayerInv, ListInv, Listed
<1>3. p_on' /\ n_on'
  BY <1>1 DEF Next, Restore, Gate, Sim, Tick, Capture, CaptureBoth, Render, Menu, NoToggle, TogglePlayer,
              ToggleNpcs, vars, playerVars, npcVars, Calm
<1>4. \A i \in Index : slots'[i].inner \notin session.players
  <2>1. CASE CaptureBoth /\ UNCHANGED <<list, player>>
    BY <2>1, NoPlayersSlot
  <2>2. CASE ~(CaptureBoth /\ UNCHANGED <<list, player>>)
    <3>1. CASE ~CaptureBoth
      BY <1>1, <1>2, <3>1, NextIsClientStep, SlotKept DEF Same
    <3>2. CASE CaptureBoth
      <4>1. pc = "capture" /\ pc' = "render"
        BY <3>2 DEF CaptureBoth
      <4>2. Capture
        BY <4>1 DEF Next, Restore, Gate, Sim, Tick, Render, Menu, vars
      <4>3. QED
        BY <2>2, <4>2 DEF Capture, engineVars
    <3>3. QED
      BY <3>1, <3>2
  <2>3. QED
    BY <2>1, <2>2
<1>5. UNCHANGED list => Listed' = Listed
  BY ToSetIs DEF Listed
<1>6. CASE Restore
  <2>1. ASSUME NEW e \in Listed, FenceReal(e) PROVE FenceReal(e)'
    <3> DEFINE v == real[e]
    <3>1. v' = v
      BY <1>6 DEF Restore
    <3> HIDE DEF v
    <3>2. Fence(e, v)
      BY <2>1 DEF v, FenceReal
    <3>3. QED
      BY <1>2, <1>6, <3>1, <3>2, RestoreFence DEF Fence, SavedBySlot, v, FenceReal
  <2>2. QED
    BY <1>3, <1>4, <1>1, <1>5, <1>6, <2>1 DEF Restore
<1>7. CASE Gate \/ UNCHANGED vars
  <2>1. /\ UNCHANGED <<mem, real, list, handle, p_saved, p_save_valid, slots>>
        /\ pc' = pc \/ (pc = "gate" /\ pc' \in {"sim", "render"})
    BY <1>7 DEF Gate, vars, engineVars, playerVars, npcVars
  <2>2. ASSUME NEW e \in Listed PROVE FenceReal(e)'
    <3>1. Fence(e, real[e])
      BY <1>1 DEF FenceReal
    <3>2. QED
      BY <2>1, <3>1 DEF FenceReal, Fence, SavedBySlot
  <2>3. QED
    BY <1>3, <1>4, <1>5, <2>1, <2>2
<1>8. CASE Sim
  <2>1. /\ pc' = "capture"
        /\ \A e \in Entity : e \in ToSet(list') => mem'[e] = real'[e]
    BY <1>8 DEF Sim, Tick
  <2>2. \A e \in Listed' : e \in Entity /\ e \in ToSet(list')
    <3>1. ListInv'
      BY <1>8, ListStep DEF Sim, Tick, ClientInv
    <3>2. QED
      BY <3>1, ToSetIs DEF ListInv, Listed
  <2>3. QED
    BY <1>3, <1>4, <2>1, <2>2 DEF FenceReal, Fence
<1>9. CASE Capture
  <2>1. pc = "capture" /\ pc' = "render" /\ UNCHANGED <<list, mem, real>>
    BY <1>9 DEF Capture, CaptureBoth, engineVars
  <2>2. ASSUME NEW e \in Listed PROVE FenceReal(e)'
    <3>1. Fence(e, real[e])
      BY <1>1 DEF FenceReal
    <3>2. QED
      BY <2>1, <3>1 DEF FenceReal, Fence
  <2>3. QED
    BY <1>3, <1>4, <1>5, <2>1, <2>2
<1>10. CASE Render
  <2>1. PlayerWrites => handle \in session.players
    BY DEF PlayerWrites, ClientInv, PlayerInv
  <2>2. ASSUME NEW e \in Listed, FenceReal(e) PROVE FenceReal(e)'
    <3>1. ~(PlayerWrites /\ handle = e /\ \E i \in NpcWriters : slots[i].inner = e)
      BY <1>1, <2>1, WritersAre
    <3> DEFINE v == real[e]
    <3>2. v' = v
      BY <1>10 DEF Render
    <3> HIDE DEF v
    <3>3. Fence(e, v)
      BY <2>2 DEF v, FenceReal
    <3>4. /\ pc' \in {"gate", "sim", "capture", "render"} => mem'[e] = v
          /\ pc' \in {"menu", "restore"} =>
               /\ p_save_valid' /\ handle' = e => p_saved' = v
               /\ \A i \in Index : slots'[i].inner = e /\ slots'[i].save_valid => slots'[i].saved = v
               /\ mem'[e] = v \/ (p_save_valid' /\ handle' = e) \/ SavedBySlot(e)'
      BY <1>10, <3>1, <3>3, RenderFence DEF Fence
    <3>5. Fence(e, v)'
      BY <3>2, <3>4 DEF Fence
    <3>6. QED
      BY <3>2, <3>5 DEF v, FenceReal
  <2>3. QED
    BY <1>3, <1>4, <1>1, <1>5, <1>10, <2>2 DEF Render
<1>11. CASE Menu
  <2>1. ASSUME NEW e \in Listed, FenceReal(e) PROVE FenceReal(e)'
    <3> DEFINE v == real[e]
    <3>1. v' = v
      BY <1>11 DEF Menu
    <3> HIDE DEF v
    <3>2. Fence(e, v)
      BY <2>1 DEF v, FenceReal
    <3>3. QED
      BY <1>2, <1>3, <1>11, <3>1, <3>2, MenuFence DEF Fence, SavedBySlot, v, FenceReal
  <2>2. QED
    BY <1>3, <1>4, <1>1, <1>5, <1>11, <2>1 DEF Menu
<1>12. QED
  BY <1>3, <1>4, <1>6, <1>7, <1>8, <1>9, <1>10, <1>11 DEF Next

LEMMA CleanAtFirst == Init => ClientInv /\ WhoInv /\ CleanInv
<1> SUFFICES ASSUME Init PROVE CleanInv
  BY ClientInit, WhoInit
<1>1. Listed = {} /\ \A i \in Index : slots[i] = EmptySlot
  BY ToSetIs DEF Init, Listed
<1>2. NULL \notin session.players
  BY WhoInit DEF PlayerInv
<1>3. QED
  BY <1>1, <1>2, EmptyIs DEF Init, CleanInv

(* The fence: as long as the check boxes are left alone, no other entity     *)
(* takes the player's part and no entity has two slots, a simulation tick    *)
(* finds every entity in the pose the previous tick left it in.              *)
THEOREM ReadsClean == Spec /\ []OneSlotEach => []SimReadsClean
<1>1. Init => ClientInv /\ WhoInv /\ CleanInv
  BY CleanAtFirst
<1>2. ClientInv /\ WhoInv /\ CleanInv /\ OneSlotEach /\ [Next]_vars => (ClientInv /\ WhoInv /\ CleanInv)'
  BY PlainStep, CleanStep
<1>3. CleanInv => SimReadsClean
  BY DEF CleanInv, Calm, SimReadsClean, FenceReal, Fence
<1>4. QED
  BY <1>1, <1>2, <1>3, PTL DEF Spec

\* Until the first teleport there is no hold, and whatever happens is a step of
\* the two clients alone.
NoHoldYet == spots \in Nat /\ (spots = 0 => hold = 0)

LEMMA NoHoldStep ==
    ASSUME NoHoldYet, [HoldNext]_allVars
    PROVE  NoHoldYet' /\ (spots' = 0 => spots = 0 /\ [Next]_vars)
<1> USE DEF NoHoldYet
<1>1. CASE HoldSim
  <2>1. spots = 0 => PassedOver = {}
    BY DEF PassedOver
  <2>2. spots = 0 => Sim
    BY <1>1, <2>1 DEF HoldSim, Sim
  <2>3. QED
    BY <1>1, <2>2 DEF HoldSim, Next
<1>2. CASE HoldCapture
  <2>1. spots' = spots /\ (spots = 0 => hold' = 0 /\ Capture)
    BY <1>2 DEF HoldCapture, OnPostSim, Capture, engineVars
  <2>2. QED
    BY <2>1 DEF Next
<1>3. CASE CameraTick
  <2>1. UNCHANGED <<session, pc, tick, throttling, list, player, real, playerVars, npcVars>>
    BY <1>3 DEF CameraTick
  <2>2. \/ UNCHANGED <<mem, hold, spots>>
        \/ spots' = spots + 1
    BY <1>3 DEF CameraTick
  <2>3. QED
    BY <2>1, <2>2 DEF vars, engineVars
<1>4. CASE HoldMenu
  <2>1. spots' = spots /\ (hold' = hold \/ hold' = 0 \/ hold > 0) /\ Menu
    BY <1>4 DEF HoldMenu, HoldControls
  <2>2. spots = 0 => hold' = 0
    BY <1>4 DEF HoldMenu, HoldControls
  <2>3. QED
    BY <2>1, <2>2 DEF Next
<1>5. CASE HoldRestore \/ HoldGate \/ HoldRender
  BY <1>5 DEF HoldRestore, HoldGate, HoldRender, holdVars, Next
<1>6. CASE UNCHANGED allVars
  BY <1>6 DEF allVars, vars, holdVars
<1>7. QED
  BY <1>1, <1>2, <1>3, <1>4, <1>5, <1>6 DEF HoldNext

(* The fence under the free camera: its switches and slider, its frames and  *)
(* ticks leave the clients' promise alone until it teleports somebody.       *)
THEOREM StandsUntilTeleport == HoldSpec /\ []OneSlotEach => []FenceStands
<1> DEFINE StillClean == spots = 0 => ClientInv /\ WhoInv /\ CleanInv
<1>1. HoldInit => NoHoldYet /\ StillClean
  BY CleanAtFirst DEF HoldInit, NoHoldYet
<1>2. NoHoldYet /\ StillClean /\ OneSlotEach /\ [HoldNext]_allVars => (NoHoldYet /\ StillClean)'
  <2> SUFFICES ASSUME NoHoldYet, StillClean, OneSlotEach, [HoldNext]_allVars
               PROVE  (NoHoldYet /\ StillClean)'
    OBVIOUS
  <2>1. NoHoldYet' /\ (spots' = 0 => spots = 0 /\ [Next]_vars)
    BY NoHoldStep
  <2>2. ASSUME spots = 0, [Next]_vars PROVE (ClientInv /\ WhoInv /\ CleanInv)'
    BY <2>2, PlainStep, CleanStep
  <2>3. QED
    BY <2>1, <2>2
<1>3. StillClean => FenceStands
  BY DEF CleanInv, Calm, SimReadsClean, FenceStands, FenceReal, Fence
<1>4. QED
  BY <1>1, <1>2, <1>3, PTL DEF HoldSpec

-----------------------------------------------------------------------------
(* What the picture shows of everybody but the players. *)

Recent(stamp) == tick - stamp <= AgeOut + 1
Npcs == Listed \ session.players

\* The simulation ticks of which the NPC client has not counted a capture: a
\* slot last captured at its count c holds the pose of tick c + Lag.
Lag == IF pc = "capture" THEN tick - 1 - n_tick ELSE tick - n_tick

SlotTimes(r) == r.inner # NULL => /\ r.curr = <<r.seen + Lag, r.seen + Lag>>
                                  /\ r.seen <= n_tick /\ n_tick - r.seen <= AgeOut
FreshSlot(r) == r.curr = <<tick, tick>> /\ (r.prev = NoPose \/ Recent(r.prev[1]))
Shown(p) == p[2] = tick /\ Recent(p[1])

RecentInv ==
    /\ Lag >= 0
    /\ \A e \in Listed : real[e] = <<tick, tick>> /\ (pc = "capture" => mem[e] = <<tick, tick>>)
    /\ \A e \in Npcs : Shown(mem[e])
    /\ \A i \in Index : /\ SlotTimes(slots[i])
                        /\ slots[i].inner \in Npcs /\ slots[i].save_valid => Shown(slots[i].saved)
                        /\ pc # "capture" /\ slots[i].inner \in Npcs => FreshSlot(slots[i])

\* A visit of the walk makes a slot as fresh as its entity.
NewSlot(r) == r.seen = n_tick + 1 /\ FreshSlot(r)

LEMMA WalkIsFresh ==
    ASSUME ClientInv, RecentInv, pc = "capture", NEW h, NEW jumped
    PROVE  LET t == TableAfter(h, jumped)
               F == {r \in Slot : NewSlot(r)}
           IN  /\ t \in [Index -> {r \in Slot : SlotTimes(r) \/ NewSlot(r)}]
               /\ \A e \in Listed \ {h} : HasOnly(t, e, F)
<1> DEFINE R == {r \in Slot : SlotTimes(r) \/ NewSlot(r)}
           F == {r \in Slot : NewSlot(r)}
<1>1. tick \in Nat /\ n_tick \in Nat /\ AgeOut \in Nat /\ Lag = tick - 1 - n_tick /\ Lag >= 0
  BY NumberAssumption DEF ClientInv, TableInv, Lag, RecentInv
<1>2. ASSUME NEW e \in Listed, NEW r \in R, NEW t \in Slot, r.inner = e \/ r = EmptySlot, Visit(t, r, e)
      PROVE  NewSlot(t)
  <2>1. t.seen = n_tick + 1 /\ t.curr = <<tick, tick>>
    BY <1>2 DEF Visit, RecentInv
  <2>2. t.prev = NoPose \/ Recent(t.prev[1])
    <3>1. CASE r = EmptySlot
      BY <1>2, <3>1 DEF Visit, EmptySlot
    <3>2. CASE r.inner = e
      <4>1. e # NULL
        BY ToSetIs, EntityAssumption DEF Listed, ClientInv, ListInv
      <4>2. CASE NewSlot(r)
        <5>1. r.curr = <<tick, tick>> /\ r.curr # NoPose
          BY <1>1, <4>2 DEF NewSlot, FreshSlot, NoPose
        <5>2. t.prev = <<tick, tick>>
          BY <1>2, <5>1 DEF Visit
        <5>3. QED
          BY <1>1, <5>2 DEF Recent
      <4>3. CASE SlotTimes(r)
        <5> DEFINE c == r.seen + Lag
        <5>1. r.seen \in Nat /\ r.curr = <<c, c>> /\ n_tick - r.seen <= AgeOut
          BY <3>2, <4>1, <4>3 DEF SlotTimes, Slot
        <5>2. c \in Nat /\ tick - c <= AgeOut + 1
          BY <1>1, <5>1
        <5>3. r.curr # NoPose
          BY <5>1, <5>2 DEF NoPose
        <5>4. t.prev = <<c, c>>
          BY <1>2, <5>1, <5>3 DEF Visit
        <5>5. QED
          BY <5>2, <5>4 DEF Recent
      <4>4. QED
        BY <4>2, <4>3
    <3>3. QED
      BY <1>2, <3>1, <3>2
  <2>3. QED
    BY <2>1, <2>2 DEF NewSlot, FreshSlot
<1>3. R \in SUBSET Slot /\ F \in SUBSET R /\ EmptySlot \in R /\ slots \in [Index -> R]
  BY EmptyIsSlot, EmptyIs DEF ClientInv, TableInv, RecentInv, SlotTimes
<1>4. \A e \in Listed \ {h} : Visits(e, R, F)
  BY <1>2 DEF Visits
<1>5. /\ TableAfter(h, jumped) \in [Index -> R]
      /\ \A e \in Listed \ {h} : HasOnly(TableAfter(h, jumped), e, F)
  <2> HIDE DEF R, F
  <2>1. QED
    BY <1>1, <1>3, <1>4, WalkProps DEF ClientInv, ListInv, MemType
<1>6. QED
  BY <1>5

LEMMA NpcsAre == ASSUME ClientInv, NEW e \in Npcs
                 PROVE  e \in Listed /\ e \in Entity /\ e # NULL /\ e # handle
BY ToSetIs, EntityAssumption DEF Npcs, Listed, ClientInv, ListInv, PlayerInv

LEMMA RecentKept ==
    ASSUME ClientInv, RecentInv, UNCHANGED <<session, list, real, tick, n_tick>>,
           pc # "capture", pc' # "capture",
           \A i \in Index : slots'[i].inner = NULL \/ Same(slots'[i], slots[i]),
           \A e \in Npcs : Shown(mem'[e]),
           \A i \in Index : slots'[i].inner \in Npcs /\ slots'[i].save_valid => Shown(slots'[i].saved)
    PROVE  RecentInv'
<1>1. Listed' = Listed /\ Npcs' = Npcs /\ Lag' = Lag
  BY ToSetIs DEF Listed, Npcs, Lag
<1>2. \A e \in Listed' : real'[e] = <<tick', tick'>>
  BY <1>1 DEF RecentInv
<1>3. \A e \in Npcs' : Shown(mem[e])'
  BY <1>1 DEF Shown, Recent
<1>4. ASSUME NEW i \in Index
      PROVE  /\ SlotTimes(slots[i])'
             /\ (slots[i].inner \in Npcs /\ slots[i].save_valid => Shown(slots[i].saved))'
             /\ (slots[i].inner \in Npcs => FreshSlot(slots[i]))'
  <2>1. SlotTimes(slots[i])'
    BY <1>1 DEF RecentInv, SlotTimes, Same
  <2>2. (slots[i].inner \in Npcs /\ slots[i].save_valid => Shown(slots[i].saved))'
    BY <1>1 DEF Shown, Recent
  <2>3. NULL \notin Npcs
    BY NpcsAre
  <2>4. (slots[i].inner \in Npcs => FreshSlot(slots[i]))'
    BY <1>1, <2>3 DEF RecentInv, FreshSlot, Recent, Same
  <2>5. QED
    BY <2>1, <2>2, <2>4
<1>5. QED
  BY <1>1, <1>2, <1>3, <1>4 DEF RecentInv

LEMMA RestoreRecent == ASSUME ClientInv, RecentInv, Restore PROVE RecentInv'
<1>1. pc = "restore" /\ pc' = "gate" /\ UNCHANGED <<session, list, real, tick, n_tick>>
  BY DEF Restore
<1>2. \A i \in Index : ~slots'[i].save_valid
  BY <1>1, RestoreTable DEF TableInv
<1>3. ASSUME NEW e \in Npcs PROVE Shown(mem'[e])
  <2> DEFINE mine == {i \in Pending : slots[i].inner = e}
             m == PlayerRestored(mem)
  <2>1. e \in Entity /\ e # NULL /\ e # handle
    BY NpcsAre
  <2>2. m[e] = mem[e] /\ Shown(mem[e])
    BY <2>1 DEF PlayerRestored, ClientInv, MemType, RecentInv
  <2>3. mine \in SUBSET Index /\ \A i \in mine : Shown(slots[i].saved)
    BY DEF Pending, RecentInv
  <2>4. mine # {} => LastOf(mine) \in mine
    <3> HIDE DEF mine
    <3>1. QED
      BY <2>3, LastOfIs
  <2>5. NpcsRestored(m)[e] = IF mine = {} THEN m[e] ELSE slots[LastOf(mine)].saved
    BY <2>1 DEF NpcsRestored
  <2>6. mem' = NpcsRestored(m) \/ mem' = m
    BY DEF Restore, PreSimRestore
  <2> HIDE DEF mine, m
  <2>7. QED
    BY <2>2, <2>3, <2>4, <2>5, <2>6
<1>4. ClientStep /\ ~CaptureBoth
  BY <1>1 DEF ClientStep, CaptureBoth
<1>5. QED
  BY <1>1, <1>2, <1>3, <1>4, SlotKept, RecentKept

LEMMA RenderRecent == ASSUME ClientInv, RecentInv, Render PROVE RecentInv'
<1>1. /\ pc = "render" /\ pc' = "menu" /\ UNCHANGED <<session, list, real, tick, n_tick>>
      /\ \A i \in Index : ~slots[i].save_valid /\ slots[i] \in Slot
  BY DEF Render, ClientInv, TableInv
<1>2. ASSUME NEW i \in NpcWriters, slots[i].inner \in Npcs PROVE Shown(SlotBlend(i))
  <2>1. i \in Index /\ slots[i].prev # NoPose /\ FreshSlot(slots[i])
    BY <1>1, <1>2, WritersAre DEF RecentInv
  <2>2. QED
    BY <2>1 DEF FreshSlot, SlotBlend, Blend, Shown
<1>3. ASSUME NEW e \in Npcs PROVE Shown(AfterPlayer[e])
  BY NpcsAre DEF AfterPlayer, RecentInv, ClientInv, MemType
<1>4. ASSUME NEW e \in Npcs PROVE Shown(mem'[e])
  <2> DEFINE mine == {i \in NpcWriters : slots[i].inner = e}
  <2>1. mine \in SUBSET Index /\ \A i \in mine : Shown(SlotBlend(i))
    BY <1>2, WritersAre
  <2>2. mine # {} => LastOf(mine) \in mine
    <3> HIDE DEF mine
    <3>1. QED
      BY <2>1, LastOfIs
  <2>3. mem'[e] = IF mine = {} THEN AfterPlayer[e] ELSE SlotBlend(LastOf(mine))
    BY NpcsAre DEF Render
  <2> HIDE DEF mine
  <2>4. QED
    BY <1>3, <2>1, <2>2, <2>3
<1>5. ASSUME NEW i \in NpcWriters, slots[i].inner \in Npcs PROVE Shown(Found(i))
  <2> DEFINE before == {j \in NpcWriters : j < i /\ slots[j].inner = slots[i].inner}
  <2>1. before \in SUBSET Index /\ \A j \in before : Shown(SlotBlend(j))
    BY <1>2, <1>5, WritersAre
  <2>2. before # {} => LastOf(before) \in before
    <3> HIDE DEF before
    <3>1. QED
      BY <2>1, LastOfIs
  <2>3. Found(i) = IF before = {} THEN AfterPlayer[slots[i].inner] ELSE SlotBlend(LastOf(before))
    BY DEF Found
  <2> HIDE DEF before
  <2>4. QED
    BY <1>3, <1>5, <2>1, <2>2, <2>3
<1>6. PICK faults \in SUBSET MayFault(NpcWriters) :
        slots' = [i \in Index |->
                   IF i \in faults THEN EmptySlot
                   ELSE IF i \in NpcWriters THEN Saved(slots[i], Found(i))
                   ELSE slots[i]]
  BY DEF Render, Saved
<1>7. ASSUME NEW i \in Index, slots'[i].inner \in Npcs, slots'[i].save_valid PROVE Shown(slots'[i].saved)
  <2>1. i \notin faults /\ i \in NpcWriters
    BY <1>1, <1>6, <1>7, EmptyIs
  <2>2. Found(i) \in Pose /\ slots'[i] = Saved(slots[i], Found(i))
    BY <1>6, <2>1, FrameType DEF ClientInv
  <2>3. slots'[i].saved = Found(i) /\ slots[i].inner \in Npcs
    BY <1>1, <1>7, <2>2, SavedIs
  <2>4. QED
    BY <1>5, <2>1, <2>3
<1>8. ClientStep /\ ~CaptureBoth
  BY <1>1 DEF ClientStep, CaptureBoth
<1>9. QED
  BY <1>1, <1>4, <1>7, <1>8, SlotKept, RecentKept

LEMMA MenuRecent == ASSUME ClientInv, RecentInv, Menu PROVE RecentInv'
<1>1. pc = "menu" /\ pc' = "restore" /\ UNCHANGED <<session, list, real, tick, n_tick>>
  BY DEF Menu, NoToggle, TogglePlayer, ToggleNpcs, npcVars
<1>2. ASSUME NEW e \in Npcs PROVE Shown(mem'[e])
  <2>1. mem' = mem \/ mem' = PlayerRestored(mem)
    BY DEF Menu, NoToggle, TogglePlayer, ToggleNpcs
  <2>2. QED
    BY <2>1, NpcsAre DEF PlayerRestored, ClientInv, MemType, RecentInv
<1>3. ClientStep /\ ~CaptureBoth
  BY <1>1 DEF ClientStep, CaptureBoth
<1>4. \A i \in Index : slots'[i] = slots[i] \/ slots'[i] = EmptySlot
  BY DEF Menu, NoToggle, TogglePlayer, ToggleNpcs, TableAfterOff, npcVars
<1>5. \A i \in Index : slots'[i].inner \in Npcs /\ slots'[i].save_valid => Shown(slots'[i].saved)
  BY <1>4, EmptyIs DEF RecentInv
<1>6. QED
  BY <1>1, <1>2, <1>3, <1>5, SlotKept, RecentKept

LEMMA TickRecent == ASSUME ClientInv, RecentInv, Sim PROVE RecentInv'
<1>1. /\ pc = "sim" /\ pc' = "capture" /\ tick' = tick + 1
      /\ UNCHANGED <<session, n_tick, slots>>
      /\ \A e \in Entity : e \in ToSet(list') => mem'[e] = <<tick', tick'>> /\ real'[e] = <<tick', tick'>>
  BY DEF Sim, Tick, npcVars
<1>2. tick \in Nat /\ n_tick \in Nat /\ AgeOut \in Nat
  BY NumberAssumption DEF ClientInv, TableInv
<1>3. Lag' = Lag
  BY <1>1, <1>2 DEF Lag
<1>4. \A e \in Listed' : e \in Entity /\ e \in ToSet(list')
  <2>1. ListInv'
    BY ListStep DEF Sim, Tick, ClientInv
  <2>2. QED
    BY <2>1, ToSetIs DEF ListInv, Listed
<1>5. \A e \in Listed' : real'[e] = <<tick', tick'>> /\ mem'[e] = <<tick', tick'>>
  BY <1>1, <1>4
<1>6. \A e \in Npcs' : Shown(mem[e])'
  BY <1>1, <1>2, <1>5 DEF Npcs, Shown, Recent
<1>7. ASSUME NEW i \in Index
      PROVE  SlotTimes(slots[i])' /\ ~slots'[i].save_valid
  BY <1>1, <1>3 DEF RecentInv, SlotTimes, ClientInv, TableInv
<1>8. QED
  BY <1>1, <1>3, <1>5, <1>6, <1>7 DEF RecentInv

LEMMA CaptureRecent == ASSUME ClientInv, RecentInv, OneSlotEach', Capture PROVE RecentInv'
<1>1. /\ pc = "capture" /\ pc' = "render" /\ UNCHANGED <<session, tick, list, player, mem, real, n_on>>
      /\ CaptureBoth
  BY DEF Capture, CaptureBoth, engineVars
<1>2. tick \in Nat /\ n_tick \in Nat /\ AgeOut \in Nat /\ Lag = tick - 1 - n_tick /\ Lag >= 0
  BY <1>1, NumberAssumption DEF ClientInv, TableInv, Lag, RecentInv
<1>3. TableInv'
  BY <1>1, CaptureTable
<1>4. Listed' = Listed /\ Npcs' = Npcs
  BY <1>1, ToSetIs DEF Listed, Npcs
<1>5. \A e \in Listed' : real'[e] = <<tick', tick'>>
  BY <1>1, <1>4 DEF RecentInv
<1>6. \A e \in Npcs' : Shown(mem[e])'
  BY <1>1, <1>4 DEF RecentInv, Shown, Recent
<1>7. \A i \in Index : ~slots'[i].save_valid
  BY <1>1, <1>3 DEF TableInv
<1>8. PICK jumped \in {{}, Entity} : CapturePlayer(jumped) /\ CaptureNpcs(jumped)
  BY <1>1 DEF CaptureBoth
<1>9. CASE ~n_on
  <2>1. n_tick' = n_tick /\ \A i \in Index : slots'[i] = EmptySlot
    BY <1>8, <1>9 DEF CaptureNpcs, ClientInv, TableInv
  <2>2. Lag' >= 0
    BY <1>1, <1>2, <2>1 DEF Lag
  <2>3. ASSUME NEW i \in Index PROVE SlotTimes(slots[i])' /\ slots'[i].inner \notin Npcs
    BY <2>1, EmptyIs, NpcsAre DEF SlotTimes
  <2>4. QED
    BY <1>1, <1>4, <1>5, <1>6, <1>7, <2>2, <2>3 DEF RecentInv
<1>10. CASE n_on
  <2> DEFINE t == TableAfter(handle', jumped)
             F == {r \in Slot : NewSlot(r)}
  <2>1. n_tick' = n_tick + 1 /\ slots' = Aged(t, n_tick + 1)
    BY <1>8, <1>10 DEF CaptureNpcs
  <2>2. /\ t \in [Index -> {r \in Slot : SlotTimes(r) \/ NewSlot(r)}]
        /\ \A e \in Listed \ {handle'} : HasOnly(t, e, F)
    BY <1>1, WalkIsFresh
  <2> HIDE DEF t
  <2>3. t \in [Index -> Slot] /\ n_tick + 1 \in Nat
    BY <1>2, <2>2
  <2>4. Lag' = Lag
    BY <1>1, <1>2, <2>1 DEF Lag
  <2>5. ASSUME NEW i \in Index PROVE SlotTimes(slots[i])'
    <3>1. CASE slots'[i] = EmptySlot
      BY <3>1, EmptyIs DEF SlotTimes
    <3>2. CASE slots'[i] = t[i] /\ (t[i].inner # NULL => (n_tick + 1) - t[i].seen <= AgeOut)
      <4>1. t[i].seen \in Nat
        BY <2>3 DEF Slot
      <4>2. CASE SlotTimes(t[i])
        BY <1>2, <2>1, <2>4, <3>2, <4>1, <4>2 DEF SlotTimes
      <4>3. CASE NewSlot(t[i])
        <5>1. t[i].seen = n_tick + 1 /\ t[i].seen + Lag = tick /\ t[i].curr = <<tick, tick>>
          BY <1>2, <4>3 DEF NewSlot, FreshSlot
        <5>2. QED
          BY <1>2, <2>1, <2>4, <3>2, <5>1 DEF SlotTimes
      <4>4. QED
        BY <2>2, <4>2, <4>3
    <3>3. \/ slots'[i] = EmptySlot
          \/ slots'[i] = t[i] /\ (t[i].inner # NULL => (n_tick + 1) - t[i].seen <= AgeOut)
      <4>1. \/ Aged(t, n_tick + 1)[i] = EmptySlot
            \/ Aged(t, n_tick + 1)[i] = t[i] /\ (t[i].inner # NULL => (n_tick + 1) - t[i].seen <= AgeOut)
        BY <2>3, AgedIs
      <4>2. QED
        BY <2>1, <4>1
    <3>4. QED
      BY <3>1, <3>2, <3>3
  <2>6. handle' \in session.players \cup {NULL}
    <3>1. CASE ~p_on
      BY <1>8, <3>1 DEF CapturePlayer, ClientInv, PlayerInv
    <3>2. CASE p_on
      BY <1>8, <3>2 DEF CapturePlayer, ClientInv, PlayerInv
    <3>3. QED
      BY <3>1, <3>2
  <2>7. ASSUME NEW i \in Index, slots'[i].inner \in Npcs PROVE FreshSlot(slots[i])'
    <3> DEFINE e == slots'[i].inner
    <3>1. e \in Listed \ {handle'} /\ e # NULL
      BY <2>6, <2>7, NpcsAre DEF Npcs
    <3>2. slots'[i] = t[i]
      BY <2>1, <2>3, <3>1, AgedIs, EmptyIs
    <3>3. PICK j \in Index : t[j].inner = e /\ NewSlot(t[j])
      BY <2>2, <3>1, <3>2 DEF HasOnly
    <3>4. slots'[j] = t[j]
      BY <2>1, <2>3, <3>3, AgedIs DEF NewSlot
    <3>5. i = j
      BY <3>1, <3>3, <3>4 DEF OneSlotEach
    <3>6. FreshSlot(t[i])
      BY <3>3, <3>5 DEF NewSlot
    <3>7. QED
      BY <1>1, <3>2, <3>6 DEF FreshSlot, Recent
  <2>8. QED
    BY <1>1, <1>2, <1>4, <1>5, <1>6, <1>7, <2>4, <2>5, <2>7 DEF RecentInv
<1>11. QED
  BY <1>9, <1>10 DEF ClientInv, TableInv

LEMMA RecentStep ==
    ASSUME ClientInv, RecentInv, OneSlotEach', [Next]_vars PROVE RecentInv'
<1>1. CASE Gate
  <2>1. /\ pc = "gate" /\ pc' # "capture" /\ UNCHANGED <<session, list, real, tick, n_tick, mem, slots>>
        /\ \A i \in Index : ~slots[i].save_valid
    BY <1>1 DEF Gate, engineVars, npcVars, ClientInv, TableInv
  <2>2. QED
    BY <2>1, RecentKept DEF RecentInv, Same
<1>2. CASE UNCHANGED vars
  <2>1. Listed' = Listed /\ Npcs' = Npcs /\ Lag' = Lag
    BY <1>2, ToSetIs DEF Listed, Npcs, Lag, vars, engineVars, npcVars
  <2>2. QED
    BY <1>2, <2>1 DEF RecentInv, SlotTimes, FreshSlot, Shown, Recent, vars, engineVars, npcVars
<1>3. QED
  BY <1>1, <1>2, RestoreRecent, RenderRecent, MenuRecent, TickRecent, CaptureRecent DEF Next

(* As long as no entity has two slots, a frame shows everybody but the       *)
(* players between two poses of his own, of which the newer is the latest    *)
(* tick's and the older AgeOut + 1 ticks older at most: also when the check   *)
(* boxes are used, when he was gone for a while, and when a slot faulted.    *)
THEOREM BlendsRecent == Spec /\ []OneSlotEach => []NpcBlendIsRecent
<1>1. Init => ClientInv /\ WhoInv /\ RecentInv
  <2> SUFFICES ASSUME Init PROVE RecentInv
    BY ClientInit, WhoInit
  <2>1. Listed = {} /\ \A i \in Index : slots[i] = EmptySlot
    BY ToSetIs DEF Init, Listed
  <2>2. QED
    BY <2>1, EmptyIs DEF Init, RecentInv, Npcs, Lag, SlotTimes
<1>2. ClientInv /\ WhoInv /\ RecentInv /\ OneSlotEach' /\ [Next]_vars => (ClientInv /\ WhoInv /\ RecentInv)'
  BY PlainStep, RecentStep
<1>3. ClientInv /\ RecentInv => NpcBlendIsRecent
  BY DEF RecentInv, NpcBlendIsRecent, Npcs, Shown, Recent
<1>4. QED
  BY <1>1, <1>2, <1>3, PTL DEF Spec

(* When every entity has a bucket of its own, none ever has two slots, and   *)
(* both promises hold without the condition.                                 *)
COROLLARY FenceSpread == ASSUME Spread PROVE Spec => [](SimReadsClean /\ NpcBlendIsRecent)
BY SpreadOne, ReadsClean, BlendsRecent, PTL
=============================================================================
