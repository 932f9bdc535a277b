--------------------------- MODULE MCTeleportHold ---------------------------
(***************************************************************************)
(* Model checking of InterpFence and TeleportHold: two NPCs and up to two  *)
(* player entities in a table of four buckets, with and without teleports. *)
(***************************************************************************)
EXTENDS TeleportHold

CONSTANTS e1, e2, w1, w2

\* Every entity has a bucket of its own.
Bucket == e1 :> 0 @@ e2 :> 1 @@ w1 :> 2 @@ w2 :> 3
HomeSpread == [e \in Entity |-> Bucket[e]]

Among(entities, changes, toggles, ticks) ==
    [entities |-> entities, players |-> entities \cap {w1, w2}, changes |-> changes,
     toggles |-> toggles, ticks |-> ticks]

\* Two NPCs and a player that comes and goes; an NPC and a player that is
\* replaced at once while the check boxes are used.
Quiet == {Among({e1, e2, w1}, "gap", FALSE, 6), Among({e1, w1, w2}, "swap", TRUE, 4)}

\* A player who stays while the check boxes are used, who is replaced, and who
\* is gone for a while.
Teleported == {Among({w1, w2}, "same", TRUE, 3), Among({w1, w2}, "swap", FALSE, 3),
               Among({w1, w2}, "gap", FALSE, 3)}

AllSessions == Quiet \cup Teleported
TwoIfTeleported == [s \in AllSessions |-> IF s \in Quiet THEN 0 ELSE 2]
=============================================================================
