----------------------------- MODULE MCDisplay -----------------------------
(***************************************************************************)
(* Model checking of Display: a card that can do more in a window than in  *)
(* full screen.                                                            *)
(***************************************************************************)
EXTENDS Display, TLC

MoreInAWindow == "window" :> {2, 16} @@ "full" :> {2}
EffectOf == "loader" :> "discard" @@ "game" :> "flip" @@ "dummy" :> "discard"
=============================================================================
