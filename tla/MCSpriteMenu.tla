--------------------------- MODULE MCSpriteMenu ---------------------------
(* Two textures that a widget draws, one of them also without the widget. *)
EXTENDS SpriteMenu

MCDrawn == {[key |-> "k1", look |-> "a", screen |-> "Pause", widget |-> NONE],
            [key |-> "k1", look |-> "b", screen |-> "Pause", widget |-> "top"],
            [key |-> "k2", look |-> "a", screen |-> "Pause", widget |-> "top"]}
MCPlacings == <<[k1 |-> "smile", k2 |-> "box"], [k1 |-> "box", k2 |-> "smile"]>>
MCRegistered == <<"Pause">>
MCBuiltin == <<"Help">>
MCHits(name, pattern) == <<name, pattern>> \in 
    {<<"Pause", "Pause">>, <<"Pause", "Help">>}
=============================================================================
