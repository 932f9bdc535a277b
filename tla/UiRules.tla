------------------------------ MODULE UiRules ------------------------------
(***************************************************************************)
(* ui_aspect_rules: the pillarbox rules by screen name, and mtr-asi-ui.ini,*)
(* which keeps them together with the toggles of sprite_matrix and the     *)
(* sprite rules of SpriteTable.                                            *)
(*                                                                         *)
(* The settings and the file are one record, so that a button that calls   *)
(* several functions is a composition of operators.  All of it runs on the *)
(* game's thread.                                                          *)
(***************************************************************************)
EXTENDS SpriteTable

CONSTANTS
    MaxRules,      \* kMaxRules: 96
    Registered,    \* screens in the engine's registry, in its order
    Builtin,       \* the patterns install_defaults seeds
    Hits(_, _)     \* Hits(top, pattern): pattern occurs in the screen's name;
                   \* one that is left empty, NONE, occurs in none

ASSUME RulesAssumption == /\ MaxRules \in Nat
                          /\ Registered \in Seq(Screen) /\ Builtin \in Seq(ToSet(Builtin))
                          /\ Len(Builtin) <= MaxRules

VARIABLE
    ui             \* rules, toggles, file, and what is left to be written

\* 0: do not pillarbox; 43: four to three.
Aspect == {0, 43}
\* sprite_matrix: off, by the sliders, by the rules.
Matrix == {"off", "manual", "rules"}
\* pos_offset_x and y: centred, or nudged.
Nudge == {0, 1}
\* What a rule's pattern may be.
Pattern == Screen \cup ToSet(Builtin) \cup {NONE}
NoFile == [there |-> FALSE]
NoSettings ==
    [rules |-> <<>>, standard |-> 0, auto_sync |-> FALSE,
     matrix |-> "off", nudge |-> 0,
     dirty |-> FALSE, since |-> "never", file |-> NoFile]

-----------------------------------------------------------------------------
(* The table of rules.                                                     *)

Settings(s) == <<s.rules, s.standard, s.auto_sync, s.matrix, s.nudge>>
Patterns(s) == {s.rules[n].pattern : n \in DOMAIN s.rules}

AddRule(s, pattern, aspect) ==
    IF Len(s.rules) >= MaxRules THEN s
    ELSE [s EXCEPT !.rules = Append(@, [pattern |-> pattern, aspect |-> aspect])]

SetRule(s, n, pattern, aspect) ==
    [s EXCEPT !.rules[n] = [pattern |-> pattern, aspect |-> aspect]]
RemoveRule(s, n) == [s EXCEPT !.rules = RemoveAt(@, n)]

\* clear_all also stops auto-sync, which would add everything again.
ClearAll(s) == [s EXCEPT !.rules = <<>>, !.auto_sync = FALSE]

\* A screen that no rule names gets a rule of its own, while there is room.
AddKnownFirst(s) ==
    FoldLeft(LAMBDA r, name : IF name \in Patterns(r) \/ Len(r.rules) >= MaxRules THEN r
                              ELSE [r EXCEPT !.rules = <<[pattern |-> name, aspect |-> 43]>> \o @],
             s, Registered)
AddUnlessKnown(s, name) == IF name \in Patterns(s) THEN s ELSE AddRule(s, name, 43)
AddKnown(s) ==
    LET after[n \in 0 .. Len(Registered)] ==
            IF n = 0 THEN s ELSE AddUnlessKnown(after[n - 1], Registered[n])
    IN  after[Len(Registered)]

\* request_save.
RequestSave(s) == [s EXCEPT !.dirty = TRUE]
RequestIfNew(s, r) == IF r.rules # s.rules THEN RequestSave(r) ELSE r

\* What drawing the tab does by itself.
Synced(s) == IF s.auto_sync THEN RequestIfNew(s, AddKnown(s)) ELSE s

\* resolve_match: the first rule whose pattern occurs in the name, 0 if none.
Winner(s, name) ==
    LET W == {n \in DOMAIN s.rules : Hits(name, s.rules[n].pattern)}
    IN  IF W = {} THEN 0 ELSE CHOOSE n \in W : \A m \in W : n <= m
ResolveAspect(s, name) ==
    IF Winner(s, name) = 0 THEN s.standard ELSE s.rules[Winner(s, name)].aspect

-----------------------------------------------------------------------------
(* The file.  save_to_ini writes the slots, not the rules that still wait  *)
(* for their sprites.                                                      *)

SaveToIni(s, T) ==
    [s EXCEPT
        !.file = [there |-> TRUE, rules |-> s.rules, standard |-> s.standard,
                  auto_sync |-> s.auto_sync, matrix |-> s.matrix, nudge |-> s.nudge,
                  slots |-> SavedSlots(T)],
        !.dirty = FALSE, !.since = "recent"]

\* What flush_pending_save may make of the settings: it writes not sooner than
\* 1500 ms after the write before, and if the file does not open, the save stays
\* asked for.
Due(s) == s.since # "recent"
Flushed(s, T) == IF s.dirty /\ Due(s) THEN {SaveToIni(s, T), s} ELSE {s}

\* load_from_ini; the caller has checked that there is a file.
LoadedSettings(s) ==
    [s EXCEPT !.rules = s.file.rules, !.standard = s.file.standard,
              !.auto_sync = s.file.auto_sync, !.matrix = s.file.matrix,
              !.nudge = s.file.nudge]
LoadedTable(s, T) == LoadedSlots(T, s.file.slots)

Seeded(s) ==
    LET after[n \in 0 .. Len(Builtin)] ==
            IF n = 0 THEN s ELSE AddRule(after[n - 1], Builtin[n], 43)
    IN  after[Len(Builtin)]

\* install_defaults: the settings and the table after it.
Installed(s, T) ==
    CASE s.rules # <<>> -> [ui |-> s, table |-> T]
      [] s.rules = <<>> /\ s.file.there ->
             [ui |-> LoadedSettings(s), table |-> LoadedTable(s, T)]
      [] OTHER -> [ui |-> SaveToIni(Seeded(s), T), table |-> T]
=============================================================================
