---------------------------- MODULE SpriteMenu ----------------------------
(***************************************************************************)
(* The editor of the sprite rules: SpriteTable and UiRules with the        *)
(* Picture tab, picking and the gizmo.                                     *)
(*                                                                         *)
(* A frame is the walk of the draw list, then EndScene: the tab's buttons, *)
(* flush_pending_save, and the gizmo with the mouse.  A click goes to the  *)
(* tab or to the gizmo, never to both.  All of it runs on the game's       *)
(* thread, one after the other.  The process may end between two frames;   *)
(* the next one reads the file and finds the textures at other addresses.  *)
(***************************************************************************)
EXTENDS UiRules

CONSTANTS
    Placings,      \* for each start, where textures lie: paths by state key
    MaxEdits,      \* bound: edits by the user
    MaxRestarts    \* bound: restarts

VARIABLES
    phase,         \* where the frame is: "list", "scene"
    selected,      \* sprite_picking: slot, 0 if none
    pick_mode,
    drag,          \* g_drag: slot being dragged, 0 if none
    held,          \* the tab's control that is being moved, NoControl if none
    used,          \* edits so far
    unsaved,       \* history: something was edited since the last save
    dropped,       \* history: an edit was given up in the middle since the last save
    restarts

mouseVars == <<selected, pick_mode, drag, held>>
vars == <<table, path_of, quads, toggleVars, ui, phase, mouseVars,
          used, unsaved, dropped, restarts>>

\* The controls that change something while they are moved, and ask for a save
\* when they are let go: <<"row", slot>> a row's offsets and scales,
\* <<"group", label>> "Move group", <<"aspect", rule>> and <<"pattern", rule>>
\* of a screen's rule, <<"nudge">> the position of the whole interface.
NoControl == <<"none">>

Init ==
    /\ path_of = Placings[1]
    /\ LET I == Installed(NoSettings, EmptyTable) IN table = I.table /\ ui = I.ui
    /\ quads = {}
    /\ enabled = TRUE /\ auto_group = FALSE /\ drag_group = FALSE
    /\ phase = "list" /\ selected = 0 /\ pick_mode = FALSE /\ drag = 0 /\ held = NoControl
    /\ used = 0 /\ unsaved = FALSE /\ dropped = FALSE /\ restarts = 0

-----------------------------------------------------------------------------
(* The walk, of the screen then on top.  Past the bound no list is drawn    *)
(* any more.                                                                *)

DrawList ==
    \E n \in 0 .. MaxDrawn, top \in Screen :
      \E list \in [1 .. n -> {e \in Drawn : e.screen = top}] :
        /\ n > 0 => table.frame < MaxFrames
        /\ LET L == Listed(list) IN table' = L.table /\ quads' = L.quads

ProcessList ==
    /\ phase = "list" /\ phase' = "scene"
    /\ DrawList
    /\ UNCHANGED <<path_of, toggleVars, ui, mouseVars, used, unsaved, dropped, restarts>>

-----------------------------------------------------------------------------
(* The Picture tab.  At most one control is used in a frame.  Buttons, check *)
(* boxes and the text of a name or a group, which counts when it is left,    *)
(* change something and ask for a save.                                      *)

\* flush_pending_save after the tab has left the settings s, and what it does to
\* the histories: t is what it leaves of s.
Wrote(s, t) == s.dirty /\ ~t.dirty
Kept(s, T) ==
    /\ ui' \in Flushed(s, T)
    /\ unsaved' = (unsaved /\ ~Wrote(s, ui')) /\ dropped' = (dropped /\ ~Wrote(s, ui'))
Wanted(s, T) ==
    /\ ui' \in Flushed(s, T)
    /\ unsaved' = ((unsaved \/ <<T, Settings(s)>> # <<table, Settings(ui)>>) /\ ~Wrote(s, ui'))
    /\ dropped' = (dropped /\ ~Wrote(s, ui'))

\* The rows of group g; the ungrouped rows form one too.
Rows(g) == {i \in Slot : Live(table, i) /\ table.slot[i].group = g}
Moves == [i \in Slot |-> table.slot[i].move]
Hides == [i \in Slot |-> table.slot[i].hidden]
GroupEdits(g) ==
    {SetTransforms(table, Rows(g), Moves, [i \in Slot |-> hidden]) : hidden \in BOOLEAN}
    \cup {SetTransforms(table, Rows(g), [i \in Slot |-> 0], [i \in Slot |-> FALSE])}

\* What one row's buttons and texts make of the table.  A row does not look at
\* the widget, so a slot narrowed by its widget is offered Specialize, not Delete.
SaysWildcard(s) == s.look = ANY /\ s.screen = ANY

RowEdits(i) ==
    LET s == table.slot[i]
    IN  {SetTransformAt(table, i, s.move, ~s.hidden), ResetTransformAt(table, i)}
        \cup {SetNameAt(table, i, "user")}
        \cup {SetGroupAt(table, i, label) : label \in {"none", "user"} \ {s.group}}
        \cup (IF SaysWildcard(s) /\ s.last # NoSprite THEN {Specialized(table, i).table} ELSE {})
        \cup (IF SaysWildcard(s) THEN {} ELSE {RemoveSlot(table, i)})

TableEdits ==
    (UNION {RowEdits(i) : i \in {j \in Slot : Live(table, j)}})
    \cup (UNION {GroupEdits(table.slot[i].group) : i \in {j \in Slot : Live(table, j)}})
    \cup {ResetAllTransforms(table), ForgetAllKeys(table), AutoGroupAll(table)}

EditTable ==
    /\ \E T \in TableEdits : table' = T /\ Wanted(Synced(RequestSave(ui)), T)
    /\ UNCHANGED toggleVars

\* The buttons and check boxes of the rules, after the tab's own sync.
RuleEdits(s) ==
    {RequestSave([s EXCEPT !.matrix = m]) : m \in Matrix \ {s.matrix}}
    \cup {RequestSave([s EXCEPT !.nudge = 0]), RequestSave([s EXCEPT !.auto_sync = ~@]),
          RequestSave(ClearAll(s))}
    \cup (IF Len(s.rules) < MaxRules
          THEN {RequestSave(AddRule(s, NONE, 0))} \cup {RequestSave(AddRule(s, top, 43)) : top \in Screen}
          ELSE {})
    \cup (UNION {{RequestSave(SetRule(s, n, s.rules[n].pattern, a)) : a \in Aspect} : n \in DOMAIN s.rules})
    \cup {RequestSave(RemoveRule(s, n)) : n \in DOMAIN s.rules}

EditRules ==
    /\ \E s \in RuleEdits(Synced(ui)) : Wanted(s, table)
    /\ UNCHANGED <<table, toggleVars>>

\* "Enable 4:3 pillarbox" and "Restore defaults": both may read the file.
Enable43 ==
    LET I == Installed(ui, table)
    IN  /\ table' = I.table
        /\ Wanted(Synced(RequestSave([I.ui EXCEPT !.matrix = "rules"])), I.table)
        /\ UNCHANGED toggleVars
RestoreDefaults ==
    LET I == Installed(ClearAll(Synced(ui)), table)
    IN  table' = I.table /\ Kept(I.ui, I.table) /\ UNCHANGED toggleVars

\* The toggles that are not saved.
Toggle ==
    /\ \/ enabled' = ~enabled /\ UNCHANGED <<auto_group, drag_group>>
       \/ auto_group' = ~auto_group /\ UNCHANGED <<enabled, drag_group>>
       \/ drag_group' = ~drag_group /\ UNCHANGED <<enabled, auto_group>>
    /\ Kept(Synced(ui), table) /\ UNCHANGED table

Click ==
    /\ phase = "scene" /\ phase' = "list" /\ held = NoControl
    /\ used < MaxEdits /\ used' = used + 1
    /\ UNCHANGED <<path_of, quads, mouseVars, restarts>>

TabEdit == Click /\ (EditTable \/ EditRules \/ Enable43 \/ RestoreDefaults \/ Toggle)

\* "Add ALL known screens".
AddAllKnown ==
    /\ Click /\ Wanted(RequestIfNew(Synced(ui), AddKnown(Synced(ui))), table)
    /\ UNCHANGED <<table, toggleVars>>

-----------------------------------------------------------------------------
(* Sliders and patterns.  What they are for changes frame by frame while    *)
(* they are held; only letting go asks for a save.                          *)

Holds(c) == held \in {NoControl, c} /\ held' = c
Table(T) == table' = T /\ Wanted(Synced(ui), T)

MoveRow ==
    \E i \in Slot, m \in Move :
        /\ Live(table, i) /\ m # table.slot[i].move /\ Holds(<<"row", i>>)
        /\ Table(SetTransformAt(table, i, m, table.slot[i].hidden))

\* All by the same amount; the bound keeps each among the moves.
MoveRows ==
    \E g \in Label, delta \in (-MaxMove .. MaxMove) \ {0} :
        LET moved == [i \in Slot |-> table.slot[i].move + delta]
        IN  /\ Rows(g) # {} /\ \A i \in Rows(g) : moved[i] \in Move
            /\ Holds(<<"group", g>>)
            /\ Table(SetTransforms(table, Rows(g), moved, Hides))

ChangeRule ==
    LET s == Synced(ui)
    IN  \E n \in DOMAIN s.rules :
            LET r == s.rules[n]
            IN  /\ UNCHANGED table
                /\ \/ /\ Holds(<<"aspect", n>>)
                      /\ \E a \in Aspect \ {r.aspect} : Wanted(SetRule(s, n, r.pattern, a), table)
                   \/ /\ Holds(<<"pattern", n>>)
                      /\ \E p \in Pattern \ {r.pattern} : Wanted(SetRule(s, n, p, r.aspect), table)

NudgeAll ==
    /\ Holds(<<"nudge">>) /\ UNCHANGED table
    /\ Wanted([Synced(ui) EXCEPT !.nudge = 1 - @], table)

LiveEdit ==
    /\ phase = "scene" /\ phase' = "list"
    /\ used < MaxEdits /\ used' = used + 1
    /\ MoveRow \/ MoveRows \/ ChangeRule \/ NudgeAll
    /\ UNCHANGED <<path_of, quads, toggleVars, selected, pick_mode, drag, restarts>>

LetGo ==
    /\ phase = "scene" /\ phase' = "list"
    /\ held # NoControl /\ held' = NoControl
    /\ Kept(Synced(RequestSave(ui)), table)
    /\ UNCHANGED <<table, path_of, quads, toggleVars, selected, pick_mode, drag, used, restarts>>

\* Insert closes the menu over it, or the walk has put its row under another
\* group: the control is not drawn any more and nobody sees it let go.
LoseControl ==
    /\ phase = "scene" /\ phase' = "list"
    /\ held # NoControl /\ held' = NoControl
    /\ ui' \in Flushed(ui, table)
    /\ unsaved' = (unsaved /\ ~Wrote(ui, ui')) /\ dropped' = ~Wrote(ui, ui')
    /\ UNCHANGED <<table, path_of, quads, toggleVars, selected, pick_mode, drag, used, restarts>>

-----------------------------------------------------------------------------
(* Selecting and doing nothing.                                            *)

\* "Click to pick", Deselect and Esc, which works in mid-edit too.  A selection
\* cleared in the middle of a drag ends it without a save.
TabSelect ==
    /\ phase = "scene" /\ phase' = "list"
    /\ \/ held = NoControl /\ pick_mode /\ pick_mode' = FALSE /\ selected' = 0
       \/ held = NoControl /\ ~pick_mode /\ pick_mode' = TRUE /\ UNCHANGED selected
       \/ selected # 0 /\ selected' = 0 /\ UNCHANGED pick_mode
    /\ drag' = IF selected' = 0 THEN 0 ELSE drag
    /\ ui' \in Flushed(Synced(ui), table)
    /\ unsaved' = (unsaved /\ ~Wrote(Synced(ui), ui'))
    /\ dropped' = (drag # drag' \/ (dropped /\ ~Wrote(Synced(ui), ui')))
    /\ UNCHANGED <<table, path_of, quads, toggleVars, held, used, restarts>>

\* Nothing is clicked: the menu may be closed, the tab open or another one.  A
\* drag whose quad is not drawn, or that was for another slot, goes on.
Idle ==
    /\ phase = "scene" /\ phase' = "list"
    /\ \/ Kept(Synced(ui), table)
       \/ held = NoControl /\ Kept(ui, table)
    /\ UNCHANGED <<table, path_of, quads, toggleVars, mouseVars, used, restarts>>

-----------------------------------------------------------------------------
(* The gizmo and picking, after flush_pending_save.                        *)

\* The selected slot is only editable while one of its quads is drawn.
Handles == selected # 0 /\ selected \in quads

\* Where an edit of the selected slot goes: a variant of its own, if there is
\* room for one.
InPlace == [at |-> selected, table |-> table]
Target == LET S == Specialized(table, selected) IN IF S.at = 0 THEN InPlace ELSE S

\* set_transform_at, and the same for the group of the slot.
Dragged(T, i, m) ==
    LET U == SetTransformAt(T, i, m, T.slot[i].hidden)
    IN  IF drag_group THEN MoveGroup(U, i, m - T.slot[i].move) ELSE U

\* flush_pending_save leaves t; what the mouse then changes is not in it.
GizmoEdit(t) ==
    /\ phase = "scene" /\ phase' = "list" /\ Handles
    /\ used < MaxEdits /\ used' = used + 1
    /\ unsaved' = TRUE /\ dropped' = (dropped /\ ~Wrote(ui, t))
    /\ UNCHANGED <<path_of, quads, toggleVars, pick_mode, held, restarts>>

\* The press and the first movement; asks for a save only for a new variant.
DragStart ==
    \E t \in Flushed(ui, table) :
        /\ GizmoEdit(t) /\ drag = 0 /\ held = NoControl
        /\ LET G == Target
           IN  /\ \E m \in Move : table' = Dragged(G.table, G.at, m)
               /\ selected' = G.at /\ drag' = G.at
               /\ ui' = IF G.at # selected THEN RequestSave(t) ELSE t

\* The quads are those of the walk, so a variant just made has none yet.
DragMove ==
    \E t \in Flushed(ui, table) :
        /\ GizmoEdit(t) /\ drag = selected /\ ui' = t
        /\ \E m \in Move : table' = Dragged(table, selected, m)
        /\ UNCHANGED <<selected, drag>>

DragEndSilently ==
    /\ phase = "scene" /\ phase' = "list"
    /\ Handles /\ drag # 0 /\ drag' = 0
    /\ Kept(ui, table)
    /\ UNCHANGED <<table, path_of, quads, toggleVars, selected, pick_mode, held, used, restarts>>
DragEnd ==
    /\ phase = "scene" /\ phase' = "list"
    /\ Handles /\ drag # 0 /\ drag' = 0
    /\ \E t \in Flushed(ui, table) :
          /\ ui' = RequestSave(t)
          /\ unsaved' = (unsaved /\ ~Wrote(ui, t)) /\ dropped' = (dropped /\ ~Wrote(ui, t))
    /\ UNCHANGED <<table, path_of, quads, toggleVars, selected, pick_mode, held, used, restarts>>

RightClickReset ==
    \E t \in Flushed(ui, table) :
        /\ GizmoEdit(t) /\ drag = 0 /\ ui' = RequestSave(t)
        /\ LET G == Target
           IN  table' = Dragged(G.table, G.at, 0) /\ selected' = G.at
        /\ UNCHANGED drag

Pick ==
    /\ phase = "scene" /\ phase' = "list" /\ held = NoControl
    /\ pick_mode /\ selected' \in quads
    /\ Kept(ui, table)
    /\ UNCHANGED <<table, path_of, quads, toggleVars, pick_mode, drag, held, used, restarts>>

EndScene == TabEdit \/ AddAllKnown \/ LiveEdit \/ LetGo \/ LoseControl \/ TabSelect \/ Idle
            \/ DragStart \/ DragMove \/ DragEnd \/ RightClickReset \/ Pick

-----------------------------------------------------------------------------
(* Time and the process.                                                   *)

DebounceOver ==
    /\ ui.since = "recent"
    /\ ui' = [ui EXCEPT !.since = "old"]
    /\ UNCHANGED <<table, path_of, quads, toggleVars, phase, mouseVars, used, unsaved, dropped, restarts>>

\* The process ends without a save: only unloading the module makes one.
\* The next one installs the hooks, reads the file and loads other textures.
Restart ==
    /\ phase = "list" /\ restarts < MaxRestarts /\ restarts' = restarts + 1
    /\ \E unloaded \in BOOLEAN :
         LET left == IF unloaded THEN SaveToIni(ui, table) ELSE ui
             I == Installed([NoSettings EXCEPT !.file = left.file], EmptyTable)
         IN  table' = I.table /\ ui' = I.ui
    /\ path_of' = Placings[restarts + 2]
    /\ quads' = {} /\ enabled' = TRUE /\ auto_group' = FALSE /\ drag_group' = FALSE
    /\ selected' = 0 /\ pick_mode' = FALSE /\ drag' = 0 /\ held' = NoControl
    /\ unsaved' = FALSE /\ dropped' = FALSE
    /\ UNCHANGED <<phase, used>>

Next == ProcessList \/ EndScene \/ DebounceOver \/ Restart
Spec == Init /\ [][Next]_vars

-----------------------------------------------------------------------------
(* What must hold.                                                         *)

\* The index by state key finds exactly the slots of that key, through
\* evictions, variants, removals and loading: otherwise a rule is silently
\* skipped, or a slot of another texture moved.
IndexAgrees ==
    \A k \in Key : table.index[k] = {i \in Slot : table.slot[i].key = k}

\* A change of the user is in the file, or marked to be written, or still in
\* the making, so that its end will mark it; only a drag ended with Esc and a
\* control the menu is closed over are not.
EditsAreMarked == unsaved => ui.dirty \/ drag # 0 \/ held # NoControl \/ dropped

\* The walk of the draw list never changes what the user's rules do to a
\* sprite; only a rule of the file that was waiting may, which counts as an edit.
WalkKeepsLooks ==
    [][phase = "list" /\ phase' = "scene" /\ table'.edits = table.edits
       => \A e \in Drawn : Shown(table', e) = Shown(table, e)]_vars

\* "Edit only this sprite": as long as a slot can be had and no group is
\* dragged, the gizmo forks a variant and changes only what that matches.  A
\* slot without a last sprite, just loaded, is edited in place.  What goes on
\* being dragged changes what it matches, whatever it has become.
OnlyMatched(i) ==
    \A e \in Drawn : Shown(table', e) = Shown(table, e) \/ KeyMatches(table'.slot[i], e)
Untouched == \A e \in Drawn : Shown(table', e) = Shown(table, e)
CanFork == AllocSlot(table) # 0 /\ table.slot[selected].last # NoSprite
GizmoEditsOneVariant ==
    [][~drag_group =>
        /\ DragStart \/ RightClickReset \/ DragMove => OnlyMatched(selected')
        /\ (DragStart \/ RightClickReset) /\ CanFork
             => Untouched \/ ~IsWildcard(table'.slot[selected'])]_vars

\* What is saved for a texture the user changed as a whole is what the next
\* start shows, at whatever address the texture is then, as long as the other
\* slots have a path, since a slot without one is saved by its address, and no
\* other texture was drawn by the same widget: widgets' rules have no texture.
ShownAgain(e, k, path) ==
    LET B == LoadedSlots(EmptyTable, SavedSlots(table))
        T == IF B.index[k] = {} THEN WithWildcard(B, k) ELSE B
        again == [e EXCEPT !.key = k]
    IN  Shown(SeenBy(T, again, path), again)
Alone(i) ==
    /\ IsWildcard(table.slot[i]) /\ table.slot[i].path # NONE
    /\ \A j \in Slot \ {i} : table.slot[j].key # NONE =>
          /\ table.slot[j].path \notin {NONE, table.slot[i].path}
          /\ table.slot[i].wname = NONE \/ table.slot[j].wname # table.slot[i].wname
          /\ table.slot[j].key # table.slot[i].key
WholeTextureSurvives ==
    \A e \in Drawn :
        LET i == BestMatch(table, e)
        IN  i # 0 /\ ~IsIdentity(table.slot[i]) /\ Alone(i) /\ e.widget = table.slot[i].wname
            => \A k \in Key : ShownAgain(e, k, table.slot[i].path) = Shown(table, e)

\* A screen that some rule already covers is not changed by adding the known
\* screens: not by the button, nor by what the tab does when no other control
\* is used.
SyncKeepsMatches ==
    [][AddAllKnown \/ (used' = used /\ restarts' = restarts) =>
          \A name \in Screen : Winner(ui, name) # 0 => ResolveAspect(ui', name) = ResolveAspect(ui, name)]_vars

=============================================================================
