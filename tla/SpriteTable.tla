---------------------------- MODULE SpriteTable ----------------------------
(***************************************************************************)
(* sprite_xform: the table of rules for the sprites of the game's          *)
(* interface.                                                              *)
(*                                                                         *)
(* A slot holds a pattern and what is done to the sprites it matches.      *)
(* Each frame process_list walks the engine's draw list, gives a state key *)
(* it has not met a wildcard slot, finds the best slot of each sprite and  *)
(* moves or hides it.  A sprite is told apart by its state key (the heap   *)
(* address of its texture), by where and how it is drawn (uv bucket,       *)
(* quadrant and sort key: Look), by the screen and by its widget.          *)
(*                                                                         *)
(* Everything runs on the game's own thread: the draw list is walked in    *)
(* render_sprite_batcher, the menu's edits happen in EndScene.  So the     *)
(* walk is one step and so is an edit.                                     *)
(*                                                                         *)
(* The table with its counters and queues is one record, so that an edit   *)
(* made of several calls is written as a composition of operators.         *)
(***************************************************************************)
EXTENDS Integers, Sequences, FiniteSets, SequencesExt

CONSTANTS
    NSlots,        \* kMaxKeys: 64
    Key,           \* state keys: addresses of textures
    Look,          \* uv bucket, quadrant and sort key
    Screen,        \* hash of the screen stack
    Widget,        \* hashes of widget names
    Asset,         \* asset paths
    Drawn,         \* the sprites the game draws
    ANY,           \* the wildcard of look and screen
    NONE,          \* no key, no widget (which matches all), no path
    MaxMove,       \* bound: offsets and scales are 0 (identity) .. MaxMove
    MaxFrames,     \* bound: frames of the draw list
    MaxDrawn       \* bound: sprites of one frame

ASSUME SizeAssumption == NSlots \in Nat \ {0} /\ {MaxMove, MaxFrames, MaxDrawn} \subseteq Nat
ASSUME WildcardAssumption ==
    /\ ANY \notin Look \cup Screen
    /\ NONE \notin Key \cup Widget \cup Asset
ASSUME DrawnAssumption == Drawn \subseteq [key : Key, look : Look, screen : Screen,
                                           widget : Widget \cup {NONE}]

Slot == 1 .. NSlots
Move == 0 .. MaxMove

VARIABLES
    table,         \* slots, index by state key, edit counter, pending rules
    path_of,       \* what the path field at each state key's object reads
    quads,         \* sprite_picking: slots of the quads of the last frame
    enabled, auto_group, drag_group      \* the toggles of sprite_xform

toggleVars == <<enabled, auto_group, drag_group>>

-----------------------------------------------------------------------------
(* Slots and patterns.                                                     *)

\* name and group are empty, derived from the asset path, or the user's.
Label == {"none", "auto", "user"}

NoSprite == [key |-> NONE, look |-> ANY, screen |-> ANY, widget |-> NONE]
EmptySlot ==
    [key |-> NONE, look |-> ANY, screen |-> ANY, widget |-> NONE,
     last |-> NoSprite, seen |-> 0, move |-> 0, hidden |-> FALSE,
     name |-> "none", group |-> "none", edit |-> 0,
     tried |-> FALSE, path |-> NONE, wname |-> NONE]

EmptyTable ==
    [slot |-> [i \in Slot |-> EmptySlot], index |-> [k \in Key |-> {}],
     edits |-> 1, frame |-> 0, by_path |-> <<>>, by_widget |-> <<>>]

IsWildcard(s) == s.look = ANY /\ s.screen = ANY /\ s.widget = NONE

KeyMatches(s, e) ==
    /\ s.key = e.key
    /\ s.look \in {ANY, e.look}
    /\ s.screen \in {ANY, e.screen}
    /\ s.widget \in {NONE, e.widget}

\* uv, screen and quadrant count one each, sort key and widget two.
Specificity(s) ==
    1 + (IF s.look = ANY THEN 0 ELSE 4) + (IF s.screen = ANY THEN 0 ELSE 1)
      + (IF s.widget = NONE THEN 0 ELSE 2)

Better(s, t) == \/ Specificity(s) > Specificity(t)
                \/ Specificity(s) = Specificity(t) /\ s.edit > t.edit

\* lookup_best_match: the slot for a sprite, 0 if none.  Slots that tie are
\* told apart by their place in the index, which is left open here.
BestMatches(T, e) ==
    LET C == {i \in T.index[e.key] : KeyMatches(T.slot[i], e)}
    IN  {i \in C : \A j \in C : ~Better(T.slot[j], T.slot[i])}
BestMatch(T, e) == IF BestMatches(T, e) = {} THEN 0
                   ELSE CHOOSE i \in BestMatches(T, e) : TRUE

\* lookup_wildcard_slot.
WildcardSlot(T, k) ==
    LET W == {i \in T.index[k] : IsWildcard(T.slot[i])}
    IN  IF W = {} THEN 0 ELSE CHOOSE i \in W : \A j \in W : i <= j

\* Whatever the user has touched is never evicted.
PinnedByLabel(s) == s.name = "user" \/ s.group = "user"
Pinned(s) ==
    \/ s.edit > 0 \/ s.name = "user" \/ s.group = "user"
    \/ s.move # 0 \/ s.hidden \/ ~IsWildcard(s)

\* alloc_slot: the first free slot, else the one seen least recently among
\* those the user has not touched, else 0.
AllocSlot(T) ==
    LET free == {i \in Slot : T.slot[i].key = NONE}
        lru  == {i \in Slot : ~Pinned(T.slot[i])}
        old  == {i \in lru : \A j \in lru : T.slot[i].seen <= T.slot[j].seen}
        pool == IF free # {} THEN free ELSE old
    IN  IF pool = {} THEN 0 ELSE CHOOSE i \in pool : \A j \in pool : i <= j

\* Slot i becomes s; the index follows.
PutUnindexed(T, i, s) ==
    [T EXCEPT !.slot[i] = s,
              !.index = [k \in Key |-> IF k = s.key THEN @[k] \cup {i} ELSE @[k]]]
Put(T, i, s) ==
    [T EXCEPT !.slot[i] = s,
              !.index = [k \in Key |-> IF k = s.key THEN @[k] \cup {i} ELSE @[k] \ {i}]]

\* find_or_create_wildcard, as a table; its slot is then WildcardSlot.
WithWildcard(T, k) ==
    IF WildcardSlot(T, k) # 0 \/ AllocSlot(T) = 0 THEN T
    ELSE Put(T, AllocSlot(T), [EmptySlot EXCEPT !.key = k])

\* Slot i becomes s by an edit: it takes the next edit number.
Edit(T, i, s) ==
    [T EXCEPT !.slot[i] = [s EXCEPT !.edit = T.edits], !.edits = @ + 1]

Live(T, i) == i \in Slot /\ T.slot[i].key # NONE

-----------------------------------------------------------------------------
(* process_list.                                                           *)

\* A rule from the file that waits for its sprite.  One saved with a narrow
\* pattern narrows the slot it is given to.
ApplyRule(s, p) ==
    LET narrow == p.look # ANY \/ p.screen # ANY
    IN  [s EXCEPT !.look = IF narrow THEN p.look ELSE @,
                  !.screen = IF narrow THEN p.screen ELSE @,
                  !.move = p.move, !.hidden = p.hidden,
                  !.name = IF p.named THEN "user" ELSE @,
                  !.group = IF ~p.grouped THEN "none"
                            ELSE IF @ = "auto" THEN "auto" ELSE "user"]

\* Those of the rules that fit, in the order of the file: each is applied and
\* the last one stays.
Applied(s, rules, fits) ==
    LET after[n \in 0 .. Len(rules)] ==
            IF n = 0 THEN s
            ELSE IF n \in fits THEN ApplyRule(after[n - 1], rules[n]) ELSE after[n - 1]
    IN  after[Len(rules)]

\* What the rules of a file may set in a slot, as r has it after them.
Ruled(s, r) ==
    [s EXCEPT !.look = r.look, !.screen = r.screen, !.move = r.move,
              !.hidden = r.hidden, !.name = r.name, !.group = r.group]

\* The widget name is kept from the first sprite that has one.
SeeSprite(s, e, fno) ==
    [s EXCEPT !.seen = fno, !.last = e,
              !.wname = IF @ = NONE THEN e.widget ELSE @]

TakeWidgetRules(T, i) ==
    LET s == T.slot[i]
        mine == {n \in DOMAIN T.by_widget : T.by_widget[n].wname = s.wname}
        rest == SelectSeq(T.by_widget, LAMBDA p : p.wname # s.wname)
    IN  IF s.wname = NONE \/ mine = {} THEN T
        ELSE [Edit(T, i, [Ruled(s, Applied(s, T.by_widget, mine)) EXCEPT !.widget = s.wname])
              EXCEPT !.by_widget = rest]

\* Once for each slot: read the path, name and group after it, take the rules
\* that wait for it.
TryPath(T, i, path) ==
    LET s == [T.slot[i] EXCEPT !.tried = TRUE]
        named == [s EXCEPT !.path = path,
                           !.name = IF @ = "none" THEN "auto" ELSE @,
                           !.group = IF @ = "none" /\ auto_group THEN "auto" ELSE @]
        mine == {n \in DOMAIN T.by_path : T.by_path[n].path = path}
        rest == SelectSeq(T.by_path, LAMBDA p : p.path # path)
    IN  CASE T.slot[i].tried -> T
          [] ~T.slot[i].tried /\ path = NONE -> [T EXCEPT !.slot[i] = s]
          [] ~T.slot[i].tried /\ path # NONE /\ mine = {} -> [T EXCEPT !.slot[i] = named]
          [] OTHER -> [Edit(T, i, Ruled(named, Applied(named, T.by_path, mine)))
                       EXCEPT !.by_path = rest]

\* The table after sprite e, and the slot it resolved to.
SeenBy(T, e, path) ==
    LET i == BestMatch(T, e)
        T1 == [T EXCEPT !.slot[i] = SeeSprite(@, e, T.frame)]
    IN  IF i = 0 THEN T ELSE TryPath(TakeWidgetRules(T1, i), i, path)

\* The table and the quads after sprite e.  Only a state key without any slot
\* gets one of its own; hidden sprites are collapsed and not submitted for
\* picking, nor is any while the transforms are off.
AfterSprite(f, e) ==
    LET T == IF f.table.index[e.key] = {} THEN WithWildcard(f.table, e.key) ELSE f.table
        i == BestMatch(T, e)
        U == SeenBy(T, e, path_of[e.key])
    IN  [table |-> U,
         quads |-> IF i # 0 /\ enabled /\ ~U.slot[i].hidden
                   THEN f.quads \cup {i} ELSE f.quads]

\* process_list on a draw list.  An empty list leaves everything, also the
\* quads of the frame before.
Listed(list) ==
    IF list = <<>> THEN [table |-> table, quads |-> quads]
    ELSE LET after[n \in 0 .. Len(list)] ==
                IF n = 0 THEN [table |-> [table EXCEPT !.frame = @ + 1], quads |-> {}]
                ELSE AfterSprite(after[n - 1], list[n])
         IN  after[Len(list)]

-----------------------------------------------------------------------------
(* The operations of the menu, as operators on the table.  A slot that has *)
(* been evicted meanwhile discards the edit.                               *)

SetTransformAt(T, i, move, hidden) ==
    IF ~Live(T, i) THEN T
    ELSE Edit(T, i, [T.slot[i] EXCEPT !.move = move, !.hidden = hidden])

\* The same for each of some rows, in their order.
SetTransforms(T, rows, move, hidden) ==
    [T EXCEPT !.slot = [i \in Slot |->
                 IF i \notin rows THEN @[i]
                 ELSE [@[i] EXCEPT !.move = move[i], !.hidden = hidden[i],
                                   !.edit = T.edits + Cardinality({j \in rows : j < i})]],
              !.edits = @ + Cardinality(rows)]

ResetTransformAt(T, i) ==
    IF ~Live(T, i) THEN T
    ELSE Edit(T, i, [T.slot[i] EXCEPT !.move = 0, !.hidden = FALSE])

SetNameAt(T, i, label) ==
    IF ~Live(T, i) THEN T ELSE Edit(T, i, [T.slot[i] EXCEPT !.name = label])

SetGroupAt(T, i, label) ==
    IF ~Live(T, i) THEN T ELSE Edit(T, i, [T.slot[i] EXCEPT !.group = label])

\* Neither is counted as an edit.
ResetAllTransforms(T) ==
    [T EXCEPT !.slot = [i \in Slot |-> [@[i] EXCEPT !.move = 0, !.hidden = FALSE]]]

AutoGroupAll(T) ==
    [T EXCEPT !.slot = [i \in Slot |->
        IF Live(T, i) /\ @[i].group = "none" /\ @[i].path # NONE
        THEN [@[i] EXCEPT !.group = "auto"] ELSE @[i]]]

\* The rules that wait for a widget are not forgotten.
ForgetAllKeys(T) ==
    [T EXCEPT !.slot = EmptyTable.slot, !.index = EmptyTable.index, !.by_path = <<>>]

RemoveSlot(T, i) ==
    IF ~Live(T, i) \/ IsWildcard(T.slot[i]) THEN T ELSE Put(T, i, EmptySlot)

\* apply_group_translate_delta and apply_group_scale_factor: every other slot
\* of the group moves by the same amount.
MoveGroup(T, i, delta) ==
    LET clipped(m) == IF m + delta < 0 THEN 0 ELSE IF m + delta > MaxMove THEN MaxMove
                      ELSE m + delta
        peers == {j \in Slot \ {i} : Live(T, j) /\ T.slot[j].group # "none"}
    IN  IF delta = 0 \/ T.slot[i].group = "none" THEN T
        ELSE SetTransforms(T, peers, [j \in Slot |-> clipped(T.slot[j].move)],
                           [j \in Slot |-> T.slot[j].hidden])

\* specialize_slot.  The patterns the program makes have no screen, while the
\* last sprite has one, so the search for a twin finds none of them.
Twins(T, i) ==
    LET last == T.slot[i].last
    IN  {j \in T.index[T.slot[i].key] : /\ T.slot[j].look = last.look
                                        /\ T.slot[j].screen = last.screen}

\* The widget alone decides if there is one, else the look.
Narrowed(s) ==
    [EmptySlot EXCEPT
        !.key = s.key, !.last = s.last, !.widget = s.last.widget,
        !.look = IF s.last.widget = NONE THEN s.last.look ELSE ANY,
        !.move = s.move, !.hidden = s.hidden,
        !.name = IF s.name = "none" THEN "none" ELSE "user",
        !.group = IF s.group = "none" THEN "none" ELSE "user"]

\* The parent itself may be the slot that is evicted; its key is then gone
\* before it is copied.
Specialized(T, i) ==
    LET a == AllocSlot(T)
        s == IF a = i THEN EmptySlot ELSE Narrowed(T.slot[i])
    IN  CASE ~Live(T, i) \/ (Live(T, i) /\ T.slot[i].last = NoSprite) -> [at |-> 0, table |-> T]
          [] Live(T, i) /\ T.slot[i].last # NoSprite /\ Twins(T, i) # {} ->
                 [at |-> CHOOSE j \in Twins(T, i) : TRUE, table |-> T]
          [] Live(T, i) /\ T.slot[i].last # NoSprite /\ Twins(T, i) = {} /\ a = 0 ->
                 [at |-> 0, table |-> T]
          [] OTHER -> [at |-> a, table |-> Edit(Put(T, a, s), a, s)]

-----------------------------------------------------------------------------
(* Saving and loading of slots.                                            *)

IsIdentity(s) == /\ s.move = 0 /\ ~s.hidden /\ s.name # "user" /\ s.group = "none"
                 /\ IsWildcard(s)

SavedSlot(s) ==
    [key |-> s.key, path |-> s.path, wname |-> s.wname, look |-> s.look,
     screen |-> s.screen, move |-> s.move, hidden |-> s.hidden,
     named |-> s.name = "user", grouped |-> s.group # "none"]

\* save_count and save_at_full: the slots with user state.  They are written in
\* their order and read back in it, so the file keeps their numbers here.
SavedSlots(T) ==
    LET kept == {i \in Slot : T.slot[i].key # NONE /\ ~IsIdentity(T.slot[i])}
    IN  [i \in kept |-> SavedSlot(T.slot[i])]

\* load_apply_full, for a record with neither path nor widget: the raw key.
LoadApply(T, p) ==
    LET wild == p.look = ANY /\ p.screen = ANY
        W == WithWildcard(T, p.key)
        i == IF wild THEN WildcardSlot(W, p.key) ELSE AllocSlot(T)
        fresh == [EmptySlot EXCEPT !.key = p.key, !.look = p.look, !.screen = p.screen]
        U == IF wild THEN W ELSE Put(T, i, fresh)
    IN  IF i = 0 THEN T
        ELSE Edit(U, i, [U.slot[i] EXCEPT !.move = p.move, !.hidden = p.hidden,
                                          !.name = IF p.named THEN "user" ELSE "none",
                                          !.group = IF p.grouped THEN "user" ELSE "none"])

\* The widget name is preferred, then the path, then the state key.  What waits
\* for a widget has no pattern.
LoadedByKey(T, p) == LoadApply(T, p)
Loaded(T, p) ==
    CASE p.wname # NONE ->
             [T EXCEPT !.by_widget = Append(@, [p EXCEPT !.look = ANY, !.screen = ANY])]
      [] p.wname = NONE /\ p.path # NONE -> [T EXCEPT !.by_path = Append(@, p)]
      [] OTHER -> LoadApply(T, p)

\* The table T after all the slots of a file.
LoadedSlots(T, slots) ==
    LET after[n \in 0 .. NSlots] ==
            IF n = 0 THEN T
            ELSE IF n \in DOMAIN slots THEN Loaded(after[n - 1], slots[n]) ELSE after[n - 1]
    IN  after[NSlots]

-----------------------------------------------------------------------------
\* What is done to a sprite: the transform of its best slot.
Plain == [move |-> 0, hidden |-> FALSE]
Shown(T, e) == LET i == BestMatch(T, e)
               IN  IF i = 0 THEN Plain
                   ELSE [move |-> T.slot[i].move, hidden |-> T.slot[i].hidden]
=============================================================================
