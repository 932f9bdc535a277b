------------------------- MODULE SpriteMenu_proofs -------------------------
(***************************************************************************)
(* Theorems about the editor of the sprite rules: what the user edited is  *)
(* marked to be written; the rules the program adds by itself never change *)
(* what a rule already decides; the index of the sprite table is right;    *)
(* and neither the walk of the draw list nor a gizmo edit changes what is  *)
(* done to a sprite they are not about; and what was done to a texture is  *)
(* done again after the next start.                                        *)
(***************************************************************************)
EXTENDS SpriteMenu, WellFoundedInduction, FiniteSetTheorems, TLAPS
-----------------------------------------------------------------------------
(* The settings. *)

Rule == [pattern : Pattern, aspect : Aspect]
Since == {"never", "recent", "old"}

\* The saved slots are left open: the set of files is what the record has.
Ui(files) == [rules : Seq(Rule), standard : Aspect, auto_sync : BOOLEAN, matrix : Matrix,
              nudge : Nudge, dirty : BOOLEAN, since : Since, file : files]
FileOk(f) == f.there => /\ f.rules \in Seq(Rule) /\ f.standard \in Aspect
                        /\ f.auto_sync \in BOOLEAN /\ f.matrix \in Matrix /\ f.nudge \in Nudge
UiOk(s) == s \in Ui({s.file}) /\ FileOk(s.file)

LEMMA UiFields ==
    ASSUME NEW s, UiOk(s)
    PROVE  /\ s.rules \in Seq(Rule) /\ s.standard \in Aspect /\ s.auto_sync \in BOOLEAN
           /\ s.matrix \in Matrix /\ s.nudge \in Nudge /\ s.dirty \in BOOLEAN /\ s.since \in Since
BY DEF UiOk, Ui

LEMMA RequestIs ==
    ASSUME NEW s, UiOk(s)
    PROVE  /\ UiOk(RequestSave(s)) /\ RequestSave(s).dirty
           /\ RequestSave(s).rules = s.rules /\ RequestSave(s).standard = s.standard
           /\ RequestSave(s).auto_sync = s.auto_sync /\ RequestSave(s).matrix = s.matrix
           /\ RequestSave(s).nudge = s.nudge
           /\ RequestSave(s).file = s.file /\ RequestSave(s).since = s.since
BY DEF UiOk, Ui, RequestSave

\* s with other rules.
WithRules(s, r) == [s EXCEPT !.rules = r]

LEMMA WithRulesIs ==
    ASSUME NEW s, UiOk(s), NEW r \in Seq(Rule)
    PROVE  /\ UiOk(WithRules(s, r)) /\ WithRules(s, r).rules = r
           /\ WithRules(s, r).standard = s.standard /\ WithRules(s, r).auto_sync = s.auto_sync
           /\ WithRules(s, r).matrix = s.matrix /\ WithRules(s, r).dirty = s.dirty
           /\ WithRules(s, r).nudge = s.nudge
           /\ WithRules(s, r).file = s.file /\ WithRules(s, r).since = s.since
BY DEF UiOk, Ui, WithRules

\* The rules of t are those of s and perhaps more behind them; nothing else
\* differs.
Extends(t, s) ==
    /\ UiOk(t) /\ Len(s.rules) <= Len(t.rules)
    /\ \A n \in 1 .. Len(s.rules) : t.rules[n] = s.rules[n]
    /\ t.standard = s.standard /\ t.auto_sync = s.auto_sync /\ t.matrix = s.matrix
    /\ t.nudge = s.nudge /\ t.dirty = s.dirty /\ t.file = s.file /\ t.since = s.since

LEMMA ExtendsItself == ASSUME NEW s, UiOk(s) PROVE Extends(s, s)
BY UiFields DEF Extends

LEMMA AddRuleExtends ==
    ASSUME NEW s, NEW t, UiOk(s), Extends(t, s), NEW p \in Pattern, NEW a \in Aspect
    PROVE  Extends(AddRule(t, p, a), s)
<1> DEFINE q == [pattern |-> p, aspect |-> a]
           r == Append(t.rules, q)
<1>1. q \in Rule /\ t.rules \in Seq(Rule) /\ s.rules \in Seq(Rule)
  BY UiFields DEF Extends, Rule
<1>2. AddRule(t, p, a) = IF Len(t.rules) >= MaxRules THEN t ELSE WithRules(t, r)
  BY DEF AddRule, WithRules
<1> HIDE DEF q
<1>3. r \in Seq(Rule) /\ Len(r) = Len(t.rules) + 1 /\ \A n \in 1 .. Len(t.rules) : r[n] = t.rules[n]
  BY <1>1
<1> HIDE DEF r
<1>4. Len(s.rules) \in Nat /\ Len(t.rules) \in Nat /\ Len(s.rules) <= Len(t.rules)
  BY <1>1 DEF Extends
<1>5. \A n \in 1 .. Len(s.rules) : n \in 1 .. Len(t.rules) /\ t.rules[n] = s.rules[n]
  BY <1>4 DEF Extends
<1>6. Extends(WithRules(t, r), s)
  BY <1>3, <1>4, <1>5, WithRulesIs DEF Extends
<1>7. QED
  BY <1>2, <1>6

-----------------------------------------------------------------------------
(* A loop over a list of names: whatever holds before it and is kept by each *)
(* turn holds after it.                                                      *)

LEMMA NatSet ==
    ASSUME NEW K \in SUBSET Nat, 0 \in K, \A n \in K : n + 1 \in K
    PROVE  K = Nat
<1> SUFFICES ASSUME Nat \ K # {} PROVE FALSE
  OBVIOUS
<1>1. \E x \in Nat \ K : \A y \in Nat \ K : ~ (<<y, x>> \in OpToRel(<, Nat))
  BY NatLessThanWellFounded, WFMin, Zenon
<1>2. \A x, y \in Nat : y < x => <<y, x>> \in OpToRel(<, Nat)
  BY DEF OpToRel
<1>3. PICK x \in Nat \ K : \A y \in Nat \ K : ~ (y < x)
  BY <1>1, <1>2
<1>4. x - 1 \in Nat /\ x - 1 < x /\ (x - 1) + 1 = x
  BY <1>3
<1>5. x - 1 \in K
  BY <1>3, <1>4
<1>6. QED
  BY <1>3, <1>4, <1>5

LEMMA LoopKeeps ==
    ASSUME NEW n \in Nat, NEW w, NEW Q, w[0] \in Q,
           \A k \in 1 .. n : w[k - 1] \in Q => w[k] \in Q
    PROVE  \A k \in 0 .. n : w[k] \in Q
<1> DEFINE K == {k \in Nat : k <= n => w[k] \in Q}
<1>1. 0 \in K
  OBVIOUS
<1>2. ASSUME NEW k \in K PROVE k + 1 \in K
  <2>1. k + 1 <= n => k <= n /\ k + 1 \in 1 .. n /\ (k + 1) - 1 = k
    OBVIOUS
  <2>2. QED
    BY <2>1
<1>3. K = Nat
  <2> HIDE DEF K
  <2>1. K \in SUBSET Nat
    BY DEF K
  <2>2. QED
    BY <1>1, <1>2, <2>1, NatSet
<1>4. QED
  BY <1>3

\* The values of a loop from base over the first n elements of x, one turn of
\* which is F, as a function on the set D of the values it may have.
IsLoop(w, F, base, x, n) ==
    w = [k \in 0 .. n |-> IF k = 0 THEN base ELSE F[<<w[k - 1], x[k]>>]]

LEMMA LoopExists ==
    ASSUME NEW F, NEW base, NEW x, NEW n \in Nat
    PROVE  \E w : IsLoop(w, F, base, x, n)
<1> DEFINE Step(w, k) == IF k = 0 THEN base ELSE F[<<w[k - 1], x[k]>>]
           K == {m \in Nat : \E w : w = [k \in 0 .. m |-> Step(w, k)]}
<1>1. 0 \in K
  <2> DEFINE w == [k \in 0 .. 0 |-> base]
  <2>1. w = [k \in 0 .. 0 |-> Step(w, k)]
    OBVIOUS
  <2>2. QED
    BY <2>1
<1>2. ASSUME NEW m \in K PROVE m + 1 \in K
  <2>1. PICK w : w = [k \in 0 .. m |-> Step(w, k)]
    OBVIOUS
  <2> DEFINE v == [k \in 0 .. m + 1 |-> Step(w, k)]
  <2>2. \A k \in 0 .. m : v[k] = w[k]
    BY <2>1
  <2>3. \A k \in 0 .. m + 1 : k # 0 => k - 1 \in 0 .. m
    OBVIOUS
  <2>4. v = [k \in 0 .. m + 1 |-> Step(v, k)]
    BY <2>2, <2>3
  <2>5. m + 1 \in Nat /\ \E u : u = [k \in 0 .. m + 1 |-> Step(u, k)]
    <3> HIDE DEF v, Step
    <3>1. QED
      BY <2>4
  <2>6. QED
    BY <2>5
<1>3. K = Nat
  <2> HIDE DEF K
  <2>1. K \in SUBSET Nat
    BY DEF K
  <2>2. QED
    BY <1>1, <1>2, <2>1, NatSet
<1>4. QED
  BY <1>3 DEF IsLoop

CanLoop(D, E, F, base, x, n) ==
    F \in [D \X E -> D] /\ base \in D /\ n \in Nat /\ \A k \in 1 .. n : x[k] \in E
Turns(w, D, F, x, n) == \A k \in 1 .. n : w[k - 1] \in D /\ w[k] = F[<<w[k - 1], x[k]>>]

LEMMA LoopIn ==
    ASSUME NEW D, NEW E, NEW F, NEW base, NEW x, NEW n, CanLoop(D, E, F, base, x, n),
           NEW w, IsLoop(w, F, base, x, n)
    PROVE  Turns(w, D, F, x, n)
<1> USE DEF CanLoop, Turns
<1>1. w[0] = base
  BY DEF IsLoop
<1>2. ASSUME NEW k \in 1 .. n PROVE w[k] = F[<<w[k - 1], x[k]>>] /\ k - 1 \in 0 .. n
  <2>1. k \in 0 .. n /\ k # 0 /\ k - 1 \in 0 .. n
    OBVIOUS
  <2>2. QED
    BY <2>1 DEF IsLoop
<1>3. ASSUME NEW k \in 1 .. n, w[k - 1] \in D PROVE w[k] \in D
  <2>1. <<w[k - 1], x[k]>> \in D \X E
    BY <1>3
  <2>2. QED
    BY <1>2, <2>1
<1>4. \A k \in 0 .. n : w[k] \in D
  BY <1>1, <1>3, LoopKeeps
<1>5. QED
  BY <1>2, <1>4

-----------------------------------------------------------------------------
(* The two loops over the rules. *)

LEMMA AddKnownIs == ASSUME NEW s, UiOk(s) PROVE Extends(AddKnown(s), s)
<1> DEFINE D == {t \in Ui({s.file}) : Extends(t, s)}
           F == [p \in D \X Pattern |-> AddUnlessKnown(p[1], p[2])]
           n == Len(Registered)
           IsAfter(f) == f = [k \in 0 .. n |-> IF k = 0 THEN s ELSE AddUnlessKnown(f[k - 1], Registered[k])]
           w == CHOOSE f : IsAfter(f)
<1>1. s \in D
  BY ExtendsItself DEF UiOk
<1>2. ASSUME NEW t \in D, NEW p \in Pattern PROVE AddUnlessKnown(t, p) \in D
  <2>1. Extends(AddRule(t, p, 43), s) /\ Extends(t, s)
    BY <1>2, AddRuleExtends DEF Aspect
  <2>2. Extends(AddUnlessKnown(t, p), s)
    BY <2>1 DEF AddUnlessKnown
  <2>3. \A u : Extends(u, s) => u \in Ui({s.file})
    BY DEF Extends, UiOk
  <2>4. QED
    BY <2>2, <2>3
<1>3. F \in [D \X Pattern -> D] /\ \A t \in D, p \in Pattern : F[<<t, p>>] = AddUnlessKnown(t, p)
  BY <1>2
<1>4. n \in Nat /\ \A k \in 1 .. n : Registered[k] \in Pattern
  BY RulesAssumption DEF Pattern
<1> HIDE DEF D, F, n
<1>5. PICK u : IsLoop(u, F, s, Registered, n)
  BY <1>4, LoopExists
<1>6. \A k \in 1 .. n : u[k - 1] \in D /\ u[k] = F[<<u[k - 1], Registered[k]>>]
  <2>1. CanLoop(D, Pattern, F, s, Registered, n)
    BY <1>1, <1>3, <1>4 DEF CanLoop
  <2>2. Turns(u, D, F, Registered, n)
    BY <1>5, <2>1, LoopIn
  <2>3. QED
    BY <2>2 DEF Turns
<1>7. IsAfter(u)
  <2>1. ASSUME NEW k \in 0 .. n, k # 0
        PROVE  F[<<u[k - 1], Registered[k]>>] = AddUnlessKnown(u[k - 1], Registered[k])
    <3>1. k \in 1 .. n
      BY <1>4, <2>1
    <3>2. QED
      BY <1>3, <1>4, <1>6, <3>1
  <2>2. u = [k \in 0 .. n |-> IF k = 0 THEN s ELSE F[<<u[k - 1], Registered[k]>>]]
    BY <1>5 DEF IsLoop
  <2>3. QED
    BY <2>1, <2>2
<1>8. AddKnown(s) = w[n]
  BY DEF AddKnown, n
<1> HIDE DEF w
<1>9. IsAfter(w)
  BY <1>7 DEF w
<1>10. w[0] = s
  BY <1>4, <1>9
<1>11. ASSUME NEW k \in 1 .. n, w[k - 1] \in D PROVE w[k] \in D
  <2>1. k \in 0 .. n /\ k # 0
    BY <1>4
  <2>2. w[k] = AddUnlessKnown(w[k - 1], Registered[k])
    BY <1>9, <2>1
  <2>3. QED
    BY <1>2, <1>4, <1>11, <2>2
<1>12. w[n] \in D
  <2>1. w[0] \in D /\ n \in 0 .. n
    BY <1>1, <1>4, <1>10
  <2>2. QED
    BY <1>4, <1>11, <2>1, LoopKeeps
<1>13. QED
  BY <1>8, <1>12 DEF D

LEMMA SeededIs == ASSUME NEW s, UiOk(s) PROVE Extends(Seeded(s), s)
<1> DEFINE D == {t \in Ui({s.file}) : Extends(t, s)}
           F == [p \in D \X Pattern |-> AddRule(p[1], p[2], 43)]
           n == Len(Builtin)
           IsAfter(f) == f = [k \in 0 .. n |-> IF k = 0 THEN s ELSE AddRule(f[k - 1], Builtin[k], 43)]
           w == CHOOSE f : IsAfter(f)
<1>1. s \in D
  BY ExtendsItself DEF UiOk
<1>2. ASSUME NEW t \in D, NEW p \in Pattern PROVE AddRule(t, p, 43) \in D
  <2>1. Extends(AddRule(t, p, 43), s)
    BY <1>2, AddRuleExtends DEF Aspect
  <2>2. \A u : Extends(u, s) => u \in Ui({s.file})
    BY DEF Extends, UiOk
  <2>3. QED
    BY <2>1, <2>2
<1>3. F \in [D \X Pattern -> D] /\ \A t \in D, p \in Pattern : F[<<t, p>>] = AddRule(t, p, 43)
  BY <1>2
<1>4. n \in Nat /\ \A k \in 1 .. n : Builtin[k] \in Pattern
  <2>1. Builtin \in Seq(ToSet(Builtin))
    BY RulesAssumption
  <2>2. QED
    BY <2>1 DEF Pattern
<1> HIDE DEF D, F, n
<1>5. PICK u : IsLoop(u, F, s, Builtin, n)
  BY <1>4, LoopExists
<1>6. \A k \in 1 .. n : u[k - 1] \in D /\ u[k] = F[<<u[k - 1], Builtin[k]>>]
  <2>1. CanLoop(D, Pattern, F, s, Builtin, n)
    BY <1>1, <1>3, <1>4 DEF CanLoop
  <2>2. Turns(u, D, F, Builtin, n)
    BY <1>5, <2>1, LoopIn
  <2>3. QED
    BY <2>2 DEF Turns
<1>7. IsAfter(u)
  <2>1. ASSUME NEW k \in 0 .. n, k # 0
        PROVE  F[<<u[k - 1], Builtin[k]>>] = AddRule(u[k - 1], Builtin[k], 43)
    <3>1. k \in 1 .. n
      BY <1>4, <2>1
    <3>2. QED
      BY <1>3, <1>4, <1>6, <3>1
  <2>2. u = [k \in 0 .. n |-> IF k = 0 THEN s ELSE F[<<u[k - 1], Builtin[k]>>]]
    BY <1>5 DEF IsLoop
  <2>3. QED
    BY <2>1, <2>2
<1>8. Seeded(s) = w[n]
  BY DEF Seeded, n
<1> HIDE DEF w
<1>9. IsAfter(w)
  BY <1>7 DEF w
<1>10. w[0] = s
  BY <1>4, <1>9
<1>11. ASSUME NEW k \in 1 .. n, w[k - 1] \in D PROVE w[k] \in D
  <2>1. k \in 0 .. n /\ k # 0
    BY <1>4
  <2>2. w[k] = AddRule(w[k - 1], Builtin[k], 43)
    BY <1>9, <2>1
  <2>3. QED
    BY <1>2, <1>4, <1>11, <2>2
<1>12. w[n] \in D
  <2>1. w[0] \in D /\ n \in 0 .. n
    BY <1>1, <1>4, <1>10
  <2>2. QED
    BY <1>4, <1>11, <2>1, LoopKeeps
<1>13. QED
  BY <1>8, <1>12 DEF D

-----------------------------------------------------------------------------
(* The operations on the settings. *)

\* t is s after something that neither saves nor forgets that s is to be saved.
Keeps(t, s) == UiOk(t) /\ t.file = s.file /\ t.since = s.since /\ (s.dirty => t.dirty)
Marks(t, s) == Keeps(t, s) /\ (Settings(t) # Settings(s) => t.dirty)

LEMMA IfNewIs ==
    ASSUME NEW s, NEW r, UiOk(s), Extends(r, s)
    PROVE  Marks(RequestIfNew(s, r), s) /\ RequestIfNew(s, r).rules = r.rules
           /\ RequestIfNew(s, r).standard = s.standard
<1>1. CASE r.rules # s.rules
  BY <1>1, RequestIs DEF RequestIfNew, Marks, Keeps, Extends
<1>2. CASE r.rules = s.rules
  BY <1>2 DEF RequestIfNew, Marks, Keeps, Extends, Settings
<1>3. QED
  BY <1>1, <1>2

LEMMA SyncedIs ==
    ASSUME NEW s, UiOk(s)
    PROVE  /\ Marks(Synced(s), s) /\ Synced(s).standard = s.standard
           /\ Len(s.rules) <= Len(Synced(s).rules)
           /\ \A n \in 1 .. Len(s.rules) : Synced(s).rules[n] = s.rules[n]
<1>1. Extends(AddKnown(s), s)
  BY AddKnownIs
<1>2. CASE s.auto_sync
  BY <1>1, <1>2, IfNewIs DEF Synced, Extends
<1>3. CASE ~s.auto_sync
  BY <1>3, UiFields DEF Synced, Marks, Keeps
<1>4. QED
  BY <1>2, <1>3

LEMMA ClearAllIs ==
    ASSUME NEW s, UiOk(s)
    PROVE  Keeps(ClearAll(s), s)
<1>1. <<>> \in Seq(Rule)
  OBVIOUS
<1>2. QED
  BY <1>1 DEF ClearAll, UiOk, Ui, Keeps

LEMMA MatrixIs ==
    ASSUME NEW s, UiOk(s), NEW m \in Matrix
    PROVE  Keeps([s EXCEPT !.matrix = m], s)
BY DEF UiOk, Ui, Keeps

LEMMA NudgeIs ==
    ASSUME NEW s, UiOk(s), NEW m \in Nudge
    PROVE  Keeps([s EXCEPT !.nudge = m], s)
BY DEF UiOk, Ui, Keeps

LEMMA AutoSyncIs ==
    ASSUME NEW s, UiOk(s)
    PROVE  Keeps([s EXCEPT !.auto_sync = ~@], s)
BY DEF UiOk, Ui, Keeps

LEMMA AddRuleIs ==
    ASSUME NEW s, UiOk(s), NEW p \in Pattern, NEW a \in Aspect
    PROVE  Keeps(AddRule(s, p, a), s)
BY ExtendsItself, AddRuleExtends DEF Extends, Keeps

LEMMA SetRuleIs ==
    ASSUME NEW s, UiOk(s), NEW n \in DOMAIN s.rules, NEW p \in Pattern, NEW a \in Aspect
    PROVE  Keeps(SetRule(s, n, p, a), s) /\ s.rules[n].pattern \in Pattern /\ s.rules[n].aspect \in Aspect
<1> DEFINE q == [pattern |-> p, aspect |-> a]
           r == [s.rules EXCEPT ![n] = q]
<1>1. s.rules \in Seq(Rule) /\ s.rules[n] \in Rule
  BY UiFields
<1>2. q \in Rule /\ s.rules[n].pattern \in Pattern /\ s.rules[n].aspect \in Aspect
  BY <1>1 DEF Rule
<1>3. SetRule(s, n, p, a) = WithRules(s, r)
  BY UiFields DEF SetRule, WithRules, UiOk, Ui
<1> HIDE DEF q
<1>4. r \in Seq(Rule)
  BY <1>1, <1>2
<1> HIDE DEF r
<1>5. QED
  BY <1>2, <1>3, <1>4, WithRulesIs DEF Keeps

LEMMA RemoveRuleIs ==
    ASSUME NEW s, UiOk(s), NEW n \in DOMAIN s.rules
    PROVE  Keeps(RemoveRule(s, n), s)
<1> DEFINE r == RemoveAt(s.rules, n)
<1>1. s.rules \in Seq(Rule) /\ n \in 1 .. Len(s.rules)
  BY UiFields
<1>2. SubSeq(s.rules, 1, n - 1) \in Seq(Rule) /\ SubSeq(s.rules, n + 1, Len(s.rules)) \in Seq(Rule)
  BY <1>1
<1>3. r \in Seq(Rule)
  BY <1>2 DEF RemoveAt
<1>4. RemoveRule(s, n) = WithRules(s, r)
  BY DEF RemoveRule, WithRules
<1> HIDE DEF r
<1>5. QED
  BY <1>3, <1>4, WithRulesIs DEF Keeps

LEMMA SaveIs ==
    ASSUME NEW s, UiOk(s), NEW T
    PROVE  /\ UiOk(SaveToIni(s, T)) /\ SaveToIni(s, T).file.there
           /\ SaveToIni(s, T).rules = s.rules /\ SaveToIni(s, T).standard = s.standard
<1> DEFINE f == [there |-> TRUE, rules |-> s.rules, standard |-> s.standard,
                 auto_sync |-> s.auto_sync, matrix |-> s.matrix, nudge |-> s.nudge,
                 slots |-> SavedSlots(T)]
<1>1. f.there /\ FileOk(f)
  BY UiFields DEF FileOk
<1>2. SaveToIni(s, T) = [s EXCEPT !.file = f, !.dirty = FALSE, !.since = "recent"]
  BY DEF SaveToIni
<1> HIDE DEF f
<1>3. QED
  BY <1>1, <1>2 DEF UiOk, Ui, Since

LEMMA FlushedIs ==
    ASSUME NEW s, UiOk(s), NEW T, NEW t \in Flushed(s, T)
    PROVE  /\ UiOk(t) /\ (s.file.there => t.file.there)
           /\ t.rules = s.rules /\ t.standard = s.standard
           /\ Wrote(s, t) \/ t = s
<1>1. UiOk(SaveToIni(s, T)) /\ SaveToIni(s, T).dirty = FALSE
  BY SaveIs DEF SaveToIni, UiOk, Ui
<1>2. t = s \/ (s.dirty /\ t = SaveToIni(s, T))
  BY DEF Flushed
<1>3. QED
  BY <1>1, <1>2, SaveIs DEF Wrote

LEMMA InstalledIs ==
    ASSUME NEW s, UiOk(s), NEW T
    PROVE  /\ UiOk(Installed(s, T).ui)
           /\ s.rules = <<>> => Installed(s, T).ui.file.there
           /\ s.file.there => Keeps(Installed(s, T).ui, s)
<1>1. CASE s.rules # <<>>
  BY <1>1 DEF Installed, Keeps
<1>2. CASE s.rules = <<>> /\ s.file.there
  <2>1. Installed(s, T).ui = LoadedSettings(s)
    BY <1>2 DEF Installed
  <2>2. Keeps(LoadedSettings(s), s)
    BY <1>2 DEF LoadedSettings, UiOk, Ui, FileOk, Keeps
  <2>3. QED
    BY <1>2, <2>1, <2>2 DEF Keeps
<1>3. CASE s.rules = <<>> /\ ~s.file.there
  <2>1. Installed(s, T).ui = SaveToIni(Seeded(s), T)
    BY <1>3 DEF Installed
  <2>2. UiOk(Seeded(s))
    BY SeededIs DEF Extends
  <2>3. QED
    BY <1>3, <2>1, <2>2, SaveIs
<1>4. QED
  BY <1>1, <1>2, <1>3

-----------------------------------------------------------------------------
(* What the user changed is marked to be written.                            *)

\* The file is there from the first start on.
SettingsInv == UiOk(ui) /\ ui.file.there

LEMMA KeepsTwice == ASSUME NEW r, NEW s, NEW t, Keeps(t, s), Keeps(s, r) PROVE Keeps(t, r)
BY DEF Keeps

LEMMA KeepsItself == ASSUME NEW s, UiOk(s) PROVE Keeps(s, s)
BY DEF Keeps

LEMMA KeepsRequest == ASSUME NEW s, NEW t, UiOk(s), Keeps(t, s) PROVE Keeps(RequestSave(t), s)
<1>1. Keeps(RequestSave(t), t)
  BY RequestIs DEF Keeps
<1>2. QED
  BY <1>1, KeepsTwice

LEMMA EditIs ==
    ASSUME NEW s, UiOk(s), NEW r \in RuleEdits(s)
    PROVE  Marks(r, s)
<1> USE KeepsRequest
<1>0. ASSUME NEW t, Keeps(t, s) PROVE Marks(RequestSave(t), s)
  <2>1. UiOk(t)
    BY <1>0 DEF Keeps
  <2>2. QED
    BY <1>0, <2>1, RequestIs DEF Marks
<1>1. CASE r \in {RequestSave([s EXCEPT !.matrix = m]) : m \in Matrix \ {s.matrix}}
  BY <1>0, <1>1, MatrixIs
<1>2. CASE r \in {RequestSave([s EXCEPT !.nudge = 0]), RequestSave([s EXCEPT !.auto_sync = ~@]),
                  RequestSave(ClearAll(s))}
  <2>1. Marks(RequestSave([s EXCEPT !.auto_sync = ~@]), s)
    BY <1>0, AutoSyncIs
  <2>2. Marks(RequestSave(ClearAll(s)), s)
    BY <1>0, ClearAllIs
  <2>3. Marks(RequestSave([s EXCEPT !.nudge = 0]), s)
    BY <1>0, NudgeIs DEF Nudge
  <2>4. QED
    BY <1>2, <2>1, <2>2, <2>3
<1>3. CASE r \in {RequestSave(AddRule(s, NONE, 0))} \cup {RequestSave(AddRule(s, top, 43)) : top \in Screen}
  BY <1>0, <1>3, AddRuleIs DEF Pattern, Aspect
<1>4. CASE \E n \in DOMAIN s.rules : r \in {RequestSave(SetRule(s, n, s.rules[n].pattern, a)) : a \in Aspect}
  <2>1. PICK n \in DOMAIN s.rules, a \in Aspect : r = RequestSave(SetRule(s, n, s.rules[n].pattern, a))
    BY <1>4
  <2>2. s.rules[n].pattern \in Pattern
    BY SetRuleIs DEF Pattern, Aspect
  <2>3. QED
    BY <1>0, <2>1, <2>2, SetRuleIs
<1>5. CASE r \in {RequestSave(RemoveRule(s, n)) : n \in DOMAIN s.rules}
  BY <1>0, <1>5, RemoveRuleIs
<1>6. QED
  <2> DEFINE A == {RequestSave([s EXCEPT !.matrix = m]) : m \in Matrix \ {s.matrix}}
             B == {RequestSave([s EXCEPT !.nudge = 0]), RequestSave([s EXCEPT !.auto_sync = ~@]),
                   RequestSave(ClearAll(s))}
             C == {RequestSave(AddRule(s, NONE, 0))} \cup {RequestSave(AddRule(s, top, 43)) : top \in Screen}
             D == {{RequestSave(SetRule(s, n, s.rules[n].pattern, a)) : a \in Aspect} : n \in DOMAIN s.rules}
             E == {RequestSave(RemoveRule(s, n)) : n \in DOMAIN s.rules}
             F == IF Len(s.rules) < MaxRules THEN C ELSE {}
  <2>0. F \subseteq C
    OBVIOUS
  <2>1. r \in A \cup B \cup F \cup (UNION D) \cup E
    BY DEF RuleEdits
  <2>2. r \in UNION D => \E n \in DOMAIN s.rules : r \in {RequestSave(SetRule(s, n, s.rules[n].pattern, a)) : a \in Aspect}
    OBVIOUS
  <2> HIDE DEF A, B, C, D, E, F
  <2>3. r \in A \/ r \in B \/ r \in C \/ r \in UNION D \/ r \in E
    BY <2>0, <2>1
  <2>4. QED
    BY <2>2, <2>3, <1>1, <1>2, <1>3, <1>4, <1>5 DEF A, B, C, E

\* What a step writes: the settings s as the frame leaves them, after
\* flush_pending_save.
LEMMA FlushKeeps ==
    ASSUME SettingsInv, NEW s, Keeps(s, ui), NEW T, ui' \in Flushed(s, T)
    PROVE  SettingsInv'
<1>1. UiOk(s) /\ s.file.there
  BY DEF SettingsInv, Keeps
<1> DEFINE t == ui'
<1>2. t \in Flushed(s, T)
  OBVIOUS
<1> HIDE DEF t
<1>3. UiOk(t) /\ t.file.there
  BY <1>1, <1>2, FlushedIs
<1>4. QED
  BY <1>3 DEF SettingsInv, t

LEMMA StaysDirty ==
    ASSUME SettingsInv, NEW s, Keeps(s, ui), NEW T, ui' \in Flushed(s, T), ~Wrote(s, ui')
    PROVE  ui' = s /\ (ui.dirty => ui'.dirty)
<1>1. UiOk(s) /\ (ui.dirty => s.dirty)
  BY DEF Keeps
<1> DEFINE t == ui'
<1>2. t \in Flushed(s, T) /\ ~Wrote(s, t)
  OBVIOUS
<1> HIDE DEF t
<1>3. t = s
  BY <1>1, <1>2, FlushedIs
<1>4. QED
  BY <1>1, <1>3 DEF t

\* A control that is let go has asked for a save.
LEMMA KeptMarked ==
    ASSUME SettingsInv, EditsAreMarked, NEW s, Keeps(s, ui), NEW T, Kept(s, T), drag' = drag,
           held' = held \/ s.dirty
    PROVE  EditsAreMarked'
<1>1. CASE Wrote(s, ui')
  BY <1>1, Zenon DEF Kept, EditsAreMarked
<1>2. CASE ~Wrote(s, ui')
  <2>1. ui' = s /\ (ui.dirty => ui'.dirty)
    BY <1>2, StaysDirty DEF Kept
  <2>2. (unsaved' => unsaved) /\ (dropped => dropped')
    BY <1>2, Zenon DEF Kept
  <2>3. CASE s.dirty
    BY <2>1, <2>3 DEF EditsAreMarked
  <2>4. CASE held' = held
    BY <2>1, <2>2, <2>4, Zenon DEF EditsAreMarked
  <2>5. QED
    BY <2>3, <2>4
<1>3. QED
  BY <1>1, <1>2

\* What is changed is marked, or changed by a control that is still held.
LEMMA WantedMarked ==
    ASSUME SettingsInv, EditsAreMarked, NEW s, Keeps(s, ui), NEW T, Wanted(s, T), drag' = drag,
           \/ held' # NoControl
           \/ held' = held /\ (<<T, Settings(s)>> # <<table, Settings(ui)>> => s.dirty)
    PROVE  EditsAreMarked'
<1>1. CASE held' # NoControl
  BY <1>1 DEF EditsAreMarked
<1>2. CASE Wrote(s, ui')
  BY <1>2, Zenon DEF Wanted, EditsAreMarked
<1>3. CASE ~Wrote(s, ui') /\ held' = held /\ (<<T, Settings(s)>> # <<table, Settings(ui)>> => s.dirty)
  <2>1. ui' = s /\ (ui.dirty => ui'.dirty)
    BY <1>3, StaysDirty DEF Wanted
  <2>2. (dropped => dropped') /\ (unsaved' => unsaved \/ <<T, Settings(s)>> # <<table, Settings(ui)>>)
    BY <1>3, Zenon DEF Wanted
  <2>3. CASE s.dirty
    BY <2>1, <2>3 DEF EditsAreMarked
  <2>4. CASE ~s.dirty
    <3>1. unsaved' => unsaved
      BY <1>3, <2>2, <2>4, Zenon
    <3>2. QED
      BY <1>3, <2>1, <2>2, <3>1, Zenon DEF EditsAreMarked
  <2>5. QED
    BY <2>3, <2>4
<1>4. QED
  BY <1>1, <1>2, <1>3

\* The settings as each control of the tab leaves them before the flush.
LEMMA TabIs ==
    ASSUME SettingsInv, TabEdit \/ AddAllKnown
    PROVE  \E s, T : /\ Keeps(s, ui) /\ drag' = drag /\ held' = held
                     /\ \/ Kept(s, T)
                        \/ /\ Wanted(s, T)
                           /\ <<T, Settings(s)>> # <<table, Settings(ui)>> => s.dirty
<1>0. UiOk(ui) /\ ui.file.there /\ drag' = drag /\ held' = held /\ Keeps(ui, ui)
  BY KeepsItself DEF SettingsInv, TabEdit, AddAllKnown, Click, mouseVars
<1>1. CASE EditTable
  <2> DEFINE s == Synced(RequestSave(ui))
  <2>1. PICK T \in TableEdits : Wanted(s, T)
    BY <1>1 DEF EditTable
  <2>2. UiOk(RequestSave(ui)) /\ RequestSave(ui).dirty /\ Keeps(RequestSave(ui), ui)
    BY <1>0, RequestIs, KeepsRequest
  <2>3. Keeps(s, RequestSave(ui))
    BY <2>2, SyncedIs DEF Marks
  <2>4. Keeps(s, ui) /\ s.dirty
    BY <2>2, <2>3, KeepsTwice DEF Keeps
  <2> HIDE DEF s
  <2>5. QED
    BY <1>0, <2>1, <2>4
<1>2. CASE EditRules
  <2> DEFINE t == Synced(ui)
  <2>1. Marks(t, ui) /\ UiOk(t)
    BY <1>0, SyncedIs DEF Marks, Keeps
  <2>2. PICK s \in RuleEdits(t) : Wanted(s, table)
    BY <1>2 DEF EditRules
  <2> HIDE DEF t
  <2>3. Marks(s, t)
    BY <2>1, EditIs
  <2>4. Keeps(s, ui)
    BY <2>1, <2>3, KeepsTwice DEF Marks
  <2>5. Settings(s) # Settings(ui) => s.dirty
    BY <2>1, <2>3 DEF Marks, Keeps
  <2>6. QED
    BY <1>0, <2>2, <2>4, <2>5
<1>3. CASE Enable43
  <2> DEFINE I == Installed(ui, table)
             m == [I.ui EXCEPT !.matrix = "rules"]
             s == Synced(RequestSave(m))
  <2>1. Keeps(I.ui, ui) /\ UiOk(I.ui)
    BY <1>0, InstalledIs
  <2>2. Wanted(s, I.table)
    BY <1>3 DEF Enable43
  <2> HIDE DEF I
  <2>3. Keeps(m, I.ui)
    BY <2>1, MatrixIs DEF Matrix
  <2> HIDE DEF m
  <2>4. Keeps(m, ui) /\ UiOk(m)
    BY <2>1, <2>3, KeepsTwice DEF Keeps
  <2>5. UiOk(RequestSave(m)) /\ RequestSave(m).dirty /\ Keeps(RequestSave(m), ui)
    BY <1>0, <2>4, RequestIs, KeepsRequest
  <2>6. Keeps(s, RequestSave(m))
    BY <2>5, SyncedIs DEF Marks
  <2>7. Keeps(s, ui) /\ s.dirty
    BY <2>5, <2>6, KeepsTwice DEF Keeps
  <2> HIDE DEF s
  <2>8. QED
    BY <1>0, <2>2, <2>7
<1>4. CASE RestoreDefaults
  <2> DEFINE c == ClearAll(Synced(ui))
             I == Installed(c, table)
  <2>1. Keeps(Synced(ui), ui) /\ UiOk(Synced(ui))
    BY <1>0, SyncedIs DEF Marks, Keeps
  <2>2. Keeps(c, Synced(ui))
    BY <2>1, ClearAllIs
  <2>3. Keeps(c, ui) /\ UiOk(c)
    BY <2>1, <2>2, KeepsTwice DEF Keeps
  <2>4. c.file.there
    BY <1>0, <2>3 DEF Keeps
  <2>5. Kept(I.ui, I.table)
    BY <1>4 DEF RestoreDefaults
  <2> HIDE DEF c
  <2>6. Keeps(I.ui, ui)
    BY <2>3, <2>4, InstalledIs, KeepsTwice
  <2> HIDE DEF I
  <2>7. QED
    BY <1>0, <2>5, <2>6
<1>5. CASE Toggle
  <2>1. Keeps(Synced(ui), ui) /\ Kept(Synced(ui), table)
    BY <1>0, <1>5, SyncedIs DEF Marks, Toggle
  <2>2. QED
    BY <1>0, <2>1
<1>6. CASE AddAllKnown
  <2> DEFINE t == Synced(ui)
             s == RequestIfNew(t, AddKnown(t))
  <2>1. Marks(t, ui) /\ UiOk(t)
    BY <1>0, SyncedIs DEF Marks, Keeps
  <2>2. Wanted(s, table)
    BY <1>6 DEF AddAllKnown
  <2>3. Marks(s, t)
    BY <2>1, AddKnownIs, IfNewIs
  <2> HIDE DEF s, t
  <2>4. Keeps(s, ui)
    BY <2>1, <2>3, KeepsTwice DEF Marks
  <2>5. Settings(s) # Settings(ui) => s.dirty
    BY <2>1, <2>3 DEF Marks, Keeps
  <2>6. QED
    BY <1>0, <2>2, <2>4, <2>5
<1>7. QED
  BY <1>1, <1>2, <1>3, <1>4, <1>5, <1>6 DEF TabEdit

\* What a slider or a pattern that moves makes of the settings.
LEMMA RuleIs ==
    ASSUME SettingsInv, ChangeRule \/ NudgeAll
    PROVE  held' # NoControl /\ \E s, T : Keeps(s, ui) /\ Wanted(s, T) /\ T = table
<1>0. UiOk(ui) /\ UiOk(Synced(ui)) /\ Keeps(Synced(ui), ui)
  BY SyncedIs DEF SettingsInv, Marks, Keeps
<1>1. CASE ChangeRule
  <2> DEFINE t == Synced(ui)
  <2>1. PICK n \in DOMAIN t.rules :
          \/ /\ Holds(<<"aspect", n>>)
             /\ \E a \in Aspect \ {t.rules[n].aspect} : Wanted(SetRule(t, n, t.rules[n].pattern, a), table)
          \/ /\ Holds(<<"pattern", n>>)
             /\ \E p \in Pattern \ {t.rules[n].pattern} : Wanted(SetRule(t, n, p, t.rules[n].aspect), table)
    BY <1>1 DEF ChangeRule
  <2> HIDE DEF t
  <2>2. t.rules[n].pattern \in Pattern /\ t.rules[n].aspect \in Aspect
    BY <1>0, SetRuleIs DEF t, Pattern, Aspect
  <2>3. \E p \in Pattern, a \in Aspect : Wanted(SetRule(t, n, p, a), table)
    BY <2>1, <2>2
  <2>4. held' # NoControl
    BY <2>1 DEF Holds, NoControl
  <2>5. \A p \in Pattern, a \in Aspect : Keeps(SetRule(t, n, p, a), ui)
    BY <1>0, SetRuleIs, KeepsTwice DEF t
  <2>6. QED
    BY <1>0, <2>3, <2>4, <2>5
<1>2. CASE NudgeAll
  <2> DEFINE t == Synced(ui)
             m == 1 - t.nudge
  <2>1. Wanted([t EXCEPT !.nudge = m], table) /\ held' # NoControl
    BY <1>2 DEF NudgeAll, Holds, NoControl
  <2> HIDE DEF t
  <2>2. m \in Nudge
    BY <1>0, UiFields DEF Nudge, t
  <2> HIDE DEF m
  <2>3. Keeps([t EXCEPT !.nudge = m], ui)
    BY <1>0, <2>2, NudgeIs, KeepsTwice DEF t
  <2>4. QED
    BY <1>0, <2>1, <2>3
<1>3. QED
  BY <1>1, <1>2

LEMMA LiveIs ==
    ASSUME SettingsInv, LiveEdit
    PROVE  /\ drag' = drag /\ held' # NoControl
           /\ \E s, T : Keeps(s, ui) /\ Wanted(s, T)
<1>0. UiOk(ui) /\ UiOk(Synced(ui)) /\ Keeps(Synced(ui), ui) /\ drag' = drag
  BY SyncedIs DEF SettingsInv, Marks, Keeps, LiveEdit
<1>1. CASE MoveRow
  <2>1. PICK i \in Slot, m \in Move :
          Holds(<<"row", i>>) /\ Table(SetTransformAt(table, i, m, table.slot[i].hidden))
    BY <1>1 DEF MoveRow
  <2>2. held' # NoControl
    BY <2>1 DEF Holds, NoControl
  <2>3. QED
    BY <1>0, <2>1, <2>2 DEF Table
<1>2. CASE MoveRows
  <2>1. PICK g \in Label, delta \in (-MaxMove .. MaxMove) \ {0} :
          /\ Holds(<<"group", g>>)
          /\ Table(SetTransforms(table, Rows(g), [i \in Slot |-> table.slot[i].move + delta], Hides))
    BY <1>2, Zenon DEF MoveRows
  <2>2. held' # NoControl
    BY <2>1 DEF Holds, NoControl
  <2>3. QED
    BY <1>0, <2>1, <2>2 DEF Table
<1>3. CASE ChangeRule \/ NudgeAll
  BY <1>0, <1>3, RuleIs
<1>4. QED
  BY <1>1, <1>2, <1>3 DEF LiveEdit

\* Letting go asks for a save and then draws the tab.
LEMMA LetGoKeeps ==
    ASSUME SettingsInv
    PROVE  Keeps(Synced(RequestSave(ui)), ui) /\ Synced(RequestSave(ui)).dirty
<1>1. UiOk(ui) /\ Keeps(ui, ui)
  BY KeepsItself DEF SettingsInv
<1>2. UiOk(RequestSave(ui)) /\ RequestSave(ui).dirty /\ Keeps(RequestSave(ui), ui)
  BY <1>1, RequestIs, KeepsRequest
<1>3. Keeps(Synced(RequestSave(ui)), RequestSave(ui))
  BY <1>2, SyncedIs DEF Marks
<1>4. QED
  BY <1>2, <1>3, KeepsTwice DEF Keeps

LEMMA FreshIs == UiOk(NoSettings) /\ NoSettings.rules = <<>>
BY DEF NoSettings, NoFile, UiOk, Ui, FileOk, Aspect, Matrix, Since, Nudge

LEMMA WithFileIs ==
    ASSUME NEW s, UiOk(s), NEW f, FileOk(f)
    PROVE  /\ UiOk([s EXCEPT !.file = f]) /\ [s EXCEPT !.file = f].file = f
           /\ [s EXCEPT !.file = f].rules = s.rules
BY DEF UiOk, Ui

\* SettingsInv and the promise through a whole step.  What is given up in the
\* middle is remembered; every other end of an edit asks for a save.
LEMMA SettingsStep == ASSUME SettingsInv, [Next]_vars PROVE SettingsInv'
<1>0. UiOk(ui) /\ ui.file.there /\ Keeps(ui, ui) /\ Keeps(Synced(ui), ui)
  BY KeepsItself, SyncedIs DEF SettingsInv, Marks
<1>a. ASSUME NEW s, Keeps(s, ui), NEW T, ui' \in Flushed(s, T) PROVE SettingsInv'
  BY <1>a, FlushKeeps
<1>b. ASSUME UiOk(ui'), ui'.file.there PROVE SettingsInv'
  BY <1>b DEF SettingsInv
<1>c. ASSUME NEW t \in Flushed(ui, table), ui' = t \/ ui' = RequestSave(t) PROVE SettingsInv'
  <2>1. UiOk(t) /\ t.file.there
    BY <1>0, <1>c, FlushedIs
  <2>2. UiOk(RequestSave(t)) /\ RequestSave(t).file.there
    BY <2>1, RequestIs
  <2>3. QED
    BY <1>b, <1>c, <2>1, <2>2
<1>1. CASE ProcessList
  BY <1>1, <1>0 DEF ProcessList, SettingsInv
<1>2. CASE TabEdit \/ AddAllKnown \/ LiveEdit
  <2>1. PICK s, T : Keeps(s, ui) /\ ui' \in Flushed(s, T)
    BY <1>2, TabIs, LiveIs DEF Kept, Wanted
  <2>2. QED
    BY <2>1, <1>a
<1>3. CASE TabSelect
  BY <1>3, <1>0, <1>a DEF TabSelect
<1>4. CASE Idle \/ LoseControl
  BY <1>4, <1>0, <1>a DEF Idle, Kept, LoseControl
<1>14. CASE LetGo
  BY <1>14, <1>0, <1>a, LetGoKeeps DEF LetGo, Kept
<1>5. CASE DragStart
  <2>1. PICK t \in Flushed(ui, table) : ui' = RequestSave(t) \/ ui' = t
    BY <1>5 DEF DragStart
  <2>2. QED
    BY <2>1, <1>c
<1>6. CASE DragMove
  <2>1. PICK t \in Flushed(ui, table) : ui' = t
    BY <1>6 DEF DragMove
  <2>2. QED
    BY <2>1, <1>c
<1>7. CASE DragEnd
  <2>1. PICK t \in Flushed(ui, table) : ui' = RequestSave(t)
    BY <1>7 DEF DragEnd
  <2>2. QED
    BY <2>1, <1>c
<1>8. CASE RightClickReset
  <2>1. PICK t \in Flushed(ui, table) : ui' = RequestSave(t)
    BY <1>8 DEF RightClickReset
  <2>2. QED
    BY <2>1, <1>c
<1>9. CASE Pick
  BY <1>9, <1>0, <1>a DEF Pick, Kept
<1>10. CASE DebounceOver
  BY <1>10, <1>0 DEF DebounceOver, SettingsInv, UiOk, Ui, Since
<1>11. CASE Restart
  <2>1. PICK unloaded \in BOOLEAN :
          ui' = Installed([NoSettings EXCEPT !.file = (IF unloaded THEN SaveToIni(ui, table) ELSE ui).file],
                          EmptyTable).ui
    BY <1>11 DEF Restart
  <2> DEFINE f == (IF unloaded THEN SaveToIni(ui, table) ELSE ui).file
             s == [NoSettings EXCEPT !.file = f]
  <2>2. FileOk(f) /\ f.there
    BY <1>0, SaveIs DEF UiOk
  <2> HIDE DEF f
  <2>3. UiOk(s) /\ s.file = f /\ s.rules = <<>>
    BY <2>2, FreshIs, WithFileIs
  <2>4. s.file.there
    BY <2>2, <2>3
  <2> HIDE DEF s
  <2>5. QED
    BY <2>1, <2>3, <2>4, <1>b, InstalledIs DEF s, f
<1>12. CASE UNCHANGED vars
  BY <1>12, <1>0 DEF vars, SettingsInv
<1>13. QED
  BY <1>1, <1>2, <1>3, <1>4, <1>5, <1>6, <1>7, <1>8, <1>9, <1>10, <1>11, <1>12, <1>14 DEF Next, EndScene

LEMMA MarkedStep == ASSUME SettingsInv, EditsAreMarked, [Next]_vars PROVE EditsAreMarked'
<1>0. UiOk(ui) /\ ui.file.there /\ Keeps(ui, ui) /\ Keeps(Synced(ui), ui)
  BY KeepsItself, SyncedIs DEF SettingsInv, Marks
<1>a. ASSUME NEW t \in Flushed(ui, table), ui' = RequestSave(t) PROVE ui'.dirty
  <2>1. UiOk(t)
    BY <1>0, <1>a, FlushedIs
  <2>2. QED
    BY <1>a, <2>1, RequestIs
<1>1. CASE ProcessList
  BY <1>1 DEF ProcessList, EditsAreMarked, mouseVars
<1>2. CASE TabEdit \/ AddAllKnown
  <2>1. PICK s, T : /\ Keeps(s, ui) /\ drag' = drag /\ held' = held
                    /\ \/ Kept(s, T)
                       \/ /\ Wanted(s, T)
                          /\ <<T, Settings(s)>> # <<table, Settings(ui)>> => s.dirty
    BY <1>2, TabIs
  <2>2. CASE Kept(s, T)
    BY <2>1, <2>2, KeptMarked
  <2>3. CASE Wanted(s, T) /\ (<<T, Settings(s)>> # <<table, Settings(ui)>> => s.dirty)
    BY <2>1, <2>3, WantedMarked
  <2>4. QED
    BY <2>1, <2>2, <2>3
<1>3. CASE TabSelect
  <2>1. CASE drag' # drag
    BY <1>3, <2>1 DEF TabSelect, EditsAreMarked
  <2>2. CASE drag' = drag
    <3>1. dropped' = (dropped /\ ~Wrote(Synced(ui), ui'))
      <4>1. dropped' = (drag # drag' \/ (dropped /\ ~Wrote(Synced(ui), ui')))
        BY <1>3 DEF TabSelect
      <4>2. QED
        BY <2>2, <4>1, Zenon
    <3>2. Kept(Synced(ui), table) /\ held' = held
      BY <1>3, <3>1 DEF TabSelect, Kept
    <3>3. QED
      BY <1>0, <2>2, <3>2, KeptMarked
  <2>3. QED
    BY <2>1, <2>2
<1>4. CASE Idle
  <2>1. drag' = drag /\ held' = held /\ (Kept(Synced(ui), table) \/ Kept(ui, table))
    BY <1>4 DEF Idle, mouseVars
  <2>2. QED
    BY <1>0, <2>1, KeptMarked
<1>5. CASE DragStart
  <2>1. drag' # 0
    BY <1>5 DEF DragStart, GizmoEdit, Handles, Target, InPlace
  <2>2. QED
    BY <2>1 DEF EditsAreMarked
<1>6. CASE DragMove
  <2>1. drag' # 0
    BY <1>6 DEF DragMove, GizmoEdit, Handles
  <2>2. QED
    BY <2>1 DEF EditsAreMarked
<1>7. CASE DragEnd
  <2>1. PICK t \in Flushed(ui, table) : ui' = RequestSave(t)
    BY <1>7 DEF DragEnd
  <2>2. QED
    BY <1>a, <2>1 DEF EditsAreMarked
<1>8. CASE RightClickReset
  <2>1. PICK t \in Flushed(ui, table) : ui' = RequestSave(t)
    BY <1>8 DEF RightClickReset
  <2>2. QED
    BY <1>a, <2>1 DEF EditsAreMarked
<1>9. CASE Pick
  BY <1>9, <1>0, KeptMarked DEF Pick
<1>10. CASE DebounceOver
  <2>1. ui'.dirty = ui.dirty
    BY <1>0, <1>10 DEF DebounceOver, UiOk, Ui
  <2>2. drag' = drag /\ held' = held /\ unsaved' = unsaved /\ dropped' = dropped
    BY <1>10 DEF DebounceOver, mouseVars
  <2>3. QED
    BY <2>1, <2>2, Zenon DEF EditsAreMarked
<1>11. CASE Restart
  BY <1>11 DEF Restart, EditsAreMarked
<1>12. CASE UNCHANGED vars
  BY <1>12, Zenon DEF vars, mouseVars, EditsAreMarked
<1>13. CASE LiveEdit
  <2>1. PICK s, T : Keeps(s, ui) /\ Wanted(s, T)
    BY <1>13, LiveIs
  <2>2. QED
    BY <1>13, <2>1, LiveIs, WantedMarked
<1>14. CASE LetGo
  BY <1>14, LetGoKeeps, KeptMarked DEF LetGo
<1>15. CASE LoseControl
  <2>1. CASE Wrote(ui, ui')
    BY <1>15, <2>1, Zenon DEF LoseControl, EditsAreMarked
  <2>2. CASE ~Wrote(ui, ui')
    BY <1>15, <2>2, Zenon DEF LoseControl, EditsAreMarked
  <2>3. QED
    BY <2>1, <2>2
<1>16. QED
  BY <1>1, <1>2, <1>3, <1>4, <1>5, <1>6, <1>7, <1>8, <1>9, <1>10, <1>11, <1>12, <1>13, <1>14, <1>15
     DEF Next, EndScene

LEMMA SettingsInit == Init => SettingsInv
<1> SUFFICES ASSUME Init PROVE SettingsInv
  OBVIOUS
<1>1. UiOk(NoSettings) /\ NoSettings.rules = <<>>
  BY FreshIs
<1>2. ui = Installed(NoSettings, EmptyTable).ui
  BY DEF Init
<1>3. QED
  BY <1>1, <1>2, InstalledIs DEF SettingsInv

LEMMA SettingsHold == Spec => []SettingsInv
<1>1. SettingsInv /\ [Next]_vars => SettingsInv'
  BY SettingsStep
<1>2. QED
  BY <1>1, SettingsInit, PTL DEF Spec

\* EditsAreMarked: whatever the user changed in the Picture tab or with the
\* gizmo is in the file, marked to be written, or changed by a control or a drag
\* that is still held; only a drag ended with Esc and a control the menu was
\* closed over are none of these.  For every number of slots, rules, screens and
\* edits, and every order of clicks, frames, writes that fail, debounces and
\* restarts.
THEOREM Marked == Spec => []EditsAreMarked
<1>1. Init => EditsAreMarked
  BY DEF Init, EditsAreMarked
<1>2. SettingsInv /\ EditsAreMarked /\ [Next]_vars => EditsAreMarked'
  BY MarkedStep
<1>3. QED
  BY <1>1, <1>2, SettingsHold, PTL DEF Spec

-----------------------------------------------------------------------------
(* Rules behind the others change no match. *)

\* t decides by the rules of s first.
Behind(t, s) ==
    /\ UiOk(t) /\ t.standard = s.standard /\ Len(s.rules) <= Len(t.rules)
    /\ \A n \in 1 .. Len(s.rules) : t.rules[n] = s.rules[n]

LEMMA LeastIs ==
    ASSUME NEW W \in SUBSET Nat, W # {}
    PROVE  \E n \in W : \A m \in W : n <= m
<1>1. \E x \in W : \A y \in W : ~ (<<y, x>> \in OpToRel(<, Nat))
  BY NatLessThanWellFounded, WFMin, Zenon
<1>2. \A x, y \in Nat : y < x => <<y, x>> \in OpToRel(<, Nat)
  BY DEF OpToRel
<1>3. PICK x \in W : \A y \in W : ~ (<<y, x>> \in OpToRel(<, Nat))
  BY <1>1
<1>4. ASSUME NEW y \in W PROVE x <= y
  <2>1. ~ (y < x) /\ x \in Nat /\ y \in Nat
    BY <1>2, <1>3
  <2>2. QED
    BY <2>1
<1>5. QED
  BY <1>4

\* The rules that hit a screen.
Matching(s, name) == {n \in DOMAIN s.rules : Hits(name, s.rules[n].pattern)}
First(W) == CHOOSE n \in W : \A m \in W : n <= m

LEMMA WinnerIs ==
    ASSUME NEW s, UiOk(s), NEW name, Winner(s, name) # 0
    PROVE  /\ Winner(s, name) = First(Matching(s, name))
           /\ Winner(s, name) \in Matching(s, name)
           /\ \A m \in Matching(s, name) : Winner(s, name) <= m
<1>1. Matching(s, name) # {} /\ Winner(s, name) = First(Matching(s, name))
  BY DEF Winner, Matching, First
<1>2. Matching(s, name) \in SUBSET Nat
  BY UiFields DEF Matching
<1>3. \E n \in Matching(s, name) : \A m \in Matching(s, name) : n <= m
  BY <1>1, <1>2, LeastIs
<1>4. QED
  BY <1>1, <1>3 DEF First

LEMMA BehindKeeps ==
    ASSUME NEW s, UiOk(s), NEW t, Behind(t, s), NEW name, Winner(s, name) # 0
    PROVE  ResolveAspect(t, name) = ResolveAspect(s, name)
<1> DEFINE w == Winner(s, name)
<1>1. /\ s.rules \in Seq(Rule) /\ t.rules \in Seq(Rule)
      /\ DOMAIN s.rules = 1 .. Len(s.rules) /\ DOMAIN t.rules = 1 .. Len(t.rules)
      /\ Len(s.rules) \in Nat /\ Len(t.rules) \in Nat /\ Len(s.rules) <= Len(t.rules)
  BY UiFields DEF Behind
<1>2. w \in Matching(s, name) /\ \A m \in Matching(s, name) : w <= m
  BY WinnerIs
<1>3. w \in 1 .. Len(s.rules) /\ t.rules[w] = s.rules[w] /\ w \in Matching(t, name)
  <2>1. w \in 1 .. Len(s.rules) /\ Hits(name, s.rules[w].pattern)
    BY <1>1, <1>2 DEF Matching
  <2>2. t.rules[w] = s.rules[w] /\ w \in 1 .. Len(t.rules)
    BY <1>1, <2>1 DEF Behind
  <2>3. QED
    BY <1>1, <2>1, <2>2 DEF Matching
<1>4. ASSUME NEW m \in Matching(t, name) PROVE w <= m
  <2>1. m \in 1 .. Len(t.rules) /\ Hits(name, t.rules[m].pattern)
    BY <1>1 DEF Matching
  <2>2. CASE m \in 1 .. Len(s.rules)
    <3>1. m \in Matching(s, name)
      BY <1>1, <2>1, <2>2 DEF Matching, Behind
    <3>2. QED
      BY <1>2, <3>1
  <2>3. CASE m \notin 1 .. Len(s.rules)
    BY <1>1, <1>3, <2>1, <2>3
  <2>4. QED
    BY <2>2, <2>3
<1>5. Winner(t, name) = w /\ w # 0
  <2>0. Winner(t, name) = First(Matching(t, name))
    BY <1>3 DEF Winner, Matching, First
  <2>1. Matching(t, name) \in SUBSET Nat
    BY <1>1 DEF Matching
  <2>2. PICK v \in Matching(t, name) : v = First(Matching(t, name)) /\ \A m \in Matching(t, name) : v <= m
    BY <1>3, <2>1, LeastIs DEF First
  <2>3. v <= w /\ w <= v /\ v \in Nat /\ w \in Nat
    BY <1>3, <1>4, <2>1, <2>2
  <2>4. QED
    BY <1>3, <2>0, <2>2, <2>3
<1>6. t.standard = s.standard
  BY DEF Behind
<1> HIDE DEF w
<1>7. ResolveAspect(t, name) = t.rules[w].aspect
  BY <1>5 DEF ResolveAspect
<1>8. ResolveAspect(s, name) = s.rules[w].aspect
  BY DEF ResolveAspect, w
<1>9. QED
  BY <1>3, <1>7, <1>8

LEMMA BehindItself == ASSUME NEW s, UiOk(s) PROVE Behind(s, s)
BY UiFields DEF Behind

LEMMA BehindFlush ==
    ASSUME NEW s, UiOk(s), NEW t, Behind(t, s), NEW T, NEW u \in Flushed(t, T) PROVE Behind(u, s)
BY FlushedIs DEF Behind

LEMMA BehindRequest == ASSUME NEW s, UiOk(s), NEW t, Behind(t, s) PROVE Behind(RequestSave(t), s)
BY RequestIs DEF Behind

LEMMA BehindSync == ASSUME NEW s, UiOk(s) PROVE Behind(Synced(s), s)
BY SyncedIs DEF Behind, Marks, Keeps

\* Both are bounds of the model, but they tell the user's steps from the
\* program's.
CountInv == used \in Nat /\ restarts \in Nat

LEMMA CountStep == ASSUME CountInv, [Next]_vars PROVE CountInv'
<1> USE DEF CountInv
<1>1. TabEdit \/ AddAllKnown \/ LiveEdit \/ DragStart \/ DragMove \/ RightClickReset
        => used' = used + 1 /\ restarts' = restarts
  BY DEF TabEdit, AddAllKnown, Click, LiveEdit, DragStart, DragMove, RightClickReset, GizmoEdit
<1>2. ProcessList \/ LetGo \/ LoseControl \/ TabSelect \/ Idle \/ DragEnd \/ Pick \/ DebounceOver
      \/ UNCHANGED vars
        => used' = used /\ restarts' = restarts
  BY DEF ProcessList, LetGo, LoseControl, TabSelect, Idle, DragEnd, Pick, DebounceOver, vars
<1>3. Restart => used' = used /\ restarts' = restarts + 1
  BY DEF Restart
<1>4. QED
  BY <1>1, <1>2, <1>3 DEF Next, EndScene

\* What the frame leaves of rules behind the others.
LEMMA BehindStep ==
    ASSUME SettingsInv, NEW s, Behind(s, ui), NEW T, ui' \in Flushed(s, T) PROVE Behind(ui', ui)
<1> DEFINE t == ui'
<1>1. t \in Flushed(s, T) /\ UiOk(ui)
  BY DEF SettingsInv
<1> HIDE DEF t
<1>2. Behind(t, ui)
  BY <1>1, BehindFlush
<1>3. QED
  BY <1>2 DEF t

\* "Add ALL known screens".
LEMMA ByHand == ASSUME SettingsInv, AddAllKnown PROVE Behind(ui', ui)
<1> DEFINE t == Synced(ui)
           s == RequestIfNew(t, AddKnown(t))
<1>1. UiOk(ui) /\ UiOk(t) /\ Behind(t, ui)
  BY BehindSync, SyncedIs DEF SettingsInv, Marks, Keeps
<1>2. ui' \in Flushed(s, table)
  BY DEF AddAllKnown, Wanted
<1> HIDE DEF t
<1>3. Extends(AddKnown(t), t)
  BY <1>1, AddKnownIs
<1>4. Marks(s, t) /\ s.rules = AddKnown(t).rules /\ s.standard = t.standard
  BY <1>1, <1>3, IfNewIs
<1> HIDE DEF s
<1>5. Behind(s, t)
  BY <1>3, <1>4 DEF Behind, Extends, Marks, Keeps
<1>6. Behind(s, ui)
  <2>1. ui.rules \in Seq(Rule) /\ t.rules \in Seq(Rule) /\ s.rules \in Seq(Rule)
    BY <1>1, <1>5, UiFields DEF Behind
  <2>2. \A n \in 1 .. Len(ui.rules) : n \in 1 .. Len(t.rules)
    BY <1>1, <2>1 DEF Behind
  <2>3. Len(ui.rules) <= Len(s.rules)
    BY <1>1, <1>5, <2>1 DEF Behind
  <2>4. QED
    BY <1>1, <1>5, <2>2, <2>3 DEF Behind
<1>7. QED
  BY <1>2, <1>6, BehindStep

\* What the program does by itself between two clicks.
LEMMA ByItself ==
    ASSUME SettingsInv, CountInv, [Next]_vars, used' = used, restarts' = restarts
    PROVE  Behind(ui', ui)
<1>0. UiOk(ui) /\ Behind(ui, ui) /\ Behind(Synced(ui), ui)
  BY BehindItself, BehindSync DEF SettingsInv
<1>a. ASSUME NEW s, Behind(s, ui), NEW T, ui' \in Flushed(s, T) PROVE Behind(ui', ui)
  BY <1>a, BehindStep
<1>1. ~(TabEdit \/ AddAllKnown \/ LiveEdit \/ DragStart \/ DragMove \/ RightClickReset)
  <2>1. TabEdit \/ AddAllKnown \/ LiveEdit \/ DragStart \/ DragMove \/ RightClickReset => used' = used + 1
    BY DEF TabEdit, AddAllKnown, Click, LiveEdit, DragStart, DragMove, RightClickReset, GizmoEdit
  <2>2. QED
    BY <2>1 DEF CountInv
<1>2. ~Restart
  BY DEF Restart, CountInv
<1>3. CASE ProcessList \/ UNCHANGED vars
  BY <1>0, <1>3 DEF ProcessList, vars
<1>4. CASE TabSelect
  BY <1>0, <1>4, <1>a DEF TabSelect
<1>5. CASE Idle \/ LoseControl
  BY <1>0, <1>5, <1>a DEF Idle, Kept, LoseControl
<1>6. CASE DragEnd
  <2>1. PICK t \in Flushed(ui, table) : ui' = RequestSave(t)
    BY <1>6 DEF DragEnd
  <2>2. Behind(t, ui)
    BY <1>0, BehindFlush
  <2>3. QED
    BY <1>0, <2>1, <2>2, BehindRequest
<1>7. CASE Pick
  BY <1>0, <1>7, <1>a DEF Pick, Kept
<1>8. CASE DebounceOver
  <2>1. ui' = [ui EXCEPT !.since = "old"] /\ UiOk([ui EXCEPT !.since = "old"])
    BY <1>0, <1>8 DEF DebounceOver, UiOk, Ui, Since
  <2>2. [ui EXCEPT !.since = "old"].rules = ui.rules /\ [ui EXCEPT !.since = "old"].standard = ui.standard
    BY <1>0 DEF UiOk, Ui
  <2>3. QED
    BY <1>0, <2>1, <2>2 DEF Behind
<1>9. CASE LetGo
  <2> DEFINE r == RequestSave(ui)
  <2>1. UiOk(r) /\ r.rules = ui.rules /\ r.standard = ui.standard
    BY <1>0, RequestIs
  <2>2. ui' \in Flushed(Synced(r), table)
    BY <1>9 DEF LetGo, Kept
  <2> HIDE DEF r
  <2>3. Behind(Synced(r), ui)
    BY <2>1, BehindSync DEF Behind
  <2>4. QED
    BY <2>2, <2>3, <1>a
<1>10. QED
  BY <1>1, <1>2, <1>3, <1>4, <1>5, <1>6, <1>7, <1>8, <1>9 DEF Next, EndScene

\* SyncKeepsMatches: adding the rules of the screens the engine knows, by the
\* button or by auto-sync, never changes the aspect of a screen that some rule
\* already covers, and nothing else the program does by itself does.  For every
\* table of rules, registry and way patterns match.
THEOREM KeepsMatches == Spec => SyncKeepsMatches
<1>1. Init => CountInv
  BY DEF Init, CountInv
<1>2. CountInv /\ [Next]_vars => CountInv'
  BY CountStep
<1>3. ASSUME SettingsInv, CountInv, [Next]_vars
      PROVE  AddAllKnown \/ (used' = used /\ restarts' = restarts) =>
               \A name \in Screen : Winner(ui, name) # 0 => ResolveAspect(ui', name) = ResolveAspect(ui, name)
  <2> SUFFICES ASSUME AddAllKnown \/ (used' = used /\ restarts' = restarts), NEW name \in Screen, Winner(ui, name) # 0
               PROVE  ResolveAspect(ui', name) = ResolveAspect(ui, name)
    OBVIOUS
  <2> DEFINE s == ui
             t == ui'
  <2>1. UiOk(s) /\ Behind(t, s) /\ Winner(s, name) # 0
    BY <1>3, ByItself, ByHand DEF SettingsInv
  <2> HIDE DEF s, t
  <2>2. ResolveAspect(t, name) = ResolveAspect(s, name)
    BY <2>1, BehindKeeps
  <2>3. QED
    BY <2>2 DEF s, t
<1>4. QED
  BY <1>1, <1>2, <1>3, SettingsHold, PTL DEF Spec, SyncKeepsMatches

-----------------------------------------------------------------------------
(* The table of sprites: its index by state key.                             *)
\* A slot with its fields, and one that shows nothing unless it was edited.
Parts == {"key", "look", "screen", "widget", "last", "move", "hidden", "edit"}
Entry(s) == Parts \subseteq DOMAIN s /\ s.key \in Key \cup {NONE} /\ s.last \in Drawn \cup {NoSprite}
Sound(s) == Entry(s) /\ s.edit \in Nat /\ (s.edit = 0 => s.move = 0 /\ s.hidden = FALSE)

\* The tables whose index is right.
Fields == {"slot", "index", "edits", "frame", "by_path", "by_widget"}
TableOk(T) ==
    /\ Fields \subseteq DOMAIN T /\ T.edits \in Nat \ {0}
    /\ DOMAIN T.slot = Slot /\ \A i \in Slot : Sound(T.slot[i])
    /\ T.index = [k \in Key |-> {i \in Slot : T.slot[i].key = k}]
SlotsOk(f) == f.there => \A n \in DOMAIN f.slots : f.slots[n].key \in Key

\* T with other slots of the same keys.
SameKeys(f, T) ==
    DOMAIN f = Slot /\ \A i \in Slot : Sound(f[i]) /\ f[i].key = T.slot[i].key

LEMMA SameKeysOk ==
    ASSUME NEW T, TableOk(T), NEW f, SameKeys(f, T), NEW U,
           Fields \subseteq DOMAIN U, U.edits \in Nat \ {0},
           U.slot = f, U.index = T.index
    PROVE  TableOk(U)
<1>1. \A k \in Key : {i \in Slot : T.slot[i].key = k} = {i \in Slot : f[i].key = k}
  BY DEF SameKeys
<1>2. QED
  BY <1>1 DEF TableOk, SameKeys

LEMMA SameSlotsOk ==
    ASSUME NEW T, TableOk(T), NEW U,
           Fields \subseteq DOMAIN U, U.edits \in Nat \ {0},
           U.slot = T.slot, U.index = T.index
    PROVE  TableOk(U)
BY DEF TableOk, Fields

\* A slot that keeps its key.
LEMMA SlotOk ==
    ASSUME NEW T, TableOk(T), NEW i \in Slot, NEW s, Sound(s), s.key = T.slot[i].key
    PROVE  LET U == [T EXCEPT !.slot[i] = s]
           IN  TableOk(U) /\ U.slot[i] = s
<1> DEFINE f == [T.slot EXCEPT ![i] = s]
           U == [T EXCEPT !.slot[i] = s]
<1>1. U.slot = f /\ U.index = T.index /\ DOMAIN U = DOMAIN T /\ U.edits = T.edits
  BY DEF TableOk, Fields
<1>2. DOMAIN f = Slot /\ f[i] = s /\ \A j \in Slot : j # i => f[j] = T.slot[j]
  BY DEF TableOk
<1> HIDE DEF f, U
<1>3. SameKeys(f, T)
  BY <1>2 DEF SameKeys, TableOk
<1>4. TableOk(U)
  <2>1. Fields \subseteq DOMAIN U /\ U.edits \in Nat \ {0}
    BY <1>1 DEF TableOk
  <2>2. QED
    BY <1>1, <1>3, <2>1, SameKeysOk
<1>5. U.slot[i] = s
  BY <1>1, <1>2
<1>6. QED
  BY <1>4, <1>5 DEF U

\* An edit gives a slot a number.
LEMMA NumberedIs ==
    ASSUME NEW s, Entry(s), NEW n \in Nat \ {0}
    PROVE  LET r == [s EXCEPT !.edit = n]
           IN  /\ Sound(r) /\ r.edit = n /\ r.key = s.key
               /\ r.look = s.look /\ r.screen = s.screen /\ r.widget = s.widget
BY DEF Entry, Sound, Parts

LEMMA EditOk ==
    ASSUME NEW T, TableOk(T), NEW i \in Slot, NEW s, Entry(s), s.key = T.slot[i].key
    PROVE  /\ TableOk(Edit(T, i, s)) /\ Edit(T, i, s).edits = T.edits + 1
           /\ Edit(T, i, s).slot = [T.slot EXCEPT ![i] = [s EXCEPT !.edit = T.edits]]
<1> DEFINE r == [s EXCEPT !.edit = T.edits]
           V == [T EXCEPT !.slot[i] = r]
           U == Edit(T, i, s)
<1>1. Sound(r) /\ r.key = T.slot[i].key
  <2>1. T.edits \in Nat \ {0}
    BY DEF TableOk
  <2> HIDE DEF r
  <2>2. QED
    BY <2>1, NumberedIs DEF r
<1>2. /\ U.slot = V.slot /\ U.index = V.index /\ DOMAIN U = DOMAIN V /\ U.edits = T.edits + 1
      /\ U.slot = [T.slot EXCEPT ![i] = r]
  BY DEF Edit, TableOk, Fields
<1> HIDE DEF r, U
<1>3. TableOk(V)
  BY <1>1, SlotOk
<1> HIDE DEF V
<1>4. U.edits \in Nat \ {0}
  BY <1>2 DEF TableOk
<1>5. Fields \subseteq DOMAIN U
  BY <1>2, <1>3 DEF TableOk
<1>6. TableOk(U)
  BY <1>2, <1>3, <1>4, <1>5, SameSlotsOk
<1>7. QED
  BY <1>2, <1>6 DEF U, r

\* The index follows a slot that changes its key.
LEMMA PutOk ==
    ASSUME NEW T, TableOk(T), NEW i \in Slot, NEW s, Sound(s)
    PROVE  /\ TableOk(Put(T, i, s)) /\ Put(T, i, s).slot[i] = s
           /\ Put(T, i, s).edits = T.edits
           /\ \A j \in Slot : j # i => Put(T, i, s).slot[j] = T.slot[j]
<1> DEFINE f == [T.slot EXCEPT ![i] = s]
           x == [k \in Key |-> IF k = s.key THEN T.index[k] \cup {i} ELSE T.index[k] \ {i}]
           U == Put(T, i, s)
<1>1. U.slot = f /\ U.index = x /\ DOMAIN U = DOMAIN T /\ U.edits = T.edits
  BY DEF Put, TableOk, Fields
<1>2. DOMAIN f = Slot /\ f[i] = s /\ \A j \in Slot : j # i => f[j] = T.slot[j]
  BY DEF TableOk
<1>3. \A k \in Key : T.index[k] = {j \in Slot : T.slot[j].key = k}
  BY DEF TableOk
<1> HIDE DEF f, U
<1>4. ASSUME NEW k \in Key
      PROVE  x[k] = {j \in Slot : f[j].key = k}
  <2>1. CASE k = s.key
    BY <1>2, <1>3, <2>1
  <2>2. CASE k # s.key
    BY <1>2, <1>3, <2>2
  <2>3. QED
    BY <2>1, <2>2
<1>5. x = [k \in Key |-> {j \in Slot : f[j].key = k}]
  BY <1>4
<1> HIDE DEF x
<1>6. TableOk(U)
  BY <1>1, <1>2, <1>5 DEF TableOk
<1>7. QED
  BY <1>1, <1>2, <1>6 DEF U

LEMMA PutEditOk ==
    ASSUME NEW T, TableOk(T), NEW i \in Slot, NEW s, Entry(s)
    PROVE  LET U == Edit(Put(T, i, s), i, s)
           IN  /\ TableOk(U) /\ U.edits = T.edits + 1
               /\ U.slot = [T.slot EXCEPT ![i] = [s EXCEPT !.edit = T.edits]]
<1> DEFINE r == [s EXCEPT !.edit = T.edits]
           V == Put(T, i, r)
           U == Edit(Put(T, i, s), i, s)
<1>1. Sound(r) /\ r.key = s.key
  <2>1. T.edits \in Nat \ {0}
    BY DEF TableOk
  <2> HIDE DEF r
  <2>2. QED
    BY <2>1, NumberedIs DEF r
<1>2. /\ U.slot = [T.slot EXCEPT ![i] = r] /\ DOMAIN U = DOMAIN T /\ U.edits = T.edits + 1
      /\ U.index = [k \in Key |-> IF k = s.key THEN T.index[k] \cup {i} ELSE T.index[k] \ {i}]
  BY DEF Edit, Put, TableOk, Fields
<1>3. /\ V.slot = [T.slot EXCEPT ![i] = r]
      /\ V.index = [k \in Key |-> IF k = r.key THEN T.index[k] \cup {i} ELSE T.index[k] \ {i}]
  BY DEF Put, TableOk, Fields
<1> HIDE DEF r, U
<1>4. TableOk(V)
  BY <1>1, PutOk
<1> HIDE DEF V
<1>5. U.slot = V.slot /\ U.index = V.index
  BY <1>1, <1>2, <1>3
<1>6. Fields \subseteq DOMAIN U /\ U.edits \in Nat \ {0}
  BY <1>2 DEF TableOk
<1>7. TableOk(U)
  BY <1>4, <1>5, <1>6, SameSlotsOk
<1>8. QED
  BY <1>2, <1>7 DEF U, r

LEMMA EmptyOk == TableOk(EmptyTable) /\ Sound(EmptySlot) /\ EmptySlot.key = NONE
                 /\ \A k \in Key : Sound([EmptySlot EXCEPT !.key = k]) /\ [EmptySlot EXCEPT !.key = k].key = k
<1>1. Sound(EmptySlot) /\ EmptySlot.key = NONE
  BY DEF EmptySlot, Sound, Entry, Parts
<1>2. \A k \in Key : Sound([EmptySlot EXCEPT !.key = k]) /\ [EmptySlot EXCEPT !.key = k].key = k
  BY DEF EmptySlot, Sound, Entry, Parts
<1>3. \A k \in Key : {i \in Slot : EmptyTable.slot[i].key = k} = {}
  BY <1>1, WildcardAssumption DEF EmptyTable
<1>4. TableOk(EmptyTable)
  BY <1>1, <1>3 DEF EmptyTable, TableOk, Fields
<1>5. QED
  BY <1>1, <1>2, <1>4

LEMMA AllocIs == ASSUME NEW T PROVE AllocSlot(T) \in Slot \cup {0}
<1> DEFINE free == {i \in Slot : T.slot[i].key = NONE}
           lru  == {i \in Slot : ~Pinned(T.slot[i])}
           old  == {i \in lru : \A j \in lru : T.slot[i].seen <= T.slot[j].seen}
           pool == IF free # {} THEN free ELSE old
<1>1. pool \in SUBSET Slot
  OBVIOUS
<1>2. AllocSlot(T) = IF pool = {} THEN 0 ELSE CHOOSE i \in pool : \A j \in pool : i <= j
  BY DEF AllocSlot
<1> HIDE DEF pool
<1>3. pool \in SUBSET Nat
  BY <1>1, SizeAssumption DEF Slot
<1>4. CASE pool # {}
  <2>1. \E n \in pool : \A m \in pool : n <= m
    BY <1>3, <1>4, LeastIs
  <2>2. QED
    BY <1>1, <1>2, <1>4, <2>1
<1>5. QED
  BY <1>2, <1>4

LEMMA WildcardIs ==
    ASSUME NEW T, TableOk(T), NEW k \in Key
    PROVE  WildcardSlot(T, k) \in Slot \cup {0}
<1> DEFINE W == {i \in T.index[k] : IsWildcard(T.slot[i])}
<1>1. W \in SUBSET Slot
  BY DEF TableOk
<1>2. WildcardSlot(T, k) = IF W = {} THEN 0 ELSE CHOOSE i \in W : \A j \in W : i <= j
  BY DEF WildcardSlot
<1> HIDE DEF W
<1>3. W \in SUBSET Nat
  BY <1>1, SizeAssumption DEF Slot
<1>4. CASE W # {}
  <2>1. \E n \in W : \A m \in W : n <= m
    BY <1>3, <1>4, LeastIs
  <2>2. QED
    BY <1>1, <1>2, <1>4, <2>1
<1>5. QED
  BY <1>2, <1>4

LEMMA WithWildcardOk ==
    ASSUME NEW T, TableOk(T), NEW k \in Key
    PROVE  TableOk(WithWildcard(T, k))
<1> DEFINE a == AllocSlot(T)
           s == [EmptySlot EXCEPT !.key = k]
<1>1. Sound(s) /\ a \in Slot \cup {0}
  BY AllocIs, EmptyOk
<1>2. a # 0 => TableOk(Put(T, a, s))
  <2> HIDE DEF a, s
  <2>1. QED
    BY <1>1, PutOk
<1>3. QED
  BY <1>2 DEF WithWildcard

LEMMA BestIs ==
    ASSUME NEW T, TableOk(T), NEW e, e.key \in Key
    PROVE  BestMatch(T, e) \in Slot \cup {0}
BY DEF BestMatch, BestMatches, TableOk

\* Fields other than the slots and the index.
LEMMA OtherFieldsOk ==
    ASSUME NEW T, TableOk(T), NEW x
    PROVE  /\ TableOk([T EXCEPT !.frame = x]) /\ TableOk([T EXCEPT !.by_path = x])
           /\ TableOk([T EXCEPT !.by_widget = x])
BY DEF TableOk, Fields

-----------------------------------------------------------------------------
(* The walk of the draw list. *)

LEMMA RuledIs ==
    ASSUME NEW s, Entry(s), NEW r
    PROVE  Entry(Ruled(s, r)) /\ Ruled(s, r).key = s.key
BY DEF Entry, Parts, Ruled

LEMMA TakeWidgetOk ==
    ASSUME NEW T, TableOk(T), NEW i \in Slot
    PROVE  TableOk(TakeWidgetRules(T, i))
<1> DEFINE s == T.slot[i]
           mine == {n \in DOMAIN T.by_widget : T.by_widget[n].wname = s.wname}
           rest == SelectSeq(T.by_widget, LAMBDA p : p.wname # s.wname)
           r == Ruled(s, Applied(s, T.by_widget, mine))
           v == [r EXCEPT !.widget = s.wname]
           U == Edit(T, i, v)
<1>1. TakeWidgetRules(T, i) = IF s.wname = NONE \/ mine = {} THEN T ELSE [U EXCEPT !.by_widget = rest]
  BY DEF TakeWidgetRules
<1>2. Entry(r) /\ r.key = s.key
  <2>1. Entry(s)
    BY DEF TableOk, Sound
  <2>2. QED
    BY <2>1, RuledIs
<1> HIDE DEF mine, rest, r
<1>3. Entry(v) /\ v.key = s.key
  BY <1>2 DEF Entry, Parts
<1> HIDE DEF v
<1>4. TableOk(U)
  BY <1>3, EditOk
<1> HIDE DEF U
<1>5. TableOk([U EXCEPT !.by_widget = rest])
  BY <1>4, OtherFieldsOk
<1>6. QED
  BY <1>1, <1>5

LEMMA TryPathOk ==
    ASSUME NEW T, TableOk(T), NEW i \in Slot, NEW path
    PROVE  TableOk(TryPath(T, i, path))
<1> DEFINE s == [T.slot[i] EXCEPT !.tried = TRUE]
           named == [s EXCEPT !.path = path,
                              !.name = IF @ = "none" THEN "auto" ELSE @,
                              !.group = IF @ = "none" /\ auto_group THEN "auto" ELSE @]
           mine == {n \in DOMAIN T.by_path : T.by_path[n].path = path}
           rest == SelectSeq(T.by_path, LAMBDA p : p.path # path)
           r == Ruled(named, Applied(named, T.by_path, mine))
           U == Edit(T, i, r)
           A == [T EXCEPT !.slot[i] = s]
           B == [T EXCEPT !.slot[i] = named]
           C == [U EXCEPT !.by_path = rest]
<1>1. TryPath(T, i, path) \in {T, A, B, C}
  <2> HIDE DEF s, named, mine, rest, r
  <2>1. TryPath(T, i, path) =
          CASE T.slot[i].tried -> T
            [] ~T.slot[i].tried /\ path = NONE -> A
            [] ~T.slot[i].tried /\ path # NONE /\ mine = {} -> B
            [] OTHER -> C
    BY DEF TryPath, s, named, mine, rest, r
  <2> HIDE DEF A, B, C
  <2>2. QED
    BY <2>1
<1>2. Sound(s) /\ s.key = T.slot[i].key
  BY DEF TableOk, Sound, Entry, Parts
<1> HIDE DEF s
<1>3. Sound(named) /\ named.key = T.slot[i].key
  BY <1>2 DEF Sound, Entry, Parts
<1> HIDE DEF named
<1>4. Entry(r) /\ r.key = T.slot[i].key
  BY <1>3, RuledIs DEF Sound
<1> HIDE DEF r, rest
<1>5. TableOk(A)
  BY <1>2, SlotOk
<1>6. TableOk(B)
  BY <1>3, SlotOk
<1>7. TableOk(C)
  <2>1. TableOk(U)
    BY <1>4, EditOk
  <2> HIDE DEF U
  <2>2. QED
    BY <2>1, OtherFieldsOk
<1> HIDE DEF A, B, C
<1>8. QED
  BY <1>1, <1>5, <1>6, <1>7

LEMMA SeenIs ==
    ASSUME NEW s, Sound(s), NEW e \in Drawn, NEW n
    PROVE  LET r == SeeSprite(s, e, n)
           IN  /\ Sound(r) /\ r.key = s.key /\ r.edit = s.edit
               /\ r.look = s.look /\ r.screen = s.screen /\ r.widget = s.widget
               /\ r.move = s.move /\ r.hidden = s.hidden
<1> DEFINE w == IF s.wname = NONE THEN e.widget ELSE s.wname
           r == [s EXCEPT !.seen = n, !.last = e, !.wname = w]
<1>1. SeeSprite(s, e, n) = r
  BY DEF SeeSprite
<1> HIDE DEF w
<1>2. QED
  BY <1>1 DEF Sound, Entry, Parts

LEMMA SeenByOk ==
    ASSUME NEW T, TableOk(T), NEW e \in Drawn, NEW path
    PROVE  TableOk(SeenBy(T, e, path))
<1> DEFINE i == BestMatch(T, e)
           s == SeeSprite(T.slot[i], e, T.frame)
           T1 == [T EXCEPT !.slot[i] = s]
<1>1. i \in Slot \cup {0}
  BY BestIs, DrawnAssumption
<1>2. SeenBy(T, e, path) = IF i = 0 THEN T ELSE TryPath(TakeWidgetRules(T1, i), i, path)
  BY DEF SeenBy
<1> HIDE DEF i
<1>3. CASE i \in Slot
  <2>1. Sound(s) /\ s.key = T.slot[i].key
    <3>1. Sound(T.slot[i])
      BY <1>3 DEF TableOk
    <3>2. QED
      BY <3>1, SeenIs
  <2> HIDE DEF s
  <2>2. TableOk(T1)
    BY <1>3, <2>1, SlotOk
  <2> HIDE DEF T1
  <2>3. TableOk(TakeWidgetRules(T1, i))
    BY <1>3, <2>2, TakeWidgetOk
  <2>4. QED
    BY <1>2, <1>3, <2>3, TryPathOk
<1>4. QED
  BY <1>1, <1>2, <1>3

\* A table with its index right, and quads of its slots.
WalkOk(f) == TableOk(f.table) /\ f.quads \subseteq Slot

LEMMA AfterSpriteOk ==
    ASSUME NEW f, WalkOk(f), NEW e \in Drawn
    PROVE  WalkOk(AfterSprite(f, e))
<1> DEFINE T == IF f.table.index[e.key] = {} THEN WithWildcard(f.table, e.key) ELSE f.table
           i == BestMatch(T, e)
           U == SeenBy(T, e, path_of[e.key])
           q == IF i # 0 /\ enabled /\ ~U.slot[i].hidden THEN f.quads \cup {i} ELSE f.quads
<1>1. AfterSprite(f, e) = [table |-> U, quads |-> q]
  BY DEF AfterSprite
<1>2. TableOk(T)
  BY WithWildcardOk, DrawnAssumption DEF WalkOk
<1> HIDE DEF T
<1>3. i \in Slot \cup {0}
  BY <1>2, BestIs, DrawnAssumption
<1>4. TableOk(U)
  BY <1>2, SeenByOk
<1> HIDE DEF U, i
<1>5. q \subseteq Slot
  BY <1>3 DEF WalkOk
<1> HIDE DEF q
<1>6. QED
  BY <1>1, <1>4, <1>5 DEF WalkOk

\* The walk sprite by sprite.
WalkStart == [table |-> [table EXCEPT !.frame = @ + 1], quads |-> {}]
LEMMA ListedIs ==
    ASSUME NEW n \in Nat, NEW list \in [1 .. n -> Drawn], list # <<>>
    PROVE  \E w : /\ Listed(list) = w[n] /\ w[0] = WalkStart
                  /\ \A k \in 1 .. n : w[k] = AfterSprite(w[k - 1], list[k])
<1> DEFINE Step(w, k) == IF k = 0 THEN WalkStart ELSE AfterSprite(w[k - 1], list[k])
           IsAfter(f) == f = [k \in 0 .. Len(list) |-> Step(f, k)]
           w == CHOOSE f : IsAfter(f)
<1>1. Listed(list) = w[Len(list)]
  BY DEF Listed, WalkStart
<1>2. Len(list) = n
  BY DrawnAssumption
<1>3. \E f : IsAfter(f)
  <2> DEFINE K == {m \in Nat : \E v : v = [k \in 0 .. m |-> Step(v, k)]}
  <2>1. 0 \in K
    <3> DEFINE v == [k \in 0 .. 0 |-> WalkStart]
    <3>1. v = [k \in 0 .. 0 |-> Step(v, k)]
      OBVIOUS
    <3>2. QED
      BY <3>1
  <2>2. ASSUME NEW m \in K PROVE m + 1 \in K
    <3>1. PICK u : u = [k \in 0 .. m |-> Step(u, k)]
      OBVIOUS
    <3> DEFINE v == [k \in 0 .. m + 1 |-> Step(u, k)]
    <3>2. \A k \in 0 .. m : v[k] = u[k]
      BY <3>1
    <3>3. \A k \in 0 .. m + 1 : k # 0 => k - 1 \in 0 .. m
      OBVIOUS
    <3>4. v = [k \in 0 .. m + 1 |-> Step(v, k)]
      BY <3>2, <3>3
    <3>5. m + 1 \in Nat /\ \E t : t = [k \in 0 .. m + 1 |-> Step(t, k)]
      <4> HIDE DEF v, Step
      <4>1. QED
        BY <3>4
    <3>6. QED
      BY <3>5
  <2>3. K = Nat
    <3> HIDE DEF K
    <3>1. K \in SUBSET Nat
      BY DEF K
    <3>2. QED
      BY <2>1, <2>2, <3>1, NatSet
  <2>4. QED
    BY <1>2, <2>3
<1>4. IsAfter(w)
  BY <1>3
<1> HIDE DEF w
<1>5. /\ w[n] = w[Len(list)] /\ w[0] = WalkStart
      /\ \A k \in 1 .. n : w[k] = AfterSprite(w[k - 1], list[k])
  BY <1>2, <1>4
<1>6. QED
  BY <1>1, <1>5

LEMMA ListedOk ==
    ASSUME TableOk(table), quads \subseteq Slot, NEW n \in Nat, NEW list \in [1 .. n -> Drawn]
    PROVE  WalkOk(Listed(list)) /\ WalkOk(WalkStart)
<1> DEFINE x == table.frame + 1
           V == [table EXCEPT !.frame = x]
<1>1. WalkStart = [table |-> V, quads |-> {}]
  BY DEF WalkStart
<1> HIDE DEF x
<1>2. TableOk(V)
  BY OtherFieldsOk
<1> HIDE DEF V
<1>3. WalkOk(WalkStart)
  BY <1>1, <1>2 DEF WalkOk
<1>4. CASE list = <<>>
  <2> DEFINE L == [table |-> table, quads |-> quads]
  <2>1. Listed(list) = L /\ WalkOk(L)
    BY <1>4 DEF Listed, WalkOk
  <2> HIDE DEF L
  <2>2. QED
    BY <1>3, <2>1
<1>5. CASE list # <<>>
  <2>1. PICK w : /\ Listed(list) = w[n] /\ w[0] = WalkStart
                 /\ \A k \in 1 .. n : w[k] = AfterSprite(w[k - 1], list[k])
    BY <1>5, ListedIs
  <2> DEFINE K == {k \in Nat : k <= n => WalkOk(w[k])}
  <2>2. 0 \in K
    BY <1>3, <2>1
  <2>3. ASSUME NEW k \in K PROVE k + 1 \in K
    <3>1. CASE k + 1 <= n
      <4>1. k + 1 \in 1 .. n /\ (k + 1) - 1 = k /\ WalkOk(w[k])
        BY <3>1
      <4>2. w[k + 1] = AfterSprite(w[k], list[k + 1])
        BY <2>1, <4>1
      <4>3. QED
        BY <4>1, <4>2, AfterSpriteOk
    <3>2. QED
      BY <3>1
  <2>4. K = Nat
    <3> HIDE DEF K
    <3>1. K \in SUBSET Nat
      BY DEF K
    <3>2. QED
      BY <2>2, <2>3, <3>1, NatSet
  <2>5. WalkOk(w[n])
    BY <2>4
  <2>6. QED
    BY <1>3, <2>1, <2>5
<1>6. QED
  BY <1>4, <1>5

-----------------------------------------------------------------------------
(* The file. *)

LEMMA SavedOk ==
    ASSUME NEW T, TableOk(T)
    PROVE  \A n \in DOMAIN SavedSlots(T) : SavedSlots(T)[n].key \in Key
<1> DEFINE kept == {i \in Slot : T.slot[i].key # NONE /\ ~IsIdentity(T.slot[i])}
<1>1. SavedSlots(T) = [i \in kept |-> SavedSlot(T.slot[i])]
  BY DEF SavedSlots
<1>2. \A i \in kept : T.slot[i].key \in Key
  BY DEF TableOk, Sound, Entry, Parts
<1>3. \A i \in kept : SavedSlot(T.slot[i]).key \in Key
  BY <1>2 DEF SavedSlot
<1> HIDE DEF kept
<1>4. QED
  BY <1>1, <1>3

LEMMA LoadApplyOk ==
    ASSUME NEW T, TableOk(T), NEW p, p.key \in Key
    PROVE  TableOk(LoadApply(T, p))
<1> DEFINE wild == p.look = ANY /\ p.screen = ANY
           W == WithWildcard(T, p.key)
           i == IF wild THEN WildcardSlot(W, p.key) ELSE AllocSlot(T)
           fresh == [EmptySlot EXCEPT !.key = p.key, !.look = p.look, !.screen = p.screen]
           U == IF wild THEN W ELSE Put(T, i, fresh)
           v == [U.slot[i] EXCEPT !.move = p.move, !.hidden = p.hidden,
                                  !.name = IF p.named THEN "user" ELSE "none",
                                  !.group = IF p.grouped THEN "user" ELSE "none"]
<1>1. LoadApply(T, p) = IF i = 0 THEN T ELSE Edit(U, i, v)
  BY DEF LoadApply
<1>2. TableOk(W)
  BY WithWildcardOk
<1>3. i \in Slot \cup {0}
  <2>1. WildcardSlot(W, p.key) \in Slot \cup {0}
    <3> HIDE DEF W
    <3>1. QED
      BY <1>2, WildcardIs
  <2>2. QED
    BY <2>1, AllocIs
<1>4. Sound(fresh)
  BY DEF EmptySlot, Sound, Entry, Parts
<1> HIDE DEF W, i, fresh
<1>5. CASE i \in Slot
  <2>1. TableOk(U)
    BY <1>2, <1>4, <1>5, PutOk
  <2> HIDE DEF U
  <2>2. Entry(v) /\ v.key = U.slot[i].key
    BY <1>5, <2>1 DEF TableOk, Sound, Entry, Parts
  <2> HIDE DEF v
  <2>3. TableOk(Edit(U, i, v))
    BY <1>5, <2>1, <2>2, EditOk
  <2>4. QED
    BY <1>1, <2>3
<1>6. QED
  BY <1>1, <1>3, <1>5

LEMMA LoadedOk ==
    ASSUME NEW T, TableOk(T), NEW p, p.key \in Key
    PROVE  TableOk(Loaded(T, p))
<1> DEFINE A == [T EXCEPT !.by_widget = Append(T.by_widget, [p EXCEPT !.look = ANY, !.screen = ANY])]
           B == [T EXCEPT !.by_path = Append(T.by_path, p)]
<1>1. TableOk(A) /\ TableOk(B) /\ TableOk(LoadApply(T, p))
  <2> DEFINE a == Append(T.by_widget, [p EXCEPT !.look = ANY, !.screen = ANY])
             b == Append(T.by_path, p)
  <2> HIDE DEF a, b
  <2>1. QED
    BY OtherFieldsOk, LoadApplyOk DEF a, b
<1>2. Loaded(T, p) \in {A, B, LoadApply(T, p)}
  <2> DEFINE C == LoadApply(T, p)
  <2>1. Loaded(T, p) = CASE p.wname # NONE -> A
                         [] p.wname = NONE /\ p.path # NONE -> B
                         [] OTHER -> C
    BY DEF Loaded
  <2> HIDE DEF A, B, C
  <2>2. QED
    BY <2>1 DEF C
<1> HIDE DEF A, B
<1>3. QED
  BY <1>1, <1>2

\* The load slot by slot.
LoadTurn(T, slots, n) == IF n \in DOMAIN slots THEN Loaded(T, slots[n]) ELSE T
LEMMA LoadedSlotsIs ==
    ASSUME NEW T, NEW slots
    PROVE  \E w : /\ LoadedSlots(T, slots) = w[NSlots] /\ w[0] = T
                  /\ \A k \in 1 .. NSlots : w[k] = LoadTurn(w[k - 1], slots, k)
<1> DEFINE Step(w, k) == IF k = 0 THEN T ELSE LoadTurn(w[k - 1], slots, k)
           IsAfter(f) == f = [k \in 0 .. NSlots |-> Step(f, k)]
           w == CHOOSE f : IsAfter(f)
<1>1. LoadedSlots(T, slots) = w[NSlots]
  BY DEF LoadedSlots, LoadTurn
<1>2. NSlots \in Nat
  BY SizeAssumption
<1>3. \E f : IsAfter(f)
  <2> DEFINE K == {m \in Nat : \E v : v = [k \in 0 .. m |-> Step(v, k)]}
  <2>1. 0 \in K
    <3> DEFINE v == [k \in 0 .. 0 |-> T]
    <3>1. v = [k \in 0 .. 0 |-> Step(v, k)]
      OBVIOUS
    <3>2. QED
      BY <3>1
  <2>2. ASSUME NEW m \in K PROVE m + 1 \in K
    <3>1. PICK u : u = [k \in 0 .. m |-> Step(u, k)]
      OBVIOUS
    <3> DEFINE v == [k \in 0 .. m + 1 |-> Step(u, k)]
    <3>2. \A k \in 0 .. m : v[k] = u[k]
      BY <3>1
    <3>3. \A k \in 0 .. m + 1 : k # 0 => k - 1 \in 0 .. m
      OBVIOUS
    <3>4. v = [k \in 0 .. m + 1 |-> Step(v, k)]
      BY <3>2, <3>3
    <3>5. m + 1 \in Nat /\ \E t : t = [k \in 0 .. m + 1 |-> Step(t, k)]
      <4> HIDE DEF v, Step
      <4>1. QED
        BY <3>4
    <3>6. QED
      BY <3>5
  <2>3. K = Nat
    <3> HIDE DEF K
    <3>1. K \in SUBSET Nat
      BY DEF K
    <3>2. QED
      BY <2>1, <2>2, <3>1, NatSet
  <2>4. QED
    BY <1>2, <2>3
<1>4. IsAfter(w)
  BY <1>3
<1> HIDE DEF w
<1>5. w[0] = T /\ \A k \in 1 .. NSlots : w[k] = LoadTurn(w[k - 1], slots, k)
  BY <1>2, <1>4
<1>6. QED
  BY <1>1, <1>5

LEMMA LoadedSlotsOk ==
    ASSUME NEW T, TableOk(T), NEW slots, \A n \in DOMAIN slots : slots[n].key \in Key
    PROVE  TableOk(LoadedSlots(T, slots))
<1>1. PICK w : /\ LoadedSlots(T, slots) = w[NSlots] /\ w[0] = T
               /\ \A k \in 1 .. NSlots : w[k] = LoadTurn(w[k - 1], slots, k)
  BY LoadedSlotsIs
<1>2. NSlots \in Nat
  BY SizeAssumption
<1>3. ASSUME NEW t, TableOk(t), NEW k
      PROVE  TableOk(LoadTurn(t, slots, k))
  BY <1>3, LoadedOk DEF LoadTurn
<1>4. TableOk(w[NSlots])
  <2> DEFINE K == {k \in Nat : k <= NSlots => TableOk(w[k])}
  <2>1. 0 \in K
    BY <1>1
  <2>2. ASSUME NEW k \in K PROVE k + 1 \in K
    <3>1. CASE k + 1 <= NSlots
      <4>1. k + 1 \in 1 .. NSlots /\ (k + 1) - 1 = k /\ TableOk(w[k])
        BY <1>2, <3>1
      <4>2. w[k + 1] = LoadTurn(w[k], slots, k + 1)
        BY <1>1, <4>1
      <4>3. QED
        BY <1>3, <4>1, <4>2
    <3>2. QED
      BY <3>1
  <2>3. K = Nat
    <3> HIDE DEF K
    <3>1. K \in SUBSET Nat
      BY DEF K
    <3>2. QED
      BY <2>1, <2>2, <3>1, NatSet
  <2>4. QED
    BY <1>2, <2>3
<1>5. QED
  BY <1>1, <1>4

LEMMA InstalledTableOk ==
    ASSUME NEW s, SlotsOk(s.file), NEW T, TableOk(T)
    PROVE  TableOk(Installed(s, T).table)
<1>1. s.file.there => TableOk(LoadedTable(s, T))
  BY LoadedSlotsOk DEF SlotsOk, LoadedTable
<1>2. Installed(s, T).table = T \/ (s.file.there /\ Installed(s, T).table = LoadedTable(s, T))
  BY DEF Installed
<1>3. QED
  BY <1>1, <1>2

-----------------------------------------------------------------------------
(* The edits. *)

LEMMA TransformOk ==
    ASSUME NEW T, TableOk(T), NEW i, NEW move, NEW hidden
    PROVE  /\ TableOk(SetTransformAt(T, i, move, hidden))
           /\ TableOk(ResetTransformAt(T, i))
<1> DEFINE s == [T.slot[i] EXCEPT !.move = move, !.hidden = hidden]
           r == [T.slot[i] EXCEPT !.move = 0, !.hidden = FALSE]
<1>1. i \in Slot => /\ Entry(s) /\ s.key = T.slot[i].key
                    /\ Entry(r) /\ r.key = T.slot[i].key
  BY DEF TableOk, Sound, Entry, Parts
<1> HIDE DEF s, r
<1>2. i \in Slot => TableOk(Edit(T, i, s)) /\ TableOk(Edit(T, i, r))
  BY <1>1, EditOk
<1>3. QED
  BY <1>2 DEF SetTransformAt, ResetTransformAt, Live, s, r

LEMMA LabelOk ==
    ASSUME NEW T, TableOk(T), NEW i, NEW label
    PROVE  TableOk(SetNameAt(T, i, label)) /\ TableOk(SetGroupAt(T, i, label))
<1> DEFINE s == [T.slot[i] EXCEPT !.name = label]
           r == [T.slot[i] EXCEPT !.group = label]
<1>1. i \in Slot => /\ Entry(s) /\ s.key = T.slot[i].key
                    /\ Entry(r) /\ r.key = T.slot[i].key
  BY DEF TableOk, Sound, Entry, Parts
<1> HIDE DEF s, r
<1>2. i \in Slot => TableOk(Edit(T, i, s)) /\ TableOk(Edit(T, i, r))
  BY <1>1, EditOk
<1>3. QED
  BY <1>2 DEF SetNameAt, SetGroupAt, Live, s, r

LEMMA RemoveOk ==
    ASSUME NEW T, TableOk(T), NEW i
    PROVE  TableOk(RemoveSlot(T, i)) /\ TableOk(ForgetAllKeys(T))
<1>1. i \in Slot => TableOk(Put(T, i, EmptySlot))
  BY PutOk, EmptyOk
<1>2. TableOk(RemoveSlot(T, i))
  BY <1>1 DEF RemoveSlot, Live
<1>3. TableOk(ForgetAllKeys(T))
  <2> DEFINE U == ForgetAllKeys(T)
  <2>1. /\ U.slot = EmptyTable.slot /\ U.index = EmptyTable.index /\ Fields \subseteq DOMAIN U
        /\ U.edits \in Nat \ {0}
    BY DEF ForgetAllKeys, TableOk, Fields
  <2> HIDE DEF U
  <2>2. TableOk(U)
    BY <2>1, EmptyOk, SameSlotsOk
  <2>3. QED
    BY <2>2 DEF U
<1>4. QED
  BY <1>2, <1>3

\* Edits that change many slots, and neither their keys nor the index.
Many(T, f, edits) == [T EXCEPT !.slot = f, !.edits = edits]

LEMMA ManyOk ==
    ASSUME NEW T, TableOk(T), NEW f, SameKeys(f, T), NEW edits \in Nat \ {0}
    PROVE  TableOk(Many(T, f, edits)) /\ TableOk([T EXCEPT !.slot = f])
<1>1. /\ Many(T, f, edits).slot = f /\ Many(T, f, edits).index = T.index
      /\ Fields \subseteq DOMAIN Many(T, f, edits) /\ Many(T, f, edits).edits \in Nat \ {0}
  BY DEF Many, TableOk, Fields
<1>2. /\ [T EXCEPT !.slot = f].slot = f /\ [T EXCEPT !.slot = f].index = T.index
      /\ Fields \subseteq DOMAIN [T EXCEPT !.slot = f] /\ [T EXCEPT !.slot = f].edits \in Nat \ {0}
  BY DEF TableOk, Fields
<1>3. QED
  BY <1>1, <1>2, SameKeysOk

LEMMA RowsOk ==
    ASSUME NEW T, TableOk(T), NEW rows \in SUBSET Slot, NEW move, NEW hidden
    PROVE  TableOk(SetTransforms(T, rows, move, hidden))
<1> DEFINE n(i) == T.edits + Cardinality({j \in rows : j < i})
           u(i) == [T.slot[i] EXCEPT !.move = move[i], !.hidden = hidden[i]]
           v(i) == [u(i) EXCEPT !.edit = n(i)]
           f == [i \in Slot |-> IF i \notin rows THEN T.slot[i] ELSE v(i)]
<1>1. SetTransforms(T, rows, move, hidden) = Many(T, f, T.edits + Cardinality(rows))
  BY DEF SetTransforms, Many
<1>2. \A i \in Slot : Entry(u(i)) /\ u(i).key = T.slot[i].key
  BY DEF TableOk, Sound, Entry, Parts
<1>3. \A X \in SUBSET rows : T.edits + Cardinality(X) \in Nat \ {0}
  <2>1. IsFiniteSet(Slot)
    BY FS_Interval, SizeAssumption DEF Slot
  <2>2. \A X \in SUBSET rows : Cardinality(X) \in Nat
    BY <2>1, FS_Subset, FS_CardinalityType
  <2>3. QED
    BY <2>2 DEF TableOk
<1>4. \A i \in Slot : n(i) \in Nat \ {0}
  BY <1>3
<1> HIDE DEF n, u
<1>5. \A i \in Slot : Sound(v(i)) /\ v(i).key = T.slot[i].key
  BY <1>2, <1>4, NumberedIs
<1> HIDE DEF v
<1>6. SameKeys(f, T)
  BY <1>5 DEF SameKeys, TableOk
<1> HIDE DEF f
<1>7. T.edits + Cardinality(rows) \in Nat \ {0}
  BY <1>3
<1>8. QED
  BY <1>1, <1>6, <1>7, ManyOk

LEMMA AllOk ==
    ASSUME NEW T, TableOk(T)
    PROVE  TableOk(ResetAllTransforms(T)) /\ TableOk(AutoGroupAll(T))
<1> DEFINE v(i) == [T.slot[i] EXCEPT !.move = 0, !.hidden = FALSE]
           u(i) == [T.slot[i] EXCEPT !.group = "auto"]
           takes(i) == Live(T, i) /\ T.slot[i].group = "none" /\ T.slot[i].path # NONE
           f == [i \in Slot |-> v(i)]
           g == [i \in Slot |-> IF takes(i) THEN u(i) ELSE T.slot[i]]
<1>1. ResetAllTransforms(T) = [T EXCEPT !.slot = f] /\ AutoGroupAll(T) = [T EXCEPT !.slot = g]
  BY DEF ResetAllTransforms, AutoGroupAll
<1>2. \A i \in Slot : /\ Sound(v(i)) /\ v(i).key = T.slot[i].key
                      /\ Sound(u(i)) /\ u(i).key = T.slot[i].key
  BY DEF TableOk, Sound, Entry, Parts
<1> HIDE DEF v, u, takes
<1>3. SameKeys(f, T) /\ SameKeys(g, T)
  BY <1>2 DEF SameKeys, TableOk
<1> HIDE DEF f, g
<1>4. QED
  BY <1>1, <1>3, ManyOk

LEMMA MoveGroupOk ==
    ASSUME NEW T, TableOk(T), NEW i, NEW delta
    PROVE  TableOk(MoveGroup(T, i, delta))
<1> DEFINE peers == {j \in Slot \ {i} : Live(T, j) /\ T.slot[j].group # "none"}
<1>1. \/ MoveGroup(T, i, delta) = T
      \/ \E move, hidden : MoveGroup(T, i, delta) = SetTransforms(T, peers, move, hidden)
  BY DEF MoveGroup
<1>2. peers \in SUBSET Slot
  OBVIOUS
<1> HIDE DEF peers
<1>3. QED
  BY <1>1, <1>2, RowsOk

LEMMA SpecializedOk ==
    ASSUME NEW T, TableOk(T), NEW i
    PROVE  TableOk(Specialized(T, i).table) /\ Specialized(T, i).at \in Slot \cup {0}
<1> DEFINE a == AllocSlot(T)
           s == IF a = i THEN EmptySlot ELSE Narrowed(T.slot[i])
           t == CHOOSE j \in Twins(T, i) : TRUE
           none == [at |-> 0, table |-> T]
           twin == [at |-> t, table |-> T]
           made == [at |-> a, table |-> Edit(Put(T, a, s), a, s)]
           last == T.slot[i].last
<1>1. Specialized(T, i) =
        CASE ~Live(T, i) \/ (Live(T, i) /\ last = NoSprite) -> none
          [] Live(T, i) /\ last # NoSprite /\ Twins(T, i) # {} -> twin
          [] Live(T, i) /\ last # NoSprite /\ Twins(T, i) = {} /\ a = 0 -> none
          [] OTHER -> made
  BY DEF Specialized
<1> HIDE DEF none, twin, made, a
<1>2. \/ Specialized(T, i) = none
      \/ Live(T, i) /\ Twins(T, i) # {} /\ Specialized(T, i) = twin
      \/ Live(T, i) /\ a # 0 /\ Specialized(T, i) = made
  BY <1>1
<1>3. Live(T, i) /\ Twins(T, i) # {} => t \in Slot
  BY DEF TableOk, Sound, Entry, Parts, Live, Twins
<1>4. a \in Slot \cup {0}
  BY AllocIs DEF a
<1>5. Live(T, i) => Entry(s)
  <2>1. Live(T, i) => Entry(T.slot[i])
    BY DEF TableOk, Sound, Live
  <2>2. Live(T, i) => Entry(Narrowed(T.slot[i]))
    BY <2>1 DEF Narrowed, EmptySlot, Entry, Parts
  <2>3. QED
    BY <2>2, EmptyOk DEF Sound
<1> HIDE DEF s, t
<1>6. Live(T, i) /\ a # 0 => TableOk(Edit(Put(T, a, s), a, s))
  BY <1>4, <1>5, PutEditOk
<1>7. QED
  BY <1>2, <1>3, <1>4, <1>6 DEF none, twin, made

\* Everything a row, a group or a button of the tab makes of the table.
LEMMA RowEditsOk ==
    ASSUME TableOk(table), NEW i \in Slot, NEW T \in RowEdits(i)
    PROVE  TableOk(T)
<1> DEFINE s == table.slot[i]
<1>1. \/ \E m, h : T = SetTransformAt(table, i, m, h)
      \/ T = ResetTransformAt(table, i)
      \/ \E label : T = SetNameAt(table, i, label) \/ T = SetGroupAt(table, i, label)
      \/ T = Specialized(table, i).table
      \/ T = RemoveSlot(table, i)
  <2> DEFINE A == {SetTransformAt(table, i, s.move, ~s.hidden), ResetTransformAt(table, i)}
             C == {SetNameAt(table, i, "user")}
             D == {SetGroupAt(table, i, label) : label \in {"none", "user"} \ {s.group}}
             E == IF SaysWildcard(s) /\ s.last # NoSprite THEN {Specialized(table, i).table} ELSE {}
             F == IF SaysWildcard(s) THEN {} ELSE {RemoveSlot(table, i)}
  <2>1. T \in A \cup C \cup D \cup E \cup F
    BY DEF RowEdits
  <2>2. T \in A => T = ResetTransformAt(table, i) \/ \E m, h : T = SetTransformAt(table, i, m, h)
    OBVIOUS
  <2>4. T \in C \/ T \in D => \E label : T = SetNameAt(table, i, label) \/ T = SetGroupAt(table, i, label)
    OBVIOUS
  <2>5. T \in E => T = Specialized(table, i).table
    OBVIOUS
  <2>6. T \in F => T = RemoveSlot(table, i)
    OBVIOUS
  <2> HIDE DEF A, C, D, E, F
  <2>7. QED
    BY <2>1, <2>2, <2>4, <2>5, <2>6
<1>2. QED
  BY <1>1, TransformOk, LabelOk, SpecializedOk, RemoveOk

LEMMA TableEditsOk ==
    ASSUME TableOk(table), NEW T \in TableEdits
    PROVE  TableOk(T)
<1> DEFINE live == {j \in Slot : Live(table, j)}
<1>1. CASE \E i \in live : T \in RowEdits(i)
  BY <1>1, RowEditsOk
<1>2. CASE \E i \in live : T \in GroupEdits(table.slot[i].group)
  <2>1. \A g : Rows(g) \in SUBSET Slot
    BY DEF Rows
  <2>2. QED
    BY <1>2, <2>1, RowsOk DEF GroupEdits
<1>3. CASE T \in {ResetAllTransforms(table), ForgetAllKeys(table), AutoGroupAll(table)}
  BY <1>3, AllOk, RemoveOk
<1> HIDE DEF live
<1>4. QED
  <2>1. \/ T \in UNION {RowEdits(i) : i \in live}
        \/ T \in UNION {GroupEdits(table.slot[i].group) : i \in live}
        \/ T \in {ResetAllTransforms(table), ForgetAllKeys(table), AutoGroupAll(table)}
    BY DEF TableEdits, live
  <2>2. QED
    BY <2>1, <1>1, <1>2, <1>3

LEMMA TargetOk ==
    ASSUME TableOk(table), NEW m
    PROVE  TableOk(Dragged(Target.table, Target.at, m)) /\ TableOk(Dragged(table, selected, m))
<1>1. ASSUME NEW T, TableOk(T), NEW i PROVE TableOk(Dragged(T, i, m))
  BY <1>1, TransformOk, MoveGroupOk DEF Dragged
<1>2. TableOk(Target.table)
  BY SpecializedOk DEF Target, InPlace
<1>3. QED
  BY <1>1, <1>2

LEMMA SaveSlots ==
    ASSUME NEW s, UiOk(s), NEW T, TableOk(T)
    PROVE  SlotsOk(SaveToIni(s, T).file)
<1>1. SaveToIni(s, T).file.slots = SavedSlots(T)
  BY DEF SaveToIni, UiOk, Ui
<1>2. QED
  BY <1>1, SavedOk DEF SlotsOk

LEMMA FlushSlots ==
    ASSUME NEW s, UiOk(s), SlotsOk(s.file), NEW T, TableOk(T), NEW t \in Flushed(s, T)
    PROVE  SlotsOk(t.file)
BY SaveSlots DEF Flushed

-----------------------------------------------------------------------------
(* Every step keeps the index right, and the keys of what is in the file. *)

\* The inductive invariant: a start fills the table from the file.
SpriteInv == TableOk(table) /\ SlotsOk(ui.file) /\ quads \subseteq Slot

LEMMA FlushStep ==
    ASSUME SettingsInv, SpriteInv, NEW s, Keeps(s, ui), TableOk(table'), ui' \in Flushed(s, table'), quads' = quads
    PROVE  SpriteInv'
<1> DEFINE T == table'
<1>1. UiOk(s) /\ SlotsOk(s.file) /\ TableOk(T)
  BY DEF Keeps, SpriteInv
<1> DEFINE t == ui'
<1>2. t \in Flushed(s, T)
  OBVIOUS
<1> HIDE DEF T, t
<1>3. SlotsOk(t.file)
  BY <1>1, <1>2, FlushSlots
<1>4. QED
  BY <1>3 DEF SpriteInv, T, t

\* The sliders of a row and of a group.
LEMMA MovedOk ==
    ASSUME TableOk(table), MoveRow \/ MoveRows
    PROVE  \E U : TableOk(U) /\ Table(U)
<1>1. CASE MoveRow
  BY <1>1, TransformOk DEF MoveRow
<1>2. CASE MoveRows
  <2>1. PICK g \in Label : \E move : Table(SetTransforms(table, Rows(g), move, Hides))
    BY <1>2, Zenon DEF MoveRows
  <2>2. PICK move : Table(SetTransforms(table, Rows(g), move, Hides))
    BY <2>1
  <2>3. Rows(g) \in SUBSET Slot
    BY DEF Rows
  <2>4. TableOk(SetTransforms(table, Rows(g), move, Hides))
    BY <2>3, RowsOk
  <2>5. QED
    BY <2>2, <2>4
<1>3. QED
  BY <1>1, <1>2

LEMMA TabTable ==
    ASSUME SettingsInv, SpriteInv, TabEdit \/ AddAllKnown \/ LiveEdit
    PROVE  TableOk(table') /\ \E s : Keeps(s, ui) /\ ui' \in Flushed(s, table')
<1>0. UiOk(ui) /\ ui.file.there /\ Keeps(ui, ui) /\ Keeps(Synced(ui), ui) /\ UiOk(Synced(ui))
  BY KeepsItself, SyncedIs DEF SettingsInv, Marks, Keeps
<1>1. CASE EditTable
  <2> DEFINE s == Synced(RequestSave(ui))
  <2>1. table' \in TableEdits /\ ui' \in Flushed(s, table')
    BY <1>1 DEF EditTable, Wanted
  <2>2. UiOk(RequestSave(ui)) /\ Keeps(RequestSave(ui), ui)
    BY <1>0, RequestIs, KeepsRequest
  <2>3. Keeps(s, ui)
    BY <2>2, SyncedIs, KeepsTwice DEF Marks
  <2> DEFINE T == table'
  <2>4. TableOk(T)
    <3> T \in TableEdits /\ TableOk(table)
      BY <2>1 DEF SpriteInv
    <3> HIDE DEF T
    <3>1. QED
      BY TableEditsOk
  <2> HIDE DEF s
  <2>5. QED
    BY <2>1, <2>3, <2>4
<1>2. CASE EditRules
  <2> DEFINE t == Synced(ui)
  <2>1. PICK s \in RuleEdits(t) : Wanted(s, table)
    BY <1>2 DEF EditRules
  <2>2. table' = table
    BY <1>2 DEF EditRules
  <2> HIDE DEF t
  <2>3. Keeps(s, ui)
    BY <1>0, EditIs, KeepsTwice DEF Marks, t
  <2>4. QED
    BY <2>1, <2>2, <2>3 DEF Wanted, SpriteInv
<1>3. CASE Enable43
  <2> DEFINE I == Installed(ui, table)
             m == [I.ui EXCEPT !.matrix = "rules"]
             s == Synced(RequestSave(m))
  <2>1. Keeps(I.ui, ui) /\ UiOk(I.ui)
    BY <1>0, InstalledIs
  <2>2. TableOk(I.table)
    BY InstalledTableOk DEF SpriteInv
  <2>3. table' = I.table /\ ui' \in Flushed(s, I.table)
    BY <1>3 DEF Enable43, Wanted
  <2> HIDE DEF I
  <2>4. Keeps(m, I.ui)
    BY <2>1, MatrixIs DEF Matrix
  <2> HIDE DEF m
  <2>5. Keeps(m, ui) /\ UiOk(m)
    BY <2>1, <2>4, KeepsTwice DEF Keeps
  <2>6. UiOk(RequestSave(m)) /\ Keeps(RequestSave(m), ui)
    BY <1>0, <2>5, RequestIs, KeepsRequest
  <2>7. Keeps(s, ui)
    BY <2>6, SyncedIs, KeepsTwice DEF Marks
  <2> HIDE DEF s
  <2>8. QED
    BY <2>2, <2>3, <2>7
<1>4. CASE RestoreDefaults
  <2> DEFINE c == ClearAll(Synced(ui))
             I == Installed(c, table)
  <2>1. Keeps(c, ui) /\ UiOk(c)
    BY <1>0, ClearAllIs, KeepsTwice DEF Keeps
  <2>2. c.file.there /\ SlotsOk(c.file)
    BY <1>0, <2>1 DEF Keeps, SpriteInv
  <2>3. table' = I.table /\ ui' \in Flushed(I.ui, I.table)
    BY <1>4 DEF RestoreDefaults, Kept
  <2> HIDE DEF c
  <2>4. TableOk(I.table)
    BY <2>2, InstalledTableOk DEF SpriteInv
  <2>5. Keeps(I.ui, ui)
    BY <2>1, <2>2, InstalledIs, KeepsTwice
  <2> HIDE DEF I
  <2>6. QED
    BY <2>3, <2>4, <2>5
<1>5. CASE Toggle
  BY <1>0, <1>5 DEF Toggle, Kept, SpriteInv
<1>6. CASE AddAllKnown
  <2> DEFINE t == Synced(ui)
             s == RequestIfNew(t, AddKnown(t))
  <2>1. ui' \in Flushed(s, table) /\ table' = table
    BY <1>6 DEF AddAllKnown, Wanted
  <2> HIDE DEF t
  <2>2. Keeps(s, t)
    BY <1>0, AddKnownIs, IfNewIs DEF Marks, t
  <2> HIDE DEF s
  <2>3. QED
    BY <1>0, <2>1, <2>2, KeepsTwice DEF SpriteInv, t
<1>7. CASE MoveRow \/ MoveRows
  <2> DEFINE T == table'
  <2>1. PICK U : TableOk(U) /\ Table(U)
    BY <1>7, MovedOk DEF SpriteInv
  <2>2. table' = U /\ ui' \in Flushed(Synced(ui), U)
    BY <2>1 DEF Table, Wanted
  <2>3. QED
    BY <1>0, <2>1, <2>2
<1>8. CASE LiveEdit /\ (ChangeRule \/ NudgeAll)
  <2>1. table' = table
    BY <1>8 DEF ChangeRule, NudgeAll
  <2>2. PICK s, T : Keeps(s, ui) /\ Wanted(s, T) /\ T = table
    BY <1>8, RuleIs
  <2>3. QED
    BY <2>1, <2>2 DEF Wanted, SpriteInv
<1>9. QED
  BY <1>1, <1>2, <1>3, <1>4, <1>5, <1>6, <1>7, <1>8 DEF TabEdit, LiveEdit

LEMMA ListStep ==
    ASSUME SpriteInv, DrawList
    PROVE  TableOk(table') /\ quads' \subseteq Slot
<1>1. PICK n \in 0 .. MaxDrawn, top \in Screen :
        \E list \in [1 .. n -> {e \in Drawn : e.screen = top}] :
          table' = Listed(list).table /\ quads' = Listed(list).quads
  BY DEF DrawList
<1>2. PICK list \in [1 .. n -> {e \in Drawn : e.screen = top}] :
        table' = Listed(list).table /\ quads' = Listed(list).quads
  BY <1>1
<1>3. n \in Nat /\ list \in [1 .. n -> Drawn]
  BY SizeAssumption
<1>4. WalkOk(Listed(list))
  BY <1>3, ListedOk DEF SpriteInv
<1>5. QED
  BY <1>2, <1>4 DEF WalkOk

LEMMA SpriteStep == ASSUME SettingsInv, SpriteInv, [Next]_vars PROVE SpriteInv'
<1>0. UiOk(ui) /\ ui.file.there /\ Keeps(ui, ui) /\ Keeps(Synced(ui), ui)
  BY KeepsItself, SyncedIs DEF SettingsInv, Marks
<1>b. ASSUME TableOk(table'), quads' = quads, NEW t \in Flushed(ui, table),
             ui' \in {t, RequestSave(t)}
      PROVE  SpriteInv'
  <2>1. UiOk(t) /\ SlotsOk(t.file)
    BY <1>0, <1>b, FlushedIs, FlushSlots DEF SpriteInv
  <2>2. SlotsOk(RequestSave(t).file)
    BY <2>1, RequestIs
  <2>3. QED
    BY <1>b, <2>1, <2>2 DEF SpriteInv
<1>c. TableOk(table) /\ SlotsOk(ui.file) /\ quads \subseteq Slot
  BY DEF SpriteInv
<1>1. CASE ProcessList
  BY <1>1, <1>c, ListStep DEF ProcessList, SpriteInv
<1>2. CASE TabEdit \/ AddAllKnown \/ LiveEdit
  <2>1. quads' = quads
    BY <1>2 DEF TabEdit, AddAllKnown, Click, LiveEdit
  <2>2. TableOk(table') /\ \E s : Keeps(s, ui) /\ ui' \in Flushed(s, table')
    BY <1>2, TabTable
  <2>3. QED
    BY <2>1, <2>2, FlushStep
<1>3. CASE TabSelect
  BY <1>3, <1>0, <1>c, FlushStep DEF TabSelect
<1>4. CASE Idle \/ LoseControl
  BY <1>4, <1>0, <1>c, FlushStep DEF Idle, Kept, LoseControl
<1>14. CASE LetGo
  BY <1>14, <1>c, LetGoKeeps, FlushStep DEF LetGo, Kept
<1>5. CASE DragStart
  <2>1. PICK m \in Move : table' = Dragged(Target.table, Target.at, m)
    BY <1>5 DEF DragStart
  <2>2. quads' = quads /\ \E t \in Flushed(ui, table) : ui' \in {t, RequestSave(t)}
    BY <1>5 DEF DragStart, GizmoEdit
  <2>3. QED
    BY <1>b, <1>c, <2>1, <2>2, TargetOk
<1>6. CASE DragMove
  <2>1. PICK m \in Move : table' = Dragged(table, selected, m)
    BY <1>6 DEF DragMove
  <2>2. quads' = quads /\ \E t \in Flushed(ui, table) : ui' \in {t, RequestSave(t)}
    BY <1>6 DEF DragMove, GizmoEdit
  <2>3. QED
    BY <1>b, <1>c, <2>1, <2>2, TargetOk
<1>7. CASE DragEnd
  BY <1>7, <1>b, <1>c DEF DragEnd
<1>8. CASE RightClickReset
  <2>1. table' = Dragged(Target.table, Target.at, 0)
    BY <1>8 DEF RightClickReset
  <2>2. quads' = quads /\ \E t \in Flushed(ui, table) : ui' \in {t, RequestSave(t)}
    BY <1>8 DEF RightClickReset, GizmoEdit
  <2>3. QED
    BY <1>b, <1>c, <2>1, <2>2, TargetOk
<1>9. CASE Pick
  BY <1>9, <1>0, <1>c, FlushStep DEF Pick, Kept
<1>10. CASE DebounceOver
  <2>1. ui'.file = ui.file /\ table' = table /\ quads' = quads
    BY <1>0, <1>10 DEF DebounceOver, UiOk, Ui
  <2>2. QED
    BY <1>c, <2>1 DEF SpriteInv
<1>11. CASE Restart
  <2>1. PICK unloaded \in BOOLEAN :
          LET left == IF unloaded THEN SaveToIni(ui, table) ELSE ui
              I == Installed([NoSettings EXCEPT !.file = left.file], EmptyTable)
          IN  table' = I.table /\ ui' = I.ui
    BY <1>11 DEF Restart
  <2> DEFINE f == (IF unloaded THEN SaveToIni(ui, table) ELSE ui).file
             s == [NoSettings EXCEPT !.file = f]
             I == Installed(s, EmptyTable)
  <2>2. FileOk(f) /\ f.there /\ SlotsOk(f)
    BY <1>0, <1>c, SaveIs, SaveSlots DEF UiOk
  <2>3. table' = I.table /\ ui' = I.ui /\ quads' = {}
    BY <1>11, <2>1 DEF Restart
  <2> HIDE DEF f
  <2>4. UiOk(s) /\ s.file = f
    BY <2>2, FreshIs, WithFileIs
  <2> HIDE DEF s
  <2>5. TableOk(I.table) /\ I.ui.file = f
    BY <2>2, <2>4, EmptyOk, InstalledTableOk, InstalledIs DEF Keeps
  <2> HIDE DEF I
  <2>6. QED
    BY <2>2, <2>3, <2>5 DEF SpriteInv
<1>12. CASE UNCHANGED vars
  BY <1>12, <1>c DEF vars, SpriteInv
<1>13. QED
  BY <1>1, <1>2, <1>3, <1>4, <1>5, <1>6, <1>7, <1>8, <1>9, <1>10, <1>11, <1>12, <1>14 DEF Next, EndScene

LEMMA SpriteInit == Init => SpriteInv
<1> SUFFICES ASSUME Init PROVE SpriteInv
  OBVIOUS
<1> DEFINE I == Installed(NoSettings, EmptyTable)
<1>1. table = I.table /\ ui = I.ui /\ quads = {}
  BY DEF Init
<1>2. NoSettings.rules = <<>> /\ ~NoSettings.file.there /\ UiOk(Seeded(NoSettings))
  BY FreshIs, SeededIs DEF NoSettings, NoFile, Extends
<1>3. I.ui = SaveToIni(Seeded(NoSettings), EmptyTable) /\ I.table = EmptyTable
  BY <1>2 DEF Installed
<1> HIDE DEF I
<1>4. QED
  BY <1>1, <1>2, <1>3, EmptyOk, SaveSlots DEF SpriteInv

\* IndexAgrees: the index by state key finds exactly the slots that have the
\* key, after every eviction, variant, removal, load and edit.  For every
\* number of slots, set of sprites and file the program can have written.
THEOREM IndexIsRight == Spec => []IndexAgrees
<1>1. SpriteInv /\ SettingsInv /\ [Next]_vars => SpriteInv'
  BY SpriteStep
<1>2. SpriteInv => IndexAgrees
  BY DEF SpriteInv, TableOk, IndexAgrees
<1>3. QED
  BY <1>1, <1>2, SpriteInit, SettingsHold, PTL DEF Spec

-----------------------------------------------------------------------------
(* What a sprite shows. *)

\* The slots that match a sprite; a dull one gives way to every slot that is
\* not, and shows nothing.
Matched(T, e) == {i \in Slot : KeyMatches(T.slot[i], e)}
Dull(s) == Specificity(s) = 1 /\ s.edit = 0
Keen(T, e) == {i \in Matched(T, e) : ~Dull(T.slot[i])}

LEMMA SpecificityIs ==
    ASSUME NEW s
    PROVE  /\ Specificity(s) \in Nat /\ Specificity(s) >= 1
           /\ IsWildcard(s) => Specificity(s) = 1
BY DEF Specificity, IsWildcard

LEMMA MatchedIs ==
    ASSUME NEW T, TableOk(T), NEW e \in Drawn
    PROVE  BestMatches(T, e) = {i \in Matched(T, e) : \A j \in Matched(T, e) : ~Better(T.slot[j], T.slot[i])}
<1> DEFINE C == {i \in T.index[e.key] : KeyMatches(T.slot[i], e)}
<1>1. e.key \in Key
  BY DrawnAssumption
<1>2. C = Matched(T, e)
  BY <1>1 DEF TableOk, Matched, KeyMatches
<1>3. BestMatches(T, e) = {i \in C : \A j \in C : ~Better(T.slot[j], T.slot[i])}
  BY DEF BestMatches
<1> HIDE DEF C
<1>4. QED
  BY <1>2, <1>3

\* Where some slot is keen the best is.
LEMMA KeenIsBest ==
    ASSUME NEW T, TableOk(T), NEW e \in Drawn, Keen(T, e) # {}
    PROVE  BestMatches(T, e) = {i \in Keen(T, e) : \A j \in Keen(T, e) : ~Better(T.slot[j], T.slot[i])}
<1> DEFINE M == Matched(T, e)
           K == Keen(T, e)
<1>1. BestMatches(T, e) = {i \in M : \A j \in M : ~Better(T.slot[j], T.slot[i])}
  BY MatchedIs
<1>2. \A i \in M : T.slot[i].edit \in Nat /\ Specificity(T.slot[i]) \in Nat /\ Specificity(T.slot[i]) >= 1
  BY SpecificityIs DEF Matched, TableOk, Sound
<1>3. K = {i \in M : ~Dull(T.slot[i])}
  BY DEF Keen
<1> HIDE DEF M, K
<1>4. \A i \in K, j \in M \ K : Better(T.slot[i], T.slot[j])
  BY <1>2, <1>3 DEF Dull, Better
<1>5. \A i \in K, j \in M \ K : ~Better(T.slot[j], T.slot[i])
  BY <1>2, <1>3 DEF Dull, Better
<1>6. K # {}
  BY DEF K
<1>7. {i \in M : \A j \in M : ~Better(T.slot[j], T.slot[i])} = {i \in K : \A j \in K : ~Better(T.slot[j], T.slot[i])}
  BY <1>3, <1>4, <1>5, <1>6
<1>8. QED
  BY <1>1, <1>7 DEF K

LEMMA DullShows ==
    ASSUME NEW T, TableOk(T), NEW e \in Drawn, Keen(T, e) = {}
    PROVE  Shown(T, e) = Plain
<1> DEFINE i == BestMatch(T, e)
<1>1. i # 0 => i \in Matched(T, e)
  BY MatchedIs DEF BestMatch
<1> HIDE DEF i
<1>2. i # 0 => T.slot[i].move = 0 /\ T.slot[i].hidden = FALSE
  BY <1>1 DEF Keen, Dull, Matched, TableOk, Sound
<1>3. Shown(T, e) = IF i = 0 THEN Plain ELSE [move |-> T.slot[i].move, hidden |-> T.slot[i].hidden]
  BY DEF Shown, i
<1>4. QED
  BY <1>2, <1>3 DEF Plain

\* s and t do the same to the same sprites.
Alike(s, t) ==
    /\ s.key = t.key /\ s.look = t.look /\ s.screen = t.screen /\ s.widget = t.widget
    /\ s.edit = t.edit /\ s.move = t.move /\ s.hidden = t.hidden
\* s does nothing to e.
Quiet(s, e) == KeyMatches(s, e) => Dull(s)

LEMMA SameShown ==
    ASSUME NEW T, TableOk(T), NEW U, TableOk(U), NEW e \in Drawn,
           \A i \in Slot : \/ Alike(T.slot[i], U.slot[i])
                           \/ Quiet(T.slot[i], e) /\ Quiet(U.slot[i], e)
    PROVE  Shown(U, e) = Shown(T, e)
<1>1. \A i \in Slot : i \in Keen(T, e) <=> i \in Keen(U, e)
  BY DEF Keen, Matched, Quiet, Alike, KeyMatches, Dull, Specificity
<1>2. Keen(T, e) = Keen(U, e)
  BY <1>1 DEF Keen, Matched
<1>3. \A i \in Keen(T, e) : Alike(T.slot[i], U.slot[i])
  BY DEF Keen, Matched, Quiet
<1>4. CASE Keen(T, e) = {}
  BY <1>2, <1>4, DullShows
<1>5. CASE Keen(T, e) # {}
  <2> DEFINE K == Keen(T, e)
  <2>1. /\ BestMatches(T, e) = {i \in K : \A j \in K : ~Better(T.slot[j], T.slot[i])}
        /\ BestMatches(U, e) = {i \in K : \A j \in K : ~Better(U.slot[j], U.slot[i])}
    BY <1>2, <1>5, KeenIsBest
  <2> HIDE DEF K
  <2>2. \A i, j \in K : Better(T.slot[j], T.slot[i]) <=> Better(U.slot[j], U.slot[i])
    BY <1>3 DEF K, Alike, Better, Specificity
  <2>3. BestMatches(T, e) = BestMatches(U, e) /\ BestMatches(T, e) \subseteq K
    BY <2>1, <2>2
  <2>4. BestMatch(T, e) = BestMatch(U, e) /\ BestMatch(T, e) \in K \cup {0}
    BY <2>3 DEF BestMatch
  <2>5. QED
    BY <1>3, <2>4 DEF K, Shown, Alike
<1>6. QED
  BY <1>4, <1>5

-----------------------------------------------------------------------------
(* The walk shows what was shown, unless it takes a rule of the file.       *)

Calm(U, T) ==
    /\ TableOk(U) /\ U.edits >= T.edits
    /\ U.edits = T.edits => \A e \in Drawn : Shown(U, e) = Shown(T, e)

LEMMA CalmItself == ASSUME NEW T, TableOk(T) PROVE Calm(T, T)
BY DEF Calm, TableOk

LEMMA CalmTwice ==
    ASSUME NEW S, NEW T, NEW U, TableOk(S), Calm(T, S), Calm(U, T)
    PROVE  Calm(U, S)
<1>1. S.edits \in Nat /\ T.edits \in Nat /\ U.edits \in Nat /\ U.edits >= T.edits /\ T.edits >= S.edits
  BY DEF Calm, TableOk
<1>2. U.edits >= S.edits
  BY <1>1
<1>3. U.edits = S.edits => U.edits = T.edits /\ T.edits = S.edits
  BY <1>1
<1>4. QED
  BY <1>2, <1>3 DEF Calm

LEMMA EditedCalm ==
    ASSUME NEW T, TableOk(T), NEW U, TableOk(U), U.edits = T.edits + 1
    PROVE  Calm(U, T)
BY DEF Calm, TableOk

\* A slot that does what it did before.
LEMMA AlikeCalm ==
    ASSUME NEW T, TableOk(T), NEW U, TableOk(U), U.edits = T.edits,
           \A i \in Slot : Alike(T.slot[i], U.slot[i])
    PROVE  Calm(U, T)
BY SameShown DEF Calm, TableOk

LEMMA SlotCalm ==
    ASSUME NEW T, TableOk(T), NEW i \in Slot, NEW s, Sound(s), Alike(T.slot[i], s)
    PROVE  Calm([T EXCEPT !.slot[i] = s], T)
<1> DEFINE U == [T EXCEPT !.slot[i] = s]
<1>1. U.edits = T.edits /\ U.slot = [T.slot EXCEPT ![i] = s]
  BY DEF TableOk, Fields
<1>2. TableOk(U)
  <2>1. s.key = T.slot[i].key
    BY DEF Alike
  <2>2. QED
    BY <2>1, SlotOk
<1> HIDE DEF U
<1>3. \A j \in Slot : Alike(T.slot[j], U.slot[j])
  BY <1>1 DEF TableOk, Alike
<1>4. Calm(U, T)
  BY <1>1, <1>2, <1>3, AlikeCalm
<1>5. QED
  BY <1>4 DEF U

LEMMA OtherFieldsCalm ==
    ASSUME NEW T, TableOk(T), NEW x
    PROVE  Calm([T EXCEPT !.frame = x], T)
<1> DEFINE U == [T EXCEPT !.frame = x]
<1>1. U.edits = T.edits /\ U.slot = T.slot
  BY DEF TableOk, Fields
<1>2. TableOk(U)
  BY OtherFieldsOk
<1> HIDE DEF U
<1>3. Calm(U, T)
  BY <1>1, <1>2, AlikeCalm DEF Alike
<1>4. QED
  BY <1>3 DEF U

\* Evicting a slot takes nothing from any sprite.
LEMMA EvictedQuiet ==
    ASSUME NEW T, TableOk(T), AllocSlot(T) # 0, NEW e \in Drawn
    PROVE  Quiet(T.slot[AllocSlot(T)], e)
<1> DEFINE a == AllocSlot(T)
           free == {i \in Slot : T.slot[i].key = NONE}
           lru  == {i \in Slot : ~Pinned(T.slot[i])}
           old  == {i \in lru : \A j \in lru : T.slot[i].seen <= T.slot[j].seen}
           pool == IF free # {} THEN free ELSE old
<1>1. pool \in SUBSET (free \cup lru) /\ pool \in SUBSET Slot
  OBVIOUS
<1>2. a = IF pool = {} THEN 0 ELSE CHOOSE i \in pool : \A j \in pool : i <= j
  BY DEF AllocSlot
<1> HIDE DEF pool
<1>3. pool \in SUBSET Nat /\ pool # {}
  BY <1>1, <1>2, SizeAssumption DEF Slot
<1>4. \E n \in pool : \A m \in pool : n <= m
  BY <1>3, LeastIs
<1>5. a \in free \cup lru /\ a \in Slot
  BY <1>1, <1>2, <1>3, <1>4
<1> HIDE DEF a
<1>6. CASE a \in free
  <2>1. T.slot[a].key # e.key
    BY <1>6, DrawnAssumption, WildcardAssumption
  <2>2. QED
    BY <2>1 DEF Quiet, KeyMatches, a
<1>7. CASE a \in lru
  <2>1. IsWildcard(T.slot[a]) /\ ~(T.slot[a].edit > 0)
    BY <1>7 DEF Pinned
  <2>2. T.slot[a].edit = 0
    BY <1>5, <2>1 DEF TableOk, Sound
  <2>3. QED
    BY <2>1, <2>2, SpecificityIs DEF Quiet, Dull, a
<1>8. QED
  BY <1>5, <1>6, <1>7

LEMMA WithWildcardCalm ==
    ASSUME NEW T, TableOk(T), NEW k \in Key
    PROVE  Calm(WithWildcard(T, k), T)
<1> DEFINE a == AllocSlot(T)
           s == [EmptySlot EXCEPT !.key = k]
           U == Put(T, a, s)
<1>1. Sound(s) /\ a \in Slot \cup {0}
  BY AllocIs, EmptyOk
<1>2. \A e \in Drawn : Quiet(s, e)
  BY DEF Quiet, Dull, Specificity, EmptySlot
<1> HIDE DEF s
<1>3. ASSUME a # 0 PROVE Calm(U, T)
  <2>1. \A e \in Drawn : Quiet(T.slot[a], e)
    BY <1>3, EvictedQuiet
  <2> HIDE DEF a
  <2>2. /\ TableOk(U) /\ U.slot[a] = s /\ U.edits = T.edits
        /\ \A j \in Slot : j # a => U.slot[j] = T.slot[j]
    BY <1>1, <1>3, PutOk
  <2> HIDE DEF U
  <2>3. ASSUME NEW e \in Drawn PROVE Shown(U, e) = Shown(T, e)
    <3>1. \A j \in Slot : \/ Alike(T.slot[j], U.slot[j])
                          \/ Quiet(T.slot[j], e) /\ Quiet(U.slot[j], e)
      BY <1>2, <2>1, <2>2 DEF Alike
    <3>2. QED
      BY <2>2, <3>1, SameShown
  <2>4. QED
    BY <2>2, <2>3 DEF Calm, TableOk
<1>4. QED
  BY <1>3, CalmItself DEF WithWildcard, s

LEMMA TakeWidgetCalm ==
    ASSUME NEW T, TableOk(T), NEW i \in Slot
    PROVE  Calm(TakeWidgetRules(T, i), T)
<1> DEFINE s == T.slot[i]
           mine == {n \in DOMAIN T.by_widget : T.by_widget[n].wname = s.wname}
           rest == SelectSeq(T.by_widget, LAMBDA p : p.wname # s.wname)
           r == Ruled(s, Applied(s, T.by_widget, mine))
           v == [r EXCEPT !.widget = s.wname]
           E == Edit(T, i, v)
           U == [E EXCEPT !.by_widget = rest]
<1>1. TakeWidgetRules(T, i) = IF s.wname = NONE \/ mine = {} THEN T ELSE U
  BY DEF TakeWidgetRules
<1> HIDE DEF mine, rest, v
<1>2. U.edits = T.edits + 1
  BY DEF Edit, TableOk, Fields
<1> HIDE DEF U
<1>3. TableOk(TakeWidgetRules(T, i))
  BY TakeWidgetOk
<1>4. QED
  BY <1>1, <1>2, <1>3, CalmItself, EditedCalm

LEMMA TryPathCalm ==
    ASSUME NEW T, TableOk(T), NEW i \in Slot, NEW path
    PROVE  Calm(TryPath(T, i, path), T)
<1> DEFINE s == [T.slot[i] EXCEPT !.tried = TRUE]
           named == [s EXCEPT !.path = path,
                              !.name = IF @ = "none" THEN "auto" ELSE @,
                              !.group = IF @ = "none" /\ auto_group THEN "auto" ELSE @]
           mine == {n \in DOMAIN T.by_path : T.by_path[n].path = path}
           rest == SelectSeq(T.by_path, LAMBDA p : p.path # path)
           r == Ruled(named, Applied(named, T.by_path, mine))
           U == Edit(T, i, r)
           A == [T EXCEPT !.slot[i] = s]
           B == [T EXCEPT !.slot[i] = named]
           C == [U EXCEPT !.by_path = rest]
<1>1. TryPath(T, i, path) \in {T, A, B, C}
  <2> HIDE DEF s, named, mine, rest, r
  <2>1. TryPath(T, i, path) =
          CASE T.slot[i].tried -> T
            [] ~T.slot[i].tried /\ path = NONE -> A
            [] ~T.slot[i].tried /\ path # NONE /\ mine = {} -> B
            [] OTHER -> C
    BY DEF TryPath, s, named, mine, rest, r
  <2> HIDE DEF A, B, C
  <2>2. QED
    BY <2>1
<1>2. Sound(s) /\ Alike(T.slot[i], s)
  BY DEF TableOk, Sound, Entry, Parts, Alike
<1> HIDE DEF s
<1>3. Sound(named) /\ Alike(T.slot[i], named)
  BY <1>2 DEF Sound, Entry, Parts, Alike
<1> HIDE DEF named, r, rest
<1>4. Calm(A, T)
  BY <1>2, SlotCalm
<1>5. Calm(B, T)
  BY <1>3, SlotCalm
<1>6. C.edits = T.edits + 1
  BY DEF Edit, TableOk, Fields
<1> HIDE DEF A, B, C
<1>7. TableOk(TryPath(T, i, path))
  BY TryPathOk
<1>8. QED
  BY <1>1, <1>4, <1>5, <1>6, <1>7, CalmItself, EditedCalm

LEMMA SeenByCalm ==
    ASSUME NEW T, TableOk(T), NEW e \in Drawn, NEW path
    PROVE  Calm(SeenBy(T, e, path), T)
<1> DEFINE i == BestMatch(T, e)
           s == SeeSprite(T.slot[i], e, T.frame)
           A == [T EXCEPT !.slot[i] = s]
           B == TakeWidgetRules(A, i)
           C == TryPath(B, i, path)
<1>1. i \in Slot \cup {0}
  BY BestIs, DrawnAssumption
<1>2. SeenBy(T, e, path) = IF i = 0 THEN T ELSE C
  BY DEF SeenBy
<1> HIDE DEF i
<1>3. CASE i \in Slot
  <2>1. Sound(s) /\ Alike(T.slot[i], s)
    <3>1. Sound(T.slot[i])
      BY <1>3 DEF TableOk
    <3>2. QED
      BY <3>1, SeenIs DEF Alike
  <2> HIDE DEF s
  <2>2. Calm(A, T)
    BY <1>3, <2>1, SlotCalm
  <2> HIDE DEF A
  <2>3. TableOk(A)
    BY <2>2 DEF Calm
  <2>4. Calm(B, A)
    BY <1>3, <2>3, TakeWidgetCalm
  <2> HIDE DEF B
  <2>5. TableOk(B)
    BY <2>4 DEF Calm
  <2>6. Calm(C, B)
    BY <1>3, <2>5, TryPathCalm
  <2> HIDE DEF C
  <2>7. Calm(B, T)
    BY <2>2, <2>4, CalmTwice
  <2>8. Calm(C, T)
    BY <2>6, <2>7, CalmTwice
  <2>9. QED
    BY <1>2, <1>3, <2>8, SizeAssumption DEF Slot
<1>4. QED
  BY <1>1, <1>2, <1>3, CalmItself

LEMMA AfterSpriteCalm ==
    ASSUME NEW f, WalkOk(f), NEW e \in Drawn
    PROVE  Calm(AfterSprite(f, e).table, f.table)
<1> DEFINE T == IF f.table.index[e.key] = {} THEN WithWildcard(f.table, e.key) ELSE f.table
           U == SeenBy(T, e, path_of[e.key])
<1>1. TableOk(f.table) /\ e.key \in Key
  BY DrawnAssumption DEF WalkOk
<1>2. Calm(T, f.table)
  BY <1>1, WithWildcardCalm, CalmItself
<1>3. AfterSprite(f, e).table = U
  BY DEF AfterSprite
<1> HIDE DEF T
<1>4. Calm(U, T)
  BY <1>2, SeenByCalm DEF Calm
<1> HIDE DEF U
<1>5. QED
  BY <1>1, <1>2, <1>3, <1>4, CalmTwice

LEMMA ListedCalm ==
    ASSUME TableOk(table), quads \subseteq Slot, NEW n \in Nat, NEW list \in [1 .. n -> Drawn]
    PROVE  Calm(Listed(list).table, table)
<1>1. WalkOk(WalkStart) /\ Calm(WalkStart.table, table)
  <2> DEFINE x == table.frame + 1
             V == [table EXCEPT !.frame = x]
  <2>1. WalkStart.table = V
    BY DEF WalkStart
  <2> HIDE DEF x
  <2>2. Calm(V, table)
    BY OtherFieldsCalm
  <2> HIDE DEF V
  <2>3. QED
    BY <2>1, <2>2, ListedOk
<1>2. CASE list = <<>>
  <2>1. Listed(list).table = table
    BY <1>2 DEF Listed
  <2>2. QED
    BY <2>1, CalmItself
<1>3. CASE list # <<>>
  <2>1. PICK w : /\ Listed(list) = w[n] /\ w[0] = WalkStart
                 /\ \A k \in 1 .. n : w[k] = AfterSprite(w[k - 1], list[k])
    BY <1>3, ListedIs
  <2> DEFINE Good(k) == WalkOk(w[k]) /\ Calm(w[k].table, table)
             K == {k \in Nat : k <= n => Good(k)}
  <2>2. 0 \in K
    BY <1>1, <2>1
  <2>3. ASSUME NEW k \in K PROVE k + 1 \in K
    <3>1. CASE k + 1 <= n
      <4>1. k + 1 \in 1 .. n /\ (k + 1) - 1 = k /\ Good(k)
        BY <3>1
      <4>2. w[k + 1] = AfterSprite(w[k], list[k + 1]) /\ list[k + 1] \in Drawn
        BY <2>1, <4>1
      <4>3. WalkOk(w[k + 1]) /\ Calm(w[k + 1].table, w[k].table)
        BY <4>1, <4>2, AfterSpriteOk, AfterSpriteCalm
      <4>4. Calm(w[k + 1].table, table)
        BY <4>1, <4>3, CalmTwice
      <4>5. QED
        BY <4>3, <4>4
    <3>2. QED
      BY <3>1
  <2>4. K = Nat
    <3> HIDE DEF K
    <3>1. K \in SUBSET Nat
      BY DEF K
    <3>2. QED
      BY <2>2, <2>3, <3>1, NatSet
  <2>5. Good(n)
    BY <2>4
  <2>6. QED
    BY <2>1, <2>5
<1>4. QED
  BY <1>2, <1>3

\* WalkKeepsLooks: walking the draw list, with the wildcards it makes, the
\* slots it evicts for them, the paths it reads and the sprites it remembers,
\* never changes what is done to any sprite, unless it took a rule of the file.
THEOREM LooksKept == Spec => WalkKeepsLooks
<1> DEFINE Kept1 == phase = "list" /\ phase' = "scene" /\ table'.edits = table.edits
                   => \A e \in Drawn : Shown(table', e) = Shown(table, e)
<1>1. SpriteInv /\ SettingsInv /\ [Next]_vars => SpriteInv'
  BY SpriteStep
<1>2. ASSUME SpriteInv, [Next]_vars PROVE Kept1
  <2> SUFFICES ASSUME phase = "list", phase' = "scene", table'.edits = table.edits
               PROVE  \A e \in Drawn : Shown(table', e) = Shown(table, e)
    OBVIOUS
  <2>1. DrawList
    BY <1>2 DEF Next, EndScene, vars, ProcessList, TabEdit, AddAllKnown, Click, LiveEdit, LetGo,
                LoseControl, TabSelect, Idle, DragStart, DragMove, GizmoEdit, DragEnd,
                RightClickReset, Pick, DebounceOver, Restart
  <2>2. PICK n \in 0 .. MaxDrawn, top \in Screen :
          \E list \in [1 .. n -> {e \in Drawn : e.screen = top}] : table' = Listed(list).table
    BY <2>1 DEF DrawList
  <2>3. PICK list \in [1 .. n -> {e \in Drawn : e.screen = top}] : table' = Listed(list).table
    BY <2>2
  <2>4. n \in Nat /\ list \in [1 .. n -> Drawn]
    BY SizeAssumption
  <2>5. Calm(table', table)
    BY <1>2, <2>3, <2>4, ListedCalm DEF SpriteInv
  <2> DEFINE U == table'
  <2>6. U.edits = table.edits /\ Calm(U, table)
    BY <2>5
  <2> HIDE DEF U
  <2>7. \A e \in Drawn : Shown(U, e) = Shown(table, e)
    BY <2>6 DEF Calm
  <2>8. QED
    BY <2>7 DEF U
<1>3. QED
  BY <1>1, <1>2, SpriteInit, SettingsHold, PTL DEF Spec, WalkKeepsLooks

-----------------------------------------------------------------------------
(* The gizmo changes what its slot matches. *)

LEMMA TransformShows ==
    ASSUME NEW T, TableOk(T), NEW i \in Slot, NEW m, NEW h
    PROVE  LET U == SetTransformAt(T, i, m, h)
           IN  /\ Live(T, i) \/ U = T
               /\ \A e \in Drawn : Shown(U, e) = Shown(T, e) \/ KeyMatches(U.slot[i], e)
               /\ \A e \in Drawn : KeyMatches(U.slot[i], e) <=> KeyMatches(T.slot[i], e)
               /\ IsWildcard(U.slot[i]) <=> IsWildcard(T.slot[i])
<1> DEFINE s == [T.slot[i] EXCEPT !.move = m, !.hidden = h]
           r == [s EXCEPT !.edit = T.edits]
           U == SetTransformAt(T, i, m, h)
<1>1. CASE ~Live(T, i)
  <2>1. U = T
    BY <1>1 DEF SetTransformAt
  <2> HIDE DEF U
  <2>2. QED
    BY <2>1 DEF U
<1>2. CASE Live(T, i)
  <2>1. U = Edit(T, i, s)
    BY <1>2 DEF SetTransformAt
  <2>2. /\ Entry(s) /\ s.key = T.slot[i].key /\ s.look = T.slot[i].look
        /\ s.screen = T.slot[i].screen /\ s.widget = T.slot[i].widget
    BY DEF TableOk, Sound, Entry, Parts
  <2>3. T.edits \in Nat \ {0}
    BY DEF TableOk
  <2> HIDE DEF s, U
  <2>4. TableOk(U) /\ U.slot = [T.slot EXCEPT ![i] = r]
    BY <2>1, <2>2, EditOk
  <2>5. /\ r.key = T.slot[i].key /\ r.look = T.slot[i].look
        /\ r.screen = T.slot[i].screen /\ r.widget = T.slot[i].widget
    BY <2>2, <2>3, NumberedIs
  <2> HIDE DEF r
  <2>6. U.slot[i] = r /\ \A j \in Slot : j # i => U.slot[j] = T.slot[j]
    BY <2>4 DEF TableOk
  <2>7. /\ \A e \in Drawn : KeyMatches(U.slot[i], e) <=> KeyMatches(T.slot[i], e)
        /\ IsWildcard(U.slot[i]) <=> IsWildcard(T.slot[i])
    BY <2>5, <2>6 DEF KeyMatches, IsWildcard
  <2>8. ASSUME NEW e \in Drawn, ~KeyMatches(U.slot[i], e)
        PROVE  Shown(U, e) = Shown(T, e)
    <3>1. Quiet(U.slot[i], e) /\ Quiet(T.slot[i], e)
      BY <2>7, <2>8 DEF Quiet
    <3>2. \A j \in Slot : \/ Alike(T.slot[j], U.slot[j])
                          \/ Quiet(T.slot[j], e) /\ Quiet(U.slot[j], e)
      BY <2>6, <3>1 DEF Alike
    <3>3. QED
      BY <2>4, <3>2, SameShown
  <2>9. QED
    BY <1>2, <2>7, <2>8 DEF U
<1>3. QED
  BY <1>1, <1>2

\* A variant takes the slot of nobody's rule.
LEMMA MadeShows ==
    ASSUME NEW T, TableOk(T), AllocSlot(T) \in Slot, NEW s, Entry(s)
    PROVE  LET a == AllocSlot(T)
               U == Edit(Put(T, a, s), a, s)
           IN  /\ \A e \in Drawn : Shown(U, e) = Shown(T, e) \/ KeyMatches(U.slot[a], e)
               /\ U.slot[a].key = s.key /\ (IsWildcard(U.slot[a]) <=> IsWildcard(s))
<1> DEFINE a == AllocSlot(T)
           r == [s EXCEPT !.edit = T.edits]
           U == Edit(Put(T, a, s), a, s)
<1>1. a # 0 /\ a \in Slot
  BY SizeAssumption DEF Slot
<1>2. \A e \in Drawn : Quiet(T.slot[a], e)
  BY <1>1, EvictedQuiet
<1> HIDE DEF a
<1>3. TableOk(U) /\ U.slot = [T.slot EXCEPT ![a] = r]
  BY <1>1, PutEditOk
<1>4. T.edits \in Nat \ {0}
  BY DEF TableOk
<1>5. r.key = s.key /\ (IsWildcard(r) <=> IsWildcard(s))
  BY <1>4, NumberedIs DEF IsWildcard
<1> HIDE DEF U, r
<1>6. U.slot[a] = r /\ \A j \in Slot : j # a => U.slot[j] = T.slot[j]
  BY <1>1, <1>3 DEF TableOk
<1>7. ASSUME NEW e \in Drawn, ~KeyMatches(U.slot[a], e)
      PROVE  Shown(U, e) = Shown(T, e)
  <2>1. \A j \in Slot : \/ Alike(T.slot[j], U.slot[j])
                        \/ Quiet(T.slot[j], e) /\ Quiet(U.slot[j], e)
    BY <1>2, <1>6, <1>7 DEF Alike, Quiet
  <2>2. QED
    BY <1>3, <2>1, SameShown
<1>8. QED
  BY <1>5, <1>6, <1>7 DEF U, a

\* What specialize_slot gives back: nothing, a twin, or a variant, which is no
\* wildcard unless its parent was evicted for it.
LEMMA ForkIs ==
    ASSUME NEW T, TableOk(T), NEW i \in Slot
    PROVE  LET S == Specialized(T, i)
           IN  \/ S.at = 0 /\ (Live(T, i) => T.slot[i].last = NoSprite \/ AllocSlot(T) = 0)
               \/ S.at \in Slot /\ S.table = T /\ ~IsWildcard(T.slot[S.at])
               \/ /\ AllocSlot(T) \in Slot /\ S.at = AllocSlot(T)
                  /\ \E s : /\ Entry(s) /\ (s = EmptySlot \/ ~IsWildcard(s))
                            /\ S.table = Edit(Put(T, S.at, s), S.at, s)
<1> DEFINE a == AllocSlot(T)
           last == T.slot[i].last
           s == IF a = i THEN EmptySlot ELSE Narrowed(T.slot[i])
           t == CHOOSE j \in Twins(T, i) : TRUE
           none == [at |-> 0, table |-> T]
           twin == [at |-> t, table |-> T]
           made == [at |-> a, table |-> Edit(Put(T, a, s), a, s)]
<1>1. Specialized(T, i) =
        CASE ~Live(T, i) \/ (Live(T, i) /\ last = NoSprite) -> none
          [] Live(T, i) /\ last # NoSprite /\ Twins(T, i) # {} -> twin
          [] Live(T, i) /\ last # NoSprite /\ Twins(T, i) = {} /\ a = 0 -> none
          [] OTHER -> made
  BY DEF Specialized
<1>2. a \in Slot \cup {0}
  BY AllocIs
<1>3. Entry(T.slot[i]) /\ last \in Drawn \cup {NoSprite}
  BY DEF TableOk, Sound, Entry
<1> HIDE DEF none, twin, made, a
<1>4. \/ Specialized(T, i) = none /\ (Live(T, i) => last = NoSprite \/ a = 0)
      \/ Live(T, i) /\ last # NoSprite /\ Twins(T, i) # {} /\ Specialized(T, i) = twin
      \/ Live(T, i) /\ last # NoSprite /\ a # 0 /\ Specialized(T, i) = made
  BY <1>1
<1>5. last # NoSprite => last.screen # ANY /\ last.look # ANY
  BY <1>3, DrawnAssumption, WildcardAssumption
<1>6. ASSUME Live(T, i), last # NoSprite, Twins(T, i) # {}
      PROVE  t \in Slot /\ ~IsWildcard(T.slot[t])
  <2>1. t \in Twins(T, i)
    BY <1>6
  <2>2. t \in T.index[T.slot[i].key] /\ T.slot[t].screen = last.screen
    BY <2>1 DEF Twins
  <2>3. t \in Slot
    BY <1>3, <1>6, <2>2 DEF Live, TableOk, Entry
  <2>4. QED
    BY <1>5, <1>6, <2>2, <2>3 DEF IsWildcard
<1>7. ASSUME last # NoSprite
      PROVE  Entry(s) /\ (s = EmptySlot \/ ~IsWildcard(s))
  <2> DEFINE n == Narrowed(T.slot[i])
  <2>1. Entry(n)
    BY <1>3 DEF Narrowed, EmptySlot, Entry, Parts
  <2>2. n.widget = last.widget /\ n.look = (IF last.widget = NONE THEN last.look ELSE ANY)
    BY DEF Narrowed, EmptySlot
  <2>3. ~IsWildcard(n)
    BY <1>5, <1>7, <2>2 DEF IsWildcard
  <2> HIDE DEF n
  <2>4. Entry(EmptySlot)
    BY EmptyOk DEF Sound
  <2>5. QED
    BY <2>1, <2>3, <2>4 DEF n
<1> HIDE DEF t, s
<1>8. QED
  <2>1. CASE Specialized(T, i) = none /\ (Live(T, i) => last = NoSprite \/ a = 0)
    BY <2>1 DEF none, a
  <2>2. CASE Live(T, i) /\ last # NoSprite /\ Twins(T, i) # {} /\ Specialized(T, i) = twin
    BY <1>6, <2>2 DEF twin
  <2>3. CASE Live(T, i) /\ last # NoSprite /\ a # 0 /\ Specialized(T, i) = made
    <3>1. Specialized(T, i).at = a /\ Specialized(T, i).table = Edit(Put(T, a, s), a, s)
      BY <2>3 DEF made
    <3>2. a \in Slot
      BY <1>2, <2>3
    <3>3. QED
      BY <1>7, <2>3, <3>1, <3>2 DEF a
  <2>4. QED
    BY <1>4, <2>1, <2>2, <2>3

LEMMA TargetShows ==
    ASSUME TableOk(table), selected \in Slot, ~drag_group, NEW m
    PROVE  LET U == Dragged(Target.table, Target.at, m)
           IN  /\ \A e \in Drawn : Shown(U, e) = Shown(table, e) \/ KeyMatches(U.slot[Target.at], e)
               /\ CanFork => \/ \A e \in Drawn : Shown(U, e) = Shown(table, e)
                             \/ ~IsWildcard(U.slot[Target.at])
<1> DEFINE S == Specialized(table, selected)
           V == Target.table
           a == Target.at
           U == Dragged(V, a, m)
<1>1. Target = IF S.at = 0 THEN [at |-> selected, table |-> table] ELSE S
  BY DEF Target, InPlace
<1>2. S.at \in Slot \cup {0} /\ TableOk(S.table)
  BY SpecializedOk
<1>3. 0 \notin Slot
  BY SizeAssumption DEF Slot
<1>4. \/ S.at = 0 /\ (Live(table, selected) => table.slot[selected].last = NoSprite \/ AllocSlot(table) = 0)
      \/ S.at \in Slot /\ S.table = table /\ ~IsWildcard(table.slot[S.at])
      \/ /\ AllocSlot(table) \in Slot /\ S.at = AllocSlot(table)
         /\ \E s : /\ Entry(s) /\ (s = EmptySlot \/ ~IsWildcard(s))
                   /\ S.table = Edit(Put(table, S.at, s), S.at, s)
  BY ForkIs
<1> HIDE DEF S
<1>5. a \in Slot /\ TableOk(V)
  BY <1>1, <1>2
<1> HIDE DEF V, a
<1>6. U = SetTransformAt(V, a, m, V.slot[a].hidden)
  BY DEF Dragged
<1> HIDE DEF U
<1>7. /\ Live(V, a) \/ U = V
      /\ \A e \in Drawn : Shown(U, e) = Shown(V, e) \/ KeyMatches(U.slot[a], e)
      /\ \A e \in Drawn : KeyMatches(U.slot[a], e) <=> KeyMatches(V.slot[a], e)
      /\ IsWildcard(U.slot[a]) <=> IsWildcard(V.slot[a])
  BY <1>5, <1>6, TransformShows
<1>8. CASE S.at = 0 /\ (Live(table, selected) => table.slot[selected].last = NoSprite \/ AllocSlot(table) = 0)
  <2>1. V = table /\ a = selected
    BY <1>1, <1>8 DEF V, a
  <2>2. CanFork => U = table
    BY <1>7, <1>8, <2>1 DEF CanFork
  <2>3. QED
    BY <1>7, <2>1, <2>2 DEF U, V, a
<1>9. CASE S.at \in Slot /\ S.table = table /\ ~IsWildcard(table.slot[S.at])
  <2>1. V = table /\ a = S.at
    BY <1>1, <1>3, <1>9 DEF V, a
  <2>2. QED
    BY <1>7, <1>9, <2>1 DEF U, V, a
<1>10. CASE /\ AllocSlot(table) \in Slot /\ S.at = AllocSlot(table)
            /\ \E s : /\ Entry(s) /\ (s = EmptySlot \/ ~IsWildcard(s))
                      /\ S.table = Edit(Put(table, S.at, s), S.at, s)
  <2>1. PICK s : /\ Entry(s) /\ (s = EmptySlot \/ ~IsWildcard(s))
                 /\ S.table = Edit(Put(table, S.at, s), S.at, s)
    BY <1>10
  <2>2. a = AllocSlot(table) /\ V = Edit(Put(table, a, s), a, s)
    BY <1>1, <1>3, <1>10, <2>1 DEF V, a
  <2>3. /\ \A e \in Drawn : Shown(V, e) = Shown(table, e) \/ KeyMatches(V.slot[a], e)
        /\ V.slot[a].key = s.key /\ (IsWildcard(V.slot[a]) <=> IsWildcard(s))
    BY <1>10, <2>1, <2>2, MadeShows
  <2>4. ASSUME s = EmptySlot
        PROVE  \A e \in Drawn : Shown(U, e) = Shown(table, e)
    <3>1. V.slot[a].key = NONE
      BY <2>3, <2>4 DEF EmptySlot
    <3>2. U = V
      BY <1>7, <3>1 DEF Live
    <3>3. \A e \in Drawn : ~KeyMatches(V.slot[a], e)
      BY <3>1, DrawnAssumption, WildcardAssumption DEF KeyMatches
    <3>4. QED
      BY <2>3, <3>2, <3>3
  <2>5. \A e \in Drawn : Shown(U, e) = Shown(table, e) \/ KeyMatches(U.slot[a], e)
    BY <1>7, <2>3
  <2>6. \/ \A e \in Drawn : Shown(U, e) = Shown(table, e)
        \/ ~IsWildcard(U.slot[a])
    BY <1>7, <2>1, <2>3, <2>4
  <2>7. QED
    BY <2>5, <2>6 DEF U, V, a
<1>11. QED
  BY <1>4, <1>8, <1>9, <1>10

\* GizmoEditsOneVariant: a gizmo edit that is not for a group changes only
\* sprites that the slot it ends on matches, and where a slot can be had and
\* the slot has met a sprite it never ends on a wildcard that changes any.
THEOREM GizmoForks == Spec => GizmoEditsOneVariant
<1> DEFINE Forks == ~drag_group =>
        /\ DragStart \/ RightClickReset \/ DragMove => OnlyMatched(selected')
        /\ (DragStart \/ RightClickReset) /\ CanFork
             => Untouched \/ ~IsWildcard(table'.slot[selected'])
<1>1. SpriteInv /\ SettingsInv /\ [Next]_vars => SpriteInv'
  BY SpriteStep
<1>2. ASSUME SpriteInv PROVE Forks
  <2> SUFFICES ASSUME ~drag_group PROVE Forks
    OBVIOUS
  <2>1. TableOk(table) /\ ((\E t : GizmoEdit(t)) => selected \in Slot)
    BY <1>2 DEF SpriteInv, GizmoEdit, Handles
  <2>2. ASSUME DragStart \/ RightClickReset
        PROVE  OnlyMatched(selected') /\ (CanFork => Untouched \/ ~IsWildcard(table'.slot[selected']))
    <3>1. PICK m : table' = Dragged(Target.table, Target.at, m) /\ selected' = Target.at
      BY <2>2 DEF DragStart, RightClickReset
    <3>2. selected \in Slot
      BY <2>1, <2>2 DEF DragStart, RightClickReset
    <3> DEFINE U == Dragged(Target.table, Target.at, m)
    <3>3. /\ \A e \in Drawn : Shown(U, e) = Shown(table, e) \/ KeyMatches(U.slot[Target.at], e)
          /\ CanFork => \/ \A e \in Drawn : Shown(U, e) = Shown(table, e)
                        \/ ~IsWildcard(U.slot[Target.at])
      BY <2>1, <3>2, TargetShows
    <3>4. table' = U
      BY <3>1
    <3> HIDE DEF U
    <3>5. QED
      BY <3>1, <3>3, <3>4 DEF OnlyMatched, Untouched
  <2>3. ASSUME DragMove PROVE OnlyMatched(selected')
    <3>1. PICK m : table' = Dragged(table, selected, m)
      BY <2>3 DEF DragMove
    <3>2. selected' = selected /\ selected \in Slot
      BY <2>1, <2>3 DEF DragMove
    <3> DEFINE U == SetTransformAt(table, selected, m, table.slot[selected].hidden)
    <3>3. table' = U
      BY <3>1 DEF Dragged
    <3>4. \A e \in Drawn : Shown(U, e) = Shown(table, e) \/ KeyMatches(U.slot[selected], e)
      BY <2>1, <3>2, TransformShows
    <3> HIDE DEF U
    <3>5. QED
      BY <3>2, <3>3, <3>4 DEF OnlyMatched
  <2>4. QED
    BY <2>2, <2>3
<1>3. QED
  BY <1>1, <1>2, SpriteInit, SettingsHold, PTL DEF Spec, GizmoEditsOneVariant

-----------------------------------------------------------------------------
(* What is saved of a texture is what the next start shows.                *)

All == {"key", "look", "screen", "widget", "last", "seen", "move", "hidden",
        "name", "group", "edit", "tried", "path", "wname"}

\* A rule without a pattern leaves the slot's.
LEMMA AppliedOne ==
    ASSUME NEW s, All \subseteq DOMAIN s, NEW p, p.look = ANY, p.screen = ANY
    PROVE  LET r == ApplyRule(s, p)
           IN  /\ All \subseteq DOMAIN r /\ r.look = s.look /\ r.screen = s.screen
               /\ r.move = p.move /\ r.hidden = p.hidden
<1> DEFINE name == IF p.named THEN "user" ELSE s.name
           group == IF ~p.grouped THEN "none" ELSE IF s.group = "auto" THEN "auto" ELSE "user"
           r == [s EXCEPT !.look = s.look, !.screen = s.screen, !.move = p.move,
                          !.hidden = p.hidden, !.name = name, !.group = group]
<1>1. ApplyRule(s, p) = r
  BY DEF ApplyRule
<1> HIDE DEF name, group
<1>2. QED
  BY <1>1 DEF All

\* What is done is what some rule that fits does.
LEMMA AppliedShows ==
    ASSUME NEW s, All \subseteq DOMAIN s, NEW rules, Len(rules) \in Nat, DOMAIN rules = 1 .. Len(rules),
           NEW fits \in SUBSET DOMAIN rules, fits # {},
           \A n \in fits : rules[n].look = ANY /\ rules[n].screen = ANY
    PROVE  LET r == Applied(s, rules, fits)
           IN  /\ r.look = s.look /\ r.screen = s.screen
               /\ \E n \in fits : r.move = rules[n].move /\ r.hidden = rules[n].hidden
<1> DEFINE L == Len(rules)
           Turn(x, k) == IF k \in fits THEN ApplyRule(x, rules[k]) ELSE x
           Step(w, k) == IF k = 0 THEN s ELSE Turn(w[k - 1], k)
           IsAfter(f) == f = [k \in 0 .. L |-> Step(f, k)]
           w == CHOOSE f : IsAfter(f)
<1>1. Applied(s, rules, fits) = w[L]
  BY DEF Applied
<1> HIDE DEF L
<1>2. L \in Nat
  BY DEF L
<1>3. \E f : IsAfter(f)
  <2> HIDE DEF Turn
  <2> DEFINE K == {n \in Nat : \E v : v = [k \in 0 .. n |-> Step(v, k)]}
  <2>1. 0 \in K
    <3> DEFINE v == [k \in 0 .. 0 |-> s]
    <3>1. v = [k \in 0 .. 0 |-> Step(v, k)]
      OBVIOUS
    <3>2. QED
      BY <3>1
  <2>2. ASSUME NEW n \in K PROVE n + 1 \in K
    <3>1. PICK u : u = [k \in 0 .. n |-> Step(u, k)]
      OBVIOUS
    <3> DEFINE v == [k \in 0 .. n + 1 |-> Step(u, k)]
    <3>2. \A k \in 0 .. n : v[k] = u[k]
      BY <3>1
    <3>3. \A k \in 0 .. n + 1 : k # 0 => k - 1 \in 0 .. n
      OBVIOUS
    <3>4. v = [k \in 0 .. n + 1 |-> Step(v, k)]
      BY <3>2, <3>3
    <3>5. n + 1 \in Nat /\ \E t : t = [k \in 0 .. n + 1 |-> Step(t, k)]
      <4> HIDE DEF v, Step
      <4>1. QED
        BY <3>4
    <3>6. QED
      BY <3>5
  <2>3. K = Nat
    <3> HIDE DEF K
    <3>1. K \in SUBSET Nat
      BY DEF K
    <3>2. QED
      BY <2>1, <2>2, <3>1, NatSet
  <2>4. QED
    BY <1>2, <2>3
<1>4. IsAfter(w)
  BY <1>3
<1> HIDE DEF w
<1>5. w[0] = s /\ \A k \in 1 .. L : w[k] = Turn(w[k - 1], k)
  <2> HIDE DEF Turn
  <2>1. QED
    BY <1>2, <1>4
<1> DEFINE Right(x) == All \subseteq DOMAIN x /\ x.look = s.look /\ x.screen = s.screen
           Done(x) == \E n \in fits : x.move = rules[n].move /\ x.hidden = rules[n].hidden
           Good(k) == Right(w[k]) /\ ((\E n \in fits : n <= k) => Done(w[k]))
<1>6. Good(L)
  <2> DEFINE K == {k \in Nat : k <= L => Good(k)}
  <2>1. 0 \in K
    <3>1. \A n \in fits : n >= 1
      OBVIOUS
    <3>2. QED
      BY <1>5, <3>1
  <2>2. ASSUME NEW k \in K PROVE k + 1 \in K
    <3>1. CASE k + 1 <= L
      <4>1. k + 1 \in 1 .. L /\ (k + 1) - 1 = k /\ Right(w[k]) /\ ((\E n \in fits : n <= k) => Done(w[k]))
        BY <1>2, <3>1
      <4>2. w[k + 1] = Turn(w[k], k + 1)
        BY <1>5, <4>1
      <4>3. CASE k + 1 \in fits
        <5>1. w[k + 1] = ApplyRule(w[k], rules[k + 1])
          BY <4>2, <4>3
        <5>2. Right(w[k + 1]) /\ Done(w[k + 1])
          BY <4>1, <4>3, <5>1, AppliedOne
        <5>3. QED
          BY <5>2
      <4>4. CASE k + 1 \notin fits
        <5>1. w[k + 1] = w[k]
          BY <4>2, <4>4
        <5>2. \A n \in fits : n <= k + 1 => n <= k
          BY <4>4 DEF L
        <5>3. QED
          BY <4>1, <5>1, <5>2
      <4>5. QED
        BY <4>3, <4>4
    <3>2. QED
      BY <3>1
  <2>3. K = Nat
    <3> HIDE DEF K
    <3>1. K \in SUBSET Nat
      BY DEF K
    <3>2. QED
      BY <2>1, <2>2, <3>1, NatSet
  <2>4. QED
    BY <1>2, <2>3
<1>7. \E n \in fits : n <= L
  BY DEF L
<1>8. QED
  BY <1>1, <1>6, <1>7

LEMMA AppendIs ==
    ASSUME NEW S, NEW s \in Seq(S), NEW x \in S
    PROVE  /\ Append(s, x) \in Seq(S)
           /\ \A k \in DOMAIN s : k \in DOMAIN Append(s, x) /\ Append(s, x)[k] = s[k]
           /\ \E k \in DOMAIN Append(s, x) : Append(s, x)[k] = x
<1>1. Append(s, x) \in Seq(S) /\ Len(Append(s, x)) = Len(s) + 1 /\ Len(s) \in Nat
  OBVIOUS
<1>2. DOMAIN s = 1 .. Len(s) /\ DOMAIN Append(s, x) = 1 .. Len(s) + 1
  OBVIOUS
<1>3. Append(s, x)[Len(s) + 1] = x /\ \A k \in DOMAIN s : Append(s, x)[k] = s[k]
  OBVIOUS
<1>4. QED
  BY <1>1, <1>2, <1>3

\* What a load leaves waiting of the slots of T up to n, when each has a path.
Stored(T) == {i \in Slot : T.slot[i].key # NONE /\ ~IsIdentity(T.slot[i])}
Bare(p) == [p EXCEPT !.look = ANY, !.screen = ANY]
OfPath(T) == {SavedSlot(T.slot[j]) : j \in {i \in Stored(T) : T.slot[i].wname = NONE}}
OfWidget(T) == {Bare(SavedSlot(T.slot[j])) : j \in {i \in Stored(T) : T.slot[i].wname # NONE}}
Waiting(U, T, n) ==
    /\ Fields \subseteq DOMAIN U /\ U.edits = 1
    /\ U.slot = EmptyTable.slot /\ U.index = EmptyTable.index
    /\ U.by_path \in Seq(OfPath(T)) /\ U.by_widget \in Seq(OfWidget(T))
    /\ \A j \in Stored(T) : j <= n =>
          IF T.slot[j].wname = NONE
          THEN \E k \in DOMAIN U.by_path : U.by_path[k] = SavedSlot(T.slot[j])
          ELSE \E k \in DOMAIN U.by_widget : U.by_widget[k] = Bare(SavedSlot(T.slot[j]))

LEMMA WaitingTurn ==
    ASSUME NEW T, \A j \in Stored(T) : T.slot[j].path # NONE,
           NEW n \in Nat, NEW U, Waiting(U, T, n)
    PROVE  Waiting(LoadTurn(U, SavedSlots(T), n + 1), T, n + 1)
<1> DEFINE p == SavedSlot(T.slot[n + 1])
           A == [U EXCEPT !.by_widget = Append(U.by_widget, Bare(p))]
           B == [U EXCEPT !.by_path = Append(U.by_path, p)]
           V == LoadTurn(U, SavedSlots(T), n + 1)
<1>1. SavedSlots(T) = [j \in Stored(T) |-> SavedSlot(T.slot[j])]
  BY DEF SavedSlots, Stored
<1>2. \A j \in Stored(T) : j \in Nat /\ (j <= n + 1 => j <= n \/ j = n + 1)
  BY SizeAssumption DEF Stored, Slot
<1>3. CASE n + 1 \notin Stored(T)
  <2>1. V = U
    BY <1>1, <1>3 DEF LoadTurn
  <2>2. \A j \in Stored(T) : j <= n + 1 => j <= n
    BY <1>2, <1>3
  <2> HIDE DEF V
  <2>3. Waiting(V, T, n + 1)
    BY <2>1, <2>2 DEF Waiting
  <2>4. QED
    BY <2>3 DEF V
<1>4. CASE n + 1 \in Stored(T)
  <2>1. V = Loaded(U, p)
    BY <1>1, <1>4 DEF LoadTurn
  <2>2. p.wname = T.slot[n + 1].wname /\ p.path = T.slot[n + 1].path /\ p.path # NONE
    BY <1>4 DEF SavedSlot
  <2> HIDE DEF V
  <2>3. CASE p.wname = NONE
    <3>1. V = B
      BY <2>1, <2>2, <2>3 DEF Loaded
    <3>2. p \in OfPath(T)
      BY <1>4, <2>2, <2>3 DEF OfPath
    <3> DEFINE q == Append(U.by_path, p)
    <3>3. /\ q \in Seq(OfPath(T)) /\ \E k \in DOMAIN q : q[k] = p
          /\ \A k \in DOMAIN U.by_path : k \in DOMAIN q /\ q[k] = U.by_path[k]
      <4> HIDE DEF p
      <4>1. QED
        BY <3>2, AppendIs DEF Waiting
    <3>4. /\ V.by_path = q /\ DOMAIN V = DOMAIN U /\ V.edits = U.edits /\ V.slot = U.slot
          /\ V.index = U.index /\ V.by_widget = U.by_widget
      BY <3>1 DEF Waiting, Fields
    <3> HIDE DEF q, p
    <3>5. ASSUME NEW j \in Stored(T), j <= n + 1
          PROVE  IF T.slot[j].wname = NONE
                 THEN \E k \in DOMAIN V.by_path : V.by_path[k] = SavedSlot(T.slot[j])
                 ELSE \E k \in DOMAIN V.by_widget : V.by_widget[k] = Bare(SavedSlot(T.slot[j]))
      <4>1. CASE j <= n
        BY <3>3, <3>4, <4>1 DEF Waiting
      <4>2. CASE j = n + 1
        BY <2>2, <2>3, <3>3, <3>4, <4>2 DEF p
      <4>3. QED
        BY <1>2, <3>5, <4>1, <4>2
    <3>6. Waiting(V, T, n + 1)
      BY <3>3, <3>4, <3>5 DEF Waiting
    <3>7. QED
      BY <3>6 DEF V
  <2>4. CASE p.wname # NONE
    <3>1. V = A
      BY <2>1, <2>2, <2>4 DEF Loaded, Bare
    <3> DEFINE b == Bare(p)
    <3>2. b \in OfWidget(T)
      BY <1>4, <2>2, <2>4 DEF OfWidget
    <3> DEFINE q == Append(U.by_widget, b)
    <3>3. /\ q \in Seq(OfWidget(T)) /\ \E k \in DOMAIN q : q[k] = b
          /\ \A k \in DOMAIN U.by_widget : k \in DOMAIN q /\ q[k] = U.by_widget[k]
      <4> HIDE DEF b
      <4>1. QED
        BY <3>2, AppendIs DEF Waiting
    <3>4. /\ V.by_widget = q /\ DOMAIN V = DOMAIN U /\ V.edits = U.edits /\ V.slot = U.slot
          /\ V.index = U.index /\ V.by_path = U.by_path
      BY <3>1 DEF Waiting, Fields
    <3> HIDE DEF q, p
    <3>5. ASSUME NEW j \in Stored(T), j <= n + 1
          PROVE  IF T.slot[j].wname = NONE
                 THEN \E k \in DOMAIN V.by_path : V.by_path[k] = SavedSlot(T.slot[j])
                 ELSE \E k \in DOMAIN V.by_widget : V.by_widget[k] = Bare(SavedSlot(T.slot[j]))
      <4>1. CASE j <= n
        BY <3>3, <3>4, <4>1 DEF Waiting
      <4>2. CASE j = n + 1
        BY <2>2, <2>4, <3>3, <3>4, <4>2 DEF p
      <4>3. QED
        BY <1>2, <3>5, <4>1, <4>2
    <3>6. Waiting(V, T, n + 1)
      BY <3>3, <3>4, <3>5 DEF Waiting
    <3>7. QED
      BY <3>6 DEF V
  <2>5. QED
    BY <2>3, <2>4
<1>5. QED
  BY <1>3, <1>4

LEMMA WaitingAll ==
    ASSUME NEW T, \A j \in Stored(T) : T.slot[j].path # NONE
    PROVE  Waiting(LoadedSlots(EmptyTable, SavedSlots(T)), T, NSlots)
<1> DEFINE S == SavedSlots(T)
<1>1. PICK w : /\ LoadedSlots(EmptyTable, S) = w[NSlots] /\ w[0] = EmptyTable
               /\ \A k \in 1 .. NSlots : w[k] = LoadTurn(w[k - 1], S, k)
  <2> HIDE DEF S
  <2>1. QED
    BY LoadedSlotsIs
<1>2. NSlots \in Nat
  BY SizeAssumption
<1>3. Waiting(EmptyTable, T, 0)
  <2>1. \A j \in Stored(T) : ~(j <= 0)
    BY SizeAssumption DEF Stored, Slot
  <2>2. /\ Fields \subseteq DOMAIN EmptyTable /\ EmptyTable.edits = 1
        /\ EmptyTable.by_path = <<>> /\ EmptyTable.by_widget = <<>>
    BY DEF EmptyTable, Fields
  <2>3. QED
    BY <2>1, <2>2 DEF Waiting
<1>4. Waiting(w[NSlots], T, NSlots)
  <2> HIDE DEF S
  <2> DEFINE K == {k \in Nat : k <= NSlots => Waiting(w[k], T, k)}
  <2>1. 0 \in K
    BY <1>1, <1>3
  <2>2. ASSUME NEW k \in K PROVE k + 1 \in K
    <3>1. CASE k + 1 <= NSlots
      <4>1. k + 1 \in 1 .. NSlots /\ (k + 1) - 1 = k /\ Waiting(w[k], T, k)
        BY <1>2, <3>1
      <4>2. w[k + 1] = LoadTurn(w[k], S, k + 1)
        BY <1>1, <4>1
      <4>3. QED
        BY <4>1, <4>2, WaitingTurn DEF S
    <3>2. QED
      BY <3>1
  <2>3. K = Nat
    <3> HIDE DEF K
    <3>1. K \in SUBSET Nat
      BY DEF K
    <3>2. QED
      BY <2>1, <2>2, <3>1, NatSet
  <2>4. QED
    BY <1>2, <2>3
<1>5. QED
  BY <1>1, <1>4

\* A table in which k has slot a only, and that holds s.
Single(T, a, k, s) ==
    /\ Fields \subseteq DOMAIN T /\ T.edits \in Nat
    /\ DOMAIN T.slot = Slot /\ T.slot[a] = s /\ DOMAIN T.index = Key /\ T.index[k] = {a}

LEMMA SingleSlot ==
    ASSUME NEW T, NEW a \in Slot, NEW k \in Key, NEW s, Single(T, a, k, s), NEW r
    PROVE  LET U == [T EXCEPT !.slot[a] = r]
           IN  /\ Single(U, a, k, r)
               /\ U.by_path = T.by_path /\ U.by_widget = T.by_widget /\ U.edits = T.edits
BY DEF Single, Fields

LEMMA SingleEdit ==
    ASSUME NEW T, NEW a \in Slot, NEW k \in Key, NEW s, Single(T, a, k, s), NEW v
    PROVE  LET E == Edit(T, a, v)
           IN  Single(E, a, k, [v EXCEPT !.edit = T.edits]) /\ E.by_path = T.by_path
<1> DEFINE E == Edit(T, a, v)
           r == [v EXCEPT !.edit = T.edits]
<1>1. /\ E.slot = [T.slot EXCEPT ![a] = r] /\ E.index = T.index /\ E.edits = T.edits + 1
      /\ DOMAIN E = DOMAIN T /\ E.by_path = T.by_path
  BY DEF Edit, Single, Fields
<1> HIDE DEF E, r
<1>2. Single(E, a, k, r)
  BY <1>1 DEF Single, Fields
<1>3. QED
  BY <1>1, <1>2 DEF E, r

\* The queues are no part of it.
LEMMA SingleOther ==
    ASSUME NEW T, NEW a \in Slot, NEW k \in Key, NEW s, Single(T, a, k, s), NEW x
    PROVE  /\ Single([T EXCEPT !.by_widget = x], a, k, s) /\ Single([T EXCEPT !.by_path = x], a, k, s)
           /\ [T EXCEPT !.by_widget = x].by_path = T.by_path
BY DEF Single, Fields

LEMMA SingleBest ==
    ASSUME NEW T, NEW a \in Slot, NEW e, e.key \in Key, NEW s, Single(T, a, e.key, s),
           KeyMatches(s, e), s.edit \in Nat
    PROVE  BestMatch(T, e) = a /\ Shown(T, e) = [move |-> s.move, hidden |-> s.hidden]
<1> DEFINE C == {i \in T.index[e.key] : KeyMatches(T.slot[i], e)}
<1>1. C = {a}
  BY DEF Single
<1>2. ~Better(T.slot[a], T.slot[a])
  BY SpecificityIs DEF Single, Better
<1>3. BestMatches(T, e) = {i \in C : \A j \in C : ~Better(T.slot[j], T.slot[i])}
  BY DEF BestMatches
<1>4. BestMatches(T, e) = {a}
  BY <1>1, <1>2, <1>3
<1>5. BestMatch(T, e) = a /\ a # 0
  BY <1>4, SizeAssumption DEF BestMatch, Slot
<1>6. QED
  BY <1>5 DEF Shown, Single

\* An empty table has a slot for the first texture met.
LEMMA FirstMet ==
    ASSUME NEW U, TableOk(U), U.slot = EmptyTable.slot, U.index = EmptyTable.index, NEW k \in Key
    PROVE  LET T == WithWildcard(U, k)
           IN  /\ \E a \in Slot : Single(T, a, k, [EmptySlot EXCEPT !.key = k])
               /\ U.index[k] = {} /\ T.by_path = U.by_path /\ T.by_widget = U.by_widget
<1> DEFINE a == AllocSlot(U)
           s == [EmptySlot EXCEPT !.key = k]
           T == WithWildcard(U, k)
<1>1. a \in Slot
  <2> DEFINE free == {i \in Slot : U.slot[i].key = NONE}
             lru  == {i \in Slot : ~Pinned(U.slot[i])}
             old  == {i \in lru : \A j \in lru : U.slot[i].seen <= U.slot[j].seen}
             pool == IF free # {} THEN free ELSE old
  <2>1. a = IF pool = {} THEN 0 ELSE CHOOSE i \in pool : \A j \in pool : i <= j
    BY DEF AllocSlot
  <2>2. \A i \in Slot : U.slot[i].key = NONE
    BY EmptyOk DEF EmptyTable
  <2>3. pool = Slot
    BY <2>2, SizeAssumption DEF Slot
  <2> HIDE DEF pool
  <2>4. pool \in SUBSET Nat /\ pool # {}
    BY <2>3, SizeAssumption DEF Slot
  <2>5. \E n \in pool : \A m \in pool : n <= m
    BY <2>4, LeastIs
  <2>6. QED
    BY <2>1, <2>3, <2>4, <2>5
<1>2. U.index[k] = {} /\ WildcardSlot(U, k) = 0
  BY DEF EmptyTable, WildcardSlot
<1>3. a # 0
  BY <1>1, SizeAssumption DEF Slot
<1>4. T = Put(U, a, s)
  BY <1>2, <1>3 DEF WithWildcard
<1>5. s.key = k
  BY EmptyOk
<1> HIDE DEF a, s, T
<1>6. /\ T.slot = [U.slot EXCEPT ![a] = s] /\ T.edits = U.edits /\ DOMAIN T = DOMAIN U
      /\ T.index = [x \in Key |-> IF x = s.key THEN U.index[x] \cup {a} ELSE U.index[x] \ {a}]
      /\ T.by_path = U.by_path /\ T.by_widget = U.by_widget
  BY <1>4 DEF Put, TableOk, Fields
<1>7. Single(T, a, k, s)
  BY <1>1, <1>2, <1>5, <1>6 DEF Single, TableOk
<1>8. QED
  BY <1>1, <1>2, <1>6, <1>7 DEF T, s

\* A slot that matches every sprite of texture k that the widget w draws.
Broad(s, k, w) == /\ All \subseteq DOMAIN s /\ s.key = k /\ s.look = ANY /\ s.screen = ANY
                  /\ s.widget \in {NONE, w} /\ s.edit \in Nat
Does(s, m, h) == s.move = m /\ s.hidden = h
\* Whatever waits for widget w, or for a path, does the same and has no pattern.
Plainly(p, m, h) == p.look = ANY /\ p.screen = ANY /\ Does(p, m, h)
WidgetsDo(T, w, m, h) ==
    /\ Len(T.by_widget) \in Nat /\ DOMAIN T.by_widget = 1 .. Len(T.by_widget)
    /\ \A n \in DOMAIN T.by_widget : T.by_widget[n].wname = w => Plainly(T.by_widget[n], m, h)
PathsDo(T, path, m, h) ==
    /\ Len(T.by_path) \in Nat /\ DOMAIN T.by_path = 1 .. Len(T.by_path)
    /\ \A n \in DOMAIN T.by_path : T.by_path[n].path = path => Plainly(T.by_path[n], m, h)

LEMMA TakeWidgetSets ==
    ASSUME NEW T, NEW a \in Slot, NEW k \in Key, NEW s, Single(T, a, k, s), NEW w, Broad(s, k, w),
           s.wname = w, w # NONE, ~s.tried, NEW m, NEW h, WidgetsDo(T, w, m, h),
           \E n \in DOMAIN T.by_widget : T.by_widget[n].wname = w
    PROVE  LET U == TakeWidgetRules(T, a)
           IN  U.by_path = T.by_path /\ \E r : Single(U, a, k, r) /\ Broad(r, k, w) /\ Does(r, m, h) /\ ~r.tried
<1> DEFINE rules == T.by_widget
           mine == {n \in DOMAIN rules : rules[n].wname = w}
           rest == SelectSeq(rules, LAMBDA p : p.wname # w)
           x == Applied(s, rules, mine)
           v == [Ruled(s, x) EXCEPT !.widget = w]
           r == [v EXCEPT !.edit = T.edits]
           U == TakeWidgetRules(T, a)
<1>1. U = [Edit(T, a, v) EXCEPT !.by_widget = rest]
  BY DEF TakeWidgetRules, Single
<1>2. Single(U, a, k, r) /\ U.by_path = T.by_path
  <2> DEFINE E == Edit(T, a, v)
  <2>1. Single(E, a, k, r) /\ E.by_path = T.by_path
    <3> HIDE DEF v
    <3>1. QED
      BY SingleEdit
  <2> HIDE DEF E, r, rest
  <2>2. Single([E EXCEPT !.by_widget = rest], a, k, r) /\ [E EXCEPT !.by_widget = rest].by_path = E.by_path
    BY <2>1, SingleOther
  <2> HIDE DEF U
  <2>3. QED
    BY <1>1, <2>1, <2>2 DEF E
<1>3. x.look = ANY /\ x.screen = ANY /\ x.move = m /\ x.hidden = h
  <2>1. Len(rules) \in Nat /\ DOMAIN rules = 1 .. Len(rules)
    BY DEF WidgetsDo
  <2>2. mine # {} /\ mine \in SUBSET DOMAIN rules
    OBVIOUS
  <2>3. \A n \in mine : /\ rules[n].look = ANY /\ rules[n].screen = ANY
                        /\ rules[n].move = m /\ rules[n].hidden = h
    BY DEF Does, WidgetsDo, Plainly
  <2>4. All \subseteq DOMAIN s /\ s.look = ANY /\ s.screen = ANY
    BY DEF Broad
  <2> HIDE DEF rules, mine
  <2>5. /\ x.look = s.look /\ x.screen = s.screen
        /\ \E n \in mine : x.move = rules[n].move /\ x.hidden = rules[n].hidden
    BY <2>1, <2>2, <2>3, <2>4, AppliedShows, SMTT(60)
  <2>6. QED
    BY <2>3, <2>4, <2>5
<1> HIDE DEF x
<1>4. /\ All \subseteq DOMAIN v /\ v.key = k /\ v.look = ANY /\ v.screen = ANY /\ v.widget = w
      /\ v.move = m /\ v.hidden = h /\ v.tried = s.tried
  BY <1>3 DEF Ruled, Broad, All
<1> HIDE DEF v
<1>5. T.edits \in Nat
  BY DEF Single
<1>6. Broad(r, k, w) /\ Does(r, m, h) /\ r.tried = s.tried
  BY <1>4, <1>5 DEF Broad, Does, All
<1> HIDE DEF r, U
<1>7. QED
  BY <1>2, <1>6 DEF U

\* The slot is named after its path, and takes the rules of the path if any.
LEMMA NamedIs ==
    ASSUME NEW s, NEW k, NEW w, Broad(s, k, w), NEW path
    PROVE  LET t == [s EXCEPT !.tried = TRUE]
               n == [t EXCEPT !.path = path,
                              !.name = IF @ = "none" THEN "auto" ELSE @,
                              !.group = IF @ = "none" /\ auto_group THEN "auto" ELSE @]
           IN  Broad(n, k, w) /\ n.move = s.move /\ n.hidden = s.hidden
<1> DEFINE name == IF s.name = "none" THEN "auto" ELSE s.name
           group == IF s.group = "none" /\ auto_group THEN "auto" ELSE s.group
           n == [s EXCEPT !.tried = TRUE, !.path = path, !.name = name, !.group = group]
           t == [s EXCEPT !.tried = TRUE]
           u == [t EXCEPT !.path = path,
                          !.name = IF @ = "none" THEN "auto" ELSE @,
                          !.group = IF @ = "none" /\ auto_group THEN "auto" ELSE @]
<1>1. u = n
  BY DEF Broad, All
<1> HIDE DEF u, name, group
<1>2. Broad(n, k, w) /\ n.move = s.move /\ n.hidden = s.hidden
  BY DEF Broad, All
<1> HIDE DEF n
<1>3. QED
  BY <1>1, <1>2 DEF u

LEMMA TryPathSets ==
    ASSUME NEW T, NEW a \in Slot, NEW k \in Key, NEW s, Single(T, a, k, s), NEW w, Broad(s, k, w),
           ~s.tried, NEW path, path # NONE, NEW m, NEW h, PathsDo(T, path, m, h),
           (\E n \in DOMAIN T.by_path : T.by_path[n].path = path) \/ Does(s, m, h)
    PROVE  \E r : Single(TryPath(T, a, path), a, k, r) /\ Broad(r, k, w) /\ Does(r, m, h)
<1> DEFINE t == [s EXCEPT !.tried = TRUE]
           named == [t EXCEPT !.path = path,
                              !.name = IF @ = "none" THEN "auto" ELSE @,
                              !.group = IF @ = "none" /\ auto_group THEN "auto" ELSE @]
           rules == T.by_path
           mine == {n \in DOMAIN rules : rules[n].path = path}
           rest == SelectSeq(rules, LAMBDA p : p.path # path)
           x == Applied(named, rules, mine)
           v == Ruled(named, x)
           r == [v EXCEPT !.edit = T.edits]
           U == TryPath(T, a, path)
           B == [T EXCEPT !.slot[a] = named]
           C == [Edit(T, a, v) EXCEPT !.by_path = rest]
<1>1. T.slot[a] = s
  BY DEF Single
<1>2. U = IF mine = {} THEN B ELSE C
  <2> DEFINE s0 == [T.slot[a] EXCEPT !.tried = TRUE]
             n0 == [s0 EXCEPT !.path = path,
                              !.name = IF @ = "none" THEN "auto" ELSE @,
                              !.group = IF @ = "none" /\ auto_group THEN "auto" ELSE @]
             A0 == [T EXCEPT !.slot[a] = s0]
             B0 == [T EXCEPT !.slot[a] = n0]
             C0 == [Edit(T, a, Ruled(n0, Applied(n0, rules, mine))) EXCEPT !.by_path = rest]
  <2>1. U = CASE T.slot[a].tried -> T
              [] ~T.slot[a].tried /\ path = NONE -> A0
              [] ~T.slot[a].tried /\ path # NONE /\ mine = {} -> B0
              [] OTHER -> C0
    BY DEF TryPath
  <2>2. B0 = B /\ C0 = C
    BY <1>1
  <2> HIDE DEF U, A0, B0, C0, B, C, mine
  <2>3. QED
    BY <1>1, <2>1, <2>2
<1>3. Broad(named, k, w) /\ named.move = s.move /\ named.hidden = s.hidden
  BY NamedIs
<1> HIDE DEF named
<1>4. CASE mine = {}
  <2>1. Single(B, a, k, named)
    BY SingleSlot
  <2>2. Does(named, m, h)
    BY <1>3, <1>4 DEF Does
  <2> HIDE DEF B, U
  <2>3. QED
    BY <1>2, <1>3, <1>4, <2>1, <2>2 DEF U
<1>5. CASE mine # {}
  <2>1. Single(C, a, k, r)
    <3> DEFINE E == Edit(T, a, v)
    <3>1. Single(E, a, k, r)
      <4> HIDE DEF v
      <4>1. QED
        BY SingleEdit
    <3> HIDE DEF E, r, rest
    <3>2. Single([E EXCEPT !.by_path = rest], a, k, r)
      BY <3>1, SingleOther
    <3>3. QED
      BY <3>2 DEF E
  <2>2. x.look = ANY /\ x.screen = ANY /\ x.move = m /\ x.hidden = h
    <3>1. Len(rules) \in Nat /\ DOMAIN rules = 1 .. Len(rules)
      BY DEF PathsDo
    <3>2. mine \in SUBSET DOMAIN rules
      OBVIOUS
    <3>3. \A n \in mine : /\ rules[n].look = ANY /\ rules[n].screen = ANY
                          /\ rules[n].move = m /\ rules[n].hidden = h
      BY DEF Does, PathsDo, Plainly
    <3>4. All \subseteq DOMAIN named /\ named.look = ANY /\ named.screen = ANY
      BY <1>3 DEF Broad
    <3> HIDE DEF rules, mine
    <3>5. /\ x.look = named.look /\ x.screen = named.screen
          /\ \E n \in mine : x.move = rules[n].move /\ x.hidden = rules[n].hidden
      BY <1>5, <3>1, <3>2, <3>3, <3>4, AppliedShows
    <3>6. QED
      BY <3>3, <3>4, <3>5
  <2> HIDE DEF x
  <2>3. /\ All \subseteq DOMAIN v /\ v.key = k /\ v.look = ANY /\ v.screen = ANY
        /\ v.widget \in {NONE, w} /\ v.move = m /\ v.hidden = h
    BY <1>3, <2>2 DEF Ruled, Broad, All
  <2> HIDE DEF v
  <2>4. T.edits \in Nat
    BY DEF Single
  <2>5. Broad(r, k, w) /\ Does(r, m, h)
    BY <2>3, <2>4 DEF Broad, Does, All
  <2> HIDE DEF C, U, r, mine
  <2>6. QED
    BY <1>2, <1>5, <2>1, <2>5 DEF U
<1>6. QED
  BY <1>4, <1>5

\* What waits after the load does what slot i does, wherever it fits.
LEMMA WaitingDoes ==
    ASSUME NEW i \in Stored(table), Alone(i), NEW U, Waiting(U, table, NSlots)
    PROVE  LET s == table.slot[i]
           IN  /\ s.wname # NONE => /\ WidgetsDo(U, s.wname, s.move, s.hidden)
                                    /\ \E n \in DOMAIN U.by_widget : U.by_widget[n].wname = s.wname
               /\ PathsDo(U, s.path, s.move, s.hidden)
               /\ s.wname = NONE => \E n \in DOMAIN U.by_path : U.by_path[n].path = s.path
<1> DEFINE s == table.slot[i]
<1>1. \A j \in Stored(table) : /\ j = i \/ (table.slot[j].path # s.path /\ (s.wname = NONE \/ table.slot[j].wname # s.wname))
                               /\ j <= NSlots /\ table.slot[j].path # NONE
  BY SizeAssumption DEF Alone, Stored, Slot
<1>2. s.look = ANY /\ s.screen = ANY
  BY DEF Alone, IsWildcard
<1>3. \A j \in Stored(table) :
         LET p == SavedSlot(table.slot[j])
         IN  /\ p.wname = table.slot[j].wname /\ p.path = table.slot[j].path
             /\ Bare(p).wname = table.slot[j].wname
  BY DEF SavedSlot, Bare
<1>4. Plainly(SavedSlot(s), s.move, s.hidden) /\ Plainly(Bare(SavedSlot(s)), s.move, s.hidden)
  BY <1>2 DEF SavedSlot, Bare, Plainly, Does
<1>5. /\ Len(U.by_path) \in Nat /\ DOMAIN U.by_path = 1 .. Len(U.by_path)
      /\ \A n \in DOMAIN U.by_path : U.by_path[n] \in OfPath(table)
      /\ Len(U.by_widget) \in Nat /\ DOMAIN U.by_widget = 1 .. Len(U.by_widget)
      /\ \A n \in DOMAIN U.by_widget : U.by_widget[n] \in OfWidget(table)
  BY DEF Waiting
<1>6. ASSUME NEW p \in OfPath(table), p.path = s.path
      PROVE  Plainly(p, s.move, s.hidden)
  <2>1. PICK j \in Stored(table) : p = SavedSlot(table.slot[j])
    BY <1>6 DEF OfPath
  <2>2. j = i
    BY <1>1, <1>3, <1>6, <2>1
  <2>3. QED
    BY <1>4, <2>1, <2>2
<1>7. ASSUME s.wname # NONE, NEW p \in OfWidget(table), p.wname = s.wname
      PROVE  Plainly(p, s.move, s.hidden)
  <2>1. PICK j \in Stored(table) : p = Bare(SavedSlot(table.slot[j]))
    BY <1>7 DEF OfWidget
  <2>2. j = i
    BY <1>1, <1>3, <1>7, <2>1
  <2>3. QED
    BY <1>4, <2>1, <2>2
<1>8. PathsDo(U, s.path, s.move, s.hidden)
  BY <1>5, <1>6 DEF PathsDo
<1>9. s.wname # NONE => WidgetsDo(U, s.wname, s.move, s.hidden)
  BY <1>5, <1>7 DEF WidgetsDo
<1>10. IF s.wname = NONE
       THEN \E n \in DOMAIN U.by_path : U.by_path[n] = SavedSlot(s)
       ELSE \E n \in DOMAIN U.by_widget : U.by_widget[n] = Bare(SavedSlot(s))
  BY <1>1 DEF Waiting
<1>11. QED
  BY <1>3, <1>8, <1>9, <1>10

LEMMA ShownAgainIs ==
    ASSUME TableOk(table), NEW i \in Stored(table), Alone(i), NEW e \in Drawn,
           e.widget = table.slot[i].wname, NEW k \in Key
    PROVE  ShownAgain(e, k, table.slot[i].path)
             = [move |-> table.slot[i].move, hidden |-> table.slot[i].hidden]
<1> DEFINE s == table.slot[i]
           m == s.move
           h == s.hidden
           path == s.path
           w == s.wname
           f == [e EXCEPT !.key = k]
           B == LoadedSlots(EmptyTable, SavedSlots(table))
           T == WithWildcard(B, k)
           s0 == [EmptySlot EXCEPT !.key = k]
           s1 == SeeSprite(s0, f, T.frame)
           U == SeenBy(T, f, path)
<1>1. f.key = k /\ f.widget = w
  BY DrawnAssumption
<1>2. Waiting(B, table, NSlots) /\ path # NONE
  BY WaitingAll DEF Alone, Stored
<1>3. TableOk(B)
  BY SavedOk, LoadedSlotsOk, EmptyOk
<1>4. /\ w # NONE => /\ WidgetsDo(B, w, m, h)
                     /\ \E n \in DOMAIN B.by_widget : B.by_widget[n].wname = w
      /\ PathsDo(B, path, m, h)
      /\ w = NONE => \E n \in DOMAIN B.by_path : B.by_path[n].path = path
  <2> HIDE DEF B
  <2>1. QED
    BY <1>2, WaitingDoes
<1> HIDE DEF B
<1>5. /\ \E a \in Slot : Single(T, a, k, s0)
      /\ B.index[k] = {} /\ T.by_path = B.by_path /\ T.by_widget = B.by_widget
  BY <1>2, <1>3, FirstMet DEF Waiting
<1>6. ShownAgain(e, k, path) = Shown(U, f)
  BY <1>5 DEF ShownAgain, B
<1> HIDE DEF T, f, path
<1>7. PICK a \in Slot : Single(T, a, k, s0)
  BY <1>5
<1>8. Broad(s1, k, w) /\ s1.wname = w /\ ~s1.tried /\ Broad(s0, k, w) /\ s0.edit \in Nat
  BY <1>1 DEF SeeSprite, EmptySlot, Broad, All
<1> DEFINE A == [T EXCEPT !.slot[a] = SeeSprite(@, f, T.frame)]
           C == TakeWidgetRules(A, a)
           D == TryPath(C, a, path)
<1>9. Single(A, a, k, s1) /\ A.by_path = B.by_path /\ A.by_widget = B.by_widget
  <2> DEFINE A0 == [T EXCEPT !.slot[a] = s1]
  <2>1. T.slot[a] = s0
    BY <1>7 DEF Single
  <2>2. A = A0
    BY <2>1
  <2> HIDE DEF s1, s0, A
  <2>3. Single(A0, a, k, s1) /\ A0.by_path = T.by_path /\ A0.by_widget = T.by_widget
    BY <1>7, SingleSlot
  <2>4. QED
    BY <1>5, <2>2, <2>3
<1>10. U = D
  <2>1. KeyMatches(s0, f)
    BY <1>1, <1>8 DEF Broad, KeyMatches
  <2> HIDE DEF s0
  <2>2. BestMatch(T, f) = a
    BY <1>1, <1>7, <1>8, <2>1, SingleBest
  <2>3. a # 0
    BY SizeAssumption DEF Slot
  <2>4. QED
    BY <2>2, <2>3 DEF SeenBy
<1> HIDE DEF A, s1, U, s0
<1>11. \E r : Single(D, a, k, r) /\ Broad(r, k, w) /\ Does(r, m, h)
  <2>1. CASE w = NONE
    <3>1. C = A
      BY <1>8, <1>9, <2>1 DEF TakeWidgetRules, Single
    <3>2. PathsDo(C, path, m, h) /\ \E n \in DOMAIN C.by_path : C.by_path[n].path = path
      BY <1>4, <1>9, <2>1, <3>1 DEF PathsDo
    <3> HIDE DEF C, w, m, h
    <3>3. Single(C, a, k, s1)
      BY <1>9, <3>1
    <3>4. QED
      BY <1>2, <1>8, <3>2, <3>3, TryPathSets
  <2>2. CASE w # NONE
    <3>1. WidgetsDo(A, w, m, h) /\ \E n \in DOMAIN A.by_widget : A.by_widget[n].wname = w
      BY <1>4, <1>9, <2>2 DEF WidgetsDo
    <3> HIDE DEF C, w, m, h
    <3>2. C.by_path = A.by_path /\ \E r : Single(C, a, k, r) /\ Broad(r, k, w) /\ Does(r, m, h) /\ ~r.tried
      BY <1>8, <1>9, <2>2, <3>1, TakeWidgetSets DEF C
    <3>3. PICK r : Single(C, a, k, r) /\ Broad(r, k, w) /\ Does(r, m, h) /\ ~r.tried
      BY <3>2
    <3>4. PathsDo(C, path, m, h)
      BY <1>4, <1>9, <3>2 DEF PathsDo
    <3>5. QED
      BY <1>2, <3>3, <3>4, TryPathSets
  <2>3. QED
    BY <2>1, <2>2
<1>12. PICK r : Single(D, a, k, r) /\ Broad(r, k, w) /\ Does(r, m, h)
  BY <1>11
<1> HIDE DEF D
<1>13. KeyMatches(r, f) /\ r.edit \in Nat
  BY <1>1, <1>12 DEF Broad, KeyMatches
<1>14. Shown(D, f) = [move |-> r.move, hidden |-> r.hidden]
  BY <1>1, <1>12, <1>13, SingleBest
<1>15. QED
  BY <1>6, <1>10, <1>12, <1>14 DEF Does, path

\* WholeTextureSurvives: what the user did to a whole texture is what the next
\* start shows of it, at whatever address, after the save, the load and the
\* first sight of a sprite of it.  For every number of slots and sprites.
THEOREM Survives == Spec => []WholeTextureSurvives
<1>1. SpriteInv /\ SettingsInv /\ [Next]_vars => SpriteInv'
  BY SpriteStep
<1>2. ASSUME SpriteInv PROVE WholeTextureSurvives
  <2> SUFFICES ASSUME NEW e \in Drawn, BestMatch(table, e) # 0,
                      ~IsIdentity(table.slot[BestMatch(table, e)]), Alone(BestMatch(table, e)),
                      e.widget = table.slot[BestMatch(table, e)].wname, NEW k \in Key
               PROVE  ShownAgain(e, k, table.slot[BestMatch(table, e)].path) = Shown(table, e)
    BY DEF WholeTextureSurvives
  <2> DEFINE i == BestMatch(table, e)
  <2>1. TableOk(table) /\ e.key \in Key
    BY <1>2, DrawnAssumption DEF SpriteInv
  <2>2. i \in Matched(table, e)
    BY <2>1, MatchedIs DEF BestMatch
  <2>3. Shown(table, e) = [move |-> table.slot[i].move, hidden |-> table.slot[i].hidden]
    BY DEF Shown
  <2> HIDE DEF i
  <2>4. i \in Stored(table)
    BY <2>1, <2>2, WildcardAssumption DEF Matched, KeyMatches, Stored, i
  <2>5. QED
    BY <2>1, <2>3, <2>4, ShownAgainIs DEF i
<1>3. QED
  BY <1>1, <1>2, SpriteInit, SettingsHold, PTL DEF Spec
=============================================================================
