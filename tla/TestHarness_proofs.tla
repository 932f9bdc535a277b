------------------------ MODULE TestHarness_proofs ------------------------
(***************************************************************************)
(* Theorems about the test harness, for every set of command lines, every  *)
(* wait, every depth of the screen stack and every number of clicks.       *)
(*                                                                         *)
(* The file: whoever is about to open it finds no result in it, because a  *)
(* result is written in the same step that ends the scenario.  The slot:   *)
(* only the watchdog and the user close the window of a drive.  The direct load: until *)
(* a wait has run out, the flag and the code belong to the one worker that *)
(* is inside.  The soak: no key the drive leaves behind starts a new game, *)
(* once the picker has been seen.                                          *)
(***************************************************************************)
EXTENDS TestHarness, SequenceTheorems, TLAPS

-----------------------------------------------------------------------------
(* The result file. *)

WritingType == writing \in Results \cup {NONE}
FileType ==
    /\ process \in {"starting", "running", "closing", "leaving", "killed", "gone", "left"}
    /\ port_set \in BOOLEAN /\ with_port \in BOOLEAN /\ g_terminated \in BOOLEAN
    /\ files \in [Lane -> Results \cup {NONE, "partial", "crash"}]
    /\ lost \in Results \cup {NONE, "crash"}

\* Before install() there is nothing; the file that may hold something is the
\* one that would be written next.
StartInv ==
    /\ process = "starting" =>
         writing = NONE /\ lost = NONE /\ ~g_terminated /\ \A l \in Lane : files[l] = NONE
    /\ Alive => \A l \in Lane : l # ResultPath => files[l] = NONE
\* A verdict under way has opened the file, or is lost; a result in it, or a lost
\* one, ends the scenario.
VerdictInv ==
    Alive =>
      /\ writing # NONE => ~g_terminated /\ IF lost = NONE THEN files[ResultPath] = "partial"
                                            ELSE lost = writing
      /\ lost # NONE => files[ResultPath] = NONE
      /\ files[ResultPath] \in Results => writing = NONE
      /\ files[ResultPath] = "partial" => writing # NONE
      /\ files[ResultPath] \in Results \/ lost # NONE =>
           writing # NONE \/ g_terminated \/ scenario \notin Known
      /\ files[ResultPath] # "crash"
FileInv == WritingType /\ FileType /\ StartInv /\ VerdictInv

\* The window of a drive is closed by the watchdog only, or by the user.
SpareInv ==
    /\ process = "closing" /\ scenario \in DriveScenarios =>
         g_terminated /\ "timeout" \in {files[ResultPath], lost}
    /\ saved_over => process \in {"gone", "left"}
    /\ SlotIsSpared

-----------------------------------------------------------------------------
(* The direct load. *)

LoadStates == {"idle", "asked", "entered", "waiting", "joining", "back"}
SaveType ==
    /\ load_in_progress \in BOOLEAN /\ done \in BOOLEAN
    /\ load_pc \in [Worker -> LoadStates]
    /\ outcome \in [Worker -> {"none", "refused", "failed", "loaded"}]
    /\ pump \in [Worker -> {"none", "running", "loading", "exited"}]

Inside(w) == load_pc[w] \in {"entered", "waiting", "joining"}
OneInside ==
    /\ \A w \in Worker : Inside(w) => load_in_progress
    /\ \A v, w \in Worker : Inside(v) /\ Inside(w) => v = w
\* While no wait has run out: a pump at work is waited for, and a set flag is
\* the answer of the pump of whoever waits.
PumpIsWaitedFor ==
    late = {} => \A w \in Worker :
      /\ pump[w] \in {"running", "loading"} => load_pc[w] = "waiting"
      /\ load_pc[w] = "joining" => done
      /\ load_pc[w] \in {"waiting", "joining"} /\ done => (result = 0 => w \in served)
      /\ load_pc[w] \in {"waiting", "joining"} /\ done => pump[w] = "exited"
SaveInv == SaveType /\ OneInside /\ PumpIsWaitedFor /\ SuccessIsOwn

-----------------------------------------------------------------------------
(* The menus, and the keys a drive leaves behind in them. *)

Screens == {"GameSelectScreen", "WilburNewLoadSave", "WilburMainMenu"}
MenuType ==
    /\ stack \in Seq(Screens) /\ mirror \in Seq(Screens)
    /\ injected \in [scan : {NONE, "down", "return"}, left : Nat]
    /\ highlight \in {"new", "load"}
    /\ world \in {"title", "opening", "menus", "loading", "level"}

\* The main menu is at the bottom and nowhere else, and what is above it was
\* reached through the entry that loads.
StackInv ==
    /\ world \in {"title", "opening"} => stack = <<>> /\ mirror = <<>>
    /\ world \notin {"title", "opening"} => stack # <<>>
    /\ \A i \in 2 .. Len(stack) : stack[i] # "GameSelectScreen"
    /\ Len(stack) >= 2 => highlight = "load"
    /\ stack # <<>> => stack[1] = "GameSelectScreen"
    /\ \A i \in 1 .. Len(stack) : stack[i] = "WilburMainMenu" => loaded
\* The mirror may be short of the stack, but as long as it it is the stack.
MirrorInv ==
    /\ Len(mirror) <= Len(stack)
    /\ Len(mirror) = Len(stack) => mirror = stack
    /\ mirror # <<>> => captured
\* A game that was not loaded is a new one.
NewGameInv == world \in {"loading", "level"} /\ ~loaded => highlight = "new"

Drives == scenario = "coop-lan-soak"
Picker(names) == TopOf(names) = "WilburNewLoadSave"
Later == {"slot", "continue_unseen", "continue", "ingame", "driven", "soak", "report"}
\* Under the picker no DOWN is left, and from then on none is injected.
KeyInv ==
    Drives => /\ Picker(mirror) => injected.scan # "down"
              /\ phase \in Later => injected.scan # "down" /\ highlight = "load"
              /\ phase \in Later \ {"slot", "continue_unseen", "continue"} => loaded
MenuInv == MenuType /\ StackInv /\ MirrorInv /\ NewGameInv /\ KeyInv

\* What the soak has seen of the second controller's polls.
PollInv ==
    Drives =>
      /\ phase \notin {"soak", "report"} => ~polled_in_soak
      /\ phase = "report" => ~polled_in_soak
      /\ phase = "soak" /\ polled_in_soak => fires_p2 > fires_base
      /\ phase = "soak" => fires_p2 >= fires_base
PollType == fires_p2 \in Nat /\ fires_base \in Nat
PassInv ==
    Drives /\ (writing = "pass" \/ files[ResultPath] = "pass") => phase = "report"
SoakInv == MenuInv /\ PollType /\ PollInv /\ PassInv

-----------------------------------------------------------------------------
(* The result file: what a frame may write, and that nothing else writes. *)

LEMMA ScriptsWrite == TickScenario => WritingType'
<1> USE DEF WritingType, Results, Pending, Verdict
<1>1. ASSUME NEW b \in BOOLEAN, Dismiss(b) PROVE WritingType'
  BY <1>1 DEF Dismiss
<1>2. TickBootToMainMenu => WritingType'
  BY <1>1 DEF TickBootToMainMenu
<1>3. TickVerifyMainMenuVisible => WritingType'
  BY DEF TickVerifyMainMenuVisible
<1>4. TickWidgetProbe => WritingType'
  BY DEF TickWidgetProbe
<1>5. TickHoldAtMenu => WritingType'
  BY <1>1 DEF TickHoldAtMenu
<1>6. TickMenuNavSmoke => WritingType'
  BY <1>1 DEF TickMenuNavSmoke, SmokeStep
<1>7. ScriptBeforeArming => WritingType'
  BY DEF ScriptBeforeArming
<1>8. ASSUME NEW t, Strayed(t) \/ Exporting(t) PROVE WritingType'
  BY <1>8 DEF Strayed, Exporting
<1>9. ASSUME NEW b, NEW t, ArmNow(b, t) PROVE WritingType'
  BY <1>9 DEF ArmNow
<1>10. ASSUME NEW v \in Results, Exported(v) PROVE WritingType'
  BY <1>10 DEF Exported
<1>11. TickOverlayPhase1Verify => WritingType'
  BY <1>7, <1>8, <1>9, <1>10 DEF TickOverlayPhase1Verify
<1>12. TickNpcOverlayPhase1Verify => WritingType'
  BY <1>7, <1>8, <1>9, <1>10 DEF TickNpcOverlayPhase1Verify
<1>13. TickPropOverlayPhase1Verify => WritingType'
  BY <1>7, <1>8, <1>9, <1>10 DEF TickPropOverlayPhase1Verify
<1>14. DriveToGameplay => WritingType'
  BY <1>1 DEF DriveToGameplay, DriveBoot, DriveSettle, DriveLoadButton, DriveSlotConfirm,
              DriveContinueGame, DriveFails, DriveSettleInGameplay
<1>15. TickLoadSave1ShowIngame => WritingType'
  BY <1>14 DEF TickLoadSave1ShowIngame, LoadSave1
<1>16. TickCoopLanSoak => WritingType'
  BY <1>14 DEF TickCoopLanSoak, StartSoak, WaitForPeer, SoakFrame, LanReport
<1>17. QED
  BY <1>2, <1>3, <1>4, <1>5, <1>6, <1>11, <1>12, <1>13, <1>15, <1>16 DEF TickScenario

LEMMA FrameWrites == Frame => WritingType'
BY ScriptsWrite DEF Frame, TimesOut, TickFaults, Verdict, WritingType, Results

LEMMA FrameBase == Frame => fires_base' = fires_base \/ scenario = "coop-lan-soak"
BY DEF Frame, TimesOut, TickFaults, scriptVars, TickScenario, TickBootToMainMenu, Dismiss,
       TickVerifyMainMenuVisible, TickWidgetProbe, TickHoldAtMenu, TickMenuNavSmoke,
       TickOverlayPhase1Verify, TickNpcOverlayPhase1Verify, TickPropOverlayPhase1Verify,
       TickLoadSave1ShowIngame, LoadSave1, DriveToGameplay

\* What every step but the frame, the end of a write and the crash keeps.
EndKept == UNCHANGED <<fixedVars, endVars>>

LEMMA QuietSteps ==
    Expire \/ EnginePolls \/ EngineMoves \/ PeerChanges \/ SecondIsPolled \/ UserLoads
      => EndKept /\ UNCHANGED <<process, port_set, saved_over>>
BY DEF Expire, EnginePolls, EngineMoves, PeerChanges, SecondIsPolled, UserLoads, Rest,
       EndKept, fixedVars, endVars

LEMMA FileInit == Init => FileInv /\ SpareInv
BY ResultAssumption DEF Init, FileInv, WritingType, FileType, StartInv, VerdictInv, SpareInv, SlotIsSpared,
       ScriptInit, Alive, Lane, Results

LEMMA FileStep == FileInv /\ SpareInv /\ [Next]_vars => (FileInv /\ SpareInv)'
<1> SUFFICES ASSUME FileInv, SpareInv, [Next]_vars PROVE (FileInv /\ SpareInv)'
  OBVIOUS
<1> USE ResultAssumption
    DEF FileInv, SpareInv, WritingType, FileType, StartInv, VerdictInv, SlotIsSpared, Alive,
        ResultPath, Lane, Results, fixedVars, endVars
<1>1. CASE Install
  <2>1. /\ process' = "running" /\ port_set' = with_port /\ UNCHANGED <<g_terminated, scenario, saved_over>>
        /\ process = "starting" /\ ~g_terminated /\ ~saved_over /\ lost = NONE
        /\ \A l \in Lane : files[l] = NONE
    BY <1>1 DEF Install
  <2>2. port_set' \in BOOLEAN /\ with_port' = with_port
    BY <1>1 DEF Install
  <2>3. CASE scenario \in Known
    <3>1. writing' = NONE /\ files' = files /\ lost' = lost
      BY <1>1, <2>3 DEF Install, Pending, OpensFile
    <3>2. QED
      BY <2>1, <2>2, <3>1
  <2>4. CASE scenario \notin Known
    <3>1. /\ writing' = "fail"
          /\ \/ /\ files' = [files EXCEPT ![IF with_port THEN "own" ELSE "plain"] = "partial"]
                /\ lost' = lost
             \/ files' = files /\ lost' = "fail"
      BY <1>1, <2>4 DEF Install, Verdict, OpensFile
    <3>2. QED
      BY <2>1, <2>2, <3>1
  <2>5. QED
    BY <2>3, <2>4
<1>2. CASE Frame
  <2>1. WritingType'
    BY <1>2, FrameWrites
  <2>2. Alive /\ ~g_terminated /\ writing = NONE /\ scenario \in Known
    BY <1>2 DEF Frame, Ticking
  <2>3. UNCHANGED <<process, port_set, g_terminated, scenario, with_port, saved_over>>
    BY <1>2 DEF Frame, FrameKeeps
  <2>4. OpensFile(ResultPath)
    BY <1>2 DEF Frame
  <2>5. files[ResultPath] \notin Results /\ lost = NONE
    BY <2>2
  <2>6. process # "closing" \/ scenario \notin DriveScenarios
    BY <2>2
  <2>7. CASE writing' = NONE /\ UNCHANGED <<files, lost>>
    BY <2>1, <2>2, <2>3, <2>5, <2>6, <2>7
  <2>8. CASE writing' # NONE /\ files' = [files EXCEPT ![ResultPath] = "partial"] /\ UNCHANGED lost
    BY <2>1, <2>2, <2>3, <2>5, <2>6, <2>8
  <2>9. CASE writing' # NONE /\ lost' = writing' /\ UNCHANGED files
    <3>1. files[ResultPath] = NONE
      BY <2>2, <2>5
    <3>2. QED
      BY <2>1, <2>2, <2>3, <2>5, <2>6, <2>9, <3>1
  <2>10. QED
    BY <2>4, <2>7, <2>8, <2>9 DEF OpensFile
<1>3. CASE FinishWrite
  <2>1. /\ Alive /\ writing \in Results /\ writing' = NONE
        /\ files' = IF lost = NONE THEN [files EXCEPT ![ResultPath] = writing] ELSE files
        /\ UNCHANGED <<port_set, scenario, with_port, saved_over, lost>>
        /\ IF lost = NONE THEN files[ResultPath] = "partial" ELSE lost = writing /\ files[ResultPath] = NONE
        /\ ~g_terminated
    BY <1>3 DEF FinishWrite
  <2>2. ~saved_over
    BY <2>1
  <2>3. CASE scenario \in Known
    <3>1. /\ g_terminated' /\ process' \in {"killed", "closing"}
          /\ process' = "closing" => writing = "timeout" \/ scenario \notin DriveScenarios
      BY <1>3, <2>3 DEF FinishWrite, RequestShutdown, EndsInGameplay
    <3>2. QED
      BY <2>1, <2>2, <2>3, <3>1
  <2>4. CASE scenario \notin Known
    <3>1. scenario \notin DriveScenarios
      BY <2>4 DEF Known
    <3>2. g_terminated' = g_terminated /\ process' \in {process, "closing"}
      BY <1>3, <2>4 DEF FinishWrite
    <3>3. QED
      BY <2>1, <2>2, <2>4, <3>1, <3>2
  <2>5. QED
    BY <2>3, <2>4
<1>4. CASE EngineCloses
  BY <1>4 DEF EngineCloses
<1>5. CASE Crash
  BY <1>5 DEF Crash
<1>6. CASE Expire \/ EnginePolls \/ EngineMoves \/ PeerChanges \/ SecondIsPolled \/ UserLoads
  BY <1>6, QuietSteps DEF EndKept
<1>7. CASE UNCHANGED vars
  BY <1>7 DEF vars
<1>8. CASE UserCloses
  BY <1>8 DEF UserCloses
<1>9. QED
  BY <1>1, <1>2, <1>3, <1>4, <1>5, <1>6, <1>7, <1>8 DEF Next

LEMMA FileSpec == Spec => [](FileInv /\ SpareInv)
BY FileInit, FileStep, PTL DEF Spec

(* What the outer script reads as a result is never written over: neither by *)
(* the watchdog, nor by another frame, nor by the crash handler.             *)
THEOREM Final == Spec => ResultIsFinal
<1>1. FileInv /\ [Next]_vars =>
        [\A l \in Lane : files[l] \in Results \cup {"crash"} => files'[l] = files[l]]_vars
  <2> SUFFICES ASSUME FileInv, Next, NEW l \in Lane, files[l] \in Results \cup {"crash"}
               PROVE files'[l] = files[l]
    OBVIOUS
  <2> USE ResultAssumption
      DEF FileInv, WritingType, FileType, StartInv, VerdictInv, Alive, ResultPath, Lane,
          Results, endVars
  <2>1. CASE Install
    BY <2>1 DEF Install, OpensFile, Results
  <2>2. CASE Frame
    BY <2>2 DEF Frame, Ticking, OpensFile
  <2>3. CASE FinishWrite
    BY <2>3 DEF FinishWrite
  <2>4. CASE EngineCloses \/ UserCloses
    BY <2>4 DEF EngineCloses, UserCloses
  <2>5. CASE Crash
    BY <2>5 DEF Crash
  <2>6. CASE Expire \/ EnginePolls \/ EngineMoves \/ PeerChanges \/ SecondIsPolled \/ UserLoads
    BY <2>6, QuietSteps DEF EndKept
  <2>7. QED
    BY <2>1, <2>2, <2>3, <2>4, <2>5, <2>6 DEF Next
<1>2. QED
  BY <1>1, FileSpec, PTL DEF Spec, ResultIsFinal

(* A drive of a saved game ends with the engine saving over its slot only    *)
(* after the watchdog's result or when the user closes the window: every     *)
(* other end kills the process.                                              *)
THEOREM Spared == Spec => []SlotIsSpared
BY FileSpec, PTL DEF SpareInv

-----------------------------------------------------------------------------
(* The direct load. *)

LEMMA SaveInit0 == Init => SaveInv
BY DEF Init, SaveInit, SaveInv, SaveType, OneInside, Inside, PumpIsWaitedFor, SuccessIsOwn,
       LoadStates

LEMMA LoadStep ==
    ASSUME SaveInv, SaveNext PROVE SaveInv'
<1> USE DEF SaveInv
<1>0. PICK w \in Worker : \/ ClickLoad(w) \/ EnterLoad(w) \/ CannotStart(w) \/ StartPump(w)
                         \/ PumpReads(w) \/ PumpAnswers(w) \/ PumpFaults(w)
                         \/ SeesDone(w) \/ GivesUp(w) \/ FinishLoad(w)
  BY DEF SaveNext
<1> USE DEF SaveType, LoadStates, OneInside, Inside, PumpIsWaitedFor, SuccessIsOwn
<1>1. CASE ClickLoad(w)
  BY <1>1 DEF ClickLoad
<1>2. CASE EnterLoad(w)
  BY <1>2 DEF EnterLoad, Returns
<1>3. CASE CannotStart(w)
  BY <1>3 DEF CannotStart, Returns
<1>4. CASE StartPump(w)
  <2>1. /\ load_pc[w] = "entered" /\ done' = FALSE
        /\ pump' = [pump EXCEPT ![w] = "running"] /\ load_pc' = [load_pc EXCEPT ![w] = "waiting"]
        /\ UNCHANGED <<load_in_progress, late, outcome, served>>
    BY <1>4 DEF StartPump
  <2>2. \A v \in Worker : load_pc[v] # "joining"
    BY <2>1
  <2>3. SaveType'
    BY <2>1 DEF SaveType
  <2>6. \A v \in Worker : Inside(v)' => Inside(v)
    BY <2>1
  <2>7. OneInside'
    BY <2>1, <2>6
  <2>4. PumpIsWaitedFor'
    BY <2>1, <2>2
  <2>5. QED
    BY <2>1, <2>3, <2>4, <2>7
<1>5. CASE PumpReads(w)
  BY <1>5 DEF PumpReads
<1>6. CASE PumpAnswers(w)
  BY <1>6 DEF PumpAnswers
<1>7. CASE PumpFaults(w)
  BY <1>7 DEF PumpFaults
<1>8. CASE SeesDone(w)
  BY <1>8 DEF SeesDone
<1>9. CASE GivesUp(w)
  BY <1>9 DEF GivesUp
<1>10. CASE FinishLoad(w)
  BY <1>10 DEF FinishLoad, Returns
<1>11. QED
  BY <1>0, <1>1, <1>2, <1>3, <1>4, <1>5, <1>6, <1>7, <1>8, <1>9, <1>10

LEMMA SaveStep == SaveInv /\ [Next]_vars => SaveInv'
<1> SUFFICES ASSUME SaveInv, [Next]_vars PROVE SaveInv'
  OBVIOUS
<1>1. CASE UserLoads
  BY <1>1, LoadStep DEF UserLoads
<1>2. ASSUME UNCHANGED saveVars PROVE SaveInv'
  BY <1>2 DEF SaveInv, SaveType, OneInside, Inside, PumpIsWaitedFor, SuccessIsOwn, saveVars
<1>3. QED
  BY <1>1, <1>2 DEF Next, vars, Install, Frame, FrameKeeps, FinishWrite, Expire,
     UserCloses, EngineCloses, Crash, EnginePolls, EngineMoves, PeerChanges, SecondIsPolled

(* However many loads are asked for, one that reports success was served by  *)
(* the pump it started, as long as no wait has run out.                      *)
THEOREM OwnSuccess == Spec => []SuccessIsOwn
<1>1. Spec => []SaveInv
  BY SaveInit0, SaveStep, PTL DEF Spec
<1>2. QED
  BY <1>1, PTL DEF SaveInv

-----------------------------------------------------------------------------
(* The menus: what one poll does to them. *)

LEMMA FrontLen ==
    ASSUME NEW s \in Seq(Screens), s # <<>>
    PROVE  /\ Front(s) \in Seq(Screens) /\ Len(Front(s)) = Len(s) - 1
           /\ \A i \in 1 .. Len(s) - 1 : Front(s)[i] = s[i]
<1>1. Len(s) - 1 \in Nat /\ \A i \in 1 .. Len(s) - 1 : s[i] \in Screens
  OBVIOUS
<1>2. /\ SubSeq(s, 1, Len(s) - 1) \in Seq(Screens)
      /\ Len(SubSeq(s, 1, Len(s) - 1)) = Len(s) - 1
      /\ \A i \in 1 .. Len(s) - 1 : SubSeq(s, 1, Len(s) - 1)[i] = s[i]
  <2>1. (IF 1 <= Len(s) - 1 THEN Len(s) - 1 - 1 + 1 ELSE 0) = Len(s) - 1
    <3>1. ASSUME NEW n \in Nat PROVE (IF 1 <= n THEN n - 1 + 1 ELSE 0) = n
      BY <3>1
    <3>2. QED
      BY <1>1, <3>1
  <2>2. \A i \in 1 .. Len(s) - 1 : 1 + i - 1 = i
    OBVIOUS
  <2>3. (Len(s) - 1) - 1 + 1 = Len(s) - 1
    BY <1>1
  <2>4. QED
    BY <1>1, <2>1, <2>2, <2>3, SubSeqProperties
<1>3. QED
  BY <1>2, Zenon DEF Front

LEMMA LastIs ==
    ASSUME NEW s \in Seq(Screens)
    PROVE  /\ s = <<>> => TopOf(s) = "<startup>"
           /\ s # <<>> => TopOf(s) = s[Len(s)] /\ Len(s) \in Nat \ {0}
BY DEF TopOf, Last

\* Whatever is pushed, the mirror stays the stack or short of it.
MirrorsStack(m, s) == Len(m) <= Len(s) /\ (Len(m) = Len(s) => m = s)

LEMMA PushMirrors ==
    ASSUME MenuType, MirrorsStack(mirror, stack), NEW name \in Screens
    PROVE  /\ Mirrored(name) \in Seq(Screens) /\ Append(stack, name) \in Seq(Screens)
           /\ MirrorsStack(Mirrored(name), Append(stack, name))
           /\ Append(stack, name) # <<>> /\ Len(Append(stack, name)) = Len(stack) + 1
           /\ Append(stack, name)[Len(stack) + 1] = name
           /\ \A i \in 1 .. Len(stack) : Append(stack, name)[i] = stack[i]
<1>1. CASE Len(mirror) < MaxDepth
  BY <1>1 DEF MenuType, MirrorsStack, Mirrored
<1>2. CASE ~(Len(mirror) < MaxDepth)
  BY <1>2 DEF MenuType, MirrorsStack, Mirrored
<1>3. QED
  BY <1>1, <1>2

LEMMA PopMirrors ==
    ASSUME MenuType, MirrorsStack(mirror, stack), Len(stack) >= 2, HkScreenPop
    PROVE  /\ mirror' \in Seq(Screens) /\ stack' \in Seq(Screens) /\ MirrorsStack(mirror', stack')
           /\ Len(stack') = Len(stack) - 1 /\ stack' # <<>>
           /\ \A i \in 1 .. Len(stack') : stack'[i] = stack[i]
           /\ mirror' # <<>> => mirror # <<>>
<1>1. stack # <<>> /\ stack \in Seq(Screens) /\ mirror \in Seq(Screens)
  BY DEF MenuType
<1>2. /\ stack' = Front(stack) /\ stack' \in Seq(Screens) /\ Len(stack') = Len(stack) - 1
      /\ \A i \in 1 .. Len(stack') : stack'[i] = stack[i]
  BY <1>1, FrontLen DEF HkScreenPop
<1>3. CASE mirror = <<>>
  BY <1>2, <1>3 DEF HkScreenPop, MirrorsStack
<1>4. CASE mirror # <<>>
  <2>1. /\ mirror' = Front(mirror) /\ mirror' \in Seq(Screens) /\ Len(mirror') = Len(mirror) - 1
    BY <1>1, <1>4, FrontLen DEF HkScreenPop
  <2>2. Len(mirror') = Len(stack') => mirror' = stack'
    BY <1>1, <1>2, <2>1 DEF HkScreenPop, MirrorsStack
  <2>3. QED
    BY <1>1, <1>2, <1>4, <2>1, <2>2 DEF MirrorsStack
<1>5. QED
  BY <1>3, <1>4

\* The parts of MenuInv that speak of the engine alone.
EngineInv == MenuType /\ StackInv /\ MirrorInv /\ NewGameInv

LEMMA PollKeys ==
    ASSUME MenuType, Poll
    PROVE  /\ injected' \in [scan : {NONE, "down", "return"}, left : Nat]
           /\ injected'.scan \in {NONE, injected.scan}
           /\ PolledKey \in {NONE, injected.scan}
BY KeyAssumption DEF MenuType, Poll, PolledKey, NoKey

\* A screen over the main menu, which was reached through the entry that loads.
LEMMA PushStep ==
    ASSUME EngineInv, injected' \in [scan : {NONE, "down", "return"}, left : Nat],
           NEW name \in {"WilburNewLoadSave", "WilburMainMenu"}, HkScreenPush(name, TRUE),
           stack # <<>>, highlight = "load", highlight' = "load", world = "menus", world' = "menus",
           loaded => loaded', name = "WilburMainMenu" => loaded'
    PROVE  EngineInv'
<1> USE DEF EngineInv
<1>1. /\ stack \in Seq(Screens) /\ mirror \in Seq(Screens) /\ name \in Screens
      /\ stack' = Append(stack, name) /\ mirror' = Mirrored(name) /\ captured'
      /\ MirrorsStack(mirror, stack)
  <2>1. name \in Screens
    BY DEF Screens
  <2>2. stack \in Seq(Screens) /\ mirror \in Seq(Screens) /\ MirrorsStack(mirror, stack)
    BY DEF MenuType, MirrorInv, MirrorsStack
  <2>3. stack' = Append(stack, name) /\ mirror' = Mirrored(name) /\ captured'
    BY DEF HkScreenPush
  <2>4. QED
    BY <2>1, <2>2, <2>3
<1>2. /\ mirror' \in Seq(Screens) /\ stack' \in Seq(Screens) /\ MirrorsStack(mirror', stack')
      /\ stack' # <<>> /\ Len(stack') = Len(stack) + 1 /\ stack'[Len(stack) + 1] = name
      /\ \A i \in 1 .. Len(stack) : stack'[i] = stack[i]
  BY <1>1, PushMirrors
<1>3. MenuType' /\ MirrorInv' /\ NewGameInv'
  BY <1>1, <1>2 DEF MenuType, MirrorInv, MirrorsStack, NewGameInv
<1>4. Len(stack) \in Nat \ {0}
  BY <1>1
<1>5. ASSUME NEW i \in 2 .. Len(stack') PROVE stack'[i] # "GameSelectScreen"
  <2>1. i \in 2 .. Len(stack) \/ i = Len(stack) + 1
    BY <1>2, <1>4
  <2>2. QED
    BY <1>2, <1>4, <2>1 DEF StackInv
<1>6. ASSUME NEW i \in 1 .. Len(stack'), stack'[i] = "WilburMainMenu" PROVE loaded'
  <2>1. i \in 1 .. Len(stack) \/ i = Len(stack) + 1
    BY <1>2, <1>4
  <2>2. QED
    BY <1>2, <1>4, <1>6, <2>1 DEF StackInv
<1>7. stack'[1] = "GameSelectScreen"
  BY <1>2, <1>4 DEF StackInv
<1>8. StackInv'
  BY <1>2, <1>5, <1>6, <1>7 DEF StackInv
<1>9. QED
  BY <1>3, <1>8

\* The picker goes away again.
LEMMA PopStep ==
    ASSUME EngineInv, injected' \in [scan : {NONE, "down", "return"}, left : Nat],
           HkScreenPop, Len(stack) >= 2, UNCHANGED <<highlight, loaded, world>>, world = "menus"
    PROVE  EngineInv'
<1> USE DEF EngineInv
<1>1. /\ mirror' \in Seq(Screens) /\ stack' \in Seq(Screens) /\ MirrorsStack(mirror', stack')
      /\ Len(stack') = Len(stack) - 1 /\ stack' # <<>>
      /\ \A i \in 1 .. Len(stack') : stack'[i] = stack[i]
      /\ mirror' # <<>> => mirror # <<>>
  BY PopMirrors DEF MirrorInv, MirrorsStack
<1>2. captured' = captured /\ stack \in Seq(Screens) /\ Len(stack) \in Nat
  BY DEF HkScreenPop, MenuType
<1>3. MenuType' /\ MirrorInv' /\ NewGameInv'
  BY <1>1, <1>2 DEF MenuType, MirrorInv, MirrorsStack, NewGameInv
<1>4. /\ \A i \in 2 .. Len(stack') : stack'[i] # "GameSelectScreen"
      /\ \A i \in 1 .. Len(stack') : stack'[i] = "WilburMainMenu" => loaded'
      /\ stack'[1] = "GameSelectScreen"
  <2>1. Len(stack) - 1 \in 1 .. Len(stack) /\ 2 .. Len(stack) - 1 \subseteq 2 .. Len(stack)
        /\ 1 .. Len(stack) - 1 \subseteq 1 .. Len(stack) /\ 1 \in 1 .. Len(stack) - 1
    BY <1>2
  <2>2. /\ \A i \in 2 .. Len(stack) : stack[i] # "GameSelectScreen"
        /\ \A i \in 1 .. Len(stack) : stack[i] = "WilburMainMenu" => loaded
        /\ stack[1] = "GameSelectScreen"
    BY <1>2 DEF StackInv
  <2>3. 2 .. Len(stack') \subseteq 1 .. Len(stack')
    BY <1>1, <1>2
  <2>4. QED
    BY <1>1, <2>1, <2>2, <2>3
<1>5. highlight = "load"
  BY <1>2 DEF StackInv
<1>6. StackInv'
  BY <1>1, <1>4, <1>5 DEF StackInv
<1>7. QED
  BY <1>3, <1>6

\* What a key does, case by case: DOWN moves the highlight and nothing else.
LEMMA ReactStep ==
    ASSUME EngineInv, NEW k \in {"down", "return"}, React(k), injected' \in [scan : {NONE, "down", "return"}, left : Nat]
    PROVE  /\ EngineInv' /\ (loaded => loaded')
           /\ k = "down" => mirror' = mirror
           /\ k = "return" => highlight' = highlight
<1> USE DEF EngineInv
<1>1. CASE world = "title" /\ world' = "opening" /\ UNCHANGED <<stack, mirror, captured, highlight, loaded>>
  BY <1>1 DEF MenuType, StackInv, MirrorInv, NewGameInv
<1>2. CASE world = "menus" /\ OnGameSelect(k)
  <2>0. stack # <<>> /\ TopOf(stack) = "GameSelectScreen" /\ stack \in Seq(Screens)
    BY <1>2 DEF OnGameSelect, StackInv, MenuType
  <2>1. Len(stack) = 1 /\ stack # <<>>
    <3>1. stack[Len(stack)] = "GameSelectScreen" /\ Len(stack) \in Nat \ {0}
      BY <2>0, LastIs
    <3>2. ~(Len(stack) \in 2 .. Len(stack))
      BY <3>1 DEF StackInv
    <3>3. ASSUME NEW n \in Nat \ {0}, ~(n \in 2 .. n) PROVE n = 1
      BY <3>3
    <3>4. QED
      BY <2>0, <3>1, <3>2, <3>3
  <2>2. CASE /\ k = "down" /\ highlight' = IF highlight = "new" THEN "load" ELSE "new"
             /\ UNCHANGED <<stack, mirror, captured, world, loaded>>
    <3>1. MenuType' /\ MirrorInv' /\ NewGameInv'
      BY <1>2, <2>2 DEF MenuType, MirrorInv, NewGameInv
    <3>2. Len(stack') = 1 /\ stack' = stack /\ stack # <<>> /\ loaded' = loaded /\ world' = "menus"
      BY <1>2, <2>1, <2>2
    <3>3. StackInv'
      BY <3>2, <1>2 DEF StackInv
    <3>4. QED
      BY <2>2, <3>1, <3>3
  <2>3. CASE /\ k = "return" /\ highlight = "load" /\ HkScreenPush("WilburNewLoadSave", TRUE)
             /\ UNCHANGED <<highlight, world, loaded>>
    BY <1>2, <2>1, <2>3, PushStep
  <2>4. CASE /\ k = "return" /\ highlight = "new" /\ world' = "loading"
             /\ UNCHANGED <<stack, mirror, captured, highlight, loaded>>
    BY <1>2, <2>1, <2>4 DEF MenuType, StackInv, MirrorInv, NewGameInv
  <2>5. QED
    BY <1>2, <2>2, <2>3, <2>4 DEF OnGameSelect
<1>3. CASE world = "menus" /\ OnSlotPicker(k)
  <2>1. stack # <<>> /\ TopOf(stack) = "WilburNewLoadSave" /\ Len(stack) >= 2
    BY <1>3, LastIs DEF OnSlotPicker, StackInv, MenuType
  <2>2. CASE HkScreenPush("WilburMainMenu", TRUE) /\ loaded'
    <3>1. highlight = "load" /\ highlight' = "load" /\ world' = "menus" /\ k = "return"
      BY <1>3, <2>1 DEF OnSlotPicker, StackInv
    <3>2. QED
      BY <1>3, <2>1, <2>2, <3>1, PushStep
  <2>3. CASE HkScreenPop /\ UNCHANGED loaded
    <3>1. k = "return" /\ UNCHANGED <<highlight, loaded, world>>
      BY <1>3, <2>3 DEF OnSlotPicker
    <3>2. QED
      BY <1>3, <2>1, <2>3, <3>1, PopStep
  <2>4. QED
    BY <1>3, <2>2, <2>3 DEF OnSlotPicker
<1>4. CASE world = "menus" /\ OnMainMenu(k)
  <2>1. stack # <<>> /\ TopOf(stack) = "WilburMainMenu" /\ Len(stack) >= 2 /\ loaded
    BY <1>4, LastIs DEF OnMainMenu, StackInv, MenuType
  <2>2. CASE world' = "loading" /\ UNCHANGED <<stack, mirror, captured>>
    BY <1>4, <2>1, <2>2 DEF MenuType, StackInv, MirrorInv, NewGameInv, OnMainMenu
  <2>3. CASE HkScreenPush("WilburNewLoadSave", TRUE) /\ UNCHANGED world
    <3>1. highlight = "load" /\ highlight' = "load" /\ k = "return" /\ loaded'
      BY <1>4, <2>1 DEF OnMainMenu, StackInv
    <3>2. QED
      BY <1>4, <2>1, <2>3, <3>1, PushStep
  <2>4. QED
    BY <1>4, <2>2, <2>3 DEF OnMainMenu
<1>5. QED
  BY <1>1, <1>2, <1>3, <1>4 DEF React

LEMMA PollStep ==
    ASSUME EngineInv, Poll
    PROVE  EngineInv' /\ (loaded => loaded') /\ (KeyInv /\ UNCHANGED <<scenario, phase>> => KeyInv')
<1>1. MenuType
  BY DEF EngineInv
<1>2. /\ injected' \in [scan : {NONE, "down", "return"}, left : Nat]
      /\ injected'.scan \in {NONE, injected.scan}
      /\ PolledKey \in {NONE, injected.scan}
      /\ injected.scan \in {NONE, "down", "return"}
  BY <1>1, PollKeys DEF MenuType
<1>3. CASE Stays
  <2>1. EngineInv'
    BY <1>2, <1>3 DEF Stays, EngineInv, MenuType, StackInv, MirrorInv, NewGameInv
  <2>2. QED
    BY <1>2, <1>3, <2>1, KeyAssumption DEF Stays, KeyInv, Picker, Drives
<1>4. CASE PolledKey \notin {NONE, held_key} /\ React(PolledKey)
  <2>1. PolledKey \in {"down", "return"} /\ PolledKey = injected.scan
    BY <1>2, <1>4
  <2>2. /\ EngineInv' /\ (loaded => loaded')
        /\ PolledKey = "down" => mirror' = mirror
        /\ PolledKey = "return" => highlight' = highlight
    BY <1>2, <1>4, <2>1, ReactStep
  <2>3. QED
    BY <1>2, <2>1, <2>2, KeyAssumption DEF KeyInv, Picker, Drives
<1>5. QED
  BY <1>3, <1>4 DEF Poll

LEMMA OpensStep ==
    ASSUME EngineInv, MenuOpens
    PROVE  EngineInv' /\ loaded' = loaded /\ (KeyInv /\ UNCHANGED <<scenario, phase>> => KeyInv')
<1> USE DEF EngineInv
<1>1. stack = <<>> /\ mirror = <<>> /\ UNCHANGED <<injected, highlight, loaded>> /\ captured'
  BY DEF MenuOpens, StackInv, HkScreenPush
<1>2. CASE world' = "menus" /\ stack' = Append(stack, "GameSelectScreen")
                          /\ mirror' = Mirrored("GameSelectScreen")
  <2>1. stack' = <<"GameSelectScreen">> /\ mirror' \in {<<>>, <<"GameSelectScreen">>}
    BY <1>1, <1>2 DEF Mirrored
  <2>2. EngineInv'
    <3>1. stack' \in Seq(Screens) /\ Len(stack') = 1 /\ stack'[1] = "GameSelectScreen"
      BY <2>1 DEF Screens
    <3>2. /\ mirror' \in Seq(Screens) /\ Len(mirror') \in 0 .. 1
          /\ Len(mirror') = 1 => mirror' = stack'
      <4>1. CASE mirror' = <<>>
        BY <4>1
      <4>2. CASE mirror' = <<"GameSelectScreen">>
        BY <2>1, <4>2 DEF Screens
      <4>3. QED
        BY <2>1, <4>1, <4>2
    <3>3. MenuType' /\ NewGameInv'
      BY <1>1, <1>2, <3>1, <3>2 DEF MenuType, NewGameInv
    <3>4. StackInv' /\ MirrorInv'
      <4>1. /\ \A i \in 2 .. 1 : stack'[i] # "GameSelectScreen"
            /\ \A i \in 1 .. 1 : stack'[i] # "WilburMainMenu"
        BY <3>1
      <4>2. StackInv'
        <5>1. stack' # <<>> /\ ~(1 >= 2)
          BY <2>1
        <5>2. QED
          BY <1>2, <3>1, <4>1, <5>1 DEF StackInv
      <4>3. MirrorInv'
        <5>0. ASSUME NEW n \in 0 .. 1 PROVE n <= 1
          OBVIOUS
        <5>1. Len(mirror') <= 1
          BY <3>2, <5>0
        <5>2. QED
          BY <1>1, <3>1, <3>2, <5>1 DEF MirrorInv
      <4>4. QED
        BY <4>2, <4>3
    <3>5. QED
      BY <3>3, <3>4
  <2>3. ~Picker(mirror)'
    BY <2>1 DEF Picker, TopOf, Last
  <2>4. QED
    BY <1>1, <2>2, <2>3 DEF KeyInv, Drives
<1>3. CASE world' = "title" /\ UNCHANGED <<stack, mirror>>
  BY <1>1, <1>3 DEF MenuType, StackInv, MirrorInv, NewGameInv, KeyInv, Picker, Drives
<1>4. QED
  BY <1>2, <1>3 DEF MenuOpens, HkScreenPush

LEMMA MovesStep ==
    ASSUME EngineInv, LevelMoves
    PROVE  EngineInv' /\ loaded' = loaded /\ (KeyInv /\ UNCHANGED <<scenario, phase>> => KeyInv')
BY DEF LevelMoves, EngineInv, MenuType, StackInv, MirrorInv, NewGameInv, KeyInv, Picker, Drives

-----------------------------------------------------------------------------
LEMMA NoneIsNoPass == NONE # "pass"
BY ResultAssumption DEF Results

(* The scripts: which keys they press, and when the soak's phases change. *)

Presses == injected' = injected \/ \E k \in {"down", "return"} : InjectKeypress(k)

LEMMA ScriptsPress == TickScenario => Presses
<1> USE DEF Presses, NoInput, MayPressReturn
<1>1. ASSUME NEW b \in BOOLEAN, Dismiss(b) PROVE Presses
  BY <1>1 DEF Dismiss
<1>2. TickBootToMainMenu => Presses
  BY <1>1 DEF TickBootToMainMenu
<1>3. TickVerifyMainMenuVisible => Presses
  BY DEF TickVerifyMainMenuVisible
<1>4. TickWidgetProbe => Presses
  BY DEF TickWidgetProbe
<1>5. TickHoldAtMenu => Presses
  BY <1>1 DEF TickHoldAtMenu
<1>6. TickMenuNavSmoke => Presses
  BY <1>1 DEF TickMenuNavSmoke
<1>7. ScriptBeforeArming => Presses
  BY DEF ScriptBeforeArming
<1>8. ASSUME NEW t, Strayed(t) \/ Exporting(t) PROVE Presses
  BY <1>8 DEF Strayed, Exporting
<1>9. ASSUME NEW b, NEW t, ArmNow(b, t) PROVE Presses
  BY <1>9 DEF ArmNow
<1>10. ASSUME NEW v, Exported(v) PROVE Presses
  BY <1>10 DEF Exported
<1>11. TickOverlayPhase1Verify => Presses
  BY <1>7, <1>8, <1>9, <1>10 DEF TickOverlayPhase1Verify
<1>12. TickNpcOverlayPhase1Verify => Presses
  BY <1>7, <1>8, <1>9, <1>10 DEF TickNpcOverlayPhase1Verify
<1>13. TickPropOverlayPhase1Verify => Presses
  BY <1>7, <1>8, <1>9, <1>10 DEF TickPropOverlayPhase1Verify
<1>14. DriveToGameplay => Presses
  BY <1>1 DEF DriveToGameplay, DriveBoot, DriveSettle, DriveLoadButton, DriveSlotConfirm,
              DriveContinueGame, DriveFails, DriveSettleInGameplay
<1>15. TickLoadSave1ShowIngame => Presses
  BY <1>14 DEF TickLoadSave1ShowIngame, LoadSave1
<1>16. TickCoopLanSoak => Presses
  BY <1>14 DEF TickCoopLanSoak
<1>17. QED
  BY <1>2, <1>3, <1>4, <1>5, <1>6, <1>11, <1>12, <1>13, <1>15, <1>16 DEF TickScenario

LEMMA FramePresses == Frame => Presses
BY ScriptsPress DEF Frame, TimesOut, TickFaults, Presses

\* A picker on top has been reached through the entry that loads.
LEMMA PickerLoads == EngineInv /\ Picker(mirror) => captured /\ highlight = "load"
<1> SUFFICES ASSUME EngineInv, Picker(mirror) PROVE captured /\ highlight = "load"
  OBVIOUS
<1>1. mirror \in Seq(Screens) /\ stack \in Seq(Screens)
  BY DEF EngineInv, MenuType
<1>2. mirror # <<>> /\ mirror[Len(mirror)] = "WilburNewLoadSave" /\ Len(mirror) \in Nat \ {0}
  BY <1>1, LastIs DEF Picker
<1>3. CASE Len(stack) >= 2
  BY <1>2, <1>3 DEF EngineInv, StackInv, MirrorInv
<1>4. CASE ~(Len(stack) >= 2)
  <2>1. Len(stack) = 1 /\ Len(mirror) = 1 /\ mirror = stack /\ stack # <<>>
    <3>1. Len(stack) \in Nat /\ Len(mirror) <= Len(stack)
      BY <1>1 DEF EngineInv, MirrorInv
    <3>2. Len(stack) = 1 /\ Len(mirror) = 1
      <4>1. ASSUME NEW a \in Nat \ {0}, NEW b \in Nat, a <= b, ~(b >= 2) PROVE b = 1 /\ a = 1
        BY <4>1
      <4>2. QED
        BY <1>2, <1>4, <3>1, <4>1
    <3>3. stack # <<>>
      BY <3>2
    <3>4. QED
      BY <3>2, <3>3 DEF EngineInv, MirrorInv
  <2>2. stack[1] = "GameSelectScreen"
    BY <2>1 DEF EngineInv, StackInv
  <2>3. QED
    BY <1>2, <2>1, <2>2
<1>5. QED
  BY <1>3, <1>4

\* What the frame of a soak finds and leaves as it is.
SoakKept == UNCHANGED <<scenario, mirror, highlight, loaded, polled_in_soak, fires_p2>>
ScriptInv == KeyInv /\ PollType /\ PollInv

LEMMA DriveStep ==
    ASSUME EngineInv, ScriptInv, Drives, SoakKept, DriveToGameplay
    PROVE  ScriptInv' /\ writing' # "pass"
<1> USE DEF ScriptInv, Drives, SoakKept, Pending
<1>1. UNCHANGED fires_base
  BY DEF DriveToGameplay
<1>2. PollType'
  BY <1>1 DEF PollType
<1>3. PickerUp <=> Picker(mirror)
  BY PickerLoads DEF PickerUp, Ready, CurrentTopName, Picker
<1>4. Picker(mirror)' = Picker(mirror)
  BY DEF Picker
<1>5. (InjectKeypress("down") => injected'.scan = "down")
      /\ (InjectKeypress("return") => injected'.scan = "return")
  BY DEF InjectKeypress
<1>6. CASE phase = "boot" /\ Dismiss(TRUE)
  BY <1>1, <1>2, <1>4, <1>5, <1>6, NoneIsNoPass DEF Dismiss, MayPressReturn, NoInput, KeyInv, PollInv, Later, scriptVars
<1>7. CASE phase = "boot" /\ AtMainMenu /\ Enter("settle", Waits.settle) /\ Pending /\ NoInput
  BY <1>1, <1>2, <1>4, <1>7, NoneIsNoPass DEF NoInput, Enter, KeyInv, PollInv, Later
<1>8. CASE DriveSettle
  BY <1>1, <1>2, <1>4, <1>8, NoneIsNoPass DEF DriveSettle, KeepWaiting, NoInput, Enter, KeyInv, PollInv, Later
<1>9. CASE DriveLoadButton
  <2>1. CASE PickerUp
    <3>1. phase' = "slot" /\ UNCHANGED injected /\ writing' = NONE /\ highlight = "load"
          /\ injected.scan # "down" /\ phase \notin {"soak", "report"}
      BY <1>3, <1>9, <2>1, PickerLoads DEF DriveLoadButton, Enter, NoInput, KeyInv
    <3>2. QED
      BY <1>1, <1>2, <1>4, <3>1, NoneIsNoPass DEF KeyInv, PollInv, Later
  <2>2. CASE ~PickerUp
    <3>1. phase \notin Later /\ phase' \notin Later /\ writing' = NONE
      BY <1>9, <2>2 DEF DriveLoadButton, Enter, KeepWaiting, Later
    <3>2. QED
      BY <1>1, <1>2, <1>3, <1>4, <2>2, <3>1, NoneIsNoPass DEF KeyInv, PollInv, Later
  <2>3. QED
    BY <2>1, <2>2
<1>10. CASE DriveSlotConfirm
  BY <1>1, <1>2, <1>4, <1>5, <1>10, NoneIsNoPass
     DEF DriveSlotConfirm, Enter, NoInput, KeyInv, PollInv, Later
<1>11. CASE DriveContinueGame
  <2>1. phase \in {"continue_unseen", "continue"} /\ writing' = NONE /\ injected.scan # "down"
        /\ highlight = "load"
    BY <1>11 DEF DriveContinueGame, KeyInv, Later
  <2>2. injected' = injected \/ InjectKeypress("return")
    BY <1>11 DEF DriveContinueGame, NoInput
  <2>3. \/ phase' \in {"continue_unseen", "continue"}
        \/ phase' = "ingame" /\ IsInGameplay
    BY <1>11, <2>1 DEF DriveContinueGame, Enter, KeepWaiting
  <2>4. IsInGameplay => loaded
    BY <2>1 DEF IsInGameplay, EngineInv, NewGameInv
  <2>5. QED
    BY <1>1, <1>2, <1>4, <1>5, <2>1, <2>2, <2>3, <2>4, NoneIsNoPass DEF KeyInv, PollInv, Later
<1>12. CASE DriveFails
  BY <1>1, <1>2, <1>4, <1>12 DEF DriveFails, NoInput, Verdict, KeyInv, PollInv, Later
<1>13. CASE DriveSettleInGameplay
  BY <1>1, <1>2, <1>4, <1>13, NoneIsNoPass
     DEF DriveSettleInGameplay, KeepWaiting, Enter, NoInput, KeyInv, PollInv, Later
<1>14. QED
  BY <1>6, <1>7, <1>8, <1>9, <1>10, <1>11, <1>12, <1>13 DEF DriveToGameplay, DriveBoot

LEMMA LanStep ==
    ASSUME EngineInv, ScriptInv, Drives, SoakKept, TickCoopLanSoak
    PROVE  ScriptInv' /\ (writing' = "pass" => phase' = "report")
<1> USE DEF ScriptInv, Drives, SoakKept, Pending, Verdict
<1>1. CASE DriveToGameplay
  BY <1>1, DriveStep
<1>2. CASE NoInput /\ (StartSoak \/ WaitForPeer \/ SoakFrame \/ LanReport)
  <2>1. Picker(mirror)' = Picker(mirror) /\ UNCHANGED injected
    BY <1>2 DEF Picker, NoInput
  <2>2. CASE StartSoak
    BY <2>1, <2>2, NoneIsNoPass DEF StartSoak, Enter, KeyInv, PollType, PollInv, Later
  <2>3. CASE WaitForPeer
    BY <2>1, <2>3, NoneIsNoPass DEF WaitForPeer, KeyInv, PollType, PollInv, Later
  <2>4. CASE SoakFrame
    <3>1. CASE ~IsInGameplay \/ fires_p2 > fires_base
      BY <2>1, <2>4, <3>1, NoneIsNoPass DEF SoakFrame, KeyInv, PollType, PollInv, Later
    <3>2. CASE ~(~IsInGameplay \/ fires_p2 > fires_base)
      BY <2>1, <2>4, <3>2, NoneIsNoPass
         DEF SoakFrame, KeepWaiting, Enter, KeyInv, PollType, PollInv, Later
    <3>3. QED
      BY <3>1, <3>2
  <2>5. CASE LanReport
    BY <2>1, <2>5, NoneIsNoPass DEF LanReport, KeepWaiting, KeyInv, PollType, PollInv, Later
  <2>6. QED
    BY <1>2, <2>2, <2>3, <2>4, <2>5
<1>3. QED
  BY <1>1, <1>2 DEF TickCoopLanSoak

-----------------------------------------------------------------------------
(* The soak, step by step. *)

LEMMA SoakInit == Init => SoakInv
<1> SUFFICES ASSUME Init PROVE SoakInv
  OBVIOUS
<1>1. stack = <<>> /\ mirror = <<>> /\ injected = NoKey /\ world = "title" /\ highlight \in {"new", "load"}
      /\ phase = "boot" /\ fires_p2 = 0 /\ fires_base = 0 /\ writing = NONE /\ ~polled_in_soak
      /\ files = [l \in Lane |-> NONE] /\ ResultPath \in Lane
  BY DEF Init, MenusInit, ScriptInit, ResultPath, Lane
<1>2. MenuType /\ StackInv /\ MirrorInv /\ NewGameInv
  BY <1>1, KeyAssumption DEF MenuType, StackInv, MirrorInv, NewGameInv, NoKey
<1>3. ~Picker(mirror) /\ injected.scan # "down"
  BY <1>1, KeyAssumption DEF Picker, TopOf, NoKey
<1>4. KeyInv /\ PollType /\ PollInv /\ PassInv
  BY <1>1, <1>3, NoneIsNoPass DEF KeyInv, PollType, PollInv, PassInv, Later
<1>5. QED
  BY <1>2, <1>4 DEF SoakInv, MenuInv

LEMMA SoakParts == SoakInv <=> EngineInv /\ ScriptInv /\ PassInv
BY DEF SoakInv, MenuInv, EngineInv, ScriptInv

\* Steps that leave the scripts and the file alone.
LEMMA QuietSoak ==
    ASSUME SoakInv, EngineInv', KeyInv',
           UNCHANGED <<scenario, phase, fires_p2, fires_base, polled_in_soak, writing, files, port_set>>
    PROVE  SoakInv'
BY DEF SoakInv, MenuInv, EngineInv, PollType, PollInv, PassInv, Drives, ResultPath

\* Steps of the harness, in which the menus stay as they are.
LEMMA StillMenus ==
    ASSUME SoakInv, UNCHANGED <<menuVars, scenario, phase, fires_p2, fires_base, polled_in_soak>>
    PROVE  EngineInv' /\ ScriptInv'
BY DEF menuVars, SoakInv, MenuInv, EngineInv, ScriptInv, MenuType, StackInv, MirrorInv, NewGameInv,
       KeyInv, Picker, Drives, PollType, PollInv

LEMMA SoakNext == FileInv /\ SoakInv /\ [Next]_vars => SoakInv'
<1> SUFFICES ASSUME FileInv, SoakInv, [Next]_vars PROVE SoakInv'
  OBVIOUS
<1>0. EngineInv /\ ScriptInv /\ PassInv
  BY SoakParts
<1>1. CASE Install
  <2>1. EngineInv' /\ ScriptInv'
    BY <1>1, StillMenus DEF Install, fixedVars, scriptVars, coopVars
  <2>2. writing' # "pass" /\ \A l \in Lane : files'[l] # "pass"
    BY <1>1, ResultAssumption
       DEF Install, OpensFile, Pending, Verdict, Results, FileInv, FileType, StartInv, Lane
  <2>3. ResultPath' \in Lane
    BY DEF ResultPath, Lane
  <2>4. PassInv'
    BY <2>2, <2>3 DEF PassInv
  <2>5. QED
    BY <2>1, <2>4 DEF SoakInv, MenuInv, EngineInv, ScriptInv
<1>2. CASE Frame
  <2>1. SoakKept /\ UNCHANGED <<stack, captured, world, port_set>>
    BY <1>2 DEF Frame, FrameKeeps, SoakKept, fixedVars, coopVars
  <2>2. injected' \in [scan : {NONE, "down", "return"}, left : Nat]
    BY <1>0, <1>2, FramePresses, KeyAssumption DEF Presses, InjectKeypress, EngineInv, MenuType
  <2>3. EngineInv'
    BY <1>0, <2>1, <2>2 DEF SoakKept, EngineInv, MenuType, StackInv, MirrorInv, NewGameInv
  <2>4. Drives => ScriptInv' /\ (writing' = "pass" => phase' = "report")
    <3> SUFFICES ASSUME Drives PROVE ScriptInv' /\ (writing' = "pass" => phase' = "report")
      OBVIOUS
    <3>1. CASE TickScenario
      <4>1. TickCoopLanSoak
        BY <3>1 DEF TickScenario, Drives
      <4>2. QED
        BY <1>0, <2>1, <4>1, LanStep
    <3>2. CASE TimesOut \/ TickFaults
      BY <1>0, <2>1, <3>2
         DEF TimesOut, TickFaults, Verdict, scriptVars, ScriptInv, SoakKept, KeyInv, Picker, Drives,
             PollType, PollInv
    <3>3. QED
      BY <1>2, <3>1, <3>2 DEF Frame
  <2>5. ~Drives => ScriptInv'
    BY <1>0, <1>2, <2>1, FrameBase DEF ScriptInv, SoakKept, KeyInv, Drives, PollType, PollInv
  <2>6. files'[ResultPath'] # "pass"
    BY <1>2 DEF Frame, Ticking, OpensFile, FrameKeeps, ResultPath, FileInv, FileType, VerdictInv, Results, Lane
  <2>7. PassInv'
    BY <2>1, <2>4, <2>6 DEF PassInv, Drives, SoakKept
  <2>8. QED
    BY <2>3, <2>4, <2>5, <2>7 DEF SoakInv, MenuInv, EngineInv, ScriptInv
<1>3. CASE FinishWrite
  <2>1. EngineInv' /\ ScriptInv'
    BY <1>3, StillMenus DEF FinishWrite, fixedVars, scriptVars, coopVars
  <2>2. PassInv'
    BY <1>0, <1>3, NoneIsNoPass
       DEF FinishWrite, PassInv, Drives, ResultPath, fixedVars, scriptVars, FileInv, FileType, Lane
  <2>3. QED
    BY <2>1, <2>2 DEF SoakInv, MenuInv, EngineInv, ScriptInv
<1>4. CASE Crash
  <2>1. EngineInv' /\ ScriptInv'
    BY <1>4, StillMenus DEF Crash, fixedVars, scriptVars, coopVars
  <2>2. PassInv'
    BY <1>0, <1>4 DEF Crash, PassInv, Drives, ResultPath, fixedVars, scriptVars, FileInv, FileType, Lane
  <2>3. QED
    BY <2>1, <2>2 DEF SoakInv, MenuInv, EngineInv, ScriptInv
<1>5. CASE UserCloses \/ EngineCloses \/ Expire \/ UserLoads \/ UNCHANGED vars
  <2>1. UNCHANGED <<menuVars, scenario, phase, fires_p2, fires_base, polled_in_soak, writing, files, port_set>>
    BY <1>5 DEF UserCloses, EngineCloses, Expire, UserLoads, Rest, vars, fixedVars, scriptVars, coopVars, endVars
  <2>2. EngineInv' /\ ScriptInv'
    BY <2>1, StillMenus
  <2>3. QED
    BY <2>1, <2>2, QuietSoak DEF ScriptInv
<1>6. CASE EnginePolls
  <2>1. UNCHANGED <<scenario, phase, fires_p2, fires_base, polled_in_soak, writing, files, port_set>>
    BY <1>6 DEF EnginePolls, Rest, fixedVars, scriptVars, coopVars, endVars
  <2>2. QED
    BY <1>0, <1>6, <2>1, PollStep, QuietSoak DEF EnginePolls, ScriptInv
<1>7. CASE EngineMoves
  <2>1. UNCHANGED <<scenario, phase, fires_p2, fires_base, polled_in_soak, writing, files, port_set>>
    BY <1>7 DEF EngineMoves, Rest, fixedVars, scriptVars, coopVars, endVars
  <2>2. QED
    BY <1>0, <1>7, <2>1, OpensStep, MovesStep, QuietSoak DEF EngineMoves, ScriptInv
<1>8. CASE PeerChanges
  <2>1. UNCHANGED <<menuVars, scenario, phase, fires_p2, fires_base, polled_in_soak, writing, files, port_set>>
    BY <1>8 DEF PeerChanges, Rest, fixedVars, scriptVars, endVars
  <2>2. EngineInv' /\ ScriptInv'
    BY <2>1, StillMenus
  <2>3. QED
    BY <2>1, <2>2, QuietSoak DEF ScriptInv
<1>9. CASE SecondIsPolled
  <2>1. /\ UNCHANGED <<menuVars, scenario, phase, fires_base, writing, files, port_set>>
        /\ fires_p2' = fires_p2 + 1 /\ polled_in_soak' = (polled_in_soak \/ phase = "soak")
    BY <1>9 DEF SecondIsPolled, Rest, fixedVars, scriptVars, endVars
  <2>2. EngineInv' /\ KeyInv'
    BY <1>0, <2>1 DEF menuVars, EngineInv, ScriptInv, MenuType, StackInv, MirrorInv, NewGameInv,
                      KeyInv, Picker, Drives
  <2>3. PollType' /\ PollInv' /\ PassInv'
    <3>1. fires_p2 \in Nat /\ fires_base \in Nat /\ fires_p2' = fires_p2 + 1
      BY <1>0, <2>1 DEF ScriptInv, PollType
    <3>2. PollType'
      BY <2>1, <3>1 DEF PollType
    <3>3. phase = "soak" => PollInv'
      BY <1>0, <2>1, <3>1 DEF ScriptInv, PollInv, Drives
    <3>4. phase # "soak" => PollInv'
      BY <1>0, <2>1, <3>1 DEF ScriptInv, PollInv, Drives
    <3>5. PassInv'
      BY <1>0, <2>1 DEF PassInv, Drives, ResultPath
    <3>6. PollInv'
      BY <3>3, <3>4
    <3>7. QED
      BY <3>2, <3>5, <3>6
  <2>4. QED
    BY <2>2, <2>3 DEF SoakInv, MenuInv, EngineInv
<1>10. QED
  BY <1>1, <1>2, <1>3, <1>4, <1>5, <1>6, <1>7, <1>8, <1>9 DEF Next

(* A two-process soak that passes was a soak of the loaded game, in which    *)
(* the second controller was never polled.                                   *)
THEOREM LanPass == Spec => []LanPassIsSilent
<1>1. Spec => [](FileInv /\ SoakInv)
  <2>1. FileInv /\ SpareInv /\ SoakInv /\ [Next]_vars => (FileInv /\ SpareInv /\ SoakInv)'
    BY FileStep, SoakNext
  <2>2. QED
    BY <2>1, FileInit, SoakInit, PTL DEF Spec
<1>2. FileInv /\ SoakInv => LanPassIsSilent
  BY DEF LanPassIsSilent, SoakInv, MenuInv, KeyInv, PollInv, PassInv, Drives, Later
<1>3. QED
  BY <1>1, <1>2, PTL
=============================================================================
