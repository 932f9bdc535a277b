-------------------------- MODULE Screen_proofs ---------------------------
(***************************************************************************)
(* Theorems about what owns the screen: the free camera, for every set of  *)
(* windows, and the display, for every card, every count of frames and     *)
(* every number of choices and launches.                                   *)
(***************************************************************************)
EXTENDS FreeCam, Display, TLAPS

-----------------------------------------------------------------------------
(* The free camera.  A frame is walked through once per poll, so what may  *)
(* be left over is known from where the frame is: a request that its       *)
(* flight did not serve meets an idle tick before a hotkey can begin the   *)
(* next flight, but for the very first tick, which serves nothing.         *)

TypeOK ==
    /\ pc \in {"camera", "poll", "hotkey", "tick", "draw"}
    /\ menu \in BOOLEAN /\ console \in BOOLEAN /\ active \in BOOLEAN
    /\ ui_visible \in BOOLEAN /\ pending_mmb \in BOOLEAN
    /\ wheel_accum \in BOOLEAN /\ skip_first \in BOOLEAN
    /\ clocked \in BOOLEAN /\ asked \in BOOLEAN /\ wheeled \in BOOLEAN
    /\ refocused \in BOOLEAN

\* Before this frame's poll, and between the poll and the tick.
Before == pc \in {"camera", "poll"}
Polled == pc \in {"hotkey", "tick"}

\* The first flight cannot begin before the first poll.
FirstInv == ~clocked => pc # "draw" /\ (Before => ~active /\ ~pending_mmb)

\* Where a teleport may wait although its flight is over, F3 has not been
\* released yet, so that the next poll begins no flight.
RequestInv ==
    /\ Before /\ pending_mmb => IF active THEN asked ELSE "f3" \in was
    /\ Polled /\ pending_mmb /\ active => asked
    /\ (Polled /\ ~clocked) \/ pc = "draw" =>
         (pending_mmb => active /\ asked /\ "f3" \in was)

\* The wheel is counted with the menu closed, and the tab's button needs it.
WheelInv ==
    /\ Before /\ wheel_accum => active /\ wheeled
    /\ Polled /\ wheel_accum /\ active => wheeled
    /\ (Polled /\ ~clocked) \/ pc = "draw" =>
         (wheel_accum => active /\ wheeled /\ ~menu)

\* An offset that counts is one from where the camera has put the cursor.
LookInv == ~skip_first /\ ~refocused => anchor = front

\* What ui_visible misses has been opened after the last frame was drawn.
UiInv ==
    /\ pc # "tick" /\ pc # "draw" => (console <=> "console" \in shown)
    /\ pc = "hotkey" /\ ~ui_visible => ~menu /\ ~console
    /\ pc = "tick" /\ ~ui_visible => ~menu /\ "console" \notin shown

FlightInv == FirstInv /\ RequestInv /\ WheelInv
CamInv == TypeOK /\ FlightInv /\ LookInv /\ UiInv

-----------------------------------------------------------------------------
LEMMA CamInit == Init => CamInv
BY DEF Init, CamInv, TypeOK, FlightInv, FirstInv, RequestInv, WheelInv,
       LookInv, UiInv, Before, Polled

LEMMA TypeStep == TypeOK /\ [Next]_vars => TypeOK'
<1> SUFFICES ASSUME TypeOK, [Next]_vars PROVE TypeOK'
  OBVIOUS
<1> USE DEF TypeOK, userVars, uiVars, camVars, historyVars
<1>1. CASE PressOrRelease
  BY <1>1 DEF PressOrRelease
<1>2. CASE MoveMouse
  BY <1>2 DEF MoveMouse
<1>3. CASE SwitchWindow
  BY <1>3 DEF SwitchWindow
<1>4. CASE TurnWheel
  BY <1>4 DEF TurnWheel
<1>5. CASE CameraPass
  BY <1>5 DEF CameraPass
<1>6. CASE Poll
  BY <1>6 DEF Poll, SetActive, UiOpenNow
<1>7. CASE Hotkey
  BY <1>7 DEF Hotkey
<1>8. CASE Tick
  <2>1. CASE FirstTick
    BY <1>8, <2>1 DEF Tick, FirstTick
  <2>2. CASE TickIdle
    BY <1>8, <2>2 DEF Tick, TickIdle, Left
  <2>3. CASE TickFlight
    BY <1>8, <2>3 DEF Tick, TickFlight, MouseLook, SkipAfterUi
  <2>4. QED
    BY <1>8, <2>1, <2>2, <2>3 DEF Tick
<1>9. CASE Draw
  BY <1>9 DEF Draw, ClickNothing, ClickToggle, ClickTeleport, SetActive
<1>10. CASE UNCHANGED vars
  BY <1>10 DEF vars
<1>11. QED
  BY <1>1, <1>2, <1>3, <1>4, <1>5, <1>6, <1>7, <1>8, <1>9, <1>10 DEF Next

\* A request and a turn of the wheel do not outlive their flight by a tick.
LEMMA FlightStep == TypeOK /\ FlightInv /\ [Next]_vars => FlightInv'
<1> SUFFICES ASSUME TypeOK, FlightInv, [Next]_vars PROVE FlightInv'
  OBVIOUS
<1> USE DEF FlightInv, FirstInv, RequestInv, WheelInv, Before, Polled, TypeOK
<1>1. CASE PressOrRelease
  BY <1>1 DEF PressOrRelease, uiVars, camVars, historyVars
<1>2. CASE MoveMouse
  BY <1>2 DEF MoveMouse, uiVars, camVars, historyVars
<1>3. CASE SwitchWindow
  BY <1>3 DEF SwitchWindow, uiVars, camVars
<1>4. CASE TurnWheel
  BY <1>4 DEF TurnWheel, Open, uiVars
<1>5. CASE CameraPass
  BY <1>5 DEF CameraPass, uiVars, historyVars
<1>6. CASE Poll
  <2>1. /\ pc = "poll" /\ pc' = "hotkey"
        /\ UNCHANGED <<wheel_accum, clocked>>
        /\ active' = (active # Edge("f3"))
        /\ pending_mmb' = (pending_mmb \/ (Edge("mmb") /\ active'))
        /\ asked' = ((Edge("mmb") /\ active') \/ (asked /\ active' = active))
        /\ active' = active => wheeled' = wheeled
        /\ was' = Seen({"insert", "f3", "mmb"})
    BY <1>6 DEF Poll, SetActive
  <2>2. "f3" \in was' <=> "f3" \in down
    BY <2>1 DEF Seen
  <2>3. Edge("f3") <=> "f3" \in down /\ "f3" \notin was
    BY DEF Edge
  <2>4. FirstInv'
    BY <2>1
  <2>5. RequestInv'
    <3>1. ASSUME pending_mmb', ~(Edge("mmb") /\ active'), active'
          PROVE  asked'
      <4>1. pending_mmb
        BY <2>1, <3>1
      <4>2. ~active => ~Edge("f3")
        BY <2>1, <2>3, <4>1
      <4>3. active
        BY <2>1, <3>1, <4>2 DEF Edge
      <4>4. asked /\ active' = active
        BY <2>1, <3>1, <4>1, <4>3
      <4>5. QED
        BY <2>1, <4>4
    <3>2. ASSUME pending_mmb', ~clocked PROVE active' /\ asked' /\ "f3" \in was'
      BY <2>1, <2>2, <3>2 DEF Edge
    <3>3. ASSUME pending_mmb', active' PROVE asked'
      BY <2>1, <3>1, <3>3
    <3>4. QED
      BY <2>1, <3>2, <3>3
  <2>6. WheelInv'
    BY <2>1, <2>2, <2>3
  <2>7. QED
    BY <2>4, <2>5, <2>6
<1>7. CASE Hotkey
  BY <1>7 DEF Hotkey, Seen, camVars, historyVars
<1>8. CASE Tick
  <2>1. CASE FirstTick
    BY <1>8, <2>1 DEF Tick, FirstTick, uiVars
  <2>2. CASE TickIdle
    BY <1>8, <2>2 DEF Tick, TickIdle, Left, uiVars
  <2>3. CASE TickFlight
    BY <1>8, <2>3 DEF Tick, TickFlight, uiVars
  <2>4. QED
    BY <1>8, <2>1, <2>2, <2>3 DEF Tick
<1>9. CASE Draw
  <2>1. /\ pc = "draw" /\ pc' = "camera"
        /\ UNCHANGED <<was, menu, wheel_accum, clocked>>
    BY <1>9 DEF Draw, uiVars
  <2>2. CASE ClickNothing
    BY <2>1, <2>2 DEF ClickNothing
  <2>3. CASE ClickToggle
    BY <2>1, <2>3 DEF ClickToggle, SetActive
  <2>4. CASE ClickTeleport
    BY <2>1, <2>4 DEF ClickTeleport
  <2>5. QED
    BY <1>9, <2>2, <2>3, <2>4 DEF Draw
<1>10. CASE UNCHANGED vars
  BY <1>10 DEF vars, uiVars, camVars, historyVars
<1>11. QED
  BY <1>1, <1>2, <1>3, <1>4, <1>5, <1>6, <1>7, <1>8, <1>9, <1>10 DEF Next

\* Whatever moves the cursor or the focus is seen before an offset counts.
LEMMA LookStep == LookInv /\ [Next]_vars => LookInv'
<1> SUFFICES ASSUME LookInv, [Next]_vars PROVE LookInv'
  OBVIOUS
<1> USE DEF LookInv, userVars, camVars, historyVars
<1>1. CASE PressOrRelease \/ MoveMouse \/ SwitchWindow \/ TurnWheel
  BY <1>1 DEF PressOrRelease, MoveMouse, SwitchWindow, TurnWheel
<1>2. CASE CameraPass \/ Poll \/ Hotkey \/ Draw
  BY <1>2 DEF CameraPass, Poll, Hotkey, Draw
<1>3. CASE Tick
  BY <1>3 DEF Tick, FirstTick, TickIdle, TickFlight, MouseLook, SkipAfterUi
<1>4. CASE UNCHANGED vars
  BY <1>4 DEF vars
<1>5. QED
  BY <1>1, <1>2, <1>3, <1>4 DEF Next

LEMMA UiStep == TypeOK /\ UiInv /\ [Next]_vars => UiInv'
<1> SUFFICES ASSUME TypeOK, UiInv, [Next]_vars PROVE UiInv'
  OBVIOUS
<1> USE DEF UiInv, TypeOK, uiVars, camVars, historyVars
<1>1. CASE PressOrRelease \/ MoveMouse \/ SwitchWindow \/ TurnWheel
  BY <1>1 DEF PressOrRelease, MoveMouse, SwitchWindow, TurnWheel
<1>2. CASE CameraPass
  BY <1>2 DEF CameraPass
<1>3. CASE Poll
  BY <1>3 DEF Poll, UiOpenNow
<1>4. CASE Hotkey
  BY <1>4 DEF Hotkey
<1>5. CASE Tick
  BY <1>5 DEF Tick
<1>6. CASE Draw
  BY <1>6 DEF Draw, Open
<1>7. CASE UNCHANGED vars
  BY <1>7 DEF vars
<1>8. QED
  BY <1>1, <1>2, <1>3, <1>4, <1>5, <1>6, <1>7 DEF Next

LEMMA CamAlways == Spec => []CamInv
<1>1. CamInv /\ [Next]_vars => CamInv'
  BY TypeStep, FlightStep, LookStep, UiStep DEF CamInv
<1>2. QED
  BY CamInit, <1>1, PTL DEF Spec

-----------------------------------------------------------------------------
\* What a tick did is what one of its three cases did.
LEMMA WhatTicked ==
    ASSUME [Next]_vars, pc = "tick", pc' = "draw"
    PROVE  \/ did' = Nothing
           \/ active /\ did' = [look |-> Centres /\ ~skip_first /\ ~centred,
                                centre |-> Centres, speed |-> wheel_accum,
                                teleport |-> pending_mmb]
<1>1. Tick
  BY DEF Next, vars, PressOrRelease, MoveMouse, SwitchWindow, TurnWheel,
         CameraPass, Poll, Hotkey, Draw
<1>2. QED
  BY <1>1 DEF Tick, FirstTick, TickIdle, TickFlight

\* A flight serves only what was asked for in it.
THEOREM FlightServesItsOwn == Spec => NothingLeftOver
<1>1. CamInv /\ [Next]_vars =>
        [(Ticked("teleport") => asked) /\ (Ticked("speed") => wheeled)]_vars
  <2> SUFFICES ASSUME CamInv, [Next]_vars
               PROVE  (Ticked("teleport") => asked) /\ (Ticked("speed") => wheeled)
    OBVIOUS
  <2>1. ASSUME pc = "tick", pc' = "draw"
        PROVE  (did'["teleport"] => asked) /\ (did'["speed"] => wheeled)
    <3>1. CASE did' = Nothing
      BY <3>1 DEF Nothing
    <3>2. CASE active /\ did' = [look |-> Centres /\ ~skip_first /\ ~centred,
                                 centre |-> Centres, speed |-> wheel_accum,
                                 teleport |-> pending_mmb]
      BY <2>1, <3>2 DEF CamInv, FlightInv, RequestInv, WheelInv, Polled
    <3>3. QED
      BY <2>1, <3>1, <3>2, WhatTicked
  <2>2. QED
    BY <2>1 DEF Ticked
<1>2. QED
  BY <1>1, CamAlways, PTL DEF Spec, NothingLeftOver

\* The view turns by measured offsets only, as long as the focus stays.
THEOREM LooksAreMeasured == Spec => LookIsMeasured
<1>1. CamInv /\ [Next]_vars => [Ticked("look") /\ ~refocused => anchor = front]_vars
  <2> SUFFICES ASSUME CamInv, [Next]_vars, pc = "tick", pc' = "draw",
                      did'["look"], ~refocused
               PROVE  anchor = front
    BY DEF Ticked
  <2>1. did' # Nothing
    BY DEF Nothing
  <2>2. did' = [look |-> Centres /\ ~skip_first /\ ~centred, centre |-> Centres,
                speed |-> wheel_accum, teleport |-> pending_mmb]
    BY <2>1, WhatTicked
  <2>3. ~skip_first
    BY <2>2
  <2>4. QED
    BY <2>3 DEF CamInv, LookInv
<1>2. QED
  BY <1>1, CamAlways, PTL DEF Spec, LookIsMeasured

\* The cursor is never taken from a window that was drawn and is still open.
THEOREM CursorIsLeft == Spec => CursorLeftToUi
<1>1. CamInv /\ [Next]_vars => [Ticked("centre") => shown \cap Open = {}]_vars
  <2> SUFFICES ASSUME CamInv, [Next]_vars, pc = "tick", pc' = "draw", did'["centre"]
               PROVE  shown \cap Open = {}
    BY DEF Ticked
  <2>1. did' # Nothing
    BY DEF Nothing
  <2>2. did' = [look |-> Centres /\ ~skip_first /\ ~centred, centre |-> Centres,
                speed |-> wheel_accum, teleport |-> pending_mmb]
    BY <2>1, WhatTicked
  <2>3. ~ui_visible
    BY <2>2 DEF Centres
  <2>4. ~menu /\ "console" \notin shown
    BY <2>3 DEF CamInv, UiInv
  <2>5. QED
    BY <2>4 DEF Open
<1>2. QED
  BY <1>1, CamAlways, PTL DEF Spec, CursorLeftToUi

-----------------------------------------------------------------------------
(* The display.  Whatever a thread is in the middle of, the file reads as  *)
(* the user last chose; a window that is being held is among those that    *)
(* fit when the frame is drawn; and nobody saves another swap effect once  *)
(* the mod's own device is gone, which is before there is a menu in which  *)
(* MSAA can be turned off.                                                 *)

Label == {"create9", "hook", "idle", "rewrite", "remember", "msaa", "apply",
          "forward", "menu", "unread", "window", "create", "destroy", "arm", "done",
          "wait", "load", "spawn", "rules"}
Params == [display : {"window", "full"}, swap : Swap, samples : Counts \cup {0}]
Calls == [dev : Device, kind : {"create", "reset"}, pp : Params,
          found : Swap \cup {"none"}, made : {"no", "on", "off"}]
OnOff == {"on", "off"}

DisplayType ==
    /\ mode \in {"plain", "keep", "pinned"} /\ snowing \in OnOff
    /\ saved \in [Setting -> OnOff \cup {"absent"}]
    /\ at \in [Caller \cup {"init"} -> Label]
    /\ call \in [Caller -> Calls]
    /\ armed \subseteq {"EndScene", "Reset"}
    /\ enabled \in OnOff /\ enforce \in 0 .. EnforceFrames
    /\ count \in Counts /\ swap \in Swap \cup {"none"}
    /\ saver \in Device \cup {"nobody"}
    /\ devices \subseteq Engines /\ kept \in Params
    /\ since \in 0 .. Over

\* A call that has found a saved effect has not found it in vain.
SavedInv == \A t \in Caller : call[t].found # "none" => swap # "none"

LEMMA ParamsFacts ==
    /\ \A d \in Device : Fresh(d) \in Params
    /\ \A d \in Device, kind \in {"create", "reset"}, pp \in Params :
          CallOf(d, kind, pp) \in Calls
    /\ NoCall \in Calls
<1>1. \A d \in Device : Fresh(d) \in Params
  BY WantedAssumption DEF Fresh, Params, Device, Engines
<1>2. \A d \in Device, kind \in {"create", "reset"}, pp \in Params :
          CallOf(d, kind, pp) \in Calls
  BY DEF CallOf, Calls
<1>3. NoCall \in Calls
  BY <1>1, <1>2 DEF NoCall, Device, Engines
<1> QED
  BY <1>1, <1>2, <1>3

\* The walk down the counts ends at one that the card can do, or at none.
LEMMA PickedFacts ==
    ASSUME NEW display \in {"window", "full"}, count \in Counts
    PROVE  Picked(display) \in Supported[display] \cup {0}
<1> DEFINE can == {n \in Supported[display] : n <= count} \cup {0}
<1>1. can \subseteq {0, 2, 4, 8, 16} /\ 0 \in can
  BY CardAssumption DEF Counts
<1>2. \E n \in can : \A m \in can : m <= n
  <2>1. CASE 16 \in can
    BY <2>1, <1>1
  <2>2. CASE 8 \in can /\ 16 \notin can
    BY <2>2, <1>1
  <2>3. CASE 4 \in can /\ 8 \notin can /\ 16 \notin can
    BY <2>3, <1>1
  <2>4. CASE 2 \in can /\ 4 \notin can /\ 8 \notin can /\ 16 \notin can
    BY <2>4, <1>1
  <2>5. CASE 2 \notin can /\ 4 \notin can /\ 8 \notin can /\ 16 \notin can
    BY <2>5, <1>1
  <2> QED
    BY <2>1, <2>2, <2>3, <2>4, <2>5
<1>3. Picked(display) = CHOOSE n \in can : \A m \in can : m <= n
  BY DEF Picked
<1>4. Picked(display) \in can
  <2> HIDE DEF can
  <2> QED
    BY <1>2, <1>3
<1> QED
  BY <1>4

LEMMA MadeFacts ==
    ASSUME NEW pp \in Params, NEW s \in Swap, count \in Counts
    PROVE  /\ Multisampled(pp, s) \in Params /\ Plain(pp, s) \in Params
           /\ Multisampled(pp, s).swap \in {pp.swap, "discard"}
           /\ Plain(pp, s).swap = IF pp.swap = "discard" THEN s ELSE pp.swap
           /\ Multisampled(pp, s).samples > 0 =>
                /\ Multisampled(pp, s).swap = "discard"
                /\ Multisampled(pp, s).samples \in
                     Supported[Multisampled(pp, s).display]
           /\ Plain(pp, s).samples = 0
<1>1. Picked(pp.display) \in Supported[pp.display] \cup {0}
  BY PickedFacts DEF Params
<1>2. Supported[pp.display] \subseteq Counts
  BY CardAssumption DEF Params
<1> DEFINE n == Picked(pp.display)
<1>3. Multisampled(pp, s) = [pp EXCEPT !.samples = n, !.swap = IF n > 0 THEN "discard" ELSE @]
  BY DEF Multisampled
<1>4. n \in Counts \cup {0}
  BY <1>1, <1>2
<1> HIDE DEF n
<1>5. Multisampled(pp, s) \in Params
  BY <1>3, <1>4 DEF Params, Swap
<1>6. /\ Multisampled(pp, s).samples = n
      /\ Multisampled(pp, s).display = pp.display
      /\ Multisampled(pp, s).swap = IF n > 0 THEN "discard" ELSE pp.swap
  BY <1>3 DEF Params
<1>7. /\ Plain(pp, s) \in Params
      /\ Plain(pp, s).swap = IF pp.swap = "discard" THEN s ELSE pp.swap
      /\ Plain(pp, s).samples = 0
  BY DEF Plain, Params
<1>8. n > 0 => n \in Supported[pp.display]
  BY <1>1 DEF n
<1> QED
  BY <1>5, <1>6, <1>7, <1>8

LEMMA GoesFacts ==
    ASSUME at \in [Caller \cup {"init"} -> Label], NEW t \in Caller \cup {"init"},
           NEW label \in Label, Goes(t, label)
    PROVE  /\ at' \in [Caller \cup {"init"} -> Label] /\ at'[t] = label
           /\ \A u \in Caller \cup {"init"} : u # t => at'[u] = at[u]
BY DEF Goes

LEMMA PpFacts ==
    ASSUME call \in [Caller -> Calls], NEW t \in Caller, NEW pp \in Params
    PROVE  /\ [call EXCEPT ![t].pp = pp] \in [Caller -> Calls]
           /\ [call EXCEPT ![t].pp = pp][t] = [call[t] EXCEPT !.pp = pp]
BY DEF Calls

LEMMA MadePpFacts ==
    ASSUME call \in [Caller -> Calls], NEW t \in Caller, NEW pp \in Params,
           NEW made \in {"no", "on", "off"}
    PROVE  /\ [call EXCEPT ![t].pp = pp, ![t].made = made] \in [Caller -> Calls]
           /\ [call EXCEPT ![t].pp = pp, ![t].made = made][t] =
                [call[t] EXCEPT !.pp = pp, !.made = made]
BY DEF Calls

LEMMA StartType == Start \in [Caller \cup {"init"} -> Label]
BY DEF Start, Label, Caller

LEMMA DisplayTypeInit == DisplayInit => DisplayType
<1> SUFFICES ASSUME DisplayInit PROVE DisplayType
  OBVIOUS
<1>1. call \in [Caller -> Calls] /\ kept \in Params
  BY ParamsFacts DEF DisplayInit, Device, Engines
<1>2. at \in [Caller \cup {"init"} -> Label]
  BY StartType DEF DisplayInit
<1> QED
  BY <1>1, <1>2, DisplayBounds
     DEF DisplayInit, DisplayType, OnOff, Setting, Counts, MostSamples, Over

LEMMA DisplayTypeStep ==
    ASSUME DisplayType, SavedInv, [DisplayNext]_displayVars
    PROVE  DisplayType'
<1> USE DEF DisplayType
<1>0. EnforceFrames \in Nat /\ EnforceFrames > 0
  BY DisplayBounds
<1>1. CASE LoadIni
  <2>1. at' \in [Caller \cup {"init"} -> Label]
    BY <1>1, GoesFacts DEF LoadIni, Label
  <2>2. /\ saved' \in [Setting -> OnOff \cup {"absent"}] /\ enabled' \in OnOff
    BY <1>1 DEF LoadIni, Writes, Read, Default, fileVars, Setting, OnOff
  <2> QED
    BY <1>1, <2>1, <2>2
       DEF LoadIni, fixedVars, hookVars, msaaVars, systemVars, boundVars, choiceVars
<1>2. CASE Spawn
  <2>1. at' \in [Caller \cup {"init"} -> Label]
    BY <1>2 DEF Spawn, Label
  <2> QED
    BY <1>2, <2>1
       DEF Spawn, fixedVars, fileVars, hookVars, windowVars, msaaVars, systemVars,
           boundVars, choiceVars
<1>3. CASE InstallDefaults
  <2>1. at' \in [Caller \cup {"init"} -> Label]
    BY <1>3, GoesFacts DEF InstallDefaults, Label
  <2>2. saved' \in [Setting -> OnOff \cup {"absent"}]
    BY <1>3 DEF InstallDefaults, SaveRules, fileVars
  <2> QED
    BY <1>3, <2>1, <2>2
       DEF InstallDefaults, fixedVars, hookVars, windowVars, msaaVars, systemVars,
           boundVars
<1>4. ASSUME NEW t \in Caller, Direct3DCreate9(t) \/ HookCreateDevice(t)
      PROVE  DisplayType'
  <2>1. at' \in [Caller \cup {"init"} -> Label]
    BY <1>4, GoesFacts DEF Direct3DCreate9, HookCreateDevice, HasD3d, Label
  <2> QED
    BY <1>4, <2>1
       DEF Direct3DCreate9, HookCreateDevice, fixedVars, fileVars, windowVars,
           msaaVars, systemVars, boundVars, choiceVars
<1>5. ASSUME NEW t \in Caller, Rewrite(t)
      PROVE  DisplayType'
  <2>1. at' \in [Caller \cup {"init"} -> Label]
    BY <1>5, GoesFacts DEF Rewrite, Label
  <2>2. call[t].pp \in Params /\ Rewritten(call[t].pp) \in Params
    BY DEF Calls, Params, Rewritten
  <2>3. call' \in [Caller -> Calls]
    <3>1. call' = call \/ call' = [call EXCEPT ![t].pp = Rewritten(call[t].pp)]
      BY <1>5 DEF Rewrite
    <3> QED
      BY <3>1, <2>2, PpFacts
  <2>4. enforce' \in 0 .. EnforceFrames
    BY <1>5, <1>0 DEF Rewrite
  <2> QED
    BY <1>5, <2>1, <2>3, <2>4
       DEF Rewrite, fixedVars, fileVars, hookVars, msaaVars, boundVars, choiceVars
<1>6. ASSUME NEW t \in Caller, Remember(t)
      PROVE  DisplayType'
  <2>1. at' \in [Caller \cup {"init"} -> Label]
    BY <1>6, GoesFacts DEF Remember, Label
  <2>2. since' \in 0 .. Over
    BY <1>6, <1>0 DEF Remember, Over
  <2> QED
    BY <1>6, <2>1, <2>2
       DEF Remember, fixedVars, fileVars, hookVars, msaaVars, systemVars, boundVars,
           choiceVars
<1>7. ASSUME NEW t \in Caller, Look(t)
      PROVE  DisplayType'
  <2>1. at' \in [Caller \cup {"init"} -> Label]
    BY <1>7, GoesFacts DEF Look, Label
  <2>2. call' \in [Caller -> Calls]
    <3>1. call' = call \/ call' = [call EXCEPT ![t].found = swap]
      BY <1>7 DEF Look
    <3> QED
      BY <3>1 DEF Calls
  <2> QED
    BY <1>7, <2>1, <2>2
       DEF Look, fixedVars, fileVars, hookVars, windowVars, msaaVars, systemVars,
           boundVars, choiceVars
<1>8. ASSUME NEW t \in Caller, Apply(t)
      PROVE  DisplayType'
  <2>1. at' \in [Caller \cup {"init"} -> Label]
    BY <1>8, GoesFacts DEF Apply, Label
  <2>2. call[t].pp \in Params /\ call[t].dev \in Device /\ call[t].pp.swap \in Swap
    BY DEF Calls, Params
  <2>3. swap' \in Swap /\ saver' \in Device \cup {"nobody"}
    BY <1>8, <2>2 DEF Apply, Saves, SavedInv
  <2>4. call' \in [Caller -> Calls]
    <3> DEFINE pp == IF msaa THEN Multisampled(call[t].pp, swap')
                     ELSE Plain(call[t].pp, swap')
               made == IF msaa THEN "on" ELSE "off"
    <3>1. pp \in Params
      BY <2>2, <2>3, MadeFacts
    <3>2. made \in {"no", "on", "off"}
      OBVIOUS
    <3>3. call' = [call EXCEPT ![t].pp = pp, ![t].made = made]
      BY <1>8 DEF Apply
    <3> HIDE DEF pp, made
    <3> QED
      BY <3>1, <3>2, <3>3, MadePpFacts
  <2> QED
    BY <1>8, <2>1, <2>3, <2>4
       DEF Apply, fixedVars, fileVars, hookVars, windowVars, systemVars, boundVars,
           choiceVars
<1>9. ASSUME NEW t \in Caller, Forward(t)
      PROVE  DisplayType'
  <2>1. at' \in [Caller \cup {"init"} -> Label]
    BY <1>9, GoesFacts DEF Forward, Label
  <2>2. call' \in [Caller -> Calls]
    BY <1>9, ParamsFacts DEF Forward
  <2>3. kept' \in Params /\ devices' \subseteq Engines
    BY <1>9 DEF Forward, Calls
  <2> QED
    BY <1>9, <2>1, <2>2, <2>3
       DEF Forward, fixedVars, fileVars, hookVars, windowVars, msaaVars, boundVars,
           choiceVars
<1>10. CASE EngineCreates
  <2> DEFINE d == IF devices = {} THEN "loader" ELSE "game"
  <2>1. d \in Engines /\ Fresh(d) \in Params
    BY ParamsFacts DEF Device, Engines
  <2>2. CallOf(d, "create", Fresh(d)) \in Calls
    BY <2>1, ParamsFacts DEF Device
  <2>3. \/ /\ Enters("engine", d, "create", Fresh(d)) /\ UNCHANGED <<devices, kept>>
        \/ /\ devices' = devices \cup {d} /\ kept' = Fresh(d)
           /\ UNCHANGED <<at, call>>
    BY <1>10 DEF EngineCreates
  <2> HIDE DEF d
  <2>4. at' \in [Caller \cup {"init"} -> Label]
    BY <2>3, GoesFacts DEF Enters, Label, Caller
  <2>5. call' \in [Caller -> Calls]
    BY <2>2, <2>3 DEF Enters, Caller
  <2>6. kept' \in Params /\ devices' \subseteq Engines
    BY <2>1, <2>3
  <2> QED
    BY <1>10, <2>4, <2>5, <2>6
       DEF EngineCreates, fixedVars, fileVars, hookVars, windowVars, msaaVars,
           boundVars, choiceVars
<1>11. CASE EngineResets
  <2>1. PICK pp \in {kept, Fresh(InUse)} : Enters("engine", InUse, "reset", pp)
    BY <1>11 DEF EngineResets
  <2>2. InUse \in Device
    BY DEF InUse, Device, Engines
  <2>3. CallOf(InUse, "reset", pp) \in Calls
    BY <2>1, <2>2, ParamsFacts
  <2>4. at' \in [Caller \cup {"init"} -> Label]
    BY <2>1, GoesFacts DEF Enters, Label, Caller
  <2>5. call' \in [Caller -> Calls]
    BY <2>1, <2>3 DEF Enters, Caller
  <2> QED
    BY <1>11, <2>4, <2>5
       DEF EngineResets, fixedVars, fileVars, hookVars, windowVars, msaaVars,
           systemVars, boundVars, choiceVars
<1>12. CASE EngineResizes
  BY <1>12 DEF EngineResizes, fixedVars, fileVars, hookVars, windowVars, msaaVars,
               boundVars, choiceVars
<1>13. CASE EndScene
  <2>1. at' \in [Caller \cup {"init"} -> Label]
    BY <1>13, GoesFacts DEF EndScene, OnEndSceneTick, Label, Caller
  <2>2. enforce' \in 0 .. EnforceFrames
    BY <1>13, <1>0 DEF EndScene, OnEndSceneTick, Enforced
  <2>3. since' \in 0 .. Over
    BY <1>13, <1>0 DEF EndScene, Over
  <2> QED
    BY <1>13, <2>1, <2>2, <2>3
       DEF EndScene, fixedVars, fileVars, hookVars, msaaVars, boundVars, choiceVars
<1>14. CASE Menu
  <2>1. at' \in [Caller \cup {"init"} -> Label]
    BY <1>14, GoesFacts DEF Menu, Label, Caller
  <2>2. /\ saved' \in [Setting -> OnOff \cup {"absent"}]
        /\ enabled' \in OnOff /\ count' \in Counts
    <3>1. CASE UNCHANGED <<fileVars, enabled, msaa, count, edits, choiceVars>>
      BY <3>1 DEF fileVars
    <3>2. CASE EditWindow
      BY <3>2 DEF EditWindow, SetEnabled, Writes, Other, OnOff
    <3>3. CASE EditSnow
      BY <3>3 DEF EditSnow, Writes, Other, OnOff
    <3>4. CASE EditMsaa
      BY <3>4 DEF EditMsaa, fileVars
    <3>5. CASE EditRules
      BY <3>5 DEF EditRules, SaveRules
    <3> QED
      BY <1>14, <3>1, <3>2, <3>3, <3>4, <3>5 DEF Menu
  <2> QED
    BY <1>14, <2>1, <2>2 DEF Menu, fixedVars, hookVars, systemVars
<1>15. CASE CreateHidden \/ DestroyHidden
  <2>1. at' \in [Caller \cup {"init"} -> Label]
    BY <1>15, GoesFacts DEF CreateHidden, DestroyHidden, Label, Caller
  <2> QED
    BY <1>15, <2>1
       DEF CreateHidden, DestroyHidden, fixedVars, fileVars, hookVars, windowVars,
           msaaVars, boundVars, choiceVars
<1>16. CASE DummyCreates
  <2>1. at' \in [Caller \cup {"init"} -> Label]
    BY <1>16, GoesFacts DEF DummyCreates, Enters, Label, Caller
  <2>2. CallOf("dummy", "create", Fresh("dummy")) \in Calls
    BY ParamsFacts DEF Device
  <2>3. call' \in [Caller -> Calls]
    BY <1>16, <2>2 DEF DummyCreates, Enters, Caller
  <2> QED
    BY <1>16, <2>1, <2>3
       DEF DummyCreates, fixedVars, fileVars, hookVars, windowVars, msaaVars,
           systemVars, boundVars, choiceVars
<1>17. CASE Arm
  <2>1. at' \in [Caller \cup {"init"} -> Label]
    BY <1>17, GoesFacts DEF Arm, Label, Caller
  <2>2. armed' \subseteq {"EndScene", "Reset"}
    BY <1>17 DEF Arm
  <2> QED
    BY <1>17, <2>1, <2>2
       DEF Arm, fixedVars, fileVars, windowVars, msaaVars, systemVars, boundVars,
           choiceVars
<1>18. CASE Relaunch
  <2>1. call' \in [Caller -> Calls] /\ kept' \in Params
    BY <1>18, ParamsFacts DEF Relaunch, Device, Engines
  <2>2. at' \in [Caller \cup {"init"} -> Label]
    BY <1>18, StartType DEF Relaunch
  <2>3. snowing' \in OnOff
    BY <1>18 DEF Relaunch, Read, Default, Setting, OnOff
  <2> QED
    BY <1>0, <1>18, <2>1, <2>2, <2>3
       DEF Relaunch, OnOff, Counts, MostSamples, Over, fileVars
<1>19. CASE UNCHANGED displayVars
  BY <1>19 DEF displayVars, fixedVars, fileVars, hookVars, windowVars, msaaVars,
               systemVars, boundVars, choiceVars
<1> QED
  BY <1>1, <1>2, <1>3, <1>4, <1>5, <1>6, <1>7, <1>8, <1>9, <1>10, <1>11, <1>12,
     <1>13, <1>14, <1>15, <1>16, <1>17, <1>18, <1>19 DEF DisplayNext

-----------------------------------------------------------------------------
(* Who is where: there is no menu before the third thread is done.         *)

ThreadInv ==
    /\ at["init"] \in {"load", "spawn"} => at["dummy"] = "wait"
    /\ at["init"] = "load" => enabled = "on"
    /\ at["dummy"] # "done" => armed = {}
    /\ at["engine"] \in {"menu", "unread"} => armed # {}
    /\ ~msaa => at["dummy"] = "done"

LEMMA ThreadStep ==
    ASSUME DisplayType, ThreadInv, [DisplayNext]_displayVars
    PROVE  ThreadInv'
<1>0. /\ at \in [Caller \cup {"init"} -> Label]
      /\ "init" \notin Caller /\ {"engine", "dummy"} = Caller
  BY DEF DisplayType, Caller
<1>1. CASE LoadIni \/ InstallDefaults
  BY <1>0, <1>1
     DEF ThreadInv, LoadIni, InstallDefaults, Goes, hookVars, msaaVars, windowVars
<1>2. CASE Spawn
  BY <1>0, <1>2 DEF ThreadInv, Spawn, hookVars, msaaVars, windowVars
<1>3. ASSUME NEW t \in Caller, Direct3DCreate9(t) \/ HookCreateDevice(t)
      PROVE  ThreadInv'
  BY <1>0, <1>3
     DEF ThreadInv, Direct3DCreate9, HookCreateDevice, HasD3d, Goes, Caller,
         msaaVars, windowVars
<1>4. ASSUME NEW t \in Caller, Rewrite(t)
      PROVE  ThreadInv'
  BY <1>0, <1>4 DEF ThreadInv, Rewrite, Goes, Caller, hookVars, msaaVars
<1>5. ASSUME NEW t \in Caller, Remember(t) \/ Look(t) \/ Apply(t) \/ Forward(t)
      PROVE  ThreadInv'
  <2>1. /\ \E label \in {"msaa", "apply", "forward", "idle", "destroy"} : Goes(t, label)
        /\ at[t] \in {"remember", "msaa", "apply", "forward"}
        /\ UNCHANGED <<armed, msaa, enabled>>
    BY <1>5 DEF Remember, Look, Apply, Forward, hookVars, msaaVars, windowVars
  <2> QED
    BY <1>0, <2>1 DEF ThreadInv, Goes, Caller
<1>6. CASE EngineCreates \/ EngineResets
  BY <1>0, <1>6
     DEF ThreadInv, EngineCreates, EngineResets, Enters, Goes, hookVars, msaaVars,
         windowVars
<1>7. CASE EngineResizes
  BY <1>7 DEF ThreadInv, EngineResizes, hookVars, msaaVars, windowVars
<1>8. CASE EndScene
  BY <1>0, <1>8 DEF ThreadInv, EndScene, OnEndSceneTick, Goes, hookVars, msaaVars
<1>9. CASE Menu
  <2>1. at["dummy"] = "done" /\ at["init"] \notin {"load", "spawn"}
    BY <1>9 DEF Menu, ThreadInv
  <2>2. at' = [at EXCEPT !["engine"] = "idle"] /\ UNCHANGED armed
    BY <1>9 DEF Menu, Goes, hookVars
  <2> QED
    BY <1>0, <2>1, <2>2 DEF ThreadInv
<1>10. CASE CreateHidden \/ DummyCreates \/ DestroyHidden
  BY <1>0, <1>10
     DEF ThreadInv, CreateHidden, DummyCreates, DestroyHidden, Enters, Goes,
         hookVars, msaaVars, windowVars
<1>11. CASE Arm
  BY <1>0, <1>11 DEF ThreadInv, Arm, Goes, msaaVars, windowVars
<1>12. CASE Relaunch
  BY <1>12 DEF ThreadInv, Relaunch, Start, Caller
<1>13. CASE UNCHANGED displayVars
  BY <1>13 DEF ThreadInv, displayVars, hookVars, msaaVars, windowVars
<1> QED
  BY <1>1, <1>2, <1>3, <1>4, <1>5, <1>6, <1>7, <1>8, <1>9, <1>10, <1>11, <1>12,
     <1>13 DEF DisplayNext

LEMMA SavedStep ==
    ASSUME DisplayType, SavedInv, [DisplayNext]_displayVars
    PROVE  SavedInv'
<1>0. call \in [Caller -> Calls]
  BY DEF DisplayType
<1>1. ASSUME NEW t \in Caller, Look(t)
      PROVE  SavedInv'
  <2>1. swap' = swap /\ (call' = call \/ call' = [call EXCEPT ![t].found = swap])
    BY <1>1 DEF Look, msaaVars
  <2> QED
    BY <1>0, <2>1 DEF SavedInv, Calls
<1>2. ASSUME NEW t \in Caller, Apply(t)
      PROVE  SavedInv'
  <2>1. call[t].pp.swap # "none"
    BY <1>0 DEF Calls, Params, Swap
  <2>2. swap' # "none"
    BY <1>2, <2>1 DEF Apply, Saves, SavedInv
  <2> QED
    BY <2>2 DEF SavedInv
<1>3. ASSUME NEW t \in Caller, Rewrite(t)
      PROVE  SavedInv'
  <2>1. \/ call' = call
        \/ call' = [call EXCEPT ![t].pp = Rewritten(call[t].pp)]
    BY <1>3 DEF Rewrite
  <2>2. swap' = swap
    BY <1>3 DEF Rewrite, msaaVars
  <2> QED
    BY <1>0, <2>1, <2>2 DEF SavedInv, Calls
<1>4. ASSUME NEW t \in Caller, Forward(t)
      PROVE  SavedInv'
  BY <1>0, <1>4 DEF Forward, msaaVars, SavedInv, NoCall, CallOf
<1>5. CASE EngineCreates \/ EngineResets \/ DummyCreates
  BY <1>0, <1>5
     DEF EngineCreates, EngineResets, DummyCreates, Enters, CallOf, msaaVars,
         SavedInv
<1>6. CASE Relaunch
  BY <1>6 DEF Relaunch, NoCall, CallOf, SavedInv
<1>7. ASSUME UNCHANGED <<call, swap>>
      PROVE  SavedInv'
  BY <1>7 DEF SavedInv
<1> QED
  BY <1>1, <1>2, <1>3, <1>4, <1>5, <1>6, <1>7
     DEF DisplayNext, LoadIni, Spawn, InstallDefaults, Direct3DCreate9,
         HookCreateDevice, Remember, EngineResizes, EndScene, Menu, CreateHidden,
         DestroyHidden, Arm, displayVars, msaaVars

-----------------------------------------------------------------------------
(* The settings.                                                           *)

\* What a start is to find, and what the file says all the time.
Want(k) == IF k \in wiped THEN Default[k] ELSE chosen[k]

SettingInv ==
    /\ \A k \in Setting : Read(k) = Want(k)
    /\ untouched => snowing = Want("snow")
    /\ untouched /\ at["init"] # "load" => enabled = Want("window")

LEMMA SettingStep ==
    ASSUME DisplayType, ThreadInv, SettingInv, chosen \in [Setting -> OnOff],
           [DisplayNext]_displayVars
    PROVE  SettingInv' /\ chosen' \in [Setting -> OnOff]
<1> DEFINE Goal == SettingInv' /\ chosen' \in [Setting -> OnOff]
<1>0. /\ at \in [Caller \cup {"init"} -> Label] /\ "init" \notin Caller
      /\ saved \in [Setting -> OnOff \cup {"absent"}]
      /\ enabled \in OnOff /\ Setting = {"window", "snow"}
      /\ Default["window"] = "on" /\ Default["snow"] = "off"
  BY DEF DisplayType, Caller, Setting, Default
<1>1. CASE LoadIni
  <2>1. at["init"] = "load" /\ enabled = "on" /\ at'["init"] = "spawn"
    BY <1>0, <1>1 DEF LoadIni, ThreadInv, Goes
  <2>2. UNCHANGED <<chosen, wiped, untouched, snowing>>
    BY <1>1 DEF LoadIni, choiceVars, fixedVars
  <2>3. enabled' = Read("window") /\ \A k \in Setting : Read(k)' = Read(k)
    <3>1. CASE NoFile
      BY <1>0, <1>1, <2>1, <3>1 DEF LoadIni, Writes, NoFile, Read, OnOff
    <3>2. CASE ~NoFile
      BY <1>1, <3>2 DEF LoadIni, fileVars, Read
    <3> QED
      BY <3>1, <3>2
  <2> QED
    BY <1>0, <2>1, <2>2, <2>3 DEF SettingInv, Want
<1>2. CASE InstallDefaults
  <2>1. \/ SaveRules /\ UNCHANGED snowing
        \/ UNCHANGED <<saved, chosen, wiped, untouched, snowing, enabled>>
    BY <1>2 DEF InstallDefaults, fileVars, choiceVars, windowVars, fixedVars
  <2>2. at'["init"] = "done" /\ at["init"] = "rules"
    BY <1>0, <1>2 DEF InstallDefaults, Goes
  <2>3. CASE SaveRules
    BY <1>0, <2>3 DEF SaveRules, SettingInv, Want, Read
  <2> QED
    BY <1>0, <2>1, <2>2, <2>3 DEF SettingInv, Want, Read
<1>3. CASE Menu
  <2>1. UNCHANGED <<snowing>> /\ at'["init"] = at["init"]
    BY <1>0, <1>3 DEF Menu, Goes, fixedVars
  <2>2. CASE UNCHANGED <<fileVars, enabled, msaa, count, edits, choiceVars>>
    BY <1>0, <2>1, <2>2 DEF fileVars, choiceVars, SettingInv, Want, Read
  <2>3. CASE EditWindow
    BY <1>0, <2>1, <2>3
       DEF EditWindow, SetEnabled, Writes, Other, Chooses, OnOff, SettingInv, Want,
           Read
  <2>4. CASE EditSnow
    <3>1. PICK v \in OnOff : Writes("snow", v) /\ Chooses("snow", v)
      BY <2>4 DEF EditSnow, Other, OnOff
    <3> QED
      BY <1>0, <3>1 DEF Writes, Chooses, OnOff, SettingInv, Want, Read
  <2>5. CASE EditMsaa
    BY <1>0, <2>1, <2>5 DEF EditMsaa, fileVars, choiceVars, SettingInv, Want, Read
  <2>6. CASE EditRules
    BY <1>0, <2>6 DEF EditRules, SaveRules, SettingInv, Want, Read
  <2> QED
    BY <1>3, <2>2, <2>3, <2>4, <2>5, <2>6 DEF Menu
<1>4. CASE Relaunch
  BY <1>0, <1>4
     DEF Relaunch, Start, Caller, fileVars, SettingInv, Want, Read
<1>5. ASSUME UNCHANGED <<saved, snowing, chosen, wiped, untouched, enabled>>,
             at'["init"] = "load" => at["init"] = "load",
             at["init"] = "load" => at'["init"] = "load"
      PROVE  Goal
  BY <1>5 DEF SettingInv, Want, Read
<1>6. CASE Spawn
  BY <1>0, <1>5, <1>6
     DEF Spawn, fileVars, fixedVars, choiceVars, windowVars
<1>7. ASSUME NEW t \in Caller,
             \/ Direct3DCreate9(t) \/ HookCreateDevice(t) \/ Rewrite(t)
             \/ Remember(t) \/ Look(t) \/ Apply(t) \/ Forward(t)
      PROVE  Goal
  <2>1. \E label \in Label : Goes(t, label)
    BY <1>7
       DEF Direct3DCreate9, HookCreateDevice, HasD3d, Rewrite, Remember, Look, Apply,
           Forward, Label
  <2>2. at'["init"] = at["init"]
    BY <1>0, <2>1 DEF Goes
  <2>3. UNCHANGED <<saved, snowing, chosen, wiped, untouched, enabled>>
    BY <1>7
       DEF Direct3DCreate9, HookCreateDevice, Rewrite, Remember, Look, Apply,
           Forward, fileVars, fixedVars, choiceVars, windowVars
  <2> QED
    BY <1>5, <2>2, <2>3
<1>8. CASE \/ EngineCreates \/ EngineResets \/ EngineResizes \/ EndScene
           \/ CreateHidden \/ DummyCreates \/ DestroyHidden \/ Arm
  <2>1. at'["init"] = at["init"]
    BY <1>0, <1>8
       DEF EngineCreates, EngineResets, EngineResizes, EndScene, OnEndSceneTick,
           CreateHidden, DummyCreates, DestroyHidden, Arm, Enters, Goes
  <2>2. UNCHANGED <<saved, snowing, chosen, wiped, untouched, enabled>>
    BY <1>8
       DEF EngineCreates, EngineResets, EngineResizes, EndScene, CreateHidden,
           DummyCreates, DestroyHidden, Arm, fileVars, fixedVars, choiceVars,
           windowVars
  <2> QED
    BY <1>5, <2>1, <2>2
<1>9. CASE UNCHANGED displayVars
  BY <1>5, <1>9 DEF displayVars, fileVars, fixedVars, choiceVars, windowVars
<1> QED
  BY <1>1, <1>2, <1>3, <1>4, <1>6, <1>7, <1>8, <1>9 DEF DisplayNext

ThreadSpec == DisplayType /\ SavedInv /\ ThreadInv

LEMMA ThreadsAlways == DisplaySpec => []ThreadSpec
<1>1. DisplayInit => ThreadSpec
  <2>1. DisplayInit => SavedInv
    BY DEF DisplayInit, SavedInv, NoCall, CallOf
  <2>2. DisplayInit => ThreadInv
    BY DEF DisplayInit, ThreadInv, Start, Caller
  <2> QED
    BY <2>1, <2>2, DisplayTypeInit DEF ThreadSpec
<1>2. ThreadSpec /\ [DisplayNext]_displayVars => ThreadSpec'
  BY DisplayTypeStep, SavedStep, ThreadStep DEF ThreadSpec
<1> QED
  BY <1>1, <1>2, PTL DEF DisplaySpec

\* After a restart both settings of windowmode and of the snow are what the user
\* last chose, or the default if ui_aspect_rules has written its file since.
THEOREM SettingsComeBack == DisplaySpec => []SettingKept
<1> DEFINE Inv == SettingInv /\ chosen \in [Setting -> OnOff]
<1>1. DisplayInit => Inv
  BY DEF DisplayInit, SettingInv, Setting, OnOff, Default, Read, Want
<1>2. ThreadSpec /\ Inv /\ [DisplayNext]_displayVars => Inv'
  BY SettingStep DEF ThreadSpec
<1>3. Inv => SettingKept
  BY DEF SettingInv, SettingKept, Effect, Want, Setting
<1> QED
  BY <1>1, <1>2, <1>3, ThreadsAlways, PTL DEF DisplaySpec

-----------------------------------------------------------------------------
(* The pinned window.                                                      *)

PinInv ==
    /\ "game" \in windows
    /\ at["dummy"] \in {"rewrite", "remember", "msaa", "apply", "forward"}
          => call["dummy"].dev = "dummy"
    /\ mode = "pinned" =>
         /\ \A t \in Caller : at[t] = "remember" => enforce = EnforceFrames
         /\ since # Over =>
              /\ styled = "game" /\ enforce + since >= EnforceFrames
              /\ at["engine"] = "menu" /\ since # 0 => "game" \in fits

LEMMA PinStep ==
    ASSUME DisplayType, ThreadInv, PinInv, [DisplayNext]_displayVars
    PROVE  PinInv'
<1>0. /\ at \in [Caller \cup {"init"} -> Label] /\ call \in [Caller -> Calls]
      /\ "init" \notin Caller /\ Caller = {"engine", "dummy"}
      /\ EnforceFrames \in Nat /\ EnforceFrames > 0 /\ Over = EnforceFrames + 1
      /\ enforce \in 0 .. EnforceFrames /\ since \in 0 .. Over
  BY DisplayBounds DEF DisplayType, Caller, Over
<1>1. ASSUME UNCHANGED <<mode, windows, fits, call, enforce, styled, since>>,
             \A t \in Caller : at'[t] = at[t] \/ at'[t] \in
               {"create9", "hook", "idle", "window", "create", "destroy", "arm",
                "done"}
      PROVE  PinInv'
  BY <1>0, <1>1 DEF PinInv
<1>2. CASE LoadIni \/ InstallDefaults \/ Spawn
  BY <1>0, <1>1, <1>2
     DEF LoadIni, InstallDefaults, Spawn, Goes, fixedVars, systemVars, windowVars
<1>3. ASSUME NEW t \in Caller, Direct3DCreate9(t) \/ HookCreateDevice(t)
      PROVE  PinInv'
  BY <1>0, <1>1, <1>3
     DEF Direct3DCreate9, HookCreateDevice, HasD3d, Goes, fixedVars, systemVars,
         windowVars
<1>4. ASSUME NEW t \in Caller, Rewrite(t)
      PROVE  PinInv'
  <2>1. UNCHANGED <<mode, windows, styled, since>> /\ at[t] = "rewrite"
    BY <1>4 DEF Rewrite, fixedVars
  <2>2. PICK label \in {"msaa", "remember"} : Goes(t, label)
    BY <1>4 DEF Rewrite
  <2>3. call'["dummy"].dev = call["dummy"].dev
    <3>1. \/ call' = call
          \/ call' = [call EXCEPT ![t].pp = Rewritten(call[t].pp)]
      BY <1>4 DEF Rewrite
    <3> QED
      BY <1>0, <3>1 DEF Calls
  <2>4. mode = "pinned" =>
          /\ "game" \in fits => "game" \in fits'
          /\ enforce' = enforce \/ enforce' = EnforceFrames
          /\ label = "remember" => enforce' = EnforceFrames
    BY <1>0, <1>4, <2>2 DEF Rewrite, Goes, PlacedAt
  <2> QED
    BY <1>0, <2>1, <2>2, <2>3, <2>4 DEF PinInv, Goes
<1>5. ASSUME NEW t \in Caller, Remember(t)
      PROVE  PinInv'
  BY <1>0, <1>5 DEF PinInv, Remember, Goes, fixedVars, systemVars
<1>6. ASSUME NEW t \in Caller, Look(t)
      PROVE  PinInv'
  <2>1. call'["dummy"].dev = call["dummy"].dev
    <3>1. call' = call \/ call' = [call EXCEPT ![t].found = swap]
      BY <1>6 DEF Look
    <3> QED
      BY <1>0, <3>1 DEF Calls
  <2>2. /\ UNCHANGED <<mode, windows, fits, enforce, styled, since>>
        /\ \E label \in {"apply", "forward"} : Goes(t, label)
        /\ at[t] = "msaa"
    BY <1>6 DEF Look, fixedVars, systemVars, windowVars
  <2> QED
    BY <1>0, <2>1, <2>2 DEF PinInv, Goes
<1>7. ASSUME NEW t \in Caller, Apply(t)
      PROVE  PinInv'
  <2>1. call'["dummy"].dev = call["dummy"].dev
    BY <1>0, <1>7 DEF Apply, Calls
  <2>2. /\ UNCHANGED <<mode, windows, fits, enforce, styled, since>>
        /\ Goes(t, "forward") /\ at[t] = "apply"
    BY <1>7 DEF Apply, fixedVars, systemVars, windowVars
  <2> QED
    BY <1>0, <2>1, <2>2 DEF PinInv, Goes
<1>8. ASSUME NEW t \in Caller, Forward(t)
      PROVE  PinInv'
  <2>1. t = "dummy" \/ call'["dummy"] = call["dummy"]
    BY <1>0, <1>8 DEF Forward
  <2>2. /\ UNCHANGED <<mode, windows, fits, enforce, styled, since>>
        /\ Goes(t, IF t = "engine" THEN "idle" ELSE "destroy")
    BY <1>8 DEF Forward, fixedVars, windowVars
  <2> QED
    BY <1>0, <2>1, <2>2 DEF PinInv, Goes
<1>9. CASE EngineCreates \/ EngineResets
  <2>1. /\ UNCHANGED <<mode, windows, fits, enforce, styled, since>>
        /\ at["engine"] = "idle"
        /\ UNCHANGED at \/ Goes("engine", "rewrite")
        /\ call'["dummy"] = call["dummy"]
    BY <1>0, <1>9
       DEF EngineCreates, EngineResets, Enters, fixedVars, systemVars, windowVars
  <2> QED
    BY <1>0, <2>1 DEF PinInv, Goes
<1>10. CASE EngineResizes
  BY <1>0, <1>10 DEF PinInv, EngineResizes, fixedVars, windowVars
<1>11. CASE EndScene
  <2>1. /\ UNCHANGED <<mode, windows, call, styled>>
        /\ at["engine"] = "idle"
        /\ \E label \in {"menu", "unread"} : Goes("engine", label)
        /\ since' = IF since < Over THEN since + 1 ELSE Over
        /\ OnEndSceneTick
    BY <1>11 DEF EndScene, OnEndSceneTick, fixedVars
  <2>2. at["dummy"] = "done"
    BY <1>11 DEF EndScene, ThreadInv
  <2>3. CASE mode # "pinned"
    BY <1>0, <2>1, <2>2, <2>3 DEF PinInv, Goes
  <2>4. CASE mode = "pinned" /\ since >= EnforceFrames
    <3>1. since' = Over
      BY <1>0, <2>1, <2>4
    <3> QED
      BY <1>0, <2>1, <2>2, <3>1 DEF PinInv, Goes
  <2>5. CASE mode = "pinned" /\ since < EnforceFrames
    <3>1. enforce > 0 /\ styled = "game" /\ enforce + since >= EnforceFrames
      BY <1>0, <2>5 DEF PinInv
    <3>2. /\ enforce' = enforce - 1 /\ since' = since + 1
          /\ Goes("engine", "unread") \/ "game" \in fits'
      BY <1>0, <2>1, <2>5, <3>1 DEF OnEndSceneTick, Enforced, PinInv
    <3> QED
      BY <1>0, <2>1, <2>2, <2>5, <3>1, <3>2 DEF PinInv, Goes
  <2> QED
    BY <1>0, <2>3, <2>4, <2>5
<1>12. CASE Menu
  BY <1>0, <1>1, <1>12 DEF Menu, Goes, fixedVars, systemVars
<1>13. CASE CreateHidden \/ DestroyHidden
  BY <1>0, <1>13
     DEF PinInv, CreateHidden, DestroyHidden, Goes, fixedVars, windowVars
<1>14. CASE DummyCreates
  <2>1. /\ UNCHANGED <<mode, windows, fits, enforce, styled, since>>
        /\ \/ Goes("dummy", "destroy")
           \/ Goes("dummy", "rewrite") /\ call'["dummy"].dev = "dummy"
    BY <1>0, <1>14
       DEF DummyCreates, Enters, CallOf, fixedVars, systemVars, windowVars
  <2> QED
    BY <1>0, <2>1 DEF PinInv, Goes
<1>15. CASE Arm
  BY <1>0, <1>1, <1>15 DEF Arm, Goes, fixedVars, systemVars, windowVars
<1>16. CASE Relaunch
  BY <1>0, <1>16 DEF PinInv, Relaunch, Start
<1>17. CASE UNCHANGED displayVars
  BY <1>1, <1>17 DEF displayVars, fixedVars, systemVars, windowVars
<1> QED
  BY <1>2, <1>3, <1>4, <1>5, <1>6, <1>7, <1>8, <1>9, <1>10, <1>11, <1>12, <1>13,
     <1>14, <1>15, <1>16, <1>17 DEF DisplayNext

\* on_end_scene_tick keeps the game's window at the size of -dxresolution for as
\* long as hk_CreateDevice or hk_Reset asked for, at every frame that is drawn
\* and whose size can be read.
THEOREM PinnedWhileAsked == DisplaySpec => []Pinned
<1>1. DisplayInit => PinInv
  BY DisplayBounds DEF DisplayInit, PinInv, Start, Caller, Over
<1>2. ThreadSpec /\ PinInv /\ [DisplayNext]_displayVars => PinInv'
  BY PinStep DEF ThreadSpec
<1>3. PinInv => Pinned
  BY DisplayBounds DEF PinInv, Pinned, Over
<1> QED
  BY <1>1, <1>2, <1>3, ThreadsAlways, PTL DEF DisplaySpec

-----------------------------------------------------------------------------
(* What the card is asked for.                                             *)

InCall == {"rewrite", "remember", "msaa", "apply", "forward"}

\* From here on nobody saves a swap effect: there is one, the mod's own device
\* has come and gone, and the engine is not about to save another.
Settled ==
    /\ at["dummy"] = "done" /\ swap # "none"
    /\ ~(at["engine"] = "apply" /\ call["engine"].found = "none")

\* pp still has the effect that is wanted for d, or MSAA has replaced it, or has
\* given back the one that is saved for good.
OneSwap(pp, d) ==
    /\ pp.swap \in {Wanted[d], "discard"} \/ (Settled /\ pp.swap = swap)
    /\ swap = "none" => pp.swap = Wanted[d]

Accepted(pp) ==
    pp.samples > 0 => pp.swap = "discard" /\ pp.samples \in Supported[pp.display]

Checked(t) ==
    /\ call[t].made # "no" => Accepted(call[t].pp)
    /\ call[t].made = "off" =>
         /\ t = "engine" /\ Settled
         /\ Wanted[saver] = Wanted[call[t].dev]
               => call[t].pp.swap = Wanted[call[t].dev]

CallInv(t) ==
    /\ at[t] \in InCall => OneSwap(call[t].pp, call[t].dev)
    /\ at[t] = "apply" /\ call[t].found = "none"
         => call[t].pp.swap = Wanted[call[t].dev]
    /\ at[t] \in InCall \ {"forward"} => call[t].made = "no"
    /\ at[t] = "forward" => Checked(t)

KeptInv ==
    /\ devices # {} => OneSwap(kept, InUse)
    /\ at["engine"] \in InCall =>
         /\ call["engine"].dev \in Engines
         /\ call["engine"].dev = "loader" => "game" \notin devices
    /\ at["dummy"] \in InCall => call["dummy"].dev = "dummy"

SwapInv == swap # "none" => saver \in Device /\ swap = Wanted[saver]

PresentInv == SwapInv /\ KeptInv /\ \A t \in Caller : CallInv(t)

Still(t) == at'[t] = at[t] /\ call'[t] = call[t]

\* Each step leaves the other thread's call alone.
LEMMA OthersStill ==
    ASSUME DisplayType, NEW t \in Caller, NEW u \in Caller, u # t,
           \/ Direct3DCreate9(t) \/ HookCreateDevice(t) \/ Rewrite(t)
           \/ Remember(t) \/ Look(t) \/ Apply(t) \/ Forward(t)
    PROVE  Still(u)
<1>0. at \in [Caller \cup {"init"} -> Label] /\ call \in [Caller -> Calls]
  BY DEF DisplayType
<1>1. \E label \in Label : Goes(t, label)
  BY DEF Direct3DCreate9, HookCreateDevice, HasD3d, Rewrite, Remember, Look, Apply,
         Forward, Label
<1>2. at'[u] = at[u]
  BY <1>0, <1>1 DEF Goes
<1>3. call'[u] = call[u]
  BY <1>0
     DEF Direct3DCreate9, HookCreateDevice, Rewrite, Remember, Look, Apply, Forward
<1> QED
  BY <1>2, <1>3 DEF Still

LEMMA SettledStays ==
    ASSUME DisplayType, ThreadInv, Settled, [DisplayNext]_displayVars, ~Relaunch
    PROVE  Settled' /\ UNCHANGED <<swap, saver>>
<1> DEFINE Goal == Settled' /\ UNCHANGED <<swap, saver>>
<1>0. /\ at \in [Caller \cup {"init"} -> Label] /\ call \in [Caller -> Calls]
      /\ "init" \notin Caller /\ Caller = {"engine", "dummy"}
      /\ at["dummy"] = "done" /\ swap # "none"
  BY DEF DisplayType, Caller, Settled
<1>1. CASE LoadIni \/ InstallDefaults
  BY <1>0, <1>1 DEF LoadIni, InstallDefaults, Goes, msaaVars, Settled
<1>2. CASE Spawn
  BY <1>0, <1>2 DEF Spawn, ThreadInv
<1>3. ASSUME NEW t \in Caller, Direct3DCreate9(t) \/ HookCreateDevice(t) \/ Remember(t)
      PROVE  Goal
  <2>1. t = "engine"
    BY <1>0, <1>3 DEF Direct3DCreate9, HookCreateDevice, Remember
  <2>2. \E label \in {"hook", "idle", "msaa"} : Goes("engine", label)
    BY <1>3, <2>1 DEF Direct3DCreate9, HookCreateDevice, HasD3d, Remember
  <2>3. UNCHANGED <<swap, saver>>
    BY <1>3 DEF Direct3DCreate9, HookCreateDevice, Remember, msaaVars
  <2> QED
    BY <1>0, <2>2, <2>3 DEF Goes, Settled
<1>4. ASSUME NEW t \in Caller, Rewrite(t)
      PROVE  Goal
  <2>1. t = "engine"
    BY <1>0, <1>4 DEF Rewrite
  <2>2. \E label \in {"msaa", "remember"} : Goes("engine", label)
    BY <1>4, <2>1 DEF Rewrite
  <2> QED
    BY <1>0, <1>4, <2>2 DEF Rewrite, Goes, msaaVars, Settled
<1>5. ASSUME NEW t \in Caller, Look(t)
      PROVE  Goal
  <2>1. t = "engine"
    BY <1>0, <1>5 DEF Look
  <2>2. \/ Goes("engine", "apply") /\ call' = [call EXCEPT !["engine"].found = swap]
        \/ Goes("engine", "forward")
    BY <1>5, <2>1 DEF Look
  <2>3. UNCHANGED <<swap, saver>>
    BY <1>5 DEF Look, msaaVars
  <2>4. CASE Goes("engine", "forward")
    BY <1>0, <2>3, <2>4 DEF Goes, Settled
  <2>5. CASE call' = [call EXCEPT !["engine"].found = swap] /\ Goes("engine", "apply")
    <3>1. call'["engine"].found = swap
      BY <1>0, <2>5 DEF Calls
    <3> QED
      BY <1>0, <2>3, <2>5, <3>1 DEF Goes, Settled
  <2> QED
    BY <2>2, <2>4, <2>5
<1>6. ASSUME NEW t \in Caller, Apply(t)
      PROVE  Goal
  <2>1. t = "engine" /\ at["engine"] = "apply" /\ Goes("engine", "forward")
    BY <1>0, <1>6 DEF Apply
  <2>2. ~Saves("engine")
    BY <2>1 DEF Saves, Settled
  <2>3. UNCHANGED <<swap, saver>>
    BY <1>6, <2>1, <2>2 DEF Apply
  <2> QED
    BY <1>0, <2>1, <2>3 DEF Goes, Settled
<1>7. ASSUME NEW t \in Caller, Forward(t)
      PROVE  Goal
  BY <1>0, <1>7 DEF Forward, Goes, msaaVars, Settled
<1>8. CASE EngineCreates \/ EngineResets
  <2>1. \/ UNCHANGED <<at, call>>
        \/ Goes("engine", "rewrite")
    BY <1>8 DEF EngineCreates, EngineResets, Enters
  <2>2. UNCHANGED <<swap, saver>>
    BY <1>8 DEF EngineCreates, EngineResets, msaaVars
  <2> QED
    BY <1>0, <2>1, <2>2 DEF Goes, Settled
<1>9. CASE EngineResizes
  BY <1>9 DEF EngineResizes, msaaVars, Settled
<1>10. CASE EndScene \/ Menu
  BY <1>0, <1>10 DEF EndScene, OnEndSceneTick, Menu, Goes, msaaVars, Settled
<1>11. CASE CreateHidden \/ DummyCreates \/ DestroyHidden \/ Arm
  BY <1>0, <1>11 DEF CreateHidden, DummyCreates, DestroyHidden, Arm
<1>12. CASE UNCHANGED displayVars
  BY <1>12 DEF displayVars, msaaVars, Settled
<1> QED
  BY <1>1, <1>2, <1>3, <1>4, <1>5, <1>6, <1>7, <1>8, <1>9, <1>10, <1>11, <1>12
     DEF DisplayNext

LEMMA OneSwapStays ==
    ASSUME DisplayType, SavedInv, ThreadInv, [DisplayNext]_displayVars, ~Relaunch,
           NEW pp \in Params, NEW d \in Device, OneSwap(pp, d)
    PROVE  OneSwap(pp, d)'
<1>1. Settled => Settled' /\ swap' = swap
  BY SettledStays
<1>2. swap' = "none" => swap = "none"
  <2>1. ASSUME NEW t \in Caller, Apply(t)
        PROVE  swap' # "none"
    <3>1. call[t].pp.swap # "none"
      BY DEF DisplayType, Calls, Params, Swap
    <3> QED
      BY <2>1, <3>1 DEF Apply, Saves, SavedInv
  <2> QED
    BY <2>1
       DEF DisplayNext, LoadIni, Spawn, InstallDefaults, Direct3DCreate9,
           HookCreateDevice, Rewrite, Remember, Look, Forward, EngineCreates,
           EngineResets, EngineResizes, EndScene, Menu, CreateHidden, DummyCreates,
           DestroyHidden, Arm, displayVars, msaaVars
<1> QED
  BY <1>1, <1>2 DEF OneSwap

\* What all the steps of a process have to offer.
PresentSpec == ThreadSpec /\ PresentInv
OneStep == [DisplayNext]_displayVars /\ ~Relaunch

LEMMA StillStep ==
    ASSUME PresentSpec, OneStep, NEW t \in Caller, Still(t)
    PROVE  CallInv(t)'
<1>0. call[t].pp \in Params /\ call[t].dev \in Device /\ CallInv(t)
  BY DEF PresentSpec, ThreadSpec, DisplayType, Calls, PresentInv
<1>1. at[t] \in InCall => OneSwap(call[t].pp, call[t].dev)'
  <2>1. ASSUME NEW pp, NEW d, pp = call[t].pp, d = call[t].dev, OneSwap(pp, d)
        PROVE  OneSwap(pp, d)'
    BY <1>0, <2>1, OneSwapStays DEF OneStep, PresentSpec, ThreadSpec
  <2> QED
    BY <1>0, <2>1 DEF CallInv, Still, OneSwap
<1>2. at[t] = "forward" => Checked(t)'
  <2>1. Settled => Settled' /\ saver' = saver
    BY SettledStays DEF OneStep, PresentSpec, ThreadSpec
  <2> QED
    BY <1>0, <2>1 DEF CallInv, Still, Checked
<1> QED
  BY <1>0, <1>1, <1>2 DEF CallInv, Still

LEMMA KeptSwap ==
    ASSUME PresentSpec, OneStep, UNCHANGED <<kept, devices>>
    PROVE  devices' # {} => OneSwap(kept, InUse)'
<1>1. kept \in Params /\ InUse \in Device /\ KeptInv /\ InUse' = InUse
  BY DEF PresentSpec, ThreadSpec, DisplayType, PresentInv, InUse, Device, Engines
<1>2. ASSUME NEW pp, NEW d, pp = kept, d = InUse, OneSwap(pp, d)
      PROVE  OneSwap(pp, d)'
  BY <1>1, <1>2, OneSwapStays DEF OneStep, PresentSpec, ThreadSpec
<1> QED
  BY <1>1, <1>2 DEF KeptInv, OneSwap

LEMMA KeptStill ==
    ASSUME PresentSpec, OneStep, UNCHANGED <<kept, devices>>,
           \A t \in Caller : /\ at'[t] \in InCall => at[t] \in InCall
                            /\ call'[t].dev = call[t].dev
    PROVE  KeptInv'
<1>1. KeptInv
  BY DEF PresentSpec, PresentInv
<1> QED
  BY <1>1, KeptSwap DEF KeptInv, Caller

LEMMA NoCallStep ==
    ASSUME PresentSpec, OneStep, UNCHANGED <<call, swap, saver, kept, devices>>,
           \A t \in Caller : at'[t] = at[t] \/ at'[t] \notin InCall
    PROVE  PresentInv'
<1>1. SwapInv'
  BY DEF PresentSpec, PresentInv, SwapInv
<1>2. KeptInv'
  BY KeptStill
<1>3. ASSUME NEW t \in Caller
      PROVE  CallInv(t)'
  <2>1. CASE at'[t] = at[t]
    BY <2>1, StillStep DEF Still
  <2>2. CASE at'[t] \notin InCall
    BY <2>2 DEF CallInv, InCall
  <2> QED
    BY <2>1, <2>2
<1> QED
  BY <1>1, <1>2, <1>3 DEF PresentInv

\* Steps of t within its call: those before msaa has its turn.
LEMMA PresentEarlyStep ==
    ASSUME PresentSpec, OneStep, NEW t \in Caller, Rewrite(t) \/ Remember(t)
    PROVE  PresentInv'
<1>0. /\ at \in [Caller \cup {"init"} -> Label] /\ call \in [Caller -> Calls]
      /\ call[t].pp \in Params /\ call[t].dev \in Device /\ CallInv(t)
  BY DEF PresentSpec, ThreadSpec, DisplayType, Calls, PresentInv
<1>1. at[t] \in {"rewrite", "remember"} /\ at'[t] \in {"remember", "msaa"}
  BY <1>0 DEF Rewrite, Remember, Goes
<1>2. UNCHANGED <<kept, devices, swap, saver>>
  BY DEF Rewrite, Remember, systemVars, msaaVars
<1>3. /\ call'[t].pp.swap = call[t].pp.swap /\ call'[t].dev = call[t].dev
      /\ call'[t].made = call[t].made
  <2>1. \/ call' = call
        \/ call' = [call EXCEPT ![t].pp = Rewritten(call[t].pp)]
    BY DEF Rewrite, Remember
  <2> QED
    BY <1>0, <2>1 DEF Calls, Params, Rewritten
<1>4. \A u \in Caller : u # t => Still(u)
  BY OthersStill DEF PresentSpec, ThreadSpec
<1>5. CallInv(t)'
  <2>1. ASSUME NEW pp, NEW d, pp = call[t].pp, d = call[t].dev, OneSwap(pp, d)
        PROVE  OneSwap(pp, d)'
    BY <1>0, <2>1, OneSwapStays DEF OneStep, PresentSpec, ThreadSpec
  <2>2. OneSwap(call[t].pp, call[t].dev)
    BY <1>0, <1>1 DEF CallInv, InCall
  <2>3. OneSwap(call[t].pp, call[t].dev)'
    BY <1>3, <2>1, <2>2 DEF OneSwap
  <2> QED
    BY <1>0, <1>1, <1>3, <2>3 DEF CallInv, InCall
<1>6. \A u \in Caller : CallInv(u)'
  BY <1>4, <1>5, StillStep
<1>7. KeptInv'
  <2>1. \A u \in Caller : call'[u].dev = call[u].dev
    BY <1>3, <1>4 DEF Still
  <2>2. \A u \in Caller : at'[u] \in InCall => at[u] \in InCall
    BY <1>1, <1>4 DEF Still, InCall
  <2> QED
    BY <1>2, <2>1, <2>2, KeptStill
<1>8. SwapInv'
  BY <1>2 DEF PresentSpec, PresentInv, SwapInv
<1> QED
  BY <1>6, <1>7, <1>8 DEF PresentInv

LEMMA PresentLookStep ==
    ASSUME PresentSpec, OneStep, NEW t \in Caller, Look(t)
    PROVE  PresentInv'
<1>0. /\ at \in [Caller \cup {"init"} -> Label] /\ call \in [Caller -> Calls]
      /\ call[t].pp \in Params /\ call[t].dev \in Device /\ CallInv(t)
  BY DEF PresentSpec, ThreadSpec, DisplayType, Calls, PresentInv
<1>1. UNCHANGED <<kept, devices, swap, saver>> /\ at[t] = "msaa"
  BY DEF Look, systemVars, msaaVars
<1>2. /\ call'[t].pp = call[t].pp /\ call'[t].dev = call[t].dev
      /\ call'[t].made = call[t].made
      /\ at'[t] = "forward" \/ (at'[t] = "apply" /\ call'[t].found = swap)
  <2>1. \/ call' = call /\ Goes(t, "forward")
        \/ call' = [call EXCEPT ![t].found = swap] /\ Goes(t, "apply")
    BY DEF Look
  <2>2. CASE call' = call /\ Goes(t, "forward")
    <3>1. at'[t] = "forward"
      BY <1>0, <2>2 DEF Goes
    <3> QED
      BY <2>2, <3>1
  <2>3. CASE call' = [call EXCEPT ![t].found = swap] /\ Goes(t, "apply")
    <3>1. call'[t] = [call[t] EXCEPT !.found = swap]
      BY <1>0, <2>3
    <3>2. at'[t] = "apply"
      BY <1>0, <2>3 DEF Goes
    <3> QED
      BY <1>0, <3>1, <3>2 DEF Calls
  <2> QED
    BY <2>1, <2>2, <2>3
<1>3. \A u \in Caller : u # t => Still(u)
  BY OthersStill DEF PresentSpec, ThreadSpec
<1>4. CallInv(t)'
  <2>1. ASSUME NEW pp, NEW d, pp = call[t].pp, d = call[t].dev, OneSwap(pp, d)
        PROVE  OneSwap(pp, d)'
    BY <1>0, <2>1, OneSwapStays DEF OneStep, PresentSpec, ThreadSpec
  <2>2. OneSwap(call[t].pp, call[t].dev)
    BY <1>0, <1>1 DEF CallInv, InCall
  <2>3. OneSwap(call[t].pp, call[t].dev)'
    BY <1>2, <2>1, <2>2 DEF OneSwap
  <2>4. call[t].made = "no"
    BY <1>0, <1>1 DEF CallInv, InCall
  <2> QED
    BY <1>2, <2>2, <2>3, <2>4 DEF CallInv, OneSwap, Checked
<1>5. \A u \in Caller : CallInv(u)'
  BY <1>3, <1>4, StillStep
<1>6. KeptInv'
  <2>1. \A u \in Caller : call'[u].dev = call[u].dev
    BY <1>2, <1>3 DEF Still
  <2>2. \A u \in Caller : at'[u] \in InCall => at[u] \in InCall
    BY <1>1, <1>3 DEF Still, InCall
  <2> QED
    BY <1>1, <2>1, <2>2, KeptStill
<1>7. SwapInv'
  BY <1>1 DEF PresentSpec, PresentInv, SwapInv
<1> QED
  BY <1>5, <1>6, <1>7 DEF PresentInv

LEMMA PresentApplyStep ==
    ASSUME PresentSpec, OneStep, NEW t \in Caller, Apply(t)
    PROVE  PresentInv'
<1> DEFINE pp == call[t].pp
           d == call[t].dev
           made == IF msaa THEN Multisampled(pp, swap') ELSE Plain(pp, swap')
<1>0. /\ at \in [Caller \cup {"init"} -> Label] /\ call \in [Caller -> Calls]
      /\ pp \in Params /\ d \in Device /\ CallInv(t) /\ SwapInv /\ SavedInv
      /\ pp.swap \in Swap /\ swap \in Swap \cup {"none"} /\ count \in Counts
  BY DEF PresentSpec, ThreadSpec, DisplayType, Calls, PresentInv, Params
<1>1. UNCHANGED <<kept, devices>> /\ at[t] = "apply" /\ Goes(t, "forward")
  BY DEF Apply, systemVars
<1>2. /\ swap' = IF call[t].found = "none" THEN pp.swap ELSE swap
      /\ saver' = IF call[t].found = "none" THEN d ELSE saver
      /\ call[t].found = "none" => pp.swap = Wanted[d]
      /\ call[t].found # "none" => swap # "none"
  BY <1>0, <1>1 DEF Apply, Saves, CallInv, SavedInv
<1>3. swap' \in Swap /\ SwapInv'
  BY <1>0, <1>2 DEF SwapInv, Swap
<1>4. /\ made \in Params /\ Accepted(made)
      /\ msaa => made.swap \in {pp.swap, "discard"}
      /\ ~msaa => made.swap = IF pp.swap = "discard" THEN swap' ELSE pp.swap
  <2>1. CASE msaa
    BY <1>0, <1>3, <2>1, MadeFacts DEF Accepted
  <2>2. CASE ~msaa
    <3>1. made = Plain(pp, swap')
      BY <2>2
    <3>2. /\ Plain(pp, swap') \in Params /\ Plain(pp, swap').samples = 0
          /\ Plain(pp, swap').swap = IF pp.swap = "discard" THEN swap' ELSE pp.swap
      BY <1>0, <1>3, MadeFacts
    <3> HIDE DEF made
    <3> QED
      BY <2>2, <3>1, <3>2 DEF Accepted
  <2> QED
    BY <2>1, <2>2
<1>5. /\ call'[t].pp = made /\ call'[t].dev = d
      /\ call'[t].made = IF msaa THEN "on" ELSE "off"
  <2> DEFINE told == IF msaa THEN "on" ELSE "off"
  <2>1. call' = [call EXCEPT ![t].pp = made, ![t].made = told]
    BY DEF Apply
  <2> HIDE DEF made, told
  <2>2. call'[t] = [call[t] EXCEPT !.pp = made, !.made = told]
    BY <1>0, <2>1
  <2> QED
    BY <1>0, <2>2 DEF Calls, told
<1> HIDE DEF made
<1>6. at'[t] = "forward" /\ \A u \in Caller : u # t => Still(u)
  BY <1>0, <1>1, OthersStill DEF Goes, PresentSpec, ThreadSpec
<1>7. ~msaa => t = "engine" /\ Settled'
  <2>1. ~msaa => at["dummy"] = "done"
    BY DEF PresentSpec, ThreadSpec, ThreadInv
  <2>2. swap' # "none"
    BY <1>3 DEF Swap
  <2> QED
    BY <1>1, <1>6, <2>1, <2>2 DEF Settled, Still, Caller
<1>8. pp.swap \in {Wanted[d], "discard"} \/ (Settled /\ pp.swap = swap)
  BY <1>0, <1>1 DEF CallInv, InCall, OneSwap
<1>9. /\ made.swap \in {Wanted[d], "discard"} \/ (Settled' /\ made.swap = swap')
      /\ ~msaa /\ Wanted[saver'] = Wanted[d] => made.swap = Wanted[d]
      /\ swap' # "none"
  <2>1. Settled => Settled' /\ swap' = swap
    BY SettledStays DEF OneStep, PresentSpec, ThreadSpec
  <2>2. swap' = Wanted[saver'] /\ swap' # "none"
    BY <1>3 DEF SwapInv, Swap
  <2>3. made.swap \in {Wanted[d], "discard"} \/ (Settled' /\ made.swap = swap')
    BY <1>4, <1>7, <1>8, <2>1
  <2>4. ~msaa /\ Wanted[saver'] = Wanted[d] => made.swap = Wanted[d]
    BY <1>2, <1>4, <1>8, <2>2
  <2> QED
    BY <2>2, <2>3, <2>4
<1>10. CallInv(t)'
  <2>1. OneSwap(call[t].pp, call[t].dev)'
    BY <1>5, <1>9 DEF OneSwap
  <2>2. Checked(t)'
    <3>1. Accepted(call[t].pp)'
      BY <1>4, <1>5 DEF Accepted
    <3>2. call'[t].made = "off" => ~msaa
      BY <1>5
    <3> QED
      BY <1>5, <1>7, <1>9, <3>1, <3>2 DEF Checked
  <2> QED
    BY <1>6, <2>1, <2>2 DEF CallInv
<1>11. \A u \in Caller : CallInv(u)'
  BY <1>6, <1>10, StillStep
<1>12. KeptInv'
  <2>1. \A u \in Caller : call'[u].dev = call[u].dev
    BY <1>5, <1>6 DEF Still
  <2>2. \A u \in Caller : at'[u] \in InCall => at[u] \in InCall
    BY <1>1, <1>6 DEF Still, InCall
  <2> QED
    BY <1>1, <2>1, <2>2, KeptStill
<1> QED
  BY <1>3, <1>11, <1>12 DEF PresentInv

LEMMA PresentForwardStep ==
    ASSUME PresentSpec, OneStep, NEW t \in Caller, Forward(t)
    PROVE  PresentInv'
<1>0. /\ at \in [Caller \cup {"init"} -> Label] /\ call \in [Caller -> Calls]
      /\ CallInv(t) /\ KeptInv /\ SwapInv /\ Caller = {"engine", "dummy"}
      /\ devices \subseteq Engines
  BY DEF PresentSpec, ThreadSpec, DisplayType, PresentInv, Caller
<1>1. /\ UNCHANGED <<swap, saver>> /\ at[t] = "forward"
      /\ at'[t] \in {"idle", "destroy"}
      /\ kept' = IF t = "engine" THEN call[t].pp ELSE kept
      /\ devices' = devices \cup ({call[t].dev} \cap Engines)
  BY <1>0 DEF Forward, Goes, msaaVars
<1>2. \A u \in Caller : u # t => Still(u)
  BY OthersStill DEF PresentSpec, ThreadSpec
<1>3. \A u \in Caller : CallInv(u)'
  <2>1. CallInv(t)'
    BY <1>1 DEF CallInv, InCall
  <2> QED
    BY <1>2, <2>1, StillStep
<1>4. CASE t = "engine"
  <2>1. /\ call[t].dev \in Engines /\ OneSwap(call[t].pp, call[t].dev)
        /\ call[t].dev = "loader" => "game" \notin devices
    BY <1>0, <1>1, <1>4 DEF KeptInv, CallInv, InCall
  <2>2. InUse' = call[t].dev
    BY <1>1, <2>1 DEF InUse, Engines
  <2>3. ASSUME NEW pp, NEW d, pp = call[t].pp, d = call[t].dev, OneSwap(pp, d)
        PROVE  OneSwap(pp, d)'
    <3>1. pp \in Params /\ d \in Device
      BY <1>0, <2>3 DEF Calls
    <3> QED
      BY <2>3, <3>1, OneSwapStays DEF OneStep, PresentSpec, ThreadSpec
  <2>4. OneSwap(kept, InUse)'
    BY <1>1, <1>4, <2>1, <2>2, <2>3 DEF OneSwap
  <2>5. at'["engine"] \notin InCall /\ Still("dummy")
    BY <1>0, <1>1, <1>2, <1>4 DEF InCall
  <2>6. KeptInv'
    BY <1>0, <2>4, <2>5 DEF KeptInv, Still
  <2> QED
    BY <1>0, <1>1, <1>3, <2>6 DEF PresentInv, SwapInv
<1>5. CASE t = "dummy"
  <2>1. call[t].dev = "dummy"
    BY <1>0, <1>1, <1>5 DEF KeptInv, InCall
  <2>2. UNCHANGED <<kept, devices>>
    BY <1>0, <1>1, <1>5, <2>1 DEF Engines
  <2>3. at'["dummy"] \notin InCall /\ Still("engine")
    BY <1>0, <1>1, <1>2, <1>5 DEF InCall
  <2>4. devices' # {} => OneSwap(kept, InUse)'
    BY <2>2, KeptSwap
  <2>5. KeptInv'
    BY <1>0, <2>2, <2>3, <2>4 DEF KeptInv, Still
  <2> QED
    BY <1>0, <1>1, <1>3, <2>5 DEF PresentInv, SwapInv
<1> QED
  BY <1>0, <1>4, <1>5

LEMMA EntersStep ==
    ASSUME PresentSpec, OneStep, EngineCreates \/ EngineResets \/ DummyCreates
    PROVE  PresentInv'
<1>0. /\ at \in [Caller \cup {"init"} -> Label] /\ call \in [Caller -> Calls]
      /\ KeptInv /\ SwapInv /\ Caller = {"engine", "dummy"}
      /\ devices \subseteq Engines /\ kept \in Params
  BY DEF PresentSpec, ThreadSpec, DisplayType, PresentInv, Caller
<1>1. UNCHANGED <<swap, saver>>
  BY DEF EngineCreates, EngineResets, DummyCreates, msaaVars
<1>2. \A d \in Device : Fresh(d).swap = Wanted[d] /\ Fresh(d) \in Params
  BY ParamsFacts DEF Fresh
<1>3. ASSUME NEW t \in Caller, NEW d \in Device, NEW kind \in {"create", "reset"},
             NEW pp \in Params, Enters(t, d, kind, pp), OneSwap(pp, d)
      PROVE  CallInv(t)' /\ call'[t].dev = d /\ at'[t] = "rewrite"
  <2>1. OneSwap(pp, d)'
    BY <1>3, OneSwapStays DEF OneStep, PresentSpec, ThreadSpec
  <2>2. /\ at'[t] = "rewrite" /\ call'[t].pp = pp /\ call'[t].dev = d
        /\ call'[t].made = "no"
    BY <1>0, <1>3 DEF Enters, Goes, CallOf
  <2>3. OneSwap(call[t].pp, call[t].dev)'
    BY <2>1, <2>2 DEF OneSwap
  <2> QED
    BY <2>2, <2>3 DEF CallInv
<1>4. ASSUME EngineCreates
      PROVE  PresentInv'
  <2> DEFINE d == IF devices = {} THEN "loader" ELSE "game"
  <2>1. /\ d \in Device /\ d \in Engines /\ "game" \notin devices
        /\ devices # {} => d = "game"
        /\ OneSwap(Fresh(d), d)
    BY <1>0, <1>2, <1>4 DEF EngineCreates, Device, Engines, OneSwap
  <2>2. CASE hook = "on"
    <3>1. Enters("engine", d, "create", Fresh(d)) /\ UNCHANGED <<devices, kept>>
      BY <1>4, <2>2 DEF EngineCreates
    <3> HIDE DEF d
    <3>2. CallInv("engine")' /\ call'["engine"].dev = d
      BY <1>0, <1>2, <1>3, <2>1, <3>1
    <3>3. Still("dummy")
      BY <1>0, <3>1 DEF Enters, Goes, Still
    <3>4. KeptInv'
      BY <1>0, <2>1, <3>1, <3>2, <3>3, KeptSwap DEF KeptInv, Still
    <3> QED
      BY <1>0, <1>1, <3>2, <3>3, <3>4, StillStep DEF PresentInv, SwapInv
  <2>3. CASE hook # "on"
    <3>1. /\ devices' = devices \cup {d} /\ kept' = Fresh(d)
          /\ UNCHANGED <<at, call>> /\ at["engine"] = "idle"
      BY <1>4, <2>3 DEF EngineCreates
    <3>2. InUse' = d
      BY <1>0, <2>1, <3>1 DEF InUse, Engines
    <3> HIDE DEF d
    <3>3. ASSUME NEW pp, NEW e, pp = Fresh(d), e = d
          PROVE  OneSwap(pp, e)'
      BY <1>2, <2>1, <3>3, OneSwapStays DEF OneStep, PresentSpec, ThreadSpec
    <3>4. OneSwap(kept, InUse)'
      BY <3>1, <3>2, <3>3 DEF OneSwap
    <3>5. KeptInv'
      BY <1>0, <3>1, <3>4 DEF KeptInv, InCall
    <3> QED
      BY <1>0, <1>1, <3>1, <3>5, StillStep DEF PresentInv, SwapInv, Still
  <2> QED
    BY <2>2, <2>3
<1>5. ASSUME EngineResets
      PROVE  PresentInv'
  <2>1. PICK pp \in {kept, Fresh(InUse)} : Enters("engine", InUse, "reset", pp)
    BY <1>5 DEF EngineResets
  <2>2. /\ InUse \in Engines /\ InUse \in Device /\ devices # {}
        /\ InUse = "loader" => "game" \notin devices
        /\ UNCHANGED <<kept, devices>>
    BY <1>5 DEF EngineResets, InUse, Engines, Device, systemVars
  <2>3. pp \in Params /\ OneSwap(pp, InUse)
    BY <1>0, <1>2, <2>2 DEF KeptInv, OneSwap
  <2> DEFINE d == InUse
  <2> HIDE DEF d
  <2>4. CallInv("engine")' /\ call'["engine"].dev = d
    BY <1>0, <1>3, <2>1, <2>2, <2>3 DEF d
  <2>5. Still("dummy")
    BY <1>0, <2>1 DEF Enters, Goes, Still
  <2>6. KeptInv'
    BY <1>0, <2>2, <2>4, <2>5, KeptSwap DEF KeptInv, Still, d
  <2> QED
    BY <1>0, <1>1, <2>4, <2>5, <2>6, StillStep DEF PresentInv, SwapInv
<1>6. ASSUME DummyCreates
      PROVE  PresentInv'
  <2>1. UNCHANGED <<kept, devices>>
    BY <1>6 DEF DummyCreates, systemVars
  <2>2. CASE hook = "on"
    <3>1. Enters("dummy", "dummy", "create", Fresh("dummy"))
      BY <1>6, <2>2 DEF DummyCreates
    <3>2. OneSwap(Fresh("dummy"), "dummy") /\ "dummy" \in Device
      BY <1>2 DEF OneSwap, Device
    <3>3. CallInv("dummy")' /\ call'["dummy"].dev = "dummy"
      BY <1>0, <1>2, <1>3, <3>1, <3>2
    <3>4. Still("engine")
      BY <1>0, <3>1 DEF Enters, Goes, Still
    <3>5. KeptInv'
      BY <1>0, <2>1, <3>3, <3>4, KeptSwap DEF KeptInv, Still
    <3> QED
      BY <1>0, <1>1, <3>3, <3>4, <3>5, StillStep DEF PresentInv, SwapInv
  <2>3. CASE hook # "on"
    <3>1. Goes("dummy", "destroy") /\ call' = call
      BY <1>6, <2>3 DEF DummyCreates
    <3>2. \A t \in Caller : at'[t] = at[t] \/ at'[t] \notin InCall
      BY <1>0, <3>1 DEF Goes, InCall
    <3> QED
      BY <1>1, <2>1, <3>1, <3>2, NoCallStep
  <2> QED
    BY <2>2, <2>3
<1> QED
  BY <1>4, <1>5, <1>6

\* The steps that are nobody's call.
LEMMA QuietStep ==
    ASSUME PresentSpec, OneStep,
           \/ LoadIni \/ Spawn \/ InstallDefaults
           \/ \E t \in Caller : Direct3DCreate9(t) \/ HookCreateDevice(t)
           \/ EngineResizes \/ EndScene \/ Menu
           \/ CreateHidden \/ DestroyHidden \/ Arm
           \/ UNCHANGED displayVars
    PROVE  PresentInv'
<1>0. at \in [Caller \cup {"init"} -> Label] /\ Caller = {"engine", "dummy"}
  BY DEF PresentSpec, ThreadSpec, DisplayType, Caller
<1>1. UNCHANGED <<call, swap, saver, kept, devices>>
  BY DEF LoadIni, Spawn, InstallDefaults, Direct3DCreate9, HookCreateDevice,
         EngineResizes, EndScene, Menu, CreateHidden, DestroyHidden, Arm, displayVars,
         msaaVars, systemVars
<1>2. \A t \in Caller : at'[t] = at[t] \/ at'[t] \notin InCall
  BY <1>0
     DEF LoadIni, Spawn, InstallDefaults, Direct3DCreate9, HookCreateDevice, HasD3d,
         EngineResizes, EndScene, OnEndSceneTick, Menu, CreateHidden, DestroyHidden,
         Arm, displayVars,
         Goes, InCall
<1> QED
  BY <1>1, <1>2, NoCallStep

LEMMA PresentBegins ==
    ASSUME at = Start, devices = {}, swap = "none"
    PROVE  PresentInv
<1>1. \A t \in Caller : at[t] \notin InCall
  BY DEF Start, Caller, InCall
<1> QED
  BY <1>1 DEF PresentInv, SwapInv, KeptInv, CallInv, Caller, InCall

LEMMA PresentStep ==
    ASSUME PresentSpec, [DisplayNext]_displayVars
    PROVE  PresentInv'
<1>1. CASE Relaunch
  <2>1. at' = Start /\ devices' = {} /\ swap' = "none"
    BY <1>1 DEF Relaunch
  <2>2. \A t \in Caller : at'[t] \notin InCall
    BY <2>1 DEF Start, Caller, InCall
  <2> QED
    BY <2>1, <2>2 DEF PresentInv, SwapInv, KeptInv, CallInv, Caller, InCall
<1>2. CASE ~Relaunch
  <2>1. OneStep
    BY <1>2 DEF OneStep
  <2> QED
    BY <1>2, <2>1, PresentEarlyStep, PresentLookStep, PresentApplyStep,
       PresentForwardStep, EntersStep, QuietStep
       DEF DisplayNext
<1> QED
  BY <1>1, <1>2

\* apply_to_pp leaves present parameters that the card takes, whichever thread's
\* call saved the swap effect.  Without MSAA it gives a device the effect back
\* that the engine wants for it, if the device whose effect was saved was to have
\* the same; of another device nothing is said, and it may keep DISCARD.
THEOREM CardAccepts == DisplaySpec => []PresentIsSound
<1>1. DisplayInit => PresentInv
  BY PresentBegins DEF DisplayInit
<1>2. ThreadSpec /\ PresentInv /\ [DisplayNext]_displayVars => PresentInv'
  BY PresentStep DEF PresentSpec
<1>3. PresentInv => PresentIsSound
  BY DEF PresentInv, CallInv, Checked, Accepted, PresentIsSound, DeviceAccepts,
         SwapGivenBack, Made
<1> QED
  BY <1>1, <1>2, <1>3, ThreadsAlways, PTL DEF DisplaySpec
=============================================================================
