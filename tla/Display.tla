------------------------------ MODULE Display ------------------------------
(***************************************************************************)
(* Window mode, MSAA and the hooks of Direct3D they live in.               *)
(*                                                                         *)
(* Three threads run from the start of the process.  The engine creates a  *)
(* device for its loader and one for the game, draws, and resets.  The     *)
(* init thread reads the setting and starts the third one, which creates   *)
(* a device of its own on a hidden window, because that shows where        *)
(* EndScene and Reset are.  Each CreateDevice, the mod's own included,     *)
(* goes through the same hook, if that is in place by then.                *)
(*                                                                         *)
(* The setting and the snow flag are keys of the file that also holds the  *)
(* aspect and sprite rules, which is written as a whole.                   *)
(***************************************************************************)
EXTENDS Integers

CONSTANTS
    EnforceFrames,  \* how long a window is held at its size: 300 frames
    Supported,      \* sample counts the card can do in each display mode
    Wanted,         \* the swap effect that each device is asked for with
    MaxEdits,       \* bound: uses of the menu
    MaxLaunches     \* bound: starts of the process

Caller == {"engine", "dummy"}
Engines == {"loader", "game"}           \* the devices of the engine
Device == Engines \cup {"dummy"}        \* and the window each is for
Swap == {"discard", "flip"}
Setting == {"window", "snow"}
Counts == {2, 4, 8, 16}                 \* that the menu offers
MostSamples == 16

ASSUME CardAssumption == Supported \in [{"window", "full"} -> SUBSET Counts]
ASSUME WantedAssumption == Wanted \in [Device -> Swap]
ASSUME DisplayBounds ==
    EnforceFrames \in Nat \ {0} /\ {MaxEdits, MaxLaunches} \subseteq Nat

VARIABLES
    mode,       \* -mtrasi-keep-dxresolution is absent ("plain"), alone
                \* ("keep"), or with a -dxresolution ("pinned")
    \* the file
    rules,      \* it has the section of the aspect rules
    saved,      \* its keys of the two settings: "on", "off" or "absent"
    \* the process
    at,         \* what each thread does next
    early,      \* Direct3DCreate9 is hooked
    hook,       \* CreateDevice: "none", "claimed", "on", or "dead"
    armed,      \* which of EndScene and Reset are hooked
    call,       \* the CreateDevice or Reset each is in
    enabled,    \* g_enabled of windowmode: "on" or "off"
    enforce,    \* g_enforce_frames
    styled,     \* g_last_styled
    msaa,       \* g_enabled of msaa
    count,      \* g_sample_count
    swap,       \* g_saved_swap_effect, "none" if it is not valid
    snowing,    \* the command line has -letitsnow: "on" or "off"
    \* the engine and the system
    windows,    \* the windows there are
    fits,       \* those whose client area has the size that was asked for
    devices,    \* the devices the engine has created
    kept,       \* the present parameters it has of the newest
    edits, launches,
    \* history
    saver,      \* whose swap effect has been saved
    since,      \* frames since the game's window was placed
    chosen,     \* what the user last chose
    wiped,      \* the choices lost in a save of the rules since
    untouched   \* neither happened in this process

fileVars == <<rules, saved>>
hookVars == <<early, hook, armed>>
windowVars == <<enabled, enforce, styled>>
msaaVars == <<msaa, count, swap, saver>>
systemVars == <<windows, fits, devices, kept>>
boundVars == <<edits, launches>>
choiceVars == <<chosen, wiped, untouched>>
fixedVars == <<mode, snowing>>
displayVars == <<fixedVars, fileVars, at, hookVars, call, windowVars,
                 msaaVars, systemVars, boundVars, since, choiceVars>>

Default == [k \in Setting |-> IF k = "window" THEN "on" ELSE "off"]
Read(k) == IF saved[k] = "absent" THEN Default[k] ELSE saved[k]
Other(v) == IF v = "on" THEN "off" ELSE "on"

Fresh(d) ==
    [display |-> IF d = "dummy" THEN "window" ELSE "full",
     swap |-> Wanted[d], samples |-> 0]
CallOf(d, kind, pp) ==
    [dev |-> d, kind |-> kind, pp |-> pp,
     found |-> "none",  \* the swap effect that msaa had saved
     made |-> "no"]     \* msaa has seen pp, and was "on" or "off"
NoCall == CallOf("loader", "create", Fresh("loader"))
Over == EnforceFrames + 1

\* What a process begins with.
Start == [t \in Caller \cup {"init"} |->
            CASE t = "engine" -> "create9" [] t = "init" -> "load" [] OTHER -> "wait"]

DisplayInit ==
    /\ mode \in {"plain", "keep", "pinned"}
    /\ rules = FALSE /\ saved = [k \in Setting |-> "absent"]
    /\ chosen = Default /\ wiped = {}
    /\ edits = 0 /\ launches = 1
    /\ at = Start /\ early \in BOOLEAN /\ hook = "none" /\ armed = {}
    /\ call = [t \in Caller |-> NoCall]
    /\ enabled = "on" /\ enforce = 0 /\ styled = "nobody"
    /\ msaa = TRUE /\ count = MostSamples /\ swap = "none" /\ saver = "nobody"
    /\ snowing = "off"
    /\ windows = {"loader", "game"} /\ fits = {} /\ devices = {}
    /\ kept = Fresh("loader") /\ since = Over /\ untouched = TRUE

Goes(t, label) == at' = [at EXCEPT ![t] = label]

-----------------------------------------------------------------------------
(* The file.                                                               *)

Writes(k, v) == saved' = [saved EXCEPT ![k] = v] /\ UNCHANGED rules

\* ui_aspect_rules::save_to_ini begins with an empty file.
SaveRules ==
    /\ rules' = TRUE /\ saved' = [k \in Setting |-> "absent"]
    /\ wiped' = Setting /\ untouched' = FALSE /\ UNCHANGED chosen

-----------------------------------------------------------------------------
(* The init thread.                                                        *)

NoFile == ~rules /\ \A k \in Setting : saved[k] = "absent"

\* windowmode::load_ini.
LoadIni ==
    /\ at["init"] = "load" /\ Goes("init", "spawn")
    /\ IF NoFile THEN Writes("window", enabled) /\ UNCHANGED enabled
       ELSE enabled' = Read("window") /\ UNCHANGED fileVars
    /\ UNCHANGED <<fixedVars, hookVars, call, enforce, styled, msaaVars,
                   systemVars, boundVars, since, choiceVars>>

\* d3d9hook::install, then ui_aspect_rules::install_defaults.
Spawn ==
    /\ at["init"] = "spawn"
    /\ \E dummy \in {"create9", "done"} :
         at' = [at EXCEPT !["init"] = "rules", !["dummy"] = dummy]
    /\ UNCHANGED <<fixedVars, fileVars, hookVars, call, windowVars,
                   msaaVars, systemVars, boundVars, since, choiceVars>>

InstallDefaults ==
    /\ at["init"] = "rules" /\ Goes("init", "done")
    /\ IF rules THEN UNCHANGED <<fileVars, choiceVars>> ELSE SaveRules
    /\ UNCHANGED <<fixedVars, hookVars, call, windowVars, msaaVars,
                   systemVars, boundVars, since>>

-----------------------------------------------------------------------------
(* hk_Direct3DCreate9 and hook_create_device_on_vtable, in either thread.  *)

HasD3d(t) == Goes(t, IF t = "engine" THEN "idle" ELSE "window")

\* The flag is taken first; who finds it taken does not wait for the hook.
Direct3DCreate9(t) ==
    /\ at[t] = "create9"
    /\ IF early /\ hook = "none"
       THEN hook' = "claimed" /\ Goes(t, "hook")
       ELSE HasD3d(t) /\ UNCHANGED hook
    /\ UNCHANGED <<fixedVars, fileVars, early, armed, call, windowVars,
                   msaaVars, systemVars, boundVars, since, choiceVars>>

\* The flag is given back if the hook cannot be created, and kept if it cannot
\* be enabled.
HookCreateDevice(t) ==
    /\ at[t] = "hook" /\ HasD3d(t)
    /\ hook' \in {"on", "none", "dead"}
    /\ UNCHANGED <<fixedVars, fileVars, early, armed, call, windowVars,
                   msaaVars, systemVars, boundVars, since, choiceVars>>

-----------------------------------------------------------------------------
(* hk_CreateDevice and hk_Reset.                                           *)

\* t is about to call CreateDevice or Reset with pp.
Enters(t, d, kind, pp) ==
    /\ call' = [call EXCEPT ![t] = CallOf(d, kind, pp)]
    /\ Goes(t, "rewrite")

\* do_rewrite: on a Reset the window is the one that pp names, if it does.
Rewritten(pp) == [pp EXCEPT !.display = "window"]
PlacedAt(w) == IF mode = "pinned" THEN fits \cup {w} ELSE fits \ {w}

Rewrite(t) ==
    /\ at[t] = "rewrite"
    /\ IF enabled = "off"
       THEN Goes(t, "msaa") /\ UNCHANGED <<call, fits, enforce>>
       ELSE /\ call' = [call EXCEPT ![t].pp = Rewritten(@)]
            /\ \/ /\ Goes(t, "remember") /\ fits' = PlacedAt(call[t].dev)
                  /\ enforce' = IF mode = "plain" THEN enforce ELSE EnforceFrames
               \/ /\ call[t].kind = "reset"
                  /\ Goes(t, "msaa") /\ UNCHANGED <<fits, enforce>>
    /\ UNCHANGED <<fixedVars, fileVars, hookVars, enabled, styled,
                   msaaVars, windows, devices, kept, boundVars, since,
                   choiceVars>>

Remember(t) ==
    /\ at[t] = "remember" /\ Goes(t, "msaa")
    /\ styled' = call[t].dev
    /\ since' = IF call[t].dev = "game" THEN 0 ELSE Over
    /\ UNCHANGED <<fixedVars, fileVars, hookVars, call, enabled, enforce,
                   msaaVars, systemVars, boundVars, choiceVars>>
\* msaa's saved swap effect is an ordinary variable: it is looked at and set
\* without a lock.  On a Reset, GetDirect3D may fail.
Look(t) ==
    /\ at[t] = "msaa"
    /\ \/ Goes(t, "apply") /\ call' = [call EXCEPT ![t].found = swap]
       \/ call[t].kind = "reset" /\ Goes(t, "forward") /\ UNCHANGED call
    /\ UNCHANGED <<fixedVars, fileVars, hookVars, windowVars, msaaVars,
                   systemVars, boundVars, since, choiceVars>>

\* pick_supported
Picked(display) ==
    LET can == {n \in Supported[display] : n <= count} \cup {0}
    IN CHOOSE n \in can : \A m \in can : m <= n

\* apply_to_pp, with the effect that is saved by then.
Multisampled(pp, s) ==
    LET n == Picked(pp.display)
    IN [pp EXCEPT !.samples = n, !.swap = IF n > 0 THEN "discard" ELSE @]
Plain(pp, s) ==
    [pp EXCEPT !.samples = 0, !.swap = IF @ = "discard" THEN s ELSE @]

SavesAlways(t) == TRUE
Saves(t) == call[t].found = "none"

Apply(t) ==
    /\ at[t] = "apply" /\ Goes(t, "forward")
    /\ LET pp == call[t].pp
       IN /\ swap' = IF Saves(t) THEN pp.swap ELSE swap
          /\ saver' = IF Saves(t) THEN call[t].dev ELSE saver
          /\ call' = [call EXCEPT
                        ![t].pp = IF msaa THEN Multisampled(@, swap') ELSE Plain(@, swap'),
                        ![t].made = IF msaa THEN "on" ELSE "off"]
    /\ UNCHANGED <<fixedVars, fileVars, hookVars, windowVars, msaa, count,
                   systemVars, boundVars, since, choiceVars>>

\* The caller's structure is the one that was changed.
Forward(t) ==
    /\ at[t] = "forward" /\ Goes(t, IF t = "engine" THEN "idle" ELSE "destroy")
    /\ kept' = IF t = "engine" THEN call[t].pp ELSE kept
    /\ devices' = devices \cup ({call[t].dev} \cap Engines)
    /\ call' = [call EXCEPT ![t] = NoCall]
    /\ UNCHANGED <<fixedVars, fileVars, hookVars, windowVars, msaaVars, windows,
                   fits, boundVars, since, choiceVars>>

-----------------------------------------------------------------------------
(* The engine.                                                             *)

EngineCreates ==
    /\ at["engine"] = "idle" /\ "game" \notin devices
    /\ LET d == IF devices = {} THEN "loader" ELSE "game"
       IN IF hook = "on"
          THEN Enters("engine", d, "create", Fresh(d)) /\ UNCHANGED <<devices, kept>>
          ELSE /\ devices' = devices \cup {d} /\ kept' = Fresh(d)
               /\ UNCHANGED <<at, call>>
    /\ UNCHANGED <<fixedVars, fileVars, hookVars, windowVars, msaaVars,
                   windows, fits, boundVars, since, choiceVars>>

\* The device in use, with the structure of the last call or one filled in anew.
InUse == IF "game" \in devices THEN "game" ELSE "loader"
EngineResets ==
    /\ at["engine"] = "idle" /\ "Reset" \in armed /\ devices # {}
    /\ \E pp \in {kept, Fresh(InUse)} : Enters("engine", InUse, "reset", pp)
    /\ UNCHANGED <<fixedVars, fileVars, hookVars, windowVars, msaaVars,
                   systemVars, boundVars, since, choiceVars>>

\* Somebody gives a window another size, or closes the loader's.
EngineResizes ==
    /\ at["engine"] = "idle"
    /\ \/ \E w \in fits : fits' = fits \ {w} /\ UNCHANGED windows
       \/ /\ "loader" \in devices \cap windows
          /\ windows' = windows \ {"loader"} /\ fits' = fits \ {"loader"}
    /\ UNCHANGED <<fixedVars, fileVars, at, hookVars, call, windowVars,
                   msaaVars, devices, kept, boundVars, since, choiceVars>>

\* on_end_scene_tick
EnforcedOnce == IF styled \in fits THEN 0 ELSE enforce - 1
Enforced == enforce - 1

\* GetClientRect may fail: the frame is counted, and its window is not looked at.
OnEndSceneTick ==
    LET holds == mode = "pinned" /\ styled \in windows
    IN \/ /\ enforce > 0 /\ holds /\ enforce' = Enforced
          /\ \/ Goes("engine", "menu") /\ fits' = fits \cup {styled}
             \/ Goes("engine", "unread") /\ UNCHANGED fits
       \/ /\ enforce > 0 => ~holds
          /\ enforce' = 0 /\ Goes("engine", "menu") /\ UNCHANGED fits

EndScene ==
    /\ at["engine"] = "idle" /\ devices # {} /\ "EndScene" \in armed
    /\ OnEndSceneTick
    /\ since' = IF since < Over THEN since + 1 ELSE Over
    /\ UNCHANGED <<fixedVars, fileVars, hookVars, call, enabled, styled,
                   msaaVars, windows, devices, kept, boundVars, choiceVars>>

-----------------------------------------------------------------------------
(* The menu.                                                               *)

Chooses(k, v) ==
    /\ chosen' = [chosen EXCEPT ![k] = v]
    /\ wiped' = wiped \ {k} /\ untouched' = FALSE

\* set_enabled saves at once.
SetEnabledUnsaved(v) == enabled' = v /\ UNCHANGED fileVars
SetEnabled(v) == enabled' = v /\ Writes("window", v)

EditWindow ==
    /\ SetEnabled(Other(enabled)) /\ Chooses("window", Other(enabled))
    /\ UNCHANGED <<msaa, count>>

\* The check box shows what is in the file; the command line is as it was.
EditSnow ==
    /\ Writes("snow", Other(Read("snow"))) /\ Chooses("snow", Other(Read("snow")))
    /\ UNCHANGED <<enabled, msaa, count>>

EditMsaa ==
    /\ \/ msaa' = ~msaa /\ UNCHANGED count
       \/ msaa /\ count' \in Counts /\ UNCHANGED msaa
    /\ UNCHANGED <<fileVars, enabled, choiceVars>>

EditRules == SaveRules /\ UNCHANGED <<enabled, msaa, count>>

Menu ==
    /\ at["engine"] \in {"menu", "unread"} /\ Goes("engine", "idle")
    /\ \/ UNCHANGED <<fileVars, enabled, msaa, count, edits, choiceVars>>
       \/ /\ edits < MaxEdits /\ edits' = edits + 1
          /\ EditWindow \/ EditSnow \/ EditMsaa \/ EditRules
    /\ UNCHANGED <<fixedVars, hookVars, call, enforce, styled, swap, saver,
                   systemVars, launches, since>>

-----------------------------------------------------------------------------
(* capture_vtables_and_hook.                                               *)

CreateHidden ==
    /\ at["dummy"] = "window"
    /\ \/ Goes("dummy", "create") /\ windows' = windows \cup {"dummy"}
       \/ Goes("dummy", "done") /\ UNCHANGED windows
    /\ UNCHANGED <<fixedVars, fileVars, hookVars, call, windowVars,
                   msaaVars, fits, devices, kept, boundVars, since,
                   choiceVars>>

DummyCreates ==
    /\ at["dummy"] = "create"
    /\ IF hook = "on" THEN Enters("dummy", "dummy", "create", Fresh("dummy"))
       ELSE Goes("dummy", "destroy") /\ UNCHANGED call
    /\ UNCHANGED <<fixedVars, fileVars, hookVars, windowVars, msaaVars,
                   systemVars, boundVars, since, choiceVars>>

\* Whether CreateDevice succeeded or not.
DestroyHidden ==
    /\ at["dummy"] = "destroy"
    /\ Goes("dummy", "arm") \/ Goes("dummy", "done")
    /\ windows' = windows \ {"dummy"} /\ fits' = fits \ {"dummy"}
    /\ UNCHANGED <<fixedVars, fileVars, hookVars, call, windowVars,
                   msaaVars, devices, kept, boundVars, since, choiceVars>>

Arm ==
    /\ at["dummy"] = "arm" /\ Goes("dummy", "done")
    /\ hook' \in IF hook = "none" THEN {"on", "none"} ELSE {hook}
    /\ armed' \in IF hook' = "none" THEN {{}}
                  ELSE {{}, {"EndScene"}, {"EndScene", "Reset"}}
    /\ UNCHANGED <<fixedVars, fileVars, early, call, windowVars, msaaVars,
                   systemVars, boundVars, since, choiceVars>>

-----------------------------------------------------------------------------
\* The process ends, however it does, and is started again.  The new one asks for
\* its command line before any of its threads runs: hk_GetCommandLineA reads the
\* snow flag then.
Relaunch ==
    /\ launches < MaxLaunches /\ launches' = launches + 1
    /\ snowing' = Read("snow")
    /\ at' = Start /\ early' \in BOOLEAN /\ hook' = "none" /\ armed' = {}
    /\ call' = [t \in Caller |-> NoCall]
    /\ enabled' = "on" /\ enforce' = 0 /\ styled' = "nobody"
    /\ msaa' = TRUE /\ count' = MostSamples /\ swap' = "none" /\ saver' = "nobody"
    /\ windows' = {"loader", "game"} /\ fits' = {} /\ devices' = {}
    /\ kept' = Fresh("loader") /\ since' = Over /\ untouched' = TRUE
    /\ UNCHANGED <<mode, fileVars, edits, chosen, wiped>>

DisplayNext ==
    \/ LoadIni \/ Spawn \/ InstallDefaults
    \/ \E t \in Caller : \/ Direct3DCreate9(t) \/ HookCreateDevice(t)
                        \/ Rewrite(t) \/ Remember(t)
                        \/ Look(t) \/ Apply(t) \/ Forward(t)
    \/ EngineCreates \/ EngineResets \/ EngineResizes \/ EndScene \/ Menu
    \/ CreateHidden \/ DummyCreates \/ DestroyHidden \/ Arm
    \/ Relaunch

DisplaySpec == DisplayInit /\ [][DisplayNext]_displayVars

-----------------------------------------------------------------------------
\* A window that is to be pinned keeps its size: for the first frames after the
\* game's device was created or reset each frame is drawn with the window as
\* wide and high as the command line asks, whatever the engine does to it in
\* between, unless its size cannot be read in that frame or the mod's own device
\* has been created since.
Pinned ==
    mode = "pinned" /\ at["engine"] = "menu" /\ since \in 1 .. EnforceFrames
        => "game" \in fits

\* After a restart both settings are what the user last chose, or the default
\* if a save of the rules has been made since he did.
Effect(k) == IF k = "window" THEN enabled ELSE snowing
SettingKept ==
    at["init"] # "load" /\ untouched =>
        \A k \in Setting : Effect(k) = IF k \in wiped THEN Default[k] ELSE chosen[k]

\* What the mod makes of present parameters is what the card takes: a count of
\* samples that it can do in the mode which the window code has chosen, and then
\* the one swap effect that goes with it.
Made(t) == at[t] = "forward" /\ call[t].made # "no"
DeviceAccepts ==
    \A t \in Caller : Made(t) /\ call[t].pp.samples > 0 =>
        /\ call[t].pp.swap = "discard"
        /\ call[t].pp.samples \in Supported[call[t].pp.display]

\* And once MSAA is off, each device gets the swap effect back that the engine
\* wants for it, if the one that was saved is no other.
SwapGivenBack ==
    \A t \in Caller :
        Made(t) /\ call[t].made = "off" /\ Wanted[saver] = Wanted[call[t].dev]
            => call[t].pp.swap = Wanted[call[t].dev]

PresentIsSound == DeviceAccepts /\ SwapGivenBack
=============================================================================
