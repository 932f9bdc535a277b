# MTR-ASI in TLA+

A verification project for `src/mtr-asi`, the DLL that adds co-op play, a
simulation throttle, interpolated rendering, a free camera, an editor for the
interface's sprites, a window mode with MSAA and a test harness to *Meet the Robinsons* (2007). The
modules model the parts of the DLL that keep state across threads, frames,
ticks, levels, restarts and network messages. TLC checks them on small
instances, and TLAPS proves the safety properties of the manager, the session,
the input routing, the spawn, the throttle, the time step, the camera's view,
the free camera, the two interpolation clients with the teleport over them, the
test harness, the sprite editor's settings and the index of its table, and the
display, and that the manager implements an abstract pose feed, for every value
of their constants.

All paths below are relative to `src/mtr-asi/` unless they say otherwise.

## The system

The DLL runs inside the game's process and hooks it. These threads matter:

* the **sim thread**, the engine's main thread. One *pump iteration* runs the
  hook of the simulation (`sim_decouple_throttle.cpp`), the simulation itself
  when the throttle lets it, rendering with `camera_apply`, and at EndScene the
  test harness, the free camera and the menu. Spawning, pulsing and sending the
  local pose all happen here;
* the **recv thread** of `NetSession`, which calls `on_remote_packet`;
* the **owner thread**, which installs the modules in `DllMain`'s worker and
  shuts them down;
* the **init thread**, which reads the window setting and installs modules, and
  the thread it starts to create a Direct3D device of the mod's own, while the
  engine creates its devices;
* short-lived or small ones: a worker and an engine pump for each direct load of
  a save slot, the low-level mouse hook, and whichever thread crashes.

| Component | State | Operations | Talks to |
|---|---|---|---|
| `MtrPlayerManager` | `m_players`, sidecar map `m_by_engine`, `m_peer_seen`, ids, `m_send_time_ctx`, lock `m_mu` | `register_local/remote`, `local`, `do_pulse`, `on_remote_packet`, `unregister` | spawn probe (call), `NetSession` (send, role), recv thread (callback) |
| `MtrRemotePlayer` | entity pointer, two pose snapshots, `last_time_ctx`, interp flag | `push_interp_snapshot_at`, `do_pulse`, `destroy_engine_entity_seh` | engine memory |
| `NetSession` | mode, socket, peer address and `m_peer_known`, stop flag, thread | `install`, `shutdown`, `recv_loop`, `send` | Winsock, the manager (callback) |
| spawn probe | last result, temporary hooks, breadcrumbs | `try_spawn_p2` | engine factory, registry mirror, manager |
| registry mirror | none | `mirror_engine_to_orphan` | the two entities' registries |
| vibrate route | none | `hook_vt13` | manager (lookup) |
| player registry and walker hook | two slots of entity pointers | `register_instance`, `player_idx_for`, `hook_walker` | wilbur factory, `controlmapper_dev` |
| `controlmapper_dev` | captured instance, `dev_p1`, `dev_p2` | `try_capture`, `swap_to_player` | the engine's ControlMapper |
| player interpolation (M4) | cached handle, `prev`, `curr`, saved pose | restore, capture, apply, toggle | engine memory, the order set by the orchestrator |
| NPC interpolation (M5) | 64 hashed slots of the same | restore, capture, apply, age-out, toggle | the same entities, M4's handle |
| simulation throttle | two accumulators, the rate, the flags *ran last iteration* and *ticked this frame* | `should_skip`, `hk_sim_aggregator`, the hooks of both pumps | interpolation, `do_pulse`, dt correctness |
| dt correctness | `flt_6FFCBC`, the clocks of the simulation, the render path and the alt pump | `write_for_sim_run`, `write_for_render_frame`, `write_for_alt_pump`, `set_enabled` | called by the throttle's hooks, read by the engine |
| camera interpolation | two camera snapshots, cut flag, dirty flag | `on_sim_tick_post`, `hk_camera_apply_all_active`, `current_alpha` | throttle (ticks, rate), view setter |
| free camera | flight, requests, cursor ownership; the teleport's hold | `poll_hotkey`, `tick`, `on_post_sim_aggregator`, `render_hold_tick` | menu, console, mouse hook, the interpolation's entities |
| sprite rules | 64 slots, index by texture, groups, waiting rules | `process_list`, `alloc_slot`, `specialize_slot`, setters, save and load | the engine's draw list, Picture tab, gizmo, the ini file |
| aspect rules | rules by screen name, dirty flag and debounce | `add_rule`, `sync_from_registry`, `resolve_aspect`, `flush_pending_save` | the screen registry, the sprite rules' part of the file |
| test harness | scenario, phase, watchdog, result file | `install`, `tick`, `request_shutdown` | screen mirror, injected keys, overlays, session, crash handler |
| save system | in-progress flag, the engine's save state | `load_slot` | a worker and a pump thread |
| window mode, MSAA, Direct3D hooks | the setting, frames left to enforce, the window last styled; MSAA's switch, count and saved swap effect; which hooks are in place | `do_rewrite`, `on_end_scene_tick`, `apply_to_pp`, `hk_CreateDevice`, `hk_Reset`, `hk_Direct3DCreate9`, `capture_vtables_and_hook`, `load_ini`, `set_enabled` | the engine's devices and windows, the menu, the ini file of the aspect rules |
| FPS limiter, overlays' drawing, probes, UI patches | their own | see `PROJECT.json` | the engine |

What makes it hard:

* `do_pulse` and `on_remote_packet` share the manager; the lock is given up
  between *is there a remote player?* and *register one*, and between taking a
  player out and destroying its entity.
* `NetSession` shares fields between three threads without a lock.
* The engine frees entities whenever it changes a level, tells nobody, and
  gives their addresses to other entities. Three components key their state by
  such addresses.
* UDP loses, repeats and reorders poses; `time_ctx` has 16 bits and wraps
  every 18 minutes at 60 Hz.
* A blend for the screen must never be seen by the simulation, through skipped
  ticks, replaced entities, faults and check boxes used between frames.
* A fault in engine code can unwind any of it (SEH).
* Two pumps alternate; hooks before the simulation ask about the iteration
  before, hooks after it about this one, and one variable carries the time step
  of all of them. Stalls, rates and modes change in between.
* The spawn probe changes engine functions for the time of one call, any step
  of which may fail or fault.
* Keys, mouse and focus change between any two steps of a frame.
* Three threads race through the same `CreateDevice` hook, which is not yet
  there for some of them, and share its variables without a lock. Two settings
  live in a file that another module rewrites whole.
* The sprite rules are found again after a restart that moves every texture,
  from a file that is written some time after the edit.
* The harness drives menus that lose keys, and must report whatever happens.

What makes each component correct, in a sentence: the manager has one wrapper
per player, its indexes agree, and each wrapper shows the peer's poses in the
peer's order; the session sends to its peer only, stops its thread and gives
back what it took; the input routing gives Wilbur's and the first orphan's walk
a device of its own and the engine its own device outside; the two interpolation clients leave the
simulation's memory as the simulation left it, and blend poses of one entity
only; the throttle gives the simulation the time that passes and no more; each
consumer is told the time that passed for it; the camera's view neither goes
back nor blends two shots; a spawn leaves nothing behind but a complete entity;
a teleported player is where he was put for the simulation and for the eye; a
flight serves only what was asked for in it; a rule changes the sprites it is
about, and no edit is lost; a harness run ends with one result, and a pass is
earned; the game's window keeps the size that was asked for, the card takes what
the mod makes of present parameters, and a choice outlives the process.

## The modules

| Module | Models | EXTENDS |
|---|---|---|
| `TimeCtx` | the modular order of `time_ctx` | |
| `PlayerManager` | manager, wrappers, the outcomes of the spawn probe, the engine's levels and allocator, the network and the peer as seen by one process | `TimeCtx` |
| `PoseFeed` | abstract: what a session promises about the peer's avatar | |
| `MCPlayerManager` | symmetry of addresses | `PlayerManager` |
| `NetSession` | one process's session with its three threads and Winsock | |
| `InterpFence` | M4, M5, the order of the pump iteration and the menu | |
| `TeleportHold` | the free camera's teleport and its hold, in M4's and M5's iteration | `InterpFence` |
| `MCTeleportHold` | entities with a hash bucket each; sessions in which the player stays, is replaced, or is gone for a while, with and without teleports | `TeleportHold` |
| `FreeCam` | the flight's switches and requests, and who owns the cursor | |
| `InputRouting` | registry, device capture and swap, walker hook | |
| `OrphanSpawn` | `try_spawn_p2` step by step, inside the routing; the mirror of the registry | `InputRouting` |
| `MCOrphanSpawn` | symmetry of addresses | `OrphanSpawn` |
| `SimThrottle` | the iteration of both pumps, the throttle's clocks and flags, the Performance tab | |
| `ThrottleBudget` | the throttle with a history of what it gives | `SimThrottle` |
| `DtCorrectness` | what is written to `flt_6FFCBC`, as additions to the throttle's steps | `SimThrottle` |
| `CameraView` | snapshots, cuts and the view, as additions to the throttle's steps | `SimThrottle` |
| `FramePump` | throttle, time step and camera in one pump | `DtCorrectness`, `CameraView` |
| `SpriteTable` | the table of sprite rules and the walk of the draw list | |
| `UiRules` | the aspect rules and the ini file | `SpriteTable` |
| `SpriteMenu` | the frame: Picture tab, picking, gizmo, debounce, restart | `UiRules` |
| `MCSpriteMenu` | two textures, one drawn in two ways, one by a widget | `SpriteMenu` |
| `GameMenus` | the engine's screen stack with its mirror, and injected keys | |
| `SaveLoad` | the direct load of a save slot | |
| `HarnessScenarios` | the scripts of the scenarios, with the overlays they test | `GameMenus` |
| `TestHarness` | start-up, tick, watchdog, result file, crash, exit | `HarnessScenarios`, `SaveLoad` |
| `MCTestHarness` | waits, lists of labels, scenarios | `TestHarness` |
| `Display` | window mode, MSAA and the hooks of Direct3D, from start to restart | |
| `MCDisplay` | a card that does fewer counts full-screen, devices with different swap effects | `Display` |
| `PlayerManager_proofs` | theorems about `TimeCtx` and `PlayerManager`, and that the manager implements `PoseFeed` | `PlayerManager` |
| `Screen_proofs` | theorems about `FreeCam` and `Display` | `FreeCam`, `Display` |
| `NetSession_proofs`, `TestHarness_proofs`, `SpriteMenu_proofs` | theorems and their proofs | the module they are about |
| `OrphanSpawn_proofs` | theorems about `InputRouting`, that the spawn implements it, and the spawn's own | `OrphanSpawn` |
| `Throttle_proofs` | theorems about `SimThrottle`, `ThrottleBudget` and `FramePump` | `FramePump`, `ThrottleBudget` |
| `TeleportHold_proofs` | theorems about `InterpFence` and `TeleportHold` | `TeleportHold` |

### TimeCtx and PlayerManager

`IsFresh(v, last)` is the test of `remote_player_manager.cpp:431-435`: the
difference modulo 2^16 is below 2^15. The modulus is the constant `CtxMod`, so
the wrap happens within a few poses.

Each section that the code runs under `m_mu` is one action, because nothing
else that uses the manager can run inside it. Between two sections `sim_pc` (or
`recv_pc`) has a label and the other thread may run:

| Code | Actions |
|---|---|
| `do_pulse` | `PulseBegin`, `SpawnCheck`, then `try_spawn_p2`, `Pulse`, `Emit` |
| `try_spawn_p2` | `SpawnFails` or `SpawnSucceeds`, `RegisterRemote`, `RegisterLocal` |
| `unregister` | `Unregister` (locked part), `DestroyEntity` (teardown) |
| `on_remote_packet` | `Receive` (stamps the datagram), `OnRemotePacket` (locked part) |
| Debug tab, *Run probe* | `RunProbe`, then the same spawn |
| engine | `LoadLevel`, `ToggleGameplay`, `UnloadLevel` |
| the other game | `PeerEmit` |

Wrappers are numbered in creation order. `m_players` only grows at its end, so
the first match of a scan is the smallest number. The network may deliver any
of the last `Lag` poses at any time, repeatedly, or never.

A write of `MtrRemotePlayer::do_pulse` to a freed entity is undefined: it may
fault (the wrapper loses its entity, `Faulted`), or land in whatever is there.
Both are in `Pulse`. `written` records where the last pulse wrote.

`RumblePasses(e)` is the decision of `coop_vibrate_route` for the owner `e`: a
lookup in the manager, with no state of its own.

`PoseFeed` is what a player sees of all this: at most one avatar of the peer,
each showing poses the peer has sent, never an older one after a newer. The
manager implements it under `sent <- peer_seq` and `feed <- ShownFeed`, the
latter the newest pose and the two snapshots of each Remote wrapper. A spawn is
`Appear`, an unregister `Disappear`, a datagram that is taken `Show`.

### NetSession

Every access to a shared field is a step. `install` runs before the other
threads exist, and is a step for each call it makes (`StartWinsock`,
`OpenSocket`, `Bind`, `StartThread`); each of them may fail and then undoes the
ones before it (`BindFails` and its like). Learning the peer is two steps
(`memcpy`, then the flag), and a datagram without content, which the code skips,
teaches nothing (`EmptyArrives`). Time is counted only for the bounded wait of
`shutdown`: a `Tick` is the 250 ms of `SO_RCVTIMEO`, and it passes only when
every running thread is blocked. `timeout_works` and `install_twice` are chosen
at the start and never change: whether `setsockopt` succeeded, whose failure
`install` calls non-fatal, and whether somebody calls `install` again.

### InterpFence

A pose is a pair `<<lo, hi>>` of tick numbers: `<<t, t>>` is what tick `t`
left, `<<p, c>>` is a blend of two poses. That tells a blend from a real pose
and says how old it is; nothing else of a transform matters here. `real` is a
history variable: what the simulation last wrote. `pc` walks through the pump
iteration in the order of `hk_sim_aggregator` and `camera_apply`. The slot
table has its hash, linear probe, age-out and fault paths; the table walk uses
the handle M4 has just refreshed, as the code does. `session`, chosen at the
start, says which entities there are, how the player changes and whether the
check boxes are used.

### TeleportHold and FreeCam

`TeleportHold` puts the writes of `freecam.cpp` between the steps of
`InterpFence`: `HoldRestore` and `HoldSim` (the skip bit that makes the engine
pass over the player's node), `OnPostSim` after the tick and before the capture,
`HoldRender` (`render_hold_tick`), `CameraTick` and `HoldMenu`. Place `k` of a
teleport is the stamp `Spot(k)`, told apart from every tick of the engine; the
position of the model is a place and the frames it has fallen since.

`FreeCam` is the order in a frame: the engine's camera pass, `Poll` (menu),
`Hotkey`, `Tick`, `Draw` (console and menu). `down`, `front` and `centred`
belong to the user and the system and change between any two of these;
`TurnWheel` runs on the mouse hook's thread. `asked`, `wheeled`, `anchor`,
`refocused` and `shown` are history variables. The constants are finite without
any bound.

### InputRouting

`frames` is the stack of activations of `hook_walker`, because one entity's
walk may run another's. A frame remembers the index it looked up at its start,
as the local variable of the hook does, and its return (or the unwinding of a
fault) uses that index. `orphans` are the live ones: the *Run probe*
button may build a second while the first lives. The registry has two slots, so
that one has no index and reads the hardware. `first` and `buried` are history
variables: the first orphan that was built, and whether a player entity has been
freed.

### OrphanSpawn

`try_spawn_p2` runs on the sim thread, so `spawn_pc` freezes the rest of
`InputRouting` while it lasts.

| Code | Actions |
|---|---|
| gates, clearing of the breadcrumbs | `GateFails`, `Begin` |
| `install_probe_hooks` and `cleanup_on_fail` | `PlaceHook`, `HookFails` |
| the engine's way through the factory, with the hooks | `RegistryLookup`, `Construct`, `BagMerge`, `TransformSetup`, `ActorInit`, `RegisterInScene`, `PostInit`, or `FactoryFaults` in any of them |
| `uninstall_hooks` and the result | `UninstallHooks`, `TearDown` |
| `attach_engine_cm_to_orphan` | `AttachMapper` |
| `coop_registry_mirror` | `MirrorKey`, `MissKey`, `MirrorFaults`, `HandOver` |

`mirror_on` and `by_slot` are chosen at the start: the command line's switch,
and whether slots of the source's hash table can be used, without which the
mirror falls back to the name's hash. `reached` and `missed` are history.

### SimThrottle, ThrottleBudget, DtCorrectness, CameraView and FramePump

`now` is `QueryPerformanceCounter`; it moves before an iteration (by a member of
`Gaps`) and while the simulation runs. `pc` walks through an iteration in the
order the engine calls the hooked functions: simulation, camera, render path,
EndScene and, in the main pump, the post-render sweep.

| Code | Definitions |
|---|---|
| `should_skip` | `Due` and `Advanced`, for the simulation's clock and the path camera's |
| `effective_is_throttling_impl`, `subsystem_throttles_active` | `EffectiveThrottling`, `SubsystemThrottles` |
| `hk_sim_aggregator` | `SimSkip`, or `SimRun` with `WriteForSimRun` and `OnSimTickPost` |
| `hk_timer_wheel_pretick` and the other alt hooks | `AltPump` with `WriteForAltPump` |
| `hk_camera_apply_all_active` | `Camera` with `WriteForRenderFrame` and `CameraApply` |
| overlay, UV, particle and path camera hooks | `Render`, `VisualsMove`, `ParticlesMove`, `RenderReads` |
| `hk_EndScene` and `tab_performance.cpp` | `EndScene`, `Menu`, `SetEnabled` |

`ThrottleBudget` adds a leaky bucket: each throttled tick pours a period in,
and real time drains it. `DtCorrectness` adds, for each kind of consumer, when
it last read a real-time step and the sum of time minus steps since; it is zero
if the consumer runs at the clock's speed. In `CameraView` a snapshot is its
age in ticks and its shot, and the place of the view between two ticks is
counted in parts of a period, so that it stays an integer. The clamp, the mixed
step for particles and the restoring of the vanilla step are in the writers.

### SpriteTable, UiRules and SpriteMenu

The table with its index, groups and waiting rules is one record, and so are
the settings with the file, because an edit of the tab is a composition of
several calls: `Put`, `Edit`, `Loaded` and the setters are operators from
one record to the next. A sprite is told apart by its state key (the address of
its texture), its look, screen and widget. `BestMatch` is the scoring of
`process_list`; `ProcessList` is its walk with evictions and pinning.

| Code | Definitions |
|---|---|
| `process_list` | `AfterSprite` for each sprite (`BestMatch`, `SeenBy`, `TryPath`, `TakeWidgetRules`), `Listed`, `ProcessList` |
| `alloc_slot`, `find_or_create_wildcard`, `specialize_slot` | `AllocSlot`, `WithWildcard`, `Specialized` |
| setters, `remove_slot`, group deltas | `SetTransformAt` and its like, `SetTransforms`, `RemoveSlot`, `MoveGroup` |
| saving and loading of slots | `SavedSlots`, `Loaded`, `LoadedSlots` |
| `tab_picture.cpp`, by row, group and table | `RowEdits`, `GroupEdits`, `TableEdits`, `EditTable` |
| its aspect rules | `RuleEdits`, `EditRules`, `RestoreDefaults`, `Toggle` |
| `menu.cpp` 860-1030 | `Handles`, `Target`, `DragStart`, `DragMove`, `DragEnd`, `RightClickReset`, `Pick` |
| `flush_pending_save`, process end and start | `EndScene`, `DebounceOver`, `Restart` |

A frame is `ProcessList`, then one use of the tab or of the mouse (`EndScene`). `Restart`
reads the file and finds the textures at other addresses (`Placings`).

A button or check box changes something and asks for a save in one step, as its
branch of the code does. The sliders, *Move group*, the text of a rule's pattern
and the nudge change something in every frame in which they are moved
(`LiveEdit`, `held`) and ask for a save only in the frame in which they are let
go (`LetGo`). If Insert closes the menu in between, or the row goes elsewhere,
nobody asks (`LoseControl`). The text of a slot's name or group counts when it is
left, so change and mark are one step there (`tab_picture.cpp:785-815`). A save
whose file cannot be opened leaves the mark (`Flushed`).

### GameMenus, SaveLoad, HarnessScenarios and TestHarness

`GameMenus` has the engine's screen stack and `screen_push`'s mirror of it,
which keeps 16 names (`MaxDepth`). The menus themselves are the engine's; they
are modelled from what the harness expects of them, with keys that may be lost
because the engine polls when it likes and looks only for changes.

Each scenario of `test_harness.cpp` has its operators in `HarnessScenarios`, one
per phase, and `Frame` in `TestHarness` runs the one that was asked for, or the
watchdog. A wait is counted in frames only where the code waits; "every N
frames" is any frame. Writing the result is two steps, so that a crash can come
between opening the file and finishing it. The crash handler writes its
sentinel only where there is no file. A file that cannot be opened is not written
(`lost` says which result was not), and the user may close the window at any
time, which ends the process in an orderly way (`UserCloses`, `"leaving"` and
`"left"`), as *hold-at-menu* expects of him.

`SaveLoad` is `save_system::load_slot` with one worker per click, the pump
thread it starts, the shared done flag and result, and the wait of ten seconds
that may run out in any state of the pump.

### Display

Each thread has its next step in `at`: the engine's, the init thread's and the
*dummy*, which creates the mod's own device. `call` is the `CreateDevice` or
`Reset` a thread is in, with the present parameters as they stand; a hooked call
is five steps, because another thread may pass through the same variables
between any two of them. `hook` is `"claimed"` between taking the flag and
enabling the hook. A window is in `fits` while its client area has the size that
was asked for, which the engine or the user may undo at any time; in a
frame in which its size cannot be read (`"unread"`), nobody looks.

| Code | Definitions |
|---|---|
| `windowmode::load_ini`, `d3d9hook::install`, `ui_aspect_rules::install_defaults` | `LoadIni`, `Spawn`, `InstallDefaults` |
| `hk_Direct3DCreate9`, `hook_create_device_on_vtable` | `Direct3DCreate9`, `HookCreateDevice` |
| `do_rewrite` | `Rewrite`, `Remember` |
| `apply_to_pp`, `pick_supported` | `Look`, `Apply`, `Picked`, `Multisampled`, `Plain` |
| `hk_CreateDevice`, `hk_Reset` after that | `Forward` |
| `capture_vtables_and_hook` | `CreateHidden`, `DummyCreates`, `DestroyHidden`, `Arm` |
| `hk_EndScene`, `on_end_scene_tick` | `EndScene` |
| the tabs: `set_enabled`, snow, MSAA, aspect rules | `Menu`, `EditWindow`, `EditSnow`, `EditMsaa`, `EditRules` |
| the process again, with `cmdline_hook` | `Relaunch` |

`since`, `saver`, `chosen`, `wiped` and `untouched` are history variables.

## The runs

Passing runs:

| Run | What it shows |
|---|---|
| `pm_lifecycle` | A host through level changes, disconnects and a bad network: the manager implements `PoseFeed` (`ShowsFeed`), and no newer pose is turned away (`FreshPoseTaken`). |
| `pm_avatar` | With the probe button as well, no entity of the factory is ever without an owner (`NoLeakedOrphan`) or rumbles the local pad (`RumbleIsLocal`), and a peer that has been heard gets an avatar (`PeerGetsAvatar`). |
| `net_session` | Both roles, a failure at every step of `install`, two senders and datagrams without content, a shutdown at any moment, with and without a working receive timeout and a second `install`: `SendsToFirstSender`, `RecvThreadStopped` (which needs the timeout), `NoWinsockLeak`, `ShutdownReturns`. |
| `teleport` | Five sessions of two interpolation clients. Without a teleport, two NPCs and a player that comes and goes, and a player that is replaced at once while check boxes are used: the simulation never reads a blend (`FenceStands`), no blend mixes two player entities (`PlayerBlendsOneEntity`), NPC blends stay recent (`NpcBlendIsRecent`). With teleports and a player who stays while check boxes are used, is replaced, or is gone for a while: the simulation finds him where he was put (`HoldReachesSim`), and so does the picture (`HeldInView`). |
| `freecam` | Flights, menu, console, mouse and focus in any order: no request of an earlier flight is served (`NothingLeftOver`), the view turns only by what the mouse moved (`LookIsMeasured`). |
| `input_session` | Levels, capture at any moment, nested walks, faults, and an orphan built hook by hook: the device always comes back (`DeviceRestored`), Wilbur and the first orphan read the right one until a player entity dies (`RightDeviceAtFirst`), no hook of the probe outlives the attempt (`EngineUnhooked`), and a kept orphan answers like `engine_wilbur` (`OrphanComplete`). |
| `throttle` | Both pumps at any pace, with stalls, and the menu: no burst of ticks above the drift cap (`BurstBounded`), the alt pump's consumers keep the ticks' cadence (`AltOncePerTick`), particles and overlays move together (`VisualsMoveTogether`). |
| `frame` | The whole pump: each consumer is told the time that passed (`RealTimePace`), no blend of two shots (`NoBlendAcrossCut`), the picture never goes back (`ViewNeverRewinds`). |
| `sprites` | Tab, gizmo and drawing on a table that is full at once, saves, the debounce and a restart: the index is right (`IndexAgrees`), an edit is marked until it is written, unless its control is still held or was lost (`EditsAreMarked`), and found again, as long as no other texture is drawn by the same widget (`WholeTextureSurvives`), drawing changes no rule's effect unless it takes a rule of the file (`WalkKeepsLooks`), the gizmo changes only what the slot it ends on matches, and as long as a variant can be made that slot is not a whole texture's (`GizmoEditsOneVariant`), and added screens change no screen that has a rule (`SyncKeepsMatches`). |
| `harness` | All ten scenarios and an unknown one, over menus that lose keys, with crashes, the watchdog, a window that the user closes, files that cannot be opened and direct loads by two workers in the scenario that only holds: there is a result unless the user left or its file could not be opened (`HarnessReports`), it stays (`ResultIsFinal`), the LAN soak passes only untouched (`LanPassIsSilent`), the slot that was loaded is not saved over but by the watchdog's way out or the user's (`SlotIsSpared`), and a load's success is its own (`SuccessIsOwn`). |
| `display` | Two starts of the process with every command line, every outcome of the hooks, the three devices in any order, resets, resized windows and the menu: the game's window keeps its size while it is being held and its size can be read (`Pinned`), the settings are the user's after a restart (`SettingKept`), and the card takes what is made of present parameters, which have their own swap effect again once MSAA is off, if the device whose effect was saved wanted the same (`PresentIsSound`). |

One run ends in a violation, a disagreement of the code with its own comment
(`remote_player.h:98`, a Local player owns its pose):

| Run | What happens |
|---|---|
| `pm_localpose` | The next level's Wilbur is built at the old orphan's address; the Remote wrapper, which nobody unregistered, writes the peer's pose into the local player. |

Each property has a mutant in `PROJECT.json`: a bug of the kind one would write
in that place, under which the same run finds the property violated.

Type invariants are not among the runs' properties. Those of `PlayerManager`,
`NetSession`, `InputRouting`, `ThrottleBudget` and `FramePump` are proved; the
other proofs carry the types they need in their inductive invariants.

### Other disagreements met while modelling

They follow from the modelled code and are listed for a reader of it; no run
is kept for them.

* `remote_player.h:118` says the first packet with any value in 0..32767
  passes. `IsFresh(32767, 0xFFFF)` is false: the difference is 32768.
* `remote_player.cpp:91` says a wrapper heals after a fault through a fresh
  registration. The dead wrapper stays in `m_players`, so `has_remote` holds
  and no new avatar is built; if the probe button builds one, `by_player_id`
  still finds the dead wrapper first.
* `remote_player_manager.h:8` says `register_local` wraps Wilbur as player 0.
  Outside a session with `-mtrasi-coop-keep-orphan`, the orphan is registered
  first and takes id 0.
* `net_session.h:114` says `peer_known` is true once a valid datagram was
  accepted. A client sets it at `install`, a host for the first datagram with any
  content, before that is parsed.
* `net_session.h:93` calls `install` idempotent. A second call's `bind` fails
  and leaves `m_mode` at Disabled while the first socket and thread go on.
* `unregister_instance` has no caller: after a level change the registry still
  lists the dead Wilbur, so the new one is index 1, his walk reads the idle
  clone, and later entities are nobody (`RightDeviceAtFirst` ends there).
* Two NPCs in one bucket of M5: age-out empties the first slot of a probe
  chain (`interp_npc.cpp:72`), the second entity gets a second slot, and the two
  restore in the wrong order.
* `RumbleIsLocal` is stated for one level: after a level change a stale Remote
  entry at the new Wilbur's address silences his rumble, and a stale Local one
  at the new orphan's makes `register_remote` return the Local wrapper.
* With `SO_RCVTIMEO` not set, `shutdown` can return while the recv thread is
  still in `recvfrom` (`RecvThreadStopped` needs `timeout_works`).
* `interp_player.cpp:11` promises that a replaced player clears the
  snapshots. One that is missing for a lookup first does not
  (`changes |-> "gap"`), and during the ten captures before the handle is
  refreshed M5 captures the new player too (`"swap"` with long `Refresh`).
  `PlayerBlendsOneEntity` excepts the first; `SimReadsClean` (of which
  `FenceStands` says that it holds until somebody teleports) and `NpcBlendIsRecent`
  are stated without a second player and of NPCs for the second.
* The same slot of M5, or one left from a time when M4 was off, makes both
  clients write into the player in one frame. M4 saves first and M5 saves M4's
  blend; both restore in the order they wrote in, so the simulation reads M4's
  blend. Only a proof attempt showed this for the hold (`BothWrite`).
* `remote_player_manager.h:112` wants the map entry gone with its wrapper, but
  `unregister` erases by the entity pointer, which a fault has set to null
  (`remote_player_manager.cpp:480`). Nothing calls `unregister` at this commit.
* `interp_npc.cpp:203` restores the pending poses when M5 is switched off, but
  the flag that the restore asks was cleared at line 198, so it does nothing.
* `dt_correctness.h:68` says `Off` reverts to the vanilla step, and the menu
  (`tab_performance.cpp:102`) that it writes nothing. `compute_render_dt_scale`
  makes it 1.0, so it writes the real step (`dt_correctness.cpp:119,515`).
* `dt_correctness.h:59` says that the render path's step advances only on
  ticked frames in the lock mode. The code writes it on every frame, as the
  comment in the code at `dt_correctness.cpp:339` explains.
* `sim_decouple_throttle.cpp:455` wants visual subsystems to advance only with
  ticks in the lock mode. The path camera has a clock of its own and may
  advance between two ticks.

* `coop_spawn_probe.cpp:33` calls its exception handler one-shot; it logs 32
  exceptions (line 426). Attaching the ControlMapper may fail and the orphan is
  registered all the same.
* The mirror's fallback to the hash gives two keys of one hash the same cell
  (`coop_registry_mirror.cpp:183`); `OrphanComplete` is stated for lookups by slot. A
  slot of the source without storage is inserted and not copied.
* Free camera: a hold setting of 0 does not end a running hold, which then
  pulls a new teleport back to the older place (`freecam.cpp:421-427`). Without
  a hold, M4's restore undoes a teleport. Switching M5 off in a hold leaves a
  blend (`unfenced` in `HoldReachesSim`). A hold survives a level change and
  moves the new level's player. Look uses the foreground window without asking
  whether it is the game's, so a change of focus jumps (`refocused`).
* `test_harness.cpp:838` has *menu-nav-smoke* count changes of steps 1-4 only;
  a change in the settle frames counts too. `drive_to_gameplay` says gameplay "has
  held" for a number of frames (lines 1028-1029); it is asked once, at their
  start. *load-save-1* passes also when `try_spawn_p2` returned false (1323).
  The watchdog closes the window in every scenario (1757), although gameplay
  exits are to spare slot 1 (1771): `SlotIsSpared` excepts it. What the engine does
  when the user closes the window is his own wish, and is excepted too.
* `save_system`: after the time-out a second load may take the abandoned pump's
  done flag (`late` in `SuccessIsOwn`). The screen mirror stops at 16 names and
  is wrong after the pops that follow.
* `menu.cpp:1228` says that shutdown writes what the debounce holds; `DllMain`
  calls it only for `FreeLibrary` (`dllmain.cpp:244`), so leaving the game within
  1500 ms of an edit loses it. `menu.cpp:721` says about 250 ms. A drag that is
  ended with Esc is not marked, nor is what a slider, a pattern or the nudge has
  changed when Insert closes the menu (line 716) before it is let go, although it
  is in force (`dropped` in `EditsAreMarked`).
* `menu.cpp:872` says that specialising a concrete slot returns the same index;
  `specialize_slot` has no such test, and its search for an existing variant
  (`sprite_xform.cpp:1518`) leaves out the slot's own pattern, so twins arise.
* `menu.cpp:870` promises to edit "only THIS sprite". It edits the texture's
  wildcard in place when the table is full of touched slots, or when the slot was
  just loaded and has met no sprite (`CanFork`). In a full table of untouched
  slots `alloc_slot` may evict the parent itself: the variant is then empty, the
  edit is lost, and the drag goes on in that slot number, which the next walk may
  give to the wildcard of the same texture or to another one (`DragMove` in
  `GizmoEditsOneVariant` says what is left: what the slot matches by then).
* The sprite file has slots only: rules still waiting for their texture are
  lost by the next save, two rules of one path collapse into one, and a slot
  without a path is saved under an address of this run. Rules that have a widget's
  name are saved and found by that name alone, which `sprite_xform.cpp:313-315`
  calls more specific than the path: when one widget draws two textures, the next
  start gives both rules to the first of them that it meets, the last rule
  stays, and the other texture has none (`Alone` excepts it).
* `tab_picture.cpp:409` says live transforms do not persist, and line 421 that
  wildcards do not; both do. Line 1262 says auto-sync is on by default; it is
  off (`ui_aspect_rules.cpp:208`). *Restore defaults* with an empty table
  reloads the saved file.
* The dummy's device, if it is created after the engine's, makes the hidden
  window the one last styled, and enforcing stops when it is destroyed;
  `windowmode.h:94-98` promises the pin "regardless of what the engine attempts"
  (`Pinned` is stated until that happens).
* The keys of `[windowmode]` and `[Boot]` are lost whenever the aspect rules are
  saved, which opens the file with `"wb"` (`ui_aspect_rules.cpp:405`) and happens
  at the first start; `windowmode.h:41`, `tab_picture.cpp:256` and
  `tab_world.cpp:227` say that they persist (`wiped` in `SettingKept`).
* `dllmain.cpp:47-51` says that the order of installation does not race the
  device's creation. The early hook of `Direct3DCreate9` is there before the
  init thread has read the setting, so a device may be made windowed although
  the file says off.
* `hook_create_device_on_vtable` says it returns true if the hook is active
  (`d3d9_hook.cpp:82`). It also does while another thread is between claiming and
  enabling it.
* `msaa.cpp:133` restores the swap effect "only if we previously overrode it".
  What it has saved is that of the first call, whoever's (`SwapGivenBack` asks
  that the two are the same).
* `hk_ShowWindow` acts on every window, not on the managed one (`windowmode.cpp:429`),
  and the window procedure passes `WM_ACTIVATEAPP` on with another parameter
  although line 579 says it is swallowed. After switching off, the structure the
  engine keeps is still windowed, so that a reset is not "verbatim" (`windowmode.h:37`).

### Bounds

* `pm_lifecycle`: 3 addresses (Wilbur, an orphan, a free one to reuse), 4
  wrappers (two generations of both players), `CtxMod = 4` with 4 poses of the
  peer, which wraps the counter, and `Lag = 2`, the largest delay for which the
  half-counter argument holds.
* `pm_avatar` has no level changes: `NoLeakedOrphan` speaks of one level,
  because the engine frees every entity with it. Two poses suffice, since only
  the first one matters.
* `net_session`: three datagrams with content from two senders (the first one, one from
  somebody else, and a later one). `WaitMax = 8` is the real 2000 ms;
  `CallbackMax = 2` is the wait for `m_mu`. One install call or two.
* `teleport`: four slots; `AgeOut` and `Refresh` are scaled to 1 and 2, so slots
  age out and handles refresh within the run; each entity has a bucket of its
  own. Without teleports, two NPCs and one player for six ticks without the check
  boxes, and one NPC and two players for four ticks with them. With teleports, two
  player entities, three ticks, two places, holds of up to two ticks: a hold that
  begins, goes on and ends, and one that replaces another.
* `freecam`: two windows, and none; everything else is finite as it is.
* `input_session`: three addresses and one other entity (so that an old
  registration, a reused address and an overflow all happen), three nested
  walks. Four keys: the ControlMapper, one wider than a resource, and two that
  share a hash.
* `sprites`: two slots for two textures that the same widget draws, one of them
  also without the widget and with another look, so variants compete for the table and evict; two frames with at most
  one sprite drawn in each, two edits, one restart that swaps the addresses.
  Two aspect rules for one screen, which its own name and one built-in pattern
  match and an empty pattern does not.
* `harness`: waits of two or three frames in the order of the code's, keys that
  stay down for two polls, a mirror of four names under a stack of up to five,
  two polls of the second controller, two workers.
* `throttle`: a frequency of 12 and rates of 6 and 3 give periods of 2 and 4
  and a drift cap of 6. A gap of 9 is a stall above the cap at either rate, 1
  is less than a period, 2 equal to one. 24 counts hold a stall, the catching
  up after it and a change of rate; two uses of the menu switch the throttle on
  and change one more thing.
* `frame`: the same rates, gaps of 1, 3 and 8, a clamp of 1 to 4 counts, so
  that stalls are clamped and frames are not. 11 counts hold up to ten
  frames, enough for two snapshots, a cut between them, frames without a tick and
  one change of mode. Steps and positions only ever depend on the last reading
  of each clock; the proofs are for any number of frames.

* `display`: two frames of enforcement for 300, so that a window is held, held
  again by a reset, and released; a card that does 2 and 16 samples in a window
  and 2 full-screen; the game's device alone wants another swap effect; two
  uses of the menu and two launches. 7.9 million states in about 80 s.

`CHECK_DEADLOCK FALSE` stands where the system stops: after `shutdown`
(`NetSession`), at the end of the process (`TestHarness`), at the bound on ticks
(`InterpFence`, `TeleportHold`) and at the bound on the counter (`SimThrottle`
and what extends it); and once the launches are used up, where
no EndScene hook was placed and nothing resizes a window any more (`Display`).

### Fairness

* `LiveSpec` of `PlayerManager`: the sim thread keeps ticking (weak fairness
  of `do_pulse`, the spawn's steps and the teardown), which is the engine's
  main loop. Strong fairness of `PulseBegin /\ InGameplay` says that when the
  engine is in gameplay again and again, some tick begins there; gameplay lasts
  for many ticks. Strong fairness of `SpawnSucceeds` says the factory does not
  fail for ever. Nothing is assumed of the network, the user or the engine's
  levels, and the property has the premise that gameplay recurs.
* `LiveSpec` of `NetSession`: the steps of `shutdown`, the running of the recv
  thread outside `recvfrom`, and time. No fairness for a datagram or an error
  to arrive: `recvfrom` may never return by itself.
* `LiveSpec` of `TestHarness`: weak fairness of `Install` (start-up ends),
  `Frame` (frames are drawn while the process lives), `FinishWrite` (a write
  that was begun ends) and `Expire` (time passes). Nothing is assumed of the
  menus, the keys or the peer: the result comes from the watchdog if from
  nowhere else. That a file cannot be opened and that the user closes the window
  are outcomes of their own in `HarnessReports`; `run-test.ps1:257-259` handles an
  exit without a result.

## The proofs

Each theorem has the form `Spec => []Inv` (or `Spec => [][A]_vars`), from the
named `ASSUME`s of the module. The `Init`/`Next` induction is over an
invariant stronger than the property:

| Theorem | Inductive invariant, and why it is needed |
|---|---|
| `PlayerManager_proofs!FreshIffNewer` | none: arithmetic of the modulus. For poses less than half the counter apart the test accepts exactly the newer one. |
| `PlayerManager_proofs!Typing` | `TypeOK` with the room kept for a spawn's two wrappers. |
| `AtMostOneRemote` | between `check` and the registration no Remote wrapper exists (`SpawnInv`): only do_pulse spawns, and it is not re-entrant. Assumes no probe button. |
| `SidecarComplete` | the map alone, since register adds to both. |
| `PosesStayRemote` | `WrapperInv`: ids follow roles in a session. |
| `SnapshotsOrdered`, `NoStalePoseEver`, `FreshPoseAlwaysTaken` | `PoseInv`: `last_time_ctx` is the wire value of `last_seq`, and a datagram in the recv thread's hands is less than half the counter behind it (`RecvInv`). That holds because there is one recv thread and the network delays by less than `Lag <= HalfCtx` sends. |
| `OrphansKeepOwners` | `LeakInv`: what is allocated and not yet registered is in `spawned`. Assumes no level change. |
| `RumbleStaysLocal` | a live orphan outside a spawn is the entity of a Remote wrapper, and only of one; `engine_wilbur` never is. Assumes no level change. |
| `SessionImplementsFeed` | the initial state maps to `FeedInit`, and each action to `Send`, `Appear`, `Disappear`, `Show`, `Blank` or a stutter; it rests on `SpawnInv` (one avatar), `WrapperInv` and `PoseInv` (order). Assumes no probe button. |
| `NetSession_proofs!Typing`, `WinsockGivenBack`, `StoppedInTime`, `OnlyToFirstSender` | `ResourceInv` and `WsaInv` tie fields to what Winsock holds; `WaitInv` bounds how far the recv thread can be from its end at each tick waited; `AddressInv` says the flag is set only after the copy. `WinsockGivenBack` assumes a single `install`; `StoppedInTime` a working timeout and a callback shorter than the wait. |
| `OrphanSpawn_proofs!Typing`, `DeviceGivenBack`, `DevicesMatchPlayers` | only the outermost frame can be a player's, so the device is a function of that frame (`DeviceInv`); before anything died, slot 0 is Wilbur's and slot 1 the first orphan's (`RegistryInv`). |
| `Throttle_proofs!BudgetTyping`, `ClocksStayBehind` | `ClockInv`: the clocks only ever move to a time that has been read; a clock that is a period or more behind stays behind when it moves by one. `RateAssumption` (a period is at least one count and at most the drift cap) is what the slider's limits 15 and 480 give. |
| `NoBurst` | `BurstInv`: what the bucket holds is bounded by the lag the simulation's clock may still make up, which is at most the drift cap. |
| `AltKeepsUp` | `LeadInv`: the lead is known from the flag *ran last iteration*. |
| `FlagsAgree` | `FlagInv`: between the simulation's hook and EndScene the two flags agree, since a run sets both and a skip clears the one while EndScene has cleared the other; a frame without a run is a throttled one. |
| `Throttle_proofs!FrameIsThrottled` | every step is a step of the throttle or leaves it alone, so what is proved of it holds for the whole pump. |
| `EachAtItsPace`, `OffIsVanilla` | `PaceInv`: the clock of each place is where its consumers last read; for the render path, which reads later than the camera writes, the step is still the camera's. |
| `Throttle_proofs!Typing`, `NoBlend`, `NeverRewinds` | `ViewInv`: the ages of the snapshots follow from the dirty flag, the cut flag is about the two that are there (`SnapInv`), and what is on the screen is no later than the next frame can be (`ShownInv`). |
| `SpawnIsRouting` | `AttemptInv`: an attempt runs outside every walk, and what it built is alive until it has been handed over or destroyed, so each step is `SpawnOrphan`, `DestroyOrphan` or invisible. With it `DeviceGivenBack` and `DevicesMatchPlayers` hold of the spawn too. |
| `HooksTakenBack`, `TrailsAreOwn` | `HookInv`: inside the factory all hooks are there, after it none; `TrailInv`: the sentinels are cleared before the first hook, and then each function with a hook leaves its mark. |
| `OrphansAreComplete` | `CellInv`: nothing is in the registry before the attach; where entries point to slots a key not yet mirrored has no cell, but for the Mapper's, so the cell made for it has its size. Assumes that the Mapper's name shares its hash with no other (`KeyAssumption`). |
| `Screen_proofs!FlightServesItsOwn`, `LooksAreMeasured`, `CursorIsLeft` | `CamInv`: a request whose flight did not serve it meets a tick without a flight, or F3 is still down, before the next flight can begin (`RequestInv`, `WheelInv`; `FirstInv` for the first tick, which serves nothing); an offset that counts is one from the window the cursor was centred in (`LookInv`); and a window that `ui_visible` misses has been opened after the last frame was drawn (`UiInv`). |
| `SettingsComeBack` | `SettingInv`: whatever a thread is about to do, the file reads as what the user last chose, or as the default where a save of the rules came in between; the menu cannot be used before the setting has been read (`ThreadInv`). |
| `PinnedWhileAsked` | `PinInv`: as long as the game's window was placed less than `EnforceFrames` frames ago and no other since, there are frames left to enforce and it is the window last styled; each frame then styles it or cannot read it. |
| `CardAccepts` | `PresentInv`: from the moment the dummy is done and an effect is saved nobody saves another (`Settled`). Only then can MSAA be off, because the menu needs the hooks that the dummy puts in place (`ThreadInv`); so parameters still have the effect wanted for their device, `DISCARD`, or the one that is saved for good (`OneSwap`), in each call and in what the engine keeps. |
| `TeleportHold_proofs!BlendsOne`, `InView` | `WhoInv`: a snapshot that is kept is of the entity the handle points to; `ViewInv`: a hold's model was put back no more than one frame ago. |
| `ReadsClean`, `StandsUntilTeleport`, `ReachesSim` | `Fence(e, pose)`: at each point of the iteration, either `e` holds `pose` and nothing pending will write over it, or what is pending restores `pose`. It is kept for every listed entity (`CleanInv`) by the clients alone and, while nobody has teleported, with the free camera between their steps, and for the teleported player with the place he was put (`HoldInv`). |
| `BlendsRecent` | `RecentInv`: a slot last captured at M5's count `c` holds the pose of tick `c + Lag`, where `Lag` is how many ticks M5 has not counted; age-out bounds the rest. |
| `FenceSpread`, `ReachesSimSpread` | an entity's slot is its own bucket (`AtHome`). |
| `TestHarness_proofs!Final`, `Spared` | `FileInv`: while the file is open for the result the phase is the last one; `SpareInv`: gameplay ends with the process, but for the watchdog and the user who closes the window. |
| `OwnSuccess` | `SaveInv`: one worker is inside `load_slot` at a time, and it waits for the pump it started. |
| `LanPass` | `SoakInv`, over the menus (`MenuInv`: the mirror is the stack's lower part, a level that was not loaded was begun as a new game) and the polls counted since the soak's baseline (`PollInv`). |
| `SpriteMenu_proofs!Marked` | `SettingsInv`: the settings have their types and the file is there; each call an edit is composed of keeps the file and the mark (`Keeps`), and marks what it changes (`Marks`), or is made by a control that is held until it marks or is lost. |
| `IndexIsRight` | `SpriteInv`: the index is the inverse of the slots' keys, and a slot that was never edited shows nothing (`TableOk`, `Sound`), which each operator of the table keeps and each turn of the walk and of the load (`ListedOk`, `LoadedSlotsOk`); and every slot in the file has a key (`SlotsOk`), since a start fills the table from it. |
| `LooksKept` | from `SpriteInv`. A sprite shows the same in two tables that differ only in slots that do not match it or are untouched wildcards (`SameShown`), because those give way to every other (`KeenIsBest`); what may be evicted is such a slot (`EvictedQuiet`). Each part of the walk is `Calm`: it is an edit or changes no sprite. |
| `GizmoForks` | the same of a variant (`MadeShows`) and of the edit in it (`TransformShows`), and which slot `specialize_slot` gives back (`ForkIs`): a twin or a variant is narrower than its texture, unless the parent was evicted for it. |
| `Survives` | from `SpriteInv`. In the table that a start loads each saved slot waits exactly once, by its widget or by its path (`WaitingAll`). The only slot that can match the sprite is the wildcard made for it (`Single`); of what waits, just what was saved of its texture fits its widget and path (`TakeWidgetSets`, `TryPathSets`), so after its first sight it does what the saved slot did (`WaitingDoes`), whatever its address is now. |
| `KeepsMatches` | `Behind(t, s)`: `t` has the rules of `s` in their places, and those behind them match no screen that the former do. Every step of the program by itself gives such a `t`. |

`ReadsClean`, `StandsUntilTeleport`, `ReachesSim` and `BlendsRecent` assume that no entity owns two
slots of M5 (`OneSlotEach`), which the code does not guarantee when two entities
share a bucket (`interp_npc.cpp:72`, above); `FenceSpread` and `ReachesSimSpread`
show that it does when they do not. The runs are of that kind.

Where the code loops over a list (M5's walk, the seeding of aspect rules, the
walk of the draw list, the slots of the file, the rules that wait for a sprite), the model has a recursive function. That the function is defined at every index, and
what it keeps, is proved without an induction scheme: the set of indexes where it
fails has a least element (`NatSet`, from the library's `NatLessThanWellFounded`
and `WFMin`), which contradicts the step (`LoopKeeps`, `LoopExists`, `LoopIn`).

Proved and not repeated by a run: `OneRemote`, `PosesGoToRemote`,
`PosesInOrder`, `NoStalePose` (which `ShowsFeed` shows in another form),
`ClocksBehindNow`, `VanillaWhenDisabled`, `MapComplete`, `CursorLeftToUi`,
`TrailIsOwn` and the type invariants.

Only model-checked: liveness (`PeerGetsAvatar`, `ShutdownReturns`,
`HarnessReports`), which is out of the prover's reach. Every other property of a
run is stated by a theorem.

## What is assumed

* The engine is modelled from how the code uses it: its allocator reuses
  addresses, its factory passes the hooked functions in the order of the
  breadcrumbs' numbers, its menus do what the harness expects of them and lose
  keys, and its save pump may answer late, fault or hang.
* The permanent hooks of the spawn probe were installed at start-up, and the
  first write of the ini file, at start-up, succeeds.
* Polls of the keyboard are not synchronised with frames.
* A race on a variable that the code declares atomic yields one of the values
  written.

## Not modelled

`PROJECT.json` names every component with its status. Left out because they
keep no state that a protocol depends on: drawing and matrices, probes and
dumps, the log, dual launch (a mutex that is renamed), most of `cmdline_hook` and
`level_select` (a value handed over once), `aspect_patch`, `sprite_split` and
`sprite_probe` (patched or recorded numbers). The FPS limiter is a loop around
the clock. Of window mode and the Direct3D hooks, the hooks of
`ChangeDisplaySettings`, `ShowWindow` and the window procedure, window styles and
monitor sizes, the draw hooks and an engine whose `CreateDevice` fails are left out. Inside modelled components, what is left out
is said in their notes.

## Plan

1. `CoopSession`: two managers and two sessions, host and client, with restart
   of one peer (the wrapper keeps `last_time_ctx`, the host keeps the old
   address), implementing two `PoseFeed`s between restarts.
2. `InterpFence` with a full slot table and shared buckets; composition with the
   manager, whose pulse writes the orphan after M5 has captured it.
3. The blend factor of `MtrRemotePlayer::do_pulse` and the halo fix, both on top
   of `FramePump`; the FPS limiter, which decides `Gaps`.
