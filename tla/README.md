# Specifications of Doom-on-EchoVR

TLA+ modules, TLC models and TLAPS proofs for the code in this repository: the
tablet mods of Echo VR (disc trainer, music page, Doom page), the helper
processes they talk to, and the tools that put them into a game folder and take
them out again.

Contents

1. [The system](#1-the-system): components, state, operations, interactions
2. [The modules](#2-the-modules) and how they correspond to the code
3. [The runs](#3-the-runs): what each shows, bounds, fairness
4. [What the runs found](#4-what-the-runs-found)
5. [The proofs](#5-the-proofs)
6. [What is only model-checked, and what is not modelled](#6-limits)
7. [The plan](#7-the-plan)

Run a model with `tlc -config X.cfg M`, check a proof with `tlapm M_proof.tla`.
`PROJECT.json` maps every definition to the source lines it stands for, and
lists components, runs, hazards, findings, theorems, and for every checked
property a variant of the code that breaks it (the operators commented "Bug
variant of ...", which no specification uses).

## 1. The system

Echo loads our DLL as a script. The DLL hooks a handful of engine functions,
draws pages on the tablet the player wears, and talks to two helper processes
over shared memory. PowerShell and Python scripts build and install the files.

```
            Echo VR process                                helper processes
 +--------------------------------------------+
 | engine callbacks                           |   ring, snapshot, mutex
 |   canvas load/unload, button update,       |<=======================> MusicWorker.exe -> Windows
 |   script update/destroy, press/release     |                          media sessions
 |      |                                     |   keys, heartbeat,
 |      v                                     |   frames, mutex
 | runtime.cpp (one lock)                     |<=======================> DoomWorker.exe
 |   pages and buttons -- goalie trainer      |                          (doomgeneric)
 +--------------------------------------------+
        ^ files
        |
 Install.ps1 + manifest_merge, echovr_patch.py, publish_installer.py
```

| Component | State it keeps | Operations | Properties that make it correct |
|---|---|---|---|
| Music command ring (`TabletMusic/native/shared.h`, `client.h`, `worker.cpp`) | head, tail, 16 slots in shared memory | start, press; worker: drain, take, advance, apply, die | no accepted press lost, doubled, reordered or overwritten; presses are served |
| Music snapshot (same files) | text under a named mutex, numbers written one by one, an update counter; the client's cached copy | poll, publishText, volume command, snapshot, start | the text is of one poll, no older than its counter, never of a dead worker; it catches up |
| Music text and progress (`client.h`) | none | musicClamp, musicFilled, friendlyName, volumeKey, the age of a heartbeat | whole characters, bars inside their segments, what a stamp of fixed width can tell |
| Tablet pages (`runtime.cpp`, `policy.h`) | per tablet: page, canvases by kind, masked buttons; held keys; fault flag; heartbeat | canvas load/unload, button update before/after the original, dispatch, fail | no dangling canvas, disable bits and list agree, nothing held that is up, hidden content can come back, a fault gives the stock tablet back |
| Goalie trainer (`runtime.cpp`, `policy.h`, `cut_redirect.h`) | session and deadline, controller, disc, phase, redirect | script updates, script destroy, two buttons, fail | writes only inside a session, never over a flight; no dangling script; a session ends |
| Runtime hooks, script wrapper (`runtime.cpp`, `wrapper.cpp`) | enabled hooks, bound kinds, tracked script contexts, the lock, loaded wrappers | setup_bindings, initialize, BindTrainer, update, destroy, dispatch, the SEH barrier | no context is used after it is destroyed; hooks keep their code; every script is discovered |
| Doom link (`TabletDoom/native`) | keys, heartbeat, frame counter and pixels in shared memory, a named mutex; worker's key queue | open, close, touch, draw; worker: sample, pause, draw frame, die | keys follow, a pause releases them, pictures are whole and the living worker's, a closed page pauses, an open page starts |
| doomgeneric | a vendored game engine | - | - |
| Installer (`Install.ps1`) | files of the game folder, pending files, backups, state file | install, upgrade, rollback, restore | restore and rollback are exact; nothing of the game or of other tools is lost |
| Manifest merger (`manifest_merge.cpp`) | tables of a manifest and package | merge | every entry leads to its content, others are left alone |
| Published installer (`publish_installer.py`) | what of an upgrade is still to be done | verify, restore, install | an upgrade is refused at none of its actions |
| Packaging (`package_native.py`) | none | copy and hash | - |
| Patch tool (`echovr_patch.py`) | game manifest, backup, packages, output folders | build, bundle, verify, install, uninstall | an install leaves what verify looked at as it should be, and everything if the patch is fresh; the backup is the stock manifest, uninstall restores |
| Canvas editor, page builders (`canvas_edit.py`, ...) | none | offline edits of binary resources | offsets and counts agree |

**What is hard here.** Two processes share memory with no lock but a named
mutex, and either may die anywhere. Everything in the game process runs inside
callbacks of an engine that frees the objects it handed out. A trainer's shot
spans hundreds of ticks between which discs, controllers and matches come and
go. Installers are sequences of file operations of which any may fail or be the
last. Every hazard found is in `PROJECT.json` at the line where it bites, with
the property that would catch it, or with the reason why none does yet.

## 2. The modules

### CommandQueue, MusicRing (with MCMusicRing, MusicRing_proof)

`CommandQueue` is the promise: a bounded first-in first-out queue with one
server that may go away, taking what waits with it; a new session starts empty.
`MusicRing` is the code: every interlocked access of `MusicClient::command`
(`Press`, `WriteSlot`, `WriteTail`), `start` (`Start`) and the worker's drain
loop (`Drain`, `Take`, `Advance`, `Apply`, `Poll`) is a step, and `Die` may come
at any of them. `Press` reads tail and head in one step: only the client writes
tail, and a head that grows after the read only leaves more room than it saw.
`Start` resets the counters but not the slots, and only if no worker lives, as
`start()` does. The counters are unbounded naturals here; in the code they are
32-bit and 16 divides 2^32, so a wrap does not move the slots.

The refinement mapping reads the ring from the oldest slot not yet taken to
`tail`, with the command in the worker's hand in front. In `Take` the slot is
already empty while head still counts it; hence `OldestInRing`.

### MusicSnapshot (with MCMusicSnapshot, MusicSnapshot_proof)

One poll gathers a reading (`Gather`), publishes the text under the mutex
(`LockText`, two copies, `ReleaseText`), writes the numbers one by one in the
order of `poll()` and counts (`Count`). `snapshot()` reads the counter, tries
the mutex only if it moved, copies, files the counter and reads the numbers in
its own order. `SetVolume` is `apply()` writing the volume between two polls. A poll
may throw after it has begun. Text is the number of the poll it came from, in two halves. The
mutex is Windows': recursive for its owner, handed over with `WAIT_ABANDONED`
after a death, which neither side's code takes for an acquisition. The worker's
wait may end in a timeout whenever the client owns the mutex; the client's waits
zero milliseconds.

### PageMath (with MCMusicSnapshot, MusicSnapshot_proof)

The functions of the pages that have no state: `Clamp` and `Limit` are
`musicClamp()`, `Filled` is `musicFilled()`, `Fresh` and `Focused` are how the
music worker (signed difference) and the Doom worker (unsigned) judge a heartbeat.
A byte is "first" or "next" of a character; numbers have the width `Half`.

### TabletPages (with MCTabletPages, TabletPages_proof)

The engine side is part of the module: canvases load and unload, buttons are
created, freed and reused between the two halves of a button update, and
somebody else may own a button's disable bit. Our side is the canvas hooks, the
button hook before and after the original (`gate`, `render`, the retry of
canvases that could not be filed), `dispatch` for the page buttons and `fail`,
which may strike in the middle of a pool. `remember()` goes on with the canvas linked
to the one it files; that canvas has been loaded, hence filed, before. The page's geometry and texts are left
out; a canvas's look is "as the game left it" or "hidden by us", and a view's `was`
is its `saved` flag together with what it saved.

### GoalieTrainer (with MCGoalieTrainer, GoalieTrainer_proof)

Each hook runs under the runtime's lock and is one step: `ControllerUpdate`
(whose own controller runs `TrainerTick`), `DiscUpdate`, `ScriptDestroy`, the two
buttons, an unloaded root, `Fail`, and the clock. What a tick reads from the game
is an observation chosen afresh: which discs have a body, is the disc held,
frozen, at the start, how does a pass fly. Phases keep the numbers they have in
`trainerTick()`. `fail()` leaves phase, disc and controller behind, as the code
does. `AskForDisc` is `requestDisc()`: it dispatches an event in the middle of the
tick, and the game's handlers run before it returns; they may discover other
scripts and destroy the session's own, which stops the session, and the tick goes
on all the same. `wrote` and `restUntil` are history.

### RuntimeHooks (with MCRuntimeHooks, RuntimeHooks_proof)

How the runtime gets into the game and survives there, on several threads of the
game. `Setup` is the wrapper's `setup_bindings`, called again for every level;
`EnterBind`, `InstallHook`, `BindScript` and `Pin` are `BindTrainer`
with `initialize`, hook by hook, any of which may fail. `Update`/`UpdateBody`,
`Destroy`/`Forget`/`Destroyed`, `Press`/`PressBody` are the hooked functions
around the originals they call. A body that faults is caught by the SEH barrier:
`fault` is set, the session stops, and, since the code is built with `/EHsc`, the
lock may or may not have been released (`leaked`; both outcomes are explored). The
game's side is external: it creates and destroys script contexts, frees wrappers
and loads them again. A game whose hooks have lost their code has crashed and
does nothing more, so this run does not check for deadlock.

### DoomLink (with MCDoomLink, DoomLink_proof)

The client is the page in the game, on two threads. Its handlers (touches, opening
and closing a page, the button update) run one at a time under the runtime's lock:
`OpenPage` and `Launch` are `start()` up to the reset of the block and after it,
`ClosePage` and `Blur` the two writes of `blur()`, which releases the keys before it
takes back the heartbeat, and `Select` tells the renderer, one button update later,
which page is open. The render hooks (`runtime.cpp:510-535`) take no lock, so every
step of a draw may fall between those of a handler: `BeginDraw`, `LookForFrame`,
`TryFrame`, the two halves of the copy and `ReleaseFrame` are `canvasRender()` with
`geometry()`, `CheckSelected` and `Beat` are `elementsRender()`. Nothing is assumed
of the threads but that the draws of the page follow one another, on a thread that
never waits for the mutex elsewhere: only `geometry()` waits for it in the game.
`overtaken` is history: whether `start()` fell into the draw under way or into the
one that copied the picture.

The worker samples keys into its event queue, checks the heartbeat a second time
for the pause, and draws under the mutex. An event is queued when it fits and the
key is remembered in any case, so an overflow loses the event; `dropped` is the set
of the keys whose last event that was. The engine takes events one by one and stops
after a release, so some may stay queued. `Report` is one round of the loop of
`sampleKeys()` and `Rounds` the loop. `fresh` stands for "heartbeat less than
200 ms old". The module models the page as the code has it when it is compiled in
(`DOOM_ENABLED`).

### Installer, PublishedInstaller (with MCInstaller, MCPublishedInstaller, Installer_proof)

`Install.ps1`, one file operation per step, in the order of its loops: staging
beside each path, verification, the backup directory, copies with the manifest
last, the state file, the rollback list, and Restore. Any operation may fail,
which enters the script's catch block, and the process may stop between any two
steps, leaving torn copies. Other tools may change the game's files in between.
The merger is the part of `manifest_merge.cpp` that the script depends on: which
tablet resources it accepts, that unrelated entries are kept, and the package
file it adds, whose name is `FrameFile` of the number of packages there are.

`PublishedInstaller` extends it with `InstallMusic.ps1`, which runs Install.ps1
several times: `Publish` looks once whether a tab is installed, `PublishRestore`
and `PublishInstall` are the two actions, `Restored` leads from one to the other,
and everything that throws ends both (`PublishRefused`, `ScriptStep`). `Direct` is
the user who runs Install.ps1 himself; other tools may come in between.

### ManifestTables (with MCPublishedInstaller, Installer_proof)

`manifest_merge.cpp` itself, as operators: `Place` is one round of its loop over
the resources of a patch, `Rounds` the loop, `WithPackage` what it writes, `Merge`
the whole. An entry
has a hash and an index into the frames, a frame lies in a package. It is the
detail behind `Mergeable` and `Merged` of Installer: MCPublishedInstaller assumes,
and TLC evaluates, that after any four merges and modifications the two agree on
what is refused, unchanged or merged and on the number of packages, and that every
entry leads to its content.

### PatchTool (with MCPatchTool, PatchTool_proof)

`echovr_patch.py`: `build` from whatever manifest the game has, with overrides,
additions and copies of the game's own resources, `bundle`, `verify`, `install` and
`uninstall`, with interruptions between the file operations and in the middle of
one: a folder, a backup or a manifest may be torn. Packages are copied in
any order, as the file system lists them. A manifest is the number of packages,
the frame of each resource and where each frame lies; `build` into a used output
folder keeps the packages already there.

`verify()` looks at every item of the patch, but at 40 of the game's thousands of
other resources only: `random.sample` with a fixed seed. `Verify` takes the sample as
an argument, any `SampleSize` of the manifest's entries. `Promise` is what a patch
that verifies may be held to: its items, the sample, and everything if it is `Fresh`,
that is what `build` would make now.

## 3. The runs

| Run | Instance | Shows |
|---|---|---|
| `music_ring` | 2 slots, 2 commands, 5 presses a session | Types; `NothingOverwritten`; `ImplementsCommandQueue`: refines the queue, so in order and nothing lost; `EveryPressApplied`: drains unless the worker dies |
| `music_snapshot` | one player, 3 polls | `TextWhole`, `TextIsCurrent` (also: never of a dead worker); `TextCatchesUp`: published text reaches the page; PageMath against plain definitions |
| `music_torn` | two tracks, 2 polls | violated: see section 4 |
| `music_orphan` | one player, 3 polls | violated: see section 4 |
| `goalie_trainer` | 2 controllers, 2 discs, times 5/1/2/2/1, clock to 7 | `SessionHasController`, `DiscIsLive`; `FlightUntouched`, `WritesInsideSession`: no write where none is due; `SessionEnds` |
| `tablet_pages` | 2 tablets, 4 canvases (two of them roots of one tablet), 2 buttons, one finger on 2 keys | `NoDanglingCanvas`, `MaskMatchesBit`, `HeartbeatMeansMusic`, `HeldIsDown`, `HiddenIsRemembered`; `FaultFreesButtons` |
| `runtime_hooks` | 2 threads, 2 controllers, 1 disc, with the Doom hooks | `StaleNeverTouched`, `HooksStayLoaded`, `Discovered` |
| `installer` | 2 versions of which one accepts the other, 3 installs, 1 modification, 2 faults | `RestoreIsExact`, `RollbackIsExact`, `ManifestHasPackages`, `UpgradeGoesThrough`; `NothingLost`; ManifestTables against Installer |
| `installer_interrupted` | the same with 1 install, 1 fault | violated: see section 4 |
| `doom_link` | 1 key, queue of 2, 2 workers | `KeysFollow` (also: a pause releases), `PictureWhole` (also: of the living worker, with one exception); `ClosedPauses`, `PageStarts` |
| `doom_restart` | the same | violated: see section 4 |
| `patch_tool` | 2 stock and 1 new resource, 3 patches (one names a resource twice, one copies), 2 folders, 3 builds or bundles, 2 interruptions, samples of 1 resource | `BackupIsStock`; `VerifiedInstallIsExact`: of what verify looked at, and of everything for a fresh patch; `UninstallIsExact` |

**Why the bounds are enough.** The ring of two slots fills, empties and wraps
twice in five presses; its result for every size is proved. Three polls are one
by a worker that dies and two by its successor, the second of which meets a
mutex it already owns. In the trainer a session of five units holds a staging
and two shots, and two of each context make neither unique by construction; its
safety is proved for every choice, here as everywhere. Two tablets are needed for what they share
(the heartbeat, the held keys) and two roots on one for a reload before the
unload. Three installs are an install, an upgrade and a return to the older
package or a repeat, and two faults a failure and a failure of its rollback. A Doom queue of two is
at its limit with one press and its release; keys only meet in the queue's
capacity, and a second key multiplies the states by ten without a new kind of
step; `KeysFollow` is proved for any keys and any queue. Two threads of the game are one that binds and one that updates, destroys or
presses meanwhile; the safety is proved for any number. Three builds and two folders allow a build over a build, into the same
folder and into another. A sample of one of the two or three resources hits or misses
what another patch has changed.

**Deadlock** is checked except in `doom_link`, `doom_restart`, `patch_tool` and
`runtime_hooks`, where the model may come to rest: all workers used up behind a
closed page, all builds done, a game that has crashed.

**Fairness.** Only what Windows' scheduler and the engine's loop give:

- MusicRing: a live worker keeps running its loop, and a press that has begun is
  completed (`command()` contains no wait). No press or start is forced.
- MusicSnapshot: a live worker keeps polling (Windows' media calls are taken to
  return: the code waits for them without a timeout, which is a listed hazard),
  and the open page is drawn.
- GoalieTrainer: time passes, and the game updates each controller script that
  exists. Nothing is assumed of discs or the player.
- TabletPages: the game updates the buttons of each tablet again and again, and
  the button pool is not malformed for ever.
- DoomLink: a handler and a draw that have begun go on (`HandlerGoesOn`,
  `DrawGoesOn`), the worker's loop runs and a heartbeat that is not renewed expires.
  Strong fairness of `Select`, `BeginDraw` and `Resume` says that drawing, and
  the worker's look at the heartbeat every 20 ms, do meet the moments they can
  be taken in: a beat lasts 200 ms, so a page that is drawn on every frame
  cannot be missed by each look for ever.
- RuntimeHooks, Installer, PublishedInstaller and PatchTool have safety properties
  only.

## 4. What the runs found

- **`music_torn`** (`client.h:114`): position and duration are read one by one
  while the worker writes them one by one. Across a track change the page shows
  a position past the end of the track, although the cache is called a snapshot
  of one poll and `test_client.cpp:90` asserts the opposite. It lasts until the
  next frame.
- **`music_orphan`** (`worker.cpp:160`, `client.h:104`): a worker that dies
  between lock and release leaves the mutex abandoned. The next worker's wait
  returns `WAIT_ABANDONED`: it owns the mutex, believes it does not, and never
  gives that level back. The page says CONNECTING for as long as that worker
  lives.
- **`doom_restart`** (`client.h:60`, `worker.c:33`): the same mistake the other
  way round. When a worker dies while writing a frame, the *game* gets the
  abandoned mutex and keeps it, so every worker started later waits in vain:
  "STARTING DOOM..." for ever after the restart the page itself suggests.
- **`installer_interrupted`** (`Install.ps1:41`): Restore checks every file
  before it touches the first and has no rollback. Interrupted once, it takes
  its own half-done work for a modification by somebody else; Restore and
  Install both refuse from then on.

The properties of the passing runs carry `orphaned` as an exception where they
need it; the two runs above show what that exception hides. `HooksStayLoaded` and
`Discovered` speak of a runtime without a fault: a binding that fails half-way
leaves hooks behind and may leave the runtime unpinned (`runtime.cpp:561`), and a
faulted runtime passes every call on and discovers nothing. `StaleNeverTouched` has
no exception. `UpgradeGoesThrough` holds when nothing fails and nobody else changes
a file: a rollback or a restore that was cut short may leave a folder that
Verify or the merger refuses.

Facts the models brought up that contradict no statement of the repository: an
interrupted rollback leaves a package file behind that the next install takes for
an original (`Leftover`, the exception of `RestoreIsExact`: a package file no
manifest of the original folder names, and only after a failure); a torn
`.trainer-pending` file blocks later installs until it is removed by hand; an
interrupted backup copy of `echovr_patch.py` is a torn backup that a later
uninstall copies over the good manifest (a hazard, left out of
`UninstallIsExact` because such an uninstall ends with an error); building into
a used folder brings back packages of earlier builds.

What `verify` does not see: a patch built before another one was installed passes it
unless one of the 40 sampled resources is the other's, and its install then takes the
other's resources back. `VerifiedInstallIsExact` therefore speaks of the items and the
sample, and of everything else only when the patch is `Fresh`.

What a restart may show: `start()` resets the block under the lock while `geometry()`,
which takes none, may have found a frame already. The draw copies the dead worker's
pixels and sets `haveFrame` after `start()` has cleared it (`client.h:25`, `60-62`), so
the page shows the old picture until the new worker's first frame has been copied.
`PictureWhole` excepts a picture copied by such a draw (`overtaken = "picture"`).

## 5. The proofs

Checked by TLAPS with Z3, Zenon and LS4. Every safety property of every passing run,
invariant, action property or refinement, is a theorem here. Each `_proof` module
begins with its inductive invariant `IInv` (in `DoomLink_proof` there are two), in
named parts. TLC has checked those invariants on the instances of the runs, though
they are no part of them.

### MusicRing_proof

For every `Commands`, every `Queue \in Nat \ {0}`, every `MaxTail \in Nat` and
`None \notin Commands` (the assumptions in MusicRing.tla):

| Theorem | Statement |
|---|---|
| `Invariance` | `Spec => []IInv` |
| `TypeCorrect`, `InOrder`, `NoOverrun` | `Spec => []TypeOK`, `[]AppliedIsAccepted` (in no run: the refinement implies it), `[]NothingOverwritten` |
| `Refinement` | `Spec => ImplementsCommandQueue` |

`NothingOverwritten` is not inductive: that a slot is free when the client
writes it depends on `head` and `tail` never being more than `Queue` apart, also
between the check and the write (`CountersInv`: while the client is between
`Press` and `WriteTail` the difference is *strictly* less, because the worker
only makes room). That slots do not collide then is the one piece of arithmetic,
`SlotsDiffer`: two counters less than `Queue` apart have different remainders.
`HistoryInv` ties the counters to the lengths of the histories, and `HandsInv`
what each side holds in a register to those histories. The refinement needs the
invariant in every step: under it, the mapped queue `Waiting` equals `Owed`, the
accepted commands not yet applied, which makes each step's effect on the
abstract queue a fact about sequences; `Take` and `Advance` are stutters.

### GoalieTrainer_proof

For any sets of controllers and discs, any positive durations and any `MaxNow`
(`TimesAssumption`, `NullAssumption`):

| Theorem | Statement |
|---|---|
| `Invariance` | `Spec => []IInv` |
| `TypeCorrect`, `ControllerIsLive`, `DiscNeverDangles` | the three invariants of the run |
| `SlapOnlyInPass` | a redirect is armed only while a pass is on (in no run) |
| `NeverOverwritesFlight`, `NeverWritesOutsideSession` | the action properties `FlightUntouched`, `WritesInsideSession` |

The invariant is those four and `RestInv`, which says for each phase
what is known of the moment until which the disc must be left alone: it has
passed in `Request`, `Resolve` and `Staging`, and it *is* `phaseUntil` in
`Pause`; the latter is what makes the end of a pause safe. The proof goes through
`StopQuietly` and `Keep`, which most branches end in, as lemmas of their own
(`StoppedKeeps`, `KeepKeeps`), then one lemma per phase, then one case per action.
Each action is shown to preserve the invariant and to be safe (`StepIsSafe`) in
one go.

### RuntimeHooks_proof

For any threads, scripts and either value of `DoomEnabled`: `Invariance`,
`TypeCorrect`, `NeverTouchesStale` (`StaleNeverTouched`), `CodeStaysLoaded`
(`HooksStayLoaded`), `EveryScriptDiscovered` (`Discovered`).

None of the three is inductive. `ThreadInv` says what a call holds: a binding its
wrapper, an update or a destroy its script, and no two calls the same one, which
is the engine's part of the bargain. `LockInv`: the lock is held by a binding, or
by nobody, or for ever after a fault. Without a fault, `BindInv` says how far a
binding has come: what is still to be hooked is the rest of its list, and some hook
enabled means that the runtime is pinned or is being bound. `TrackInv`: what is
tracked exists and its destroy hook is in place. The update hook comes before the
destroy hook, but nothing is tracked between the two, because the binding holds the
lock that an update waits for; the proofs of `StaleNeverTouched` and `Discovered`
turn on this.

### MusicSnapshot_proof

For any readings and number of polls: `Invariance`, `TypeCorrect`, `TextStaysWhole`,
`TextStaysCurrent`. `MutexInv`: until a worker dies inside, the mutex is owned by
whoever is inside and by nobody else; afterwards a process may own it for good, one
level deep. `CountsInv` bounds the counter by the polls begun since `start()`;
`TextInv` dates the block against what was published; `PageInv` says that the block
does not move while the client copies. `NewInv` is the argument why a dead worker's
text is never shown: the first poll of its successor finds the mutex free, so by
the time anything is counted the old text is gone.

The same module has the theorems of PageMath, for every width `Half`. `LabelFits`: a
label never gets more bytes than it may show, the mark included, is cut only before a
character, and not earlier than it must be. `BarStaysInside` (whatever was torn or has overflowed, no more segments than there
are), `BarFillsAtEnd`, `HeartbeatWindow` and `FocusWindow`. The last two say exactly
for which ages of its stamp a page is taken for open. For the music worker that is
the window and the second half of the counter's range (a page closed without
`blur()` for 24.8 days); for the Doom worker it is the window alone, but the 0 of a
closed page is a stamp too, and looks fresh for one window after each turn of the
counter. They rest on `TurnsVanish`: whole turns do not change a remainder.

### TabletPages_proof

For any tablets, canvases, buttons and keys: `Invariance`, `TypeCorrect`,
`CanvasesAreLoaded` (`NoDanglingCanvas`), `MasksMatchBits`, `BeatsOnlyForMusic`,
`NothingStuck`, `HiddenComesBack`. `CanvasInv`: the registry and the views agree,
and a view's record tells what the canvas looks like. `MaskInv`: a tablet's list
holds only its own buttons of ours. `PageInv` and `HeldInv`: a page of ours is open,
and a key held, only on a tablet that is there, so the release is seen.

### DoomLink_proof

For any keys, any queue of at least one event and any number of workers, with two
invariants.

`Invariance`, `PictureStaysWhole` (`PictureWhole`) hold until a worker dies inside
the critical section. `MutexInv` as above; `PixelInv`: the block holds one frame
unless one is being written, and it is the current worker's once that has been
counted; `CopyInv`: it does not move while the client copies. What the client copies
is the current worker's if it found a frame counted *and* `start()` has not reset the
block since, which is what `overtaken` records; `LaunchKeeps` is that step.

`LinkInvariance`, `TypeCorrect` and `KeysStayFollowed` (`KeysFollow`) have no such
exception. `Levels` counts the mutex: whoever is inside owns it, and it is owned twice
over only inside, because the only level that is not given back is the one that came
with `WAIT_ABANDONED`. `KeyInv` is what makes the engine follow the keys: of each key
whose last event was not dropped, what it believes *after* everything still queued is
what was sampled last, and a paused worker has sampled none. `After` says that in
closed form (the last event of a key counts), with `AfterAppend` and `AfterTail` for
what a new event and a taken one do to it. `SampledKeys` is `sampleKeys()` as a whole,
by induction over the rounds of its loop: each round settles one key and disturbs no
other.

### PatchTool_proof

For any resources, patches, folders, numbers of builds and interruptions:

| Theorem | Statement |
|---|---|
| `Invariance`, `TypeCorrect` | `Spec => []IInv`, `[]TypeOK` |
| `BackupStaysStock` | `[]BackupIsStock` |
| `InstallStaysExact` | `[]VerifiedInstallIsExact` |
| `UninstallStaysExact` | `[]UninstallIsExact` |
| `BuildIsExact` | what `build()` writes for any manifest and patch: named resources have the contents of their last item, all others are found where they were (in no run) |

`StageInv` says where a command may be: in its backup step only while the game's
manifest is the delivered one, past it only with a backup. `GameInv`: no build or
bundle makes a package 0, so nothing copied ever replaces the game's own. The exact
install rests on `InstallInv` and `PromiseInv`: what a verified patch promises is
found when the folder is looked through *before* the game, and this does not depend on how much
of the folder has been copied already (`PromiseIsFound`); when the last package has
arrived the game alone is the same as the folder before the game (`OverAll`).
That a fresh patch promises everything is `BuildSparesOthers`: what `build` makes of
a manifest leads to the same contents for every resource that is no item, whatever it
adds. `UnlinkInv`: past its restore step an uninstall has the delivered manifest and still
has to remove every package but the delivered one. Assumed of the
game: as delivered it has one frame for each resource (`StockAssumption`).

### Installer_proof

For any versions with any acceptance between them, any names of package files and
any numbers of installs, modifications and faults:

| Theorem | Statement |
|---|---|
| `Invariance`, `TypeCorrect` | `Spec => []IInv`, `[]TypeOK` |
| `RestoreStaysExact` | `[]RestoreIsExact`: a restore that ends gives back the folder before the first install |
| `RollbackStaysExact` | `[]RollbackIsExact`: a rollback that ends gives back the folder before this install |
| `PackagesComeFirst` | `[]ManifestHasPackages` |
| `NothingIsLost` | the action property `NothingLost` |
| `PublishedIsInstaller` | `InstallMusic.ps1` does to the files only what `Install.ps1` does: every step is a step of Installer or a stutter; so all of the above holds for it |
| `UpgradeIsNotRefused` | `PublishedSpec => []UpgradeGoesThrough` |

None of these is inductive; what carries them is that two different folders are
remembered, `origin` (for Restore) and `base` (for the rollback), and that the records
keep leading back to both through every step of the two loops and every failure.

- `State`: each record of the state file leads back to `origin`, through a backup
  that is never written again; where the folder differs from `origin`, there is a
  record. The exception, `Exempt`, is `Leftover` of the model: `LeadsBack` would be
  false without it.
- `Base`: each entry of the rollback list was saved from `base`, in the newest
  backup, and a manifest is in the list only with every package file it will name.
- `Forward`, `Backward`: at each place of the copying loop and of the rollback loop
  a file is as in `base`, or it has its new content and is in the list, and beside it
  lies nothing but what this step put there. A rollback may be entered at every place
  of the forward loop, in the middle of a replacement too (`ThrowKeeps`).
- `AtTheEnd`: the state file about to be written satisfies `State` already, because
  records of an earlier install keep what *they* saved (`RecordsFacts`).
- `Restoring`: files already put back are as in `origin`, the others as recorded.
- `Clean`: while nothing has failed and nobody else has changed a file, no stray
  pending file exists, and between two runs of the script the folder is either
  delivered or as recorded. With `Between`, which ties the next action of the
  published installer to whether a tab is installed, this is `UpgradeIsNotRefused`.

The same module has the theorems of ManifestTables, for any tables, packages, contents
and patches (a patch may name a resource twice, unless said):

| Theorem | Statement |
|---|---|
| `BeginSound`, `PlaceSound`, `MergeSound` | the beginning, a round of the loop and what is written keep every entry leading to the content it has the hash of |
| `MergeStaysSound` | so does a whole merge, whatever a file with the new package's name held before; and what the patch does not name stays where it was |
| `MergeHasPatch` | after a merge each resource of the patch has the hash its last item has |
| `PlacedIsSame`, `MergeOnce` | merging a patch again, in which no resource occurs twice, is recognised as `unchanged` |

Whole merges are proved over the rounds of the loop. The induction is by sets: if
the rounds at which a statement holds contain 0 and with each round the next, the
least round outside would have a predecessor inside (`Least` from the
well-foundedness of <, then `UpTo`). Assumed: that the game's own tables are sound,
which the merger does not check either.

## 6. Limits

**Only model-checked.** Liveness and everything that needs `ENABLED`
(`EveryPressApplied`, `TextCatchesUp`, `SessionEnds`, `FaultFreesButtons`,
`ClosedPauses`, `PageStarts`): TLAPS does not reason about fairness here. That the
installer's merger (`Mergeable`, `Merged`) and ManifestTables agree, and that a bar
lights the nearest number of segments, are evaluated by TLC on small data (`ASSUME`
in MCPublishedInstaller and MCMusicSnapshot). That deadlock does not occur.

**Not an induction over data in general.** What a recursive function of a model
computes (`Rounds` in ManifestTables and DoomLink) is proved for the statements that
can be phrased as a set of rounds; the library's induction theorems, which take an
operator, cannot be used with the provers at hand.

**Abstracted.** Texts, geometry, hashes, alignment and compression; the
positions and velocities of discs (the trainer sees "far", "staged",
"invalid"); time is in units that keep the order of the code's durations.
Single accesses to shared memory are atomic and in program order: the code uses
interlocked operations for counters and the mutex for blocks, on x64.

**Not modelled.** Of the C and C++ lines in this repository 53,413 are one
vendored file, `zstd.c`; doomgeneric and MinHook are vendored too, and `shots.h` and
`cuts.h` are generated tables of numbers. Of our own code: the compensation of
Doom's clock for pauses and the conversion of pixels to quads; the Doom block's
`status` field, which is written and never read; the choice among several players
and the tables of their names and volume keys (texts throughout); parsing and
lengths of manifests and patches; finding the game folder; the release packaging,
which keeps no state; the canvas editor and page builders, offline generators whose
output is checked by loading it.

## 7. The plan

Done: the two-process protocols, the trainer that writes into a running match,
pages, hooks, installers, merger and patch tool; every safety property proved.

Left, in this order:

1. *CanvasFile*: the offsets of `canvas_edit.py`, as operators with a reference
   definition.
2. Both tools that rewrite the manifest on one game folder: `echovr_patch.py` and
   the installer know nothing of each other, and both number packages by what they
   find.
3. Doom's clock: `pausedTime` in DoomLink.
4. Abstract specifications for the trainer (a referee that grants single writes)
   and for the snapshot (a register with one reader), with refinements.
