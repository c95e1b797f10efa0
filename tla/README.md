# A TLA+ verification of the scene camera

Sexlab Scene Camera is an SKSE plugin: while the player takes part in a SexLab
P+ scene it takes the game camera from SmoothCam, disables TDM's target lock,
evaluates the user's presets against the scene's positions and animation, and
shows one of them.  Almost all of its difficulty lies in *giving everything
back* whatever happens in between, and in *never acting on what is out of
date*.  These modules model that.

Source paths below are relative to the repository's root.

## 1. The system

### Components

| component | state it keeps | operations | correct when |
| --- | --- | --- | --- |
| Scene procedure `SceneCamera`, `SceneSession` | session, reset flag, suspension, unlock wait, pose, anchor, debug resume | `HandleSceneEvent`, `ProcessMainUpdate`, `Update`, `RequestReset`, `EmergencyReset` | whatever was taken is recorded and given back; no stage acts on what an earlier stage invalidated |
| `AnimationUpdateCoordinator` | receipts per scene, followed scene, update under way, finished and published metadata | `Receive`, `Observe`, `Tick`, `Invalidate`, `ClearActive`, `ValidLocked`, `CommitLocked` | candidates come only from metadata of the last received notice; every hold ends in five seconds |
| `AnimationMetadataReader` | reply mailboxes | `ReadActiveScene`, `ReadMetadata`, VM callback | an answer reaches only the update that asked |
| `CameraHook` | installation state, originals, thunk depth, lifecycle generation, main-update thread | `SubmitEvent`, `MainUpdateThunk`, `Thunk`, `InstallOnce`, boundary failures | notices of before a load never reach what comes after; a failure ends in a reset; no camera call is lost, one client update per frame |
| `MainUpdateDispatcher` | queue of posted work | `Post`, `Tick` | no posted work is lost, whatever throws |
| `PluginRuntime` | – | lifecycle messages | every load invalidates, then resets |
| `SmoothCamCameraControl` | recorded ownership, FOV offset | `Acquire`, `Apply`, `Release`, `EmergencyRelease` | recorded ownership covers what SmoothCam granted |
| `TDMTargetLockControl` | recorded disable | `RequestUnlock`, `FinishUnlock` | the target lock is disabled for a while only |
| `PresetRepository` | file, snapshot, backup flag | load, reload, create, update, delete | one edit succeeds or fails as a whole; an unreadable file is not overwritten without a backup |
| `PresetPreviewService`, `PresetEditorMenu` | preview request, session flag, feedback; window, draft, pending question, the four atomics of the key | set, clear, begin, end, invalidate; open, frame, click, answer, close, menu event, lifecycle | the preview of an ended scene is not shown in the next; unsaved changes go only when asked; what is saved was seen |
| `EditHotkeySettings` | a settings file, key and debug switch | load, set | memory holds what the file holds; an assigned key outlasts failed writes and restarts |
| `CandidateSelector`, `VisibilityEvaluator`, `PresetFilterEvaluator` | – | select, step, evaluate, match | only usable candidates are chosen, in order |
| pose mathematics, `CameraOutput`, `HavokVisibilityProbe`, `SexLabPSceneSource`, `WorldDebugVisualization`, `CameraInput` | engine state | – | – |

### Threads and how they meet

* The game's **main thread** runs two hooks in turn: the main update
  (`MainUpdateThunk` → `MainUpdateDispatcher::Tick` → pending reset, the batch
  of notices, `ProcessMainUpdate`) and the camera-state update (`Thunk` →
  `SceneCamera::Update`).
* **Notifier threads** call `SubmitEvent`: they stamp the notice under
  `SelectionBoundary`, read the lifecycle generation and post the work.
* **Any thread** may deliver lifecycle messages and camera-state changes, which
  invalidate receipts and request a reset (`RequestReset`).
* The **script VM** fills reply mailboxes; the **UI thread** publishes presets
  under `SelectionBoundary` and writes the preview channel; the **input thread**
  requests preset steps.
* The **frames of the editor** (ImGui) and the **input callback** share the four
  atomics of the edit key; they may be one thread or two.
* **SmoothCam and TDM** keep records of their own, which other mods may change;
  **other mods** hook the same virtual tables.

What is hard: resets between any two stages; refused, failed or lost releases;
throws at every stage; notices against loads; answers out of order, late or
missing; timeouts; three pieces of state that must still agree when a list of
candidates is published.  `PROJECT.json` lists each of these hazards at its
line, with the properties that cover it.

## 2. The modules

### `SceneCamera` – the scene procedure

`cam` holds the fields of `SceneCamera` together with the recorded state of
its collaborators and the foreign APIs' own records (`owner`, `lockOwner`);
`pc` says where the main thread is; `live` is `Update`'s local
`previewSessionActive`.  Functions of the code are operators from record to
record (`Restore`, `ReleaseCamera`, `Handle`, `ProcessMainUpdate`, ...), and
each entry point or stage is one action:

| action | code |
| --- | --- |
| `TickBegin`, `HandleSceneEvent`, `TickEnd` | `MainUpdateDispatcher::Tick`: pending reset, one notice each, `ProcessMainUpdate` |
| `UpdateBegin` ... `UpdateStep` | the stages of `SceneCamera::Update` between its early returns |
| `UpdateFails` | the catch of `CameraHook::Thunk` or of a notice: `EmergencyReset` |
| `RequestReset` | any other thread; between any two stages |
| `CameraChangesHands`, `TargetLockIsFreed` | other clients of SmoothCam and TDM |
| `TimePasses` | the clock, only between two entry points |

Inputs stand for data the properties do not tell apart: whether an anchor was
sampled, a transform resolved, a pose could be applied, a measurement was
committed, what the preview channel, the debug switch and the control state
held, and one member of `Environments` per step for the answers of the foreign
APIs.  Preset identities, the visibility data, the FOV offset, feedback and
logging are left out; `AllowsUpdateWhilePaused` is, too (an update may come at
any time).  A/D is the input `stepping`; the coordinator is reduced to its
target, the state of its metadata and the age of the last notice.  `RequestReset` in
the middle of a batch moves `pc` from "batch" to "overtaken", since the
notices left in it were received before and are dropped by `IsLiveReceipt`.
A stage start is the notice "Change" and an ending is "End", as the handlers
treat them alike.  The presets do not change between showing a
transform and the check of line 573 in the same update.

`SceneLease` is what the procedure promises of the camera: it is taken once
for a current scene that is not being given up, may be given back or lost at
any time, and is back before another scene is current.  `IsALease` states the
refinement, with SmoothCam's own record of the owner as the lease.

### `AnimationUpdate` – received, requested, evaluated, selected

The coordinator and the candidate selection it guards, one action per locked
section with the unlocked work of its thread up to the next: `Receive` and
`Post` of a notifier, `Observe`, the sections of `Tick` (`TickBegin`, `TickID`,
`TickData`, `TickPublish`), those of `MeasureAnchorLOS` and selection
(`MeasureBegin`, `MeasureRead`, `MeasureCommit`, `Select`), VM answers,
`PublishPresets`, `Invalidate`, `ClearActive`.  An answer carries the animation
it is about and the last stamp given out when it came, so that `SelectionIsCurrent`
can say what "read before a received notice" means.  The coordinator is enabled
(the reader is configured at load); whether the player takes part is fixed per
scene.

`MetadataHold` is the promise: a followed scene waits, is ready, or has its
candidates committed, and only a new notice puts it back to waiting
(`IsAHold`).

### `EventDelivery` – notices against loads and failures

How a notice reaches the procedure, with every access to what other threads
change as a step of its own: stamp, generation, post; batch, generation check,
collection and installation, second check, receipt check, the handler's reset,
the handler's effect; a load's generation, its two invalidations, its reset
request; the camera-state observer.  Each stage may throw, and each boundary
answers as in the code.  The procedure is reduced to its session and reset
flag, and a restore may be refused or throw.  `where` is the thread lifecycle
messages come on.  `raised` and `settled` are history: when a
notice was stamped, and what became of it.

Here `RequestReset` by the main thread itself, and `EmergencyReset`, are one
step: `EmergencyReset` erases a request that lands before its last store, and
does right after that store what the request asked for.

### `HookInstall` – the camera hook

The first scene of the player replaces the `Update` pointers of two camera
states by thunks.  `tables` says which virtual table each state has (they may
share one, or one may be missing), `slot` what each table holds, `captured` what
each other mod found there when it hooked; `hook`, `originals`, `depth` are
`installState_`, `originals_`, `thunkDepth_`; `install` is where `InstallOnce`
is, with its candidates and the writes it has made.

| action | code |
| --- | --- |
| `BeginInstall`, `Collect`, `Publish` | `InstallOnce` up to its first write: state check, candidates, originals |
| `Patch`, `PatchFails`, `Installed` | the verified writes and their end |
| `RollBack`, `RollBackFails`, `ClearOriginal`, `RolledBack` | the reverse, also verified; what cannot be taken back keeps its original |
| `Interrupted` | the scope guard: an exception, a null state, a missing client |
| `Call`, `ModPassesOn`, `EnterThunk`, `EngineReturns`, `EngineThrows` | a camera update, as a stack of calls of `Update` within each other (`Thunk`, `ThunkDepthGuard`) |
| `ModHooks`, `ModUnhooks` | other mods, between updates |

`safe_write` is a library's: it compares and writes in one step, and may fail.
`where` is the thread of the camera updates.  On the main thread installation and
updates exclude each other; on another one an update sees the installation at
every step, and `EngineIsReached` is claimed for the main thread only.
`served` and `missed` are history.

### `PresetStore` – the preset file

`PresetRepository` and the file it keeps.  The operations come one after the
other (start-up load, then the editor's thread), so `op` is the one under way
and each of its calls into the file system is a step that may fail: `LoadFindsFile`,
`ReadFile`, `TakeList`, `HandleFailure` of a load or `Reload`; `Create`,
`Update`, `Delete`; `BackUp`, `WriteTemporary`, `Replace` of
`PersistAndPublishLocked`.  `Outside` is anybody else writing the file, `Crash`
ends the game and loads again.  `repo` is `persistedSnapshot_`, `loaded_` and
`backupBeforeNextWrite_`.  `known` is history: whether the list, and the care
for a copy, rest on what is in the file.  Values the code refuses, which touch
nothing, and names, order and JSON are left out; a temporary file is seen only
through its loss or its move.

`PresetDocument` is what the repository promises, abstractly: a document others may
write too, whose edits (`Put`, `Remove`) happen as a whole or not at all, in the
document and the list at the same moment, while reading and taking a list are two
steps.  `IsADocument` maps the file, `persistedSnapshot_`, `loaded_` and the list
parsed but not taken yet to it; an edit's steps before `Replace`, and a failed one,
are none of the document's.

### `CandidateRules`, `PresetSelection` – which preset is shown

`CandidateRules` holds the pure rules as operators: `FailureReason`
(`ApplyAnchorLOSRule`), `Matches` (`PresetFilterEvaluator`), `SelectInitial` and
`Step` (`CandidateSelector`).  A filter is the set of animations its
expressions match.

`PresetSelection` is the part of `SceneCamera` that `SceneCamera.tla` takes as
inputs: the selected preset, the rated candidates, the preview request and its
session, the step asked for.  An update of the main thread is one action,
`Update`, composed of the stages of the code in its order (`EvaluationStage`,
`MeasureStage`, `SwitchStage`, `ReturnStage`, `PoseStage`, `RequestStage`,
`StepStage`); `draft` is history and says that the list is the rating of a live
request's draft (`DraftRated`, `EvaluatePreviewVisibility`), not of the
presets.  The keys are `Press` (checks) and `StoreStep` (store); the editor
is `BeginSession`, `BeginFrame` (the check each of its frames makes), `SetPreview`, `EndSession`,
`ClearPreview`, `Create`, `Delete`.  `Notice`, `Settle` and `Restart` are what
the two modules above model in detail.  Poses always apply, debug mode is off
and movement never suspends the scene here; `scene` in a request is history.

### `EditHotkey`, `PresetEditor` – the editor and its key

`EditHotkey` is the settings file (`file`, `settings`: `EditHotkeySettings`, its
write to a temporary file and move being one step that succeeds or fails) and
the captured keyboard: `hotkey` holds the four atomics of `EditorState`, `Decide`
is `DecideEditHotkeyInput`, `Stores` what `OnEditHotkeyInput` stores after it.
`scope.thread` says whether the callback shares the thread of the frames; if not,
`KeyInput` and `StoreInput` are two steps with frames in between.

`PresetEditor` composes it with the editor.  `ed` is `EditorState` together with
the preview request and session; functions of the code are operators from record
to record (`SelectPreset`, `PublishDraft`, `CancelDraft`, `CloseEditor`, ...).  A
frame (`RenderEditor`) is `BeginFrame`, which reads the feedback once, and then
one click (`ClickAction`, `EditPose`, `ClickSave`, ...), one answer to a question
(`SaveAndContinue`, `DiscardAndContinue`, `ConfirmDelete`, ...) or `EndFrame`; the
camera may go on in between (`CameraShows`, `CameraCannot`, `SceneLets`, written
from what `SceneCamera` and the preview service do with a request).
`DashboardOpens` and `HudTakesRequest` open the window; `FrameTakesRequest`,
`ClickCloseLocked`, `MenuCloses` (`OnMenuEvent`) and `CloseForLifecycle` take it
away.  Draft and applied revisions are reduced to whether a request was made with
the draft's revision (`mine`) and whether the feedback is about it (`current`).
Names and filters count as `renamed`.  Writes of the repository succeed or fail
(`PresetStore` has them in detail).  `promised`, `asked`, `captive`, `left` are
history.

### MC modules and bounds

`MCSceneCamera`, `MCAnimationUpdate`, `MCEventDelivery`, `MCHookInstall`,
`MCPresetStore`, `MCPresetSelection` and `MCPresetEditor` add what TLC needs: sets
of API answers, sights, filters and scopes, and symmetry.  Keys, animations,
notifiers, tables and mods are model values, permuted where only safety is checked
(`AnimationUpdate`'s keys are numbers: the map is ordered by key).

| bound | why it is enough |
| --- | --- |
| two scene keys | current scene and another one; eviction has a third |
| `Hold`, `UnlockWait`, `Watchdog` of 1 to 3, ages saturate | only "before" and "at or after" are tested, in every order |
| `DebugAttempts` 1 to 2 (code: 3) | first, last and in between; the proofs have any number |
| `MCOneFault`: one API misbehaves per step | any sequence of faults of any API; the proofs allow all at once |
| `Capacity` 2 (code: 128) with three keys | the full map, with the followed key least, middle or last |
| `MaxSerial` 2 to 3, `MaxEdits` 1 | a notice, one crossing it, one invalidation or relocation; an edit between read and commit |
| two presets of two values; two foreign writes, two failures, one crash | a failure, a retry that fails again and a restart; a one-preset edit against a file that differs in two |
| three presets, one filtered (or none); three views | neighbours, wrap-around and a skipped preset; all usable, one not, none |
| one key, two requests, one notice, restart or edit | a draft and its clearing around each other event; every pair of events crosses |
| `MaxNotices` 2 to 3, one load, one camera-state change, one failure | each pair of crossing events occurs |
| two tables, two mods, two faults, calls two deep | as many tables as states; mods before, between and after the thunk; a failed write and a failed rollback; a nested update; the proofs have any number of tables, mods, faults and calls |
| two presets, three poses (one invalid); the file edited outside has one preset or none | first, last and none left; a draft equal to, different from and invalid against the saved one |
| `MCScopes` | a behaviour is about drafts with the editor's key, about assigning with Escape, or about assigning with input on another thread: the pieces meet in the key alone |

## 3. What the runs show

| run | shows |
| --- | --- |
| `scene_faults` | safety of the procedure under faults, losses and resets; the camera lease |
| `scene_live` | restores end, movement frees the camera, the unlock ends, no scene outlives the watchdog |
| `scene_lost_camera` | *violated:* with a lost camera, the hold of the next scene may never be cut |
| `animation_update` | metadata is whole; what is selected is current and its verdicts belong to the filters in force; settled is final |
| `animation_live` | eviction spares the followed scene, the hold refinement, holds end |
| `delivery` | no stale scene (loads on the main thread), late work starts nothing, restores stay owed, notices are kept |
| `hook_install` | every call reaches the engine by way of every mod; no thunk without an original; one client update per frame |
| `preset_store` | memory follows the file; no preset known to be in the file is lost, whatever fails |
| `preset_selection` | steps go round the usable presets; the selection changes only for the documented reasons; a key follows the ratings in force |
| `editor` | unsaved changes go only when asked; what is saved was seen; an assigned key was wanted, and lasts |
| `edit_draft` | *violated:* a draft left by a menu close is not taken up again |
| `edit_gesture` | *violated:* the release of a captured key may reach the game |

The three violations are described in `PROJECT.json` under "findings", each with
the sentence of the documentation it contradicts.

The models also show, or their properties had to be weakened for, the following
differences between code and documents.  No run is spent on them:

* With lifecycle messages on another thread than the main one, a notice may pass
  the generation check, the load's reset come and go, and the scene start
  afterwards (`SceneCamera.cpp:122`, against `docs/hook-spec.md:36`).
  `NoStaleSceneOnMain` is therefore stated for the main thread.
* If the boundary's own reset throws, the rest of the batch is dropped
  (`CameraHook.cpp:121-123`, against the comment at
  `MainUpdateDispatcher.cpp:13-14`).
* Two notifiers that have stamped their notices may post them in the other order
  (`CameraHook.cpp:140`, `157`, against `docs/thread-design.md:29`).
* A frame of the editor that is under way when the scene stops may put its draft
  into the preview channel after `StopSceneWork` has cleared it
  (`PresetEditorMenu.cpp:826`, `SceneCamera.cpp:1285`).
* A press of the key on a locked editor with unsaved changes puts a question that
  a locked frame drops: it does not close (`PresetEditorMenu.cpp:812-818`).
* `OnMenuEvent` leaves a pending press (`PresetEditorMenu.cpp:1014-1021`): it acts
  when the menu is back.
* With input on a thread of its own a key captured before a cancel may be stored
  after it (`PresetEditorMenu.cpp:583-607`); `AssignmentIsWanted` is stated for
  one thread.
* After a settings file that could not be read, setting the debug switch writes
  the default key over the one in the file (`EditHotkeySettings.cpp:127`);
  `promised` is given up there.

**Fairness.** `SceneCamera!FairSpec`: the game keeps calling both hooks and a
stage that was entered goes on; time passes; and at each stage that waits for
a foreign API, the API gives in if asked again and again (strong fairness on
willing answers: nothing could be promised of an API that refuses for ever).
No fairness is assumed of resets, of other mods, of notices or of inputs.
`AnimationUpdate!FairSpec`: the main thread keeps observing and ticking, a
section that was entered goes on, a stamped notice is posted, time passes; nothing is
assumed of the VM.  Strong fairness of `Observe`, `TickBegin` and `TimePasses`
stands for the main thread's own order of work, which returns to each of them
however often other work comes first.

## 4. What is proved

`SceneCameraProofs` proves, for every set of keys, every bound and every set of
API answers, that `TypeOK`, `RestoreIsOwed`, `IdleIsClean`,
`GrantsAreRecorded`, `DebugHoldsNothing`, `PoseIsOwned` and `StagesAreGuarded`
are invariants of `Spec`.  The only assumption is `ConstantsAssumption` of
`SceneCamera`, which TLC evaluates in each run.

None of these is inductive alone.  `IInv` is their conjunction with what they
lean on: `Kept`, of the record alone, is stable under every operator that gives
something back (`StopSceneWork`, `CancelTargetUnlock`, `ReleaseCamera`, `Clear`);
`Owed` is not stable in between – inside `Restore` the session is "Restoring"
before the reset is requested – so it is re-established at the end of each path;
`Keyed` ties session and key; and `StagesAreGuarded` says what each
stage may rely on.  The proof has one lemma per operator of the module
(what it preserves, what it establishes), one lemma per action built from them,
and `Inductive` puts them together.

`SceneLeaseProofs` goes on from there to what a step may change: it proves
`AcquiresForScene`, `ResetIsNeverDropped` and that `SceneCamera` implements the
lease of `SceneLease` (`IsALease`).  Every operation is shown to be of one of two
classes: `GivesBack`, which takes nothing, and `Takes`, the three stages that
apply a pose (a show, an A/D step, a debug resume), where an anchor was sampled
and the hold let them through.  Both honour a requested reset (`Honours`): it stays
requested, or what is left is `Bare`.  The hard path is one update that consumes
a reset and accepts the next scene's start in the same step: `NoticeGivesBack`
shows that it starts from an idle record, so that nothing of the scene before is
carried over.

Two leads-to properties follow there under a hypothesis that stands in for the
fairness.  `ENABLED`, and so SF itself, is outside this prover; its consequence is
not: that main updates begin (`KeepsBeginning`) and end (`KeepsEnding`) again and
again while the foreign APIs do as they are asked.  `Fairness` promises SF of just
these two actions.  `ScenesAreGivenBack` proves
`RestoreEnds` from the first: one willing attempt returns the camera or finds it
lost (`WillingRestores`), nothing takes it while the scene is being given back, and
so the next attempt ends the scene.  `MovingFreesTheCamera` proves
`MovementFreesCamera` from both: a camera on its way back (`Leaving`: the scene is
suspended or being given back) stays on it in every step until it is returned
(`StepsStayLeaving`, handler by handler); the end of a main update returns it, by
the watchdog, the release or the loss, unless a reset is pending, and a pending
reset waits for the next beginning, which returns it.

`PresetStoreProofs` proves `TypeOK`, `MemoryFollowsFile` and `NoPresetIsLost` of
`PresetStore` for all ids, values and unreadable contents, any number of failing
calls, foreign writes and crashes, from `StoreAssumption`.  Neither property is
inductive, as both are about moments: `ReadIsFresh` says what a list that was
read and not taken yet is worth, `MemoryIsFresh` carries the first property
through every step, `NoCopyIsNeeded` says what a cleared backup flag means, and
`EditLosesNothing` is what the next `Replace` relies on.  `OneEdit` bounds what an
edit changes; one lemma per action and `NextKeepsIInv` give the rest.
`StoreImplementsDocument` is the refinement: `EditIsOne` says that an edit under way is
still the one-preset change of the list it began with, as no step before `Replace`
touches that list; then `Replace` is the document's edit, a failure of the start-up load
and a crash forget the list, and every other step of the plugin is a read, a take or
nothing (`StepIsADocuments`).  It has no run of its own; TLC finds it true with the
constants of `PresetStore.cfg`, and false when the list is published before the file is
replaced.

`HookInstallProofs` proves `TypeOK`, `EngineIsReached` and `OneUpdatePerFrame` of
`HookInstall` for any number of tables, mods, failures and nested calls, from
`HookAssumption`.  `InstallIsOnTrack` is what each step of `InstallOnce` knows;
`HooksAreDistinct` says that nothing is led to twice; `ThunksAreServed` that
whatever leads to a thunk finds its original there, which is why the rollback
may clear one only after its slot has it back; `CallsReachHooks` carries this to
the calls under way.  That an outermost update is served once needs more: a call
that passed a thunk must not meet one again.  The mods that had hooked a table
before the thunk did (`EarlyMods`) never lead back to it, and `OrderIsKept` says
that there is such a set at every moment.  One lemma per action, as above.
That a call comes to the engine's function by way of every mod (`ChainIsWhole`)
is stated with a recursive function that follows the chain of a slot for as many
steps as there could be hooks.  What is inductive is that a way of a call exists
at all: `WaysAreWhole`, a sequence from the slot to the engine's function without
repetition and with every mod that hooked.  A patch or a hook puts a target in
front of it, a rollback or an unhook takes the first one away (`WayGrows`,
`WayShrinks`), and nothing else touches an original something leads to
(`WayStays`).  `ChainFollowsWay` then shows that the function follows that
sequence – the set of numbers where it does not has no least element
(`LeastOfNat`, `AlikeFromTheStart`) – and `WayIsShort` that it goes far enough, by
counting mods, thunks and the engine's function.  The mods are finitely many
(`HookAssumption`).

`EventDeliveryProofs` proves `TypeOK`, `RestoreIsOwed`, `NoStaleSceneOnMain`,
`NoticesAreKept` and `LateWorkStartsNothing` of `EventDelivery` for any number of
notifiers, notices, loads, camera-state changes and failures, from
`ConstantsAssumption`.  A stamp can only be bounded by what raised it, so
`StampsAreCounted` sets the stamps against notices, loads, changes and failures,
with the invalidations a load under way still owes (`Owed`).  `WorkIsStamped` is
the heart of the late-start theorem: work raised before a load that has
invalidated (`Settling`) carries a stamp that is no longer live, wherever it is
– with a notifier, posted, or in the batch.  `ReceiptsAreDistinct` says that a
stamp is in one place, without which the count of `NoticesAreKept` could stay
right while one notice is lost and another worked twice; `WorkIsAtHand` carries
the load checks of the main thread from one locked section to the next.
`NoStaleSceneOnMain` and its part of `WorkIsAtHand` assume that loads come on the
main thread, as the property does.

`AnimationUpdateProofs` proves `TypeOK`, `ReceiptsAreKept`, `MetadataIsWhole`,
`SettledIsFinal` and `SelectionIsCurrent` of `AnimationUpdate`, and that it
implements `MetadataHold` (`IsAHold`), for any number of scenes, notifiers,
animations, notices and edits and any capacity of two or more receipts.
Everything turns on stamps that are on their way: `NoticesAreUnhandled` says
that such a stamp is that of no work and no metadata yet, and that the event
kept with a scene's last stamp is the one that will be handled;
`NoticesAreDistinct` that it is on its way once.  Handling a notice therefore
starts a hold nothing in flight belongs to (`HoldIsOne`), and the answers that
come are those it asked for (`AnswersAreOfHold`, `RepliesAgree`).  That an
eviction always finds a receipt to take, other than that of the scene followed,
needs two receipts of capacity and the least key (`EvictionMakesRoom`).  For the
refinement each action is shown to be one of the four things a step may do to
the hold (`HoldSteps`) or to leave it alone (`SameHoldStutters`).

`PresetSelectionProofs` proves `TypeOK`, `SelectionIsSteady`,
`StepsFollowTheRating` and `StepsGoRound` of `PresetSelection` for any presets,
filters, animations, views and bounds, from `SelectionAssumption`.  An update is
a row of stages, so the invariant is stated of any record `s` of the scene's fields
(`Sound`) and carried from stage to stage; each operator of the module has a lemma
that says what it makes of a record (`MeasuredIs`, `RequestedIs`, ...), each stage
one that it keeps `Sound`, and `StagesKeep` puts them in order.  The parts that no
property states are these: `Follows`, that a list rated under the presets
in force agrees with their filters and has no id twice, as long as it is current,
settled and not of a draft; `GivenBack`, that a camera given back is not taken
again by what has been looked at already; and `AppliedWasPosted`, which gives the
order of revisions that both lean on.  `Distinct` and `Counted` keep the list and
the counters in their bounds.  `StepsGoRound` is about the pure `Step`, for
lists of any length: `StepOn` and `StepBack` find the usable neighbour by the least
distance, `ClosedIsAll` shows that a set closed under steps has no usable id
outside it, since a step from the id of the set nearest before that one would end
on it or nearer still, and `BackUndoes` that nothing usable lies between the two
ends of a step.

Two attempts at these proofs failed for a reason TLC then confirmed with one bound
raised, and the properties were corrected to what the code does:

* An editor closed and opened again before the next update leaves the rating of
  its draft as the list, because only a *live* request that was applied counts as
  a preview that ended (`SceneCamera.cpp:487-490`).  A key pressed then goes by a rating
  the filter had no say in: `StepsFollowTheRating` excepts a list of a draft.
* A preset that was deleted and is back under its id lets the next rating take
  the camera again without a key: `SelectionIsSteady` says so.

`PresetEditorProofs` proves `TypeOK`, `AssignmentLasts`, `UnsavedIsAsked`,
`SavedWasSeen` and `AssignmentIsWanted` of `PresetEditor` with `EditHotkey`, for any
keys, ids, poses, scopes and lists found at a reload, from `HotkeyAssumption` and
`EditorAssumption`.  The invariant has two halves that meet in `KeyStep` only.  Of
the key: `KeysSound` (memory, file and promise agree, and no decision that waits to
be stored carries Escape) and `Wanted` (on the thread of the frames, no key is
awaited or captured that nobody asked for).  Of the editor: `Tracks`, that a
request made with the draft's revision is of the draft's pose and that current
feedback shows it, is what makes a save a save of what was seen; it has to hold
through every operator that changes draft, request or revision (`PublishIs`,
`ClearIs`, `CancelDraftKeeps`, `LeaveKeeps`, ...), with a window or without.  `Listed`
keeps ids unique, on which selecting, replacing and deleting by id rest; that lists
loaded from outside are so is in `EditorAssumption`, as `PresetRepository.cpp:138`
refuses any other.  `UnsavedIsAsked` is proved action by action: each
that may run while a draft is unsaved is shown to be one of the excepted ones or to
leave the draft undisturbed (`Undisturbed`).

With that, every invariant and every action property of the passing runs is a
theorem, and so are the three refinements.  Of the liveness properties,
`RestoreEnds` and `MovementFreesCamera` are proved from `KeepsBeginning` and
`KeepsEnding`, and checked under `Fairness` itself.  Only model-checked are
`UnlockEnds`, `WatchdogEnds` and `HoldEnds`: they count up to a deadline of any
length, which takes an induction over a temporal formula.
`PoseIsOwned` and `StagesAreGuarded` are proved and not checked by a run.  Where a
proof goes over numbers or along a list (steps, chains, receipts), it takes the
least counterexample of a set instead of an induction, whose theorems this prover
cannot instantiate.

## 5. Not modelled, and why

* Pose mathematics (`core/CameraPose.cpp`), `CameraOutput` and the FOV offset are
  floating-point data; the models have "applied" and "not".
* `HavokVisibilityProbe` and `SexLabPSceneSource` read game objects; their answers
  are inputs (`Sights`, anchors, positions).
* `WorldDebugVisualization` draws, and nothing depends on it.
* ImGui's layout, texts and feedback messages of the editor; its filter list beyond
  "differs from the saved one".
* The registration of hooks, menus and listeners with the game, the build and
  vendored headers.

## 6. Plan

1. `SceneCamera`, `SceneLease`, `SceneCameraProofs`, `SceneLeaseProofs` – done.
2. `AnimationUpdate`, `MetadataHold` – done.
3. `EventDelivery` – done.
4. `PresetStore`, `PresetStoreProofs` – done.
5. `CandidateRules`, `PresetSelection` – done.
6. `HookInstall`, `HookInstallProofs` – done.
7. `EditHotkey`, `PresetEditor` – done.
8. `EventDeliveryProofs`, `AnimationUpdateProofs`, `PresetSelectionProofs`,
   `PresetEditorProofs`, the chains of `HookInstallProofs`, `PresetDocument` and that
   `PresetStore` implements it, `RestoreEnds` and `MovementFreesCamera` – done.
9. Models left: `SexLabPSceneSource::CollectParticipants`, the choice of what the
   debug overlay shows.
