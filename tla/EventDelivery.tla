---------------------------- MODULE EventDelivery ----------------------------
(****************************************************************************)
(* How a scene notice travels from the thread that raises it to the scene   *)
(* procedure (CameraHook.cpp, MainUpdateDispatcher.cpp), while loads and    *)
(* camera-state changes invalidate what is under way.                       *)
(*                                                                          *)
(* A notifier stamps the notice, reads the lifecycle generation and posts   *)
(* the work, in three steps.  The main update processes a pending reset,    *)
(* takes what was posted as one batch, works it off and ends with           *)
(* ProcessMainUpdate; every atomic access to what other threads change is a *)
(* step of its own.  A load bumps the generation, invalidates the receipts  *)
(* and requests the reset, also step by step.                               *)
(*                                                                          *)
(* The procedure is reduced to its session and its reset flag (the module   *)
(* SceneCamera has the rest): a restore may be refused or throw.            *)
(****************************************************************************)
EXTENDS Naturals, Sequences, FiniteSets

CONSTANTS
    Keys,         \* scene keys
    NoKey,
    Notifiers,    \* threads that raise notices
    EventTypes,   \* of "Starting", "Start", "Change", "End"
    LoadThreads,  \* where lifecycle messages may come from: "main", "other"
    Failures,     \* what may throw: "reset", "tick", "notice", "camera", "thread"
    MaxNotices,   \* bound: notices raised
    MaxLoads,     \* bound: lifecycle messages
    MaxChanges,   \* bound: camera-state changes that request a reset
    MaxFailures   \* bound: failures

ASSUME ConstantsAssumption ==
    /\ NoKey \notin Keys
    /\ EventTypes \subseteq {"Starting", "Start", "Change", "End"}
    /\ LoadThreads \subseteq {"main", "other"}
    /\ Failures \subseteq {"reset", "tick", "notice", "camera", "thread"}
    /\ {MaxNotices, MaxLoads, MaxChanges, MaxFailures} \subseteq Nat

VARIABLES
    where,       \* the thread lifecycle messages come from
    generation,  \* eventGeneration_: loads begun
    serial,      \* the coordinator's serial_
    through,     \* its invalidatedThrough_
    reset,       \* resetRequested_
    scene,       \* session_, with the generation its notice was raised in
    hook,        \* installState_
    notifiers,   \* per notifier: where it is, and its notice
    pending,     \* pending_ of the dispatcher
    main,        \* where the main thread is, its batch and the work it is at
    load,        \* where the lifecycle message handler is
    camera,      \* where the camera-state observer is
    raised, changes, failures,  \* notices, camera-state changes, failures so far
    settled      \* history: receipts worked off

vars == <<where, generation, serial, through, reset, scene, hook, notifiers,
          pending, main, load, camera, raised, changes, failures, settled>>

producers == <<notifiers, pending, raised>>
resetters == <<load, camera, changes>>
receipts == <<serial, through>>

Stamps == 0 .. MaxNotices + 2 * MaxLoads + MaxChanges + MaxFailures
Eras == 0 .. MaxLoads

\* `raised` is the generation when the notice was stamped, `generation` the
\* one the work was posted with.
Work == [type : EventTypes, key : Keys, receipt : Stamps,
         raised : Eras, generation : Eras]

Scene == [state : {"Idle", "Preparing", "Active", "Restoring"},
          key : Keys \cup {NoKey}, raised : Eras]
NoScene == [state |-> "Idle", key |-> NoKey, raised |-> 0]

Main == [pc : {"idle", "take", "next", "collect", "recheck", "live", "restore", "apply"},
         batch : Seq(Work), player : BOOLEAN, loads : Eras]

TypeOK ==
    /\ where \in {"main", "other"} /\ generation \in Eras
    /\ serial \in Stamps /\ through \in Stamps /\ reset \in BOOLEAN
    /\ scene \in Scene /\ (scene.state = "Idle" <=> scene = NoScene)
    /\ hook \in {"notInstalled", "installed", "failed"}
    /\ notifiers \in [Notifiers -> [pc : {"idle", "stamped", "numbered"},
                                   work : Work \cup {<<>>}]]
    /\ \A n \in Notifiers : notifiers[n].pc # "idle" => notifiers[n].work \in Work
    /\ pending \in Seq(Work)
    /\ main \in Main
    /\ load \in {"idle", "bumped", "invalidated", "requesting"}
    /\ camera \in {"idle", "requesting"}
    /\ raised \in 0 .. MaxNotices /\ changes \in 0 .. MaxChanges
    /\ failures \in 0 .. MaxFailures
    /\ settled \subseteq Stamps

AtRest == [pc |-> "idle", batch |-> <<>>, player |-> FALSE, loads |-> 0]

Init ==
    /\ where \in LoadThreads
    /\ generation = 0 /\ serial = 0 /\ through = 0 /\ reset = FALSE
    /\ scene = NoScene /\ hook = "notInstalled"
    /\ notifiers = [n \in Notifiers |-> [pc |-> "idle", work |-> <<>>]]
    /\ pending = <<>> /\ main = AtRest
    /\ load = "idle" /\ camera = "idle"
    /\ raised = 0 /\ changes = 0 /\ failures = 0
    /\ settled = {}

-----------------------------------------------------------------------------
(* CameraHook::SubmitEvent on a notifier thread.                            *)

ReceiveSceneEvent(n, type, key) ==
    /\ notifiers[n].pc = "idle" /\ raised < MaxNotices
    /\ raised' = raised + 1
    /\ serial' = serial + 1
    /\ notifiers' = [notifiers EXCEPT ![n] =
          [pc |-> "stamped",
           work |-> [type |-> type, key |-> key, receipt |-> serial + 1,
                     raised |-> generation, generation |-> 0]]]
    /\ UNCHANGED <<where, generation, through, reset, scene, hook, pending, main,
                   resetters, failures, settled>>

LoadGeneration(n) ==
    /\ notifiers[n].pc = "stamped"
    /\ notifiers' = [notifiers EXCEPT ![n].pc = "numbered",
                                      ![n].work.generation = generation]
    /\ UNCHANGED <<where, generation, receipts, reset, scene, hook, raised, pending,
                   main, resetters, failures, settled>>

Post(n) ==
    /\ notifiers[n].pc = "numbered"
    /\ pending' = Append(pending, notifiers[n].work)
    /\ notifiers' = [notifiers EXCEPT ![n] = [pc |-> "idle", work |-> <<>>]]
    /\ UNCHANGED <<where, generation, receipts, reset, scene, hook, raised, main,
                   resetters, failures, settled>>

-----------------------------------------------------------------------------
(* Restores and resets of the procedure.                                    *)

Restoring(s) == IF s = NoScene THEN s ELSE [s EXCEPT !.state = "Restoring"]

\* Restore gives everything back, or leaves the scene to a later reset.
Restores == \/ scene' = NoScene /\ UNCHANGED reset
            \/ scene' = Restoring(scene) /\ reset' = TRUE

\* ProcessPendingReset: the flag is taken first.
ProcessPendingReset ==
    IF reset
    THEN \/ scene' = NoScene /\ reset' = FALSE
         \/ scene' = Restoring(scene) /\ reset' = TRUE
    ELSE UNCHANGED <<scene, reset>>

EmergencyReset == \/ scene' = NoScene /\ reset' = FALSE
                  \/ scene' = Restoring(scene) /\ reset' = TRUE

Fails(what) ==
    /\ what \in Failures /\ failures < MaxFailures
    /\ failures' = failures + 1

\* SceneCamera::RequestReset in one go, by the main thread itself.
RequestReset ==
    /\ serial' = serial + 1 /\ through' = serial + 1
    /\ reset' = TRUE

\* Mutant: the failure is only logged.
HandleBoundaryFailureQuietly == UNCHANGED receipts /\ reset' = FALSE

\* An exception left the pending reset unfinished: it is requested again.
HandleBoundaryFailure == RequestReset

-----------------------------------------------------------------------------
(* MainUpdateThunk and MainUpdateDispatcher::Tick.                          *)

\* A load on the main thread keeps it from everything else.
Free == main.pc = "idle" /\ (where = "main" => load = "idle")

\* Mutant: the batch is taken before the reset is processed.
TickBeginWithBatch ==
    /\ Free
    /\ pending' = <<>>
    /\ \/ /\ ProcessPendingReset
          /\ main' = [main EXCEPT !.pc = "take", !.batch = pending]
          /\ UNCHANGED <<receipts, failures>>
       \/ /\ Fails("reset") /\ reset
          /\ scene' \in {NoScene, Restoring(scene)}
          /\ HandleBoundaryFailure
          /\ UNCHANGED main
    /\ UNCHANGED <<where, generation, hook, notifiers, raised, resetters, settled>>

\* A throwing reset ends the tick before the batch is taken.
TickBegin ==
    /\ Free
    /\ \/ /\ ProcessPendingReset
          /\ main' = [main EXCEPT !.pc = "take"]
          /\ UNCHANGED <<receipts, failures>>
       \/ /\ Fails("reset") /\ reset
          /\ scene' \in {NoScene, Restoring(scene)}
          /\ HandleBoundaryFailure
          /\ UNCHANGED main
    /\ UNCHANGED <<where, generation, hook, producers, resetters, settled>>

TickTake ==
    /\ main.pc = "take"
    /\ main' = [main EXCEPT !.pc = "next", !.batch = @ \o pending]
    /\ pending' = <<>>
    /\ UNCHANGED <<where, generation, receipts, reset, scene, hook, notifiers, raised,
                   resetters, failures, settled>>

\* The main update runs on another thread than before.
MainUpdateElsewhere ==
    /\ Free /\ Fails("thread")
    /\ RequestReset
    /\ UNCHANGED <<where, generation, scene, hook, producers, main, resetters, settled>>

\* ProcessMainUpdate: the watchdog may end the scene.
TickEnd ==
    /\ main.pc = "next" /\ main.batch = <<>>
    /\ main' = AtRest
    /\ \/ UNCHANGED <<scene, reset, receipts, failures>>
       \/ scene.state = "Active" /\ ~reset /\ Restores /\ UNCHANGED <<receipts, failures>>
       \/ /\ Fails("tick") /\ HandleBoundaryFailure
          /\ scene' \in {scene, NoScene, Restoring(scene)}
    /\ UNCHANGED <<where, generation, hook, producers, resetters, settled>>

-----------------------------------------------------------------------------
(* The posted work, one notice.                                             *)

Notice == Head(main.batch)

Done == main' = [main EXCEPT !.pc = "next", !.batch = Tail(@), !.player = FALSE]

\* Settled, whether the procedure has seen it or a load or a reset came after it
\* was raised.
Settled == /\ Done
           /\ settled' = settled \cup {Notice.receipt}

Starts == Notice.type \in {"Starting", "Start"}

Loaded == IF load = "idle" THEN generation ELSE generation - 1

\* Only a start collects its participants.
Begin ==
    /\ main.pc = "next" /\ main.batch # <<>>
    /\ IF Notice.generation # generation
       THEN Settled
       ELSE /\ \E player \in IF Starts THEN BOOLEAN ELSE {FALSE} :
                  main' = [main EXCEPT !.pc = "collect", !.player = player,
                                       !.loads = Loaded]
            /\ UNCHANGED settled
    /\ UNCHANGED <<where, generation, receipts, reset, scene, hook, producers,
                   resetters, failures>>

\* The first start of a scene of the player installs the camera hook, once.
Collect ==
    /\ main.pc = "collect"
    /\ \/ /\ hook = "installed"
          /\ main' = [main EXCEPT !.pc = "recheck"]
          /\ UNCHANGED <<hook, settled>>
       \/ /\ hook = "failed" \/ (hook = "notInstalled" /\ ~main.player)
          /\ Settled
          /\ UNCHANGED hook
       \/ /\ hook = "notInstalled" /\ main.player
          /\ \/ hook' = "installed" /\ main' = [main EXCEPT !.pc = "recheck"]
                /\ UNCHANGED settled
             \/ hook' = "failed" /\ Settled
    /\ UNCHANGED <<where, generation, receipts, reset, scene, producers,
                   resetters, failures>>

Recheck ==
    /\ main.pc = "recheck"
    /\ IF Notice.generation # generation
       THEN Settled
       ELSE main' = [main EXCEPT !.pc = "live"] /\ UNCHANGED settled
    /\ UNCHANGED <<where, generation, receipts, reset, scene, hook, producers,
                   resetters, failures>>

\* Mutant: the generation is trusted alone.
AnyReceipt == TRUE

IsLiveReceipt == Notice.receipt > through

HandleSceneEvent ==
    /\ main.pc = "live"
    /\ IF IsLiveReceipt
       THEN main' = [main EXCEPT !.pc = "restore"] /\ UNCHANGED settled
       ELSE Settled
    /\ UNCHANGED <<where, generation, receipts, reset, scene, hook, producers,
                   resetters, failures>>

\* Every handler begins with a pending reset.
HandlerRestores ==
    /\ main.pc = "restore"
    /\ ProcessPendingReset
    /\ main' = [main EXCEPT !.pc = "apply"]
    /\ UNCHANGED <<where, generation, receipts, hook, producers, resetters,
                   failures, settled>>

Prepared ==
    IF main.player /\ scene = NoScene
    THEN [state |-> "Preparing", key |-> Notice.key, raised |-> Notice.raised]
    ELSE scene

\* Mutant: the abandoned scene keeps its key.
StartedKeepingKey ==
    IF Prepared.state # "Preparing" \/ Prepared.key # Notice.key THEN Prepared
    ELSE [Prepared EXCEPT !.state = IF main.player THEN "Active" ELSE "Idle"]

Started ==
    IF Prepared.state # "Preparing" \/ Prepared.key # Notice.key THEN Prepared
    ELSE IF main.player THEN [Prepared EXCEPT !.state = "Active"]
    ELSE NoScene

\* A restore still owed, or asked for since, ends the handler.
HandlerApplies ==
    LET proceeds == scene.state # "Restoring" /\ ~reset IN
    /\ main.pc = "apply"
    /\ \/ /\ ~proceeds \/ Notice.type = "Change"
                       \/ (Notice.type = "End" /\ scene.key # Notice.key)
          /\ UNCHANGED <<scene, reset>>
       \/ /\ proceeds /\ Notice.type = "Starting"
          /\ scene' = Prepared /\ UNCHANGED reset
       \/ /\ proceeds /\ Notice.type = "Start"
          /\ scene' = Started /\ UNCHANGED reset
       \/ /\ proceeds /\ Notice.type = "End" /\ scene.key = Notice.key
          /\ Restores
    /\ Settled
    /\ UNCHANGED <<where, generation, receipts, hook, producers, resetters, failures>>

\* The work catches what it throws: the batch goes on.  An installation that
\* throws has failed for good.
NoticeFails ==
    /\ main.pc \in {"collect", "live", "restore", "apply"} /\ Fails("notice")
    /\ \/ EmergencyReset /\ UNCHANGED receipts
       \/ HandleBoundaryFailure /\ scene' \in {scene, NoScene, Restoring(scene)}
    /\ hook' \in IF main.pc = "collect" /\ hook = "notInstalled" /\ main.player
                 THEN {hook, "failed"} ELSE {hook}
    /\ Settled
    /\ UNCHANGED <<where, generation, producers, resetters>>

-----------------------------------------------------------------------------
(* The camera-state update of the main thread.                              *)

CameraUpdate ==
    /\ Free /\ hook = "installed" /\ (scene.state = "Active" \/ reset)
    /\ \/ ProcessPendingReset /\ UNCHANGED failures
       \/ scene.state = "Active" /\ ~reset /\ Restores /\ UNCHANGED failures
       \/ Fails("camera") /\ EmergencyReset
    /\ UNCHANGED <<where, generation, receipts, hook, producers, main, resetters, settled>>

-----------------------------------------------------------------------------
(* PluginRuntime::QueueLifecycleReset and the camera-state observer.        *)

LoadBegin ==
    /\ load = "idle" /\ generation < MaxLoads
    /\ where = "main" => main.pc = "idle"
    /\ generation' = generation + 1
    /\ load' = "bumped"
    /\ UNCHANGED <<where, receipts, reset, scene, hook, producers, main, camera,
                   changes, failures, settled>>

\* Mutant: the receipts stay valid.
InvalidateNothing == UNCHANGED receipts

Invalidate == serial' = serial + 1 /\ through' = serial + 1

\* InvalidatePendingEvents, then the same once more in RequestReset.
LoadInvalidates ==
    /\ load \in {"bumped", "invalidated"}
    /\ Invalidate
    /\ load' = IF load = "bumped" THEN "invalidated" ELSE "requesting"
    /\ UNCHANGED <<where, generation, reset, scene, hook, producers, main, camera,
                   changes, failures, settled>>

LoadRequestsReset ==
    /\ load = "requesting"
    /\ reset' = TRUE
    /\ load' = "idle"
    /\ UNCHANGED <<where, generation, receipts, scene, hook, producers, main, camera,
                   changes, failures, settled>>

\* A state other than third person, animated or free.
CameraStateChanges ==
    /\ camera = "idle" /\ changes < MaxChanges
    /\ changes' = changes + 1
    /\ Invalidate
    /\ camera' = "requesting"
    /\ UNCHANGED <<where, generation, reset, scene, hook, producers, main, load,
                   failures, settled>>

CameraStateResets ==
    /\ camera = "requesting"
    /\ reset' = TRUE
    /\ camera' = "idle"
    /\ UNCHANGED <<where, generation, receipts, scene, hook, producers, main, load,
                   changes, failures, settled>>

Notifies(n) == \/ \E type \in EventTypes, key \in Keys : ReceiveSceneEvent(n, type, key)
               \/ LoadGeneration(n)
               \/ Post(n)

MainUpdate == TickBegin \/ TickTake \/ TickEnd \/ Begin \/ Collect \/ Recheck
              \/ HandleSceneEvent \/ HandlerRestores \/ HandlerApplies \/ NoticeFails

Loads == LoadBegin \/ LoadInvalidates \/ LoadRequestsReset

Next ==
    \/ \E n \in Notifiers : Notifies(n)
    \/ MainUpdate
    \/ MainUpdateElsewhere
    \/ CameraUpdate
    \/ Loads
    \/ CameraStateChanges \/ CameraStateResets

Spec == Init /\ [][Next]_vars

-----------------------------------------------------------------------------
(* Properties.                                                              *)

\* hook-spec.md: notices raised before a load are not applied to what comes
\* after it.  Once the load has returned and its reset is processed, no scene
\* of a notice raised before it is left.
NoStaleScene ==
    load = "idle" /\ ~reset /\ scene # NoScene => scene.raised = generation

\* With loads on the main thread that holds.
NoStaleSceneOnMain == where = "main" => NoStaleScene

\* On whatever thread loads come: a notice whose work is begun after a load
\* has returned starts no scene if it was raised before it, although its
\* generation may have been read after the load.
LateWorkStartsNothing ==
    [][ scene = NoScene /\ scene' # NoScene => Notice.raised >= main.loads ]_vars

\* A scene being given back always has a reset requested, whatever threw on the
\* way and whichever thread requests or consumes resets.
RestoreIsOwed == scene.state = "Restoring" => reset

\* MainUpdateDispatcher.cpp: a throwing reset or notice loses no other notice.
\* What was raised is on its way, posted, in the batch, or worked off.
NoticesAreKept ==
    raised = Cardinality({n \in Notifiers : notifiers[n].pc # "idle"})
             + Len(pending) + Len(main.batch) + Cardinality(settled)

=============================================================================
