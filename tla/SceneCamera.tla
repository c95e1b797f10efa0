------------------------------ MODULE SceneCamera ------------------------------
(****************************************************************************)
(* The scene procedure of SceneCamera.cpp with what it owns: the session,   *)
(* the recorded camera ownership and target-lock disable, the metadata      *)
(* hold, the movement suspension and the debug resume.                      *)
(*                                                                          *)
(* The game's main thread alternates two entry points: the main-update hook *)
(* (MainUpdateDispatcher::Tick: TickBegin, HandleSceneEvent*, TickEnd) and  *)
(* the camera-state hook (SceneCamera::Update, the Update* actions, one per *)
(* stage between two of its early returns).  `pc` says where that thread    *)
(* is.  RequestReset comes from any other thread, between any two stages,   *)
(* and the two foreign APIs may change hands at any moment.                 *)
(*                                                                          *)
(* Data the properties do not tell apart are inputs of the actions: whether *)
(* an anchor sample was available, whether a transform resolved, whether a  *)
(* pose could be built and applied, what the preview channel and the debug  *)
(* switch held when they were read.                                         *)
(****************************************************************************)
EXTENDS Integers

CONSTANTS
    Keys,           \* scene keys (quest form id, P+ thread id)
    NoKey,          \* the empty std::optional<SceneKey>
    Hold,           \* 5 s: longest metadata hold after a notice
    UnlockWait,     \* 2 s: kTargetUnlockTimeout
    Watchdog,       \* 30 min: kMaximumSceneDuration
    DebugAttempts,  \* kDebugResumeAttempts
    HasTDM,         \* targetLockControl_ is configured
    DebugModes,     \* values IDebugVisualization::Enabled() takes
    CanBeTaken,     \* another mod may take the camera from its owner
    Environments    \* how the foreign APIs may answer during one step

Answers == [camera  : {"ok", "refuses", "wrongThread"},
            release : {"ok", "fails"},
            lock    : {"ok", "fails", "wrongThread"}]

ASSUME ConstantsAssumption ==
    /\ NoKey \notin Keys
    /\ Hold \in Nat /\ UnlockWait \in Nat /\ Watchdog \in Nat
    /\ DebugAttempts \in Nat \ {0}
    /\ HasTDM \in BOOLEAN /\ CanBeTaken \in BOOLEAN
    /\ DebugModes \subseteq BOOLEAN
    /\ Environments \subseteq Answers

VARIABLES
    cam,    \* SceneCamera's fields and the recorded state of its collaborators
    pc,     \* where the main thread is
    live    \* Update's local previewSessionActive

vars == <<cam, pc, live>>

Stages == {"unlock", "debug", "anchor", "resume", "present", "show", "step", "posed"}

SessionStates == {"Idle", "Preparing", "Active", "Restoring"}
MetadataStates == {"none", "waiting", "ready", "committed"}
SceneKeys == Keys \cup {NoKey}
SceneAges == 0 .. Watchdog + 1
NoticeAges == 0 .. Hold
UnlockAges == 0 .. UnlockWait
Attempts == 0 .. DebugAttempts
LockOwners == {"none", "SSC"}
CameraOwners == {"none", "SSC", "other"}

Camera == [
    session       : SessionStates,  \* SceneSession
    key           : SceneKeys,
    reset         : BOOLEAN,        \* resetRequested_
    suspended     : BOOLEAN,        \* movementSuspended_
    eval          : BOOLEAN,        \* sceneEvaluationPending_
    anchor        : BOOLEAN,        \* anchor_ has a value
    pose          : BOOLEAN,        \* cameraPose_ has a value
    sceneAge      : SceneAges,      \* now - activeSince_, saturating
    debugSeen     : BOOLEAN,        \* debugModeObserved_
    resume        : BOOLEAN,        \* debugResumePending_
    attempts      : Attempts,       \* debugResumeAttemptsLeft_
    target        : SceneKeys,      \* the coordinator's active_
    metadata      : MetadataStates,
    noticeAge     : NoticeAges,     \* time since the target's last notice
    unlockQueued  : BOOLEAN,
    unlockPending : BOOLEAN,
    unlockAge     : UnlockAges,
    disables      : BOOLEAN,        \* TDMTargetLockControl::ownsDisable_
    lockOwner     : LockOwners,     \* TDM's own record
    owns          : BOOLEAN,        \* SmoothCamCameraControl::ownsCamera_
    owner         : CameraOwners]   \* SmoothCam's own record

TypeOK ==
    /\ cam \in Camera
    /\ pc \in {"idle", "batch", "overtaken"} \cup Stages
    /\ live \in BOOLEAN

Init ==
    /\ cam = [session |-> "Idle", key |-> NoKey, reset |-> FALSE,
              suspended |-> FALSE, eval |-> FALSE, anchor |-> FALSE,
              pose |-> FALSE, sceneAge |-> 0, debugSeen |-> FALSE,
              resume |-> FALSE, attempts |-> 0, target |-> NoKey,
              metadata |-> "none", noticeAge |-> 0,
              unlockQueued |-> FALSE, unlockPending |-> FALSE,
              unlockAge |-> 0, disables |-> FALSE, lockOwner |-> "none",
              owns |-> FALSE, owner |-> "none"]
    /\ pc = "idle"
    /\ live = FALSE

-----------------------------------------------------------------------------
(* The metadata coordinator, as the procedure sees it.                      *)

\* AnimationUpdateCoordinator::Pending: no finished update for the target.
Pending(c) == c.metadata \notin {"ready", "committed"}

ClearTarget(c) == [c EXCEPT !.target = NoKey, !.metadata = "none"]

\* A player scene is adopted when none is tracked; notices of any other scene
\* are ignored; an accepted one starts a new hold.
Observe(c, type, k, player) ==
    LET adopts == c.target = NoKey /\ player /\ type \in {"Starting", "Start"}
    IN  IF (~adopts /\ c.target # k) \/ type = "Relocated"
        THEN c
        ELSE IF type = "End"
             THEN ClearTarget(c)
             ELSE [c EXCEPT !.target = k, !.metadata = "waiting", !.noticeAge = 0]

\* The hold ends with an answer or, at the deadline, as "unknown".
MetadataTick(c, reply) ==
    IF c.metadata = "waiting" /\ (reply \/ c.noticeAge >= Hold)
    THEN [c EXCEPT !.metadata = "ready"]
    ELSE c

-----------------------------------------------------------------------------
(* The two foreign APIs.                                                    *)

OnThread(e) == e.camera # "wrongThread"

StillOwns(c, e) == c.owns /\ OnThread(e) /\ c.owner = "SSC"

CanAcquire(c, e) == e.camera = "ok" /\ c.owner # "other"

Acquired(c) == [c EXCEPT !.owns = TRUE, !.owner = "SSC"]

CanRequestUnlock(c, e, locked) ==
    e.lock # "wrongThread" /\ (c.disables \/ (locked /\ e.lock = "ok"))

\* Mutant: an unlock that takes too long is never cancelled.
CanFinishUnlockUncancelled(c, e, cancel, locked) ==
    c.disables => /\ e.lock # "wrongThread"
                  /\ c.lockOwner = "SSC" => (~locked /\ e.lock = "ok")

CanFinishUnlock(c, e, cancel, locked) ==
    c.disables => /\ e.lock # "wrongThread"
                  /\ c.lockOwner = "SSC" => ((cancel \/ ~locked) /\ e.lock = "ok")

\* FinishUnlock returned true and its callers drop targetUnlockPending_.
FinishUnlock(c) == [c EXCEPT !.disables = FALSE,
                             !.lockOwner = IF c.disables THEN "none" ELSE @,
                             !.unlockPending = FALSE, !.unlockAge = 0]

-----------------------------------------------------------------------------
(* Giving everything back.                                                  *)

StopSceneWork(c) ==
    [ClearTarget(c) EXCEPT
        !.suspended = FALSE, !.unlockQueued = FALSE, !.eval = FALSE,
        !.session = IF @ = "Idle" THEN @ ELSE "Restoring",
        !.resume = FALSE, !.attempts = 0]

Clear(c) ==
    [StopSceneWork(c) EXCEPT
        !.session = "Idle", !.key = NoKey, !.pose = FALSE, !.anchor = FALSE,
        !.sceneAge = 0, !.noticeAge = 0]

CanCancelUnlock(c, e) == c.unlockPending => CanFinishUnlock(c, e, TRUE, TRUE)

\* Mutant: the pending flag is dropped whatever FinishUnlock returned.
CancelTargetUnlockBlindly(c, e) ==
    IF c.unlockPending /\ CanCancelUnlock(c, e) THEN FinishUnlock(c)
    ELSE [c EXCEPT !.unlockPending = FALSE]

CancelTargetUnlock(c, e) ==
    IF c.unlockPending /\ CanCancelUnlock(c, e) THEN FinishUnlock(c) ELSE c

CanRelease(c, e) ==
    c.owns => OnThread(e) /\ c.owner = "SSC" /\ e.release = "ok"

Released(c) == [c EXCEPT !.pose = FALSE, !.owns = FALSE,
                         !.owner = IF c.owns THEN "none" ELSE @]

FoundLost(c, e) == OnThread(e) /\ c.owner # "SSC"

Discarded(c) == [StopSceneWork(c) EXCEPT !.owns = FALSE, !.reset = TRUE]

AsksForReset(c) == [c EXCEPT !.reset = TRUE]

\* Mutant: a lost ownership stops the scene without asking for the reset.
ReleaseCameraWithoutReset(c, e, resetOnFailure) ==
    IF CanRelease(c, e) THEN Released(c)
    ELSE IF FoundLost(c, e) THEN [StopSceneWork(c) EXCEPT !.owns = FALSE]
    ELSE IF resetOnFailure THEN AsksForReset(c) ELSE c

\* Mutant: a lost ownership is one more failed release, the scene goes on.
ReleaseCameraGoingOn(c, e, resetOnFailure) ==
    IF CanRelease(c, e) THEN Released(c)
    ELSE [c EXCEPT !.reset = @ \/ resetOnFailure, !.owns = @ /\ ~FoundLost(c, e)]

\* Mutant: a lost ownership stays on record.
ReleaseCameraKeepingRecord(c, e, resetOnFailure) ==
    IF CanRelease(c, e) THEN Released(c)
    ELSE IF FoundLost(c, e) THEN [StopSceneWork(c) EXCEPT !.reset = TRUE]
    ELSE IF resetOnFailure THEN AsksForReset(c) ELSE c

\* A refused release leaves everything for a later attempt; an ownership found
\* lost discards the scene instead.
ReleaseCamera(c, e, resetOnFailure) ==
    IF CanRelease(c, e)
    THEN Released(c)
    ELSE IF FoundLost(c, e)
    THEN Discarded(c)
    ELSE IF resetOnFailure THEN AsksForReset(c) ELSE c

\* Mutant: the scene is cleared even if the target lock stays disabled.
RestoreIgnoringUnlock(c, e) ==
    LET u == CancelTargetUnlock(StopSceneWork(c), e)
    IN  IF CanRelease(u, e) THEN Clear(ReleaseCamera(u, e, TRUE))
        ELSE ReleaseCamera(u, e, TRUE)

Restore(c, e) ==
    LET s == StopSceneWork(c)
        u == CancelTargetUnlock(s, e)
    IN  IF ~CanCancelUnlock(s, e)
        THEN AsksForReset(s)
        ELSE IF CanRelease(u, e)
             THEN Clear(ReleaseCamera(u, e, TRUE))
             ELSE ReleaseCamera(u, e, TRUE)

\* Mutant: a reset is acted upon only for a running scene.
ProcessPendingResetOfActive(c, e) ==
    IF c.reset /\ c.session = "Active" THEN Restore([c EXCEPT !.reset = FALSE], e)
    ELSE [c EXCEPT !.reset = FALSE]

ProcessPendingReset(c, e) ==
    IF c.reset THEN Restore([c EXCEPT !.reset = FALSE], e) ELSE c

\* The result of ProcessPendingReset: may the caller go on?
Proceeds(c) == c.session # "Restoring" /\ ~c.reset

CanEmergencyRelease(c, e) ==
    c.owns => OnThread(e) /\ (c.owner = "SSC" => e.release = "ok")

EmergencyReset(c, e) ==
    LET s == StopSceneWork(c)
        u == CancelTargetUnlock(s, e)
    IN  IF CanCancelUnlock(s, e) /\ CanEmergencyRelease(u, e)
        THEN [Clear(u) EXCEPT !.reset = FALSE, !.owns = FALSE,
                              !.owner = IF @ = "SSC" THEN "none" ELSE @]
        ELSE AsksForReset(u)

-----------------------------------------------------------------------------
(* Scene notices, after ProcessPendingReset let them through.               *)

Prepare(c, k, player) ==
    IF player /\ c.session = "Idle"
    THEN [c EXCEPT !.session = "Preparing", !.key = k]
    ELSE c

OnAnimationStart(c, k, player) ==
    LET p == Prepare(c, k, player)
    IN  IF p.session # "Preparing" \/ p.key # k
        THEN p
        ELSE IF ~player
             THEN Clear(p)
             ELSE [p EXCEPT !.session = "Active", !.eval = TRUE, !.sceneAge = 0,
                            !.unlockQueued = HasTDM]

OnActiveNotice(c, k, type) ==
    IF c.session = "Active" /\ c.key = k /\ ~(type = "Relocated" /\ c.suspended)
    THEN [c EXCEPT !.eval = TRUE]
    ELSE c

\* Mutant: the end of the scene forgets it without giving the camera back.
OnAnimationEndForgetting(c, k, e) == IF c.key = k THEN Clear(c) ELSE c

OnAnimationEnd(c, k, e) == IF c.key = k THEN Restore(c, e) ELSE c

\* StageStart is handled as Change, Ending as End.
EventTypes == {"Starting", "Start", "Change", "Relocated", "End"}

\* The coordinator observes the notice before a pending reset is processed.
Handle(c, type, k, player, e) ==
    LET p == ProcessPendingReset(Observe(c, type, k, player), e)
    IN  IF ~Proceeds(p)          THEN p
        ELSE IF type = "Starting" THEN Prepare(p, k, player)
        ELSE IF type = "Start"    THEN OnAnimationStart(p, k, player)
        ELSE IF type = "End"      THEN OnAnimationEnd(p, k, e)
        ELSE OnActiveNotice(p, k, type)

-----------------------------------------------------------------------------
(* ProcessMainUpdate, the tail of every main update.                        *)

SuspendForMovement(c) ==
    [c EXCEPT !.suspended = TRUE, !.unlockQueued = FALSE, !.eval = FALSE,
              !.resume = FALSE]

ResumeAfterMovement(c) ==
    [c EXCEPT !.suspended = FALSE, !.anchor = FALSE, !.eval = TRUE]

\* "relocked" is CollectControlState reporting movement relocked, a supported
\* camera state and no pause; "other" is any answer that neither suspends nor
\* allows the resume, no answer included.
ControlStates == {"moving", "relocked", "other"}

\* Mutant: a suspended scene has no watchdog.
WhileSuspendedUnwatched(c, controls, e) ==
    LET r == ReleaseCamera(CancelTargetUnlock(c, e), e, FALSE)
    IN  IF controls = "relocked" /\ r.session = "Active" /\ ~r.owns /\ ~r.unlockPending
        THEN ResumeAfterMovement(r) ELSE r

\* Mutant: no control state, no attempt to give the camera back.
WhileSuspendedUnanswered(c, controls, e) ==
    IF controls = "other" THEN c
    ELSE ReleaseCamera(CancelTargetUnlock(c, e), e, FALSE)

\* Both returns are attempted again in every main update of a suspension.
WhileSuspended(c, controls, e) ==
    LET u == CancelTargetUnlock(c, e)
        r == ReleaseCamera(u, e, FALSE)
    IN  IF c.sceneAge > Watchdog THEN Restore(c, e)
        ELSE IF /\ controls = "relocked" /\ CanCancelUnlock(c, e)
                /\ CanRelease(u, e) /\ ~Pending(r)
        THEN ResumeAfterMovement(r)
        ELSE r

\* `outdated`: the presets changed, or a new hold replaced evaluated metadata.
ProcessMainUpdate(c, reply, outdated, controls, e) ==
    LET t == MetadataTick(c, reply)
        stale == t.session = "Active" /\ (outdated \/ t.metadata = "ready")
        m == [t EXCEPT !.eval = @ \/ stale]
        s == IF controls = "moving" /\ ~m.suspended THEN SuspendForMovement(m) ELSE m
    IN  IF m.session # "Active" \/ m.reset THEN m
        ELSE IF s.suspended THEN WhileSuspended(s, controls, e)
        ELSE s

-----------------------------------------------------------------------------
(* Showing a transform.                                                     *)

\* What the pose calculator and SmoothCam's Apply make of a transform.
Posings == {"applied", "refused", "invalid"}

\* "posed": this update applied a pose; "held": nothing to apply, go on;
\* "failed": the caller returns.
Outcome(c, how) == [cam |-> c, how |-> how]

ApplyTransform(c, liveEdit, posing, e) ==
    IF ~c.anchor THEN Outcome(c, "failed")
    ELSE IF posing = "invalid"
    THEN Outcome(IF liveEdit THEN c ELSE Restore(c, e), "failed")
    ELSE IF c.owns /\ ~StillOwns(c, e) THEN Outcome(Restore(c, e), "failed")
    ELSE IF ~c.owns /\ ~CanAcquire(c, e) THEN Outcome(c, "failed")
    ELSE IF posing = "refused" THEN Outcome(Restore(Acquired(c), e), "failed")
    ELSE Outcome([Acquired(c) EXCEPT !.pose = TRUE], "posed")

\* Mutant: the hold does not keep the camera from being taken.
ApplyRequestedTransformAtOnce(c, liveEdit, resolves, posing, e) ==
    IF resolves THEN ApplyTransform(c, liveEdit, posing, e)
    ELSE IF c.owns /\ ~(liveEdit /\ c.pose)
    THEN Outcome(ReleaseCamera(c, e, TRUE), "failed")
    ELSE Outcome(c, "held")

ApplyRequestedTransform(c, liveEdit, resolves, posing, e) ==
    IF ~liveEdit /\ Pending(c) /\ ~c.pose THEN Outcome(c, "held")
    ELSE IF resolves THEN ApplyTransform(c, liveEdit, posing, e)
    ELSE IF c.owns /\ ~(liveEdit /\ c.pose)
    THEN Outcome(ReleaseCamera(c, e, TRUE), "failed")
    ELSE Outcome(c, "held")

\* The last lines of Update: keep the pose of a frame that applied none.
Maintain(c, resolves, posing, e) ==
    IF c.pose /\ \/ (c.anchor /\ resolves /\ posing = "invalid")
                 \/ ~StillOwns(c, e)
                 \/ posing = "refused"
    THEN Restore(c, e)
    ELSE c

-----------------------------------------------------------------------------
(* Where the main thread goes next; a returning update drops its locals.    *)

GoesTo(p) == pc' = p /\ UNCHANGED live

Returns == pc' = "idle" /\ live' = FALSE

ReturnsIf(stops, p) == IF stops THEN Returns ELSE GoesTo(p)

-----------------------------------------------------------------------------
(* The main update: TickBegin, one HandleSceneEvent per queued notice, then *)
(* TickEnd.                                                                 *)

TickBegin(e) ==
    /\ pc = "idle"
    /\ cam' = ProcessPendingReset(cam, e)
    /\ GoesTo("batch")

HandleSceneEvent(type, k, player, e) ==
    /\ pc = "batch"
    /\ cam' = Handle(cam, type, k, player, e)
    /\ UNCHANGED <<pc, live>>

TickEnd(reply, outdated, controls, e) ==
    /\ pc \in {"batch", "overtaken"}
    /\ cam' = ProcessMainUpdate(cam, reply, outdated, controls, e)
    /\ Returns

-----------------------------------------------------------------------------
(* SceneCamera::Update, one action per stage.                               *)

\* Mutant: a suspended scene is updated.
UpdateBeginSuspended(e) ==
    LET c == ProcessPendingReset(cam, e) IN
    /\ pc = "idle"
    /\ cam' = c
    /\ ReturnsIf(~Proceeds(c), "unlock")

UpdateBegin(e) ==
    LET c == ProcessPendingReset(cam, e) IN
    /\ pc = "idle"
    /\ cam' = c
    /\ ReturnsIf(~Proceeds(c) \/ c.suspended, "unlock")

\* The queued unlock is requested once; the camera waits for it to finish.
UpdateUnlock(e, locked) ==
    LET requests == cam.unlockQueued /\ cam.session = "Active"
                    /\ CanRequestUnlock(cam, e, locked)
        c == [cam EXCEPT !.unlockQueued = FALSE]
        cancel == c.unlockAge >= UnlockWait
    IN
    /\ pc = "unlock"
    /\ \/ /\ requests
          /\ cam' = [c EXCEPT !.unlockPending = TRUE, !.unlockAge = 0, !.disables = TRUE,
                              !.lockOwner = IF c.disables THEN @ ELSE "SSC"]
          /\ Returns
       \/ /\ ~requests /\ c.unlockPending /\ ~CanFinishUnlock(c, e, cancel, locked)
          /\ cam' = c
          /\ Returns
       \/ /\ ~requests
          /\ c.unlockPending => CanFinishUnlock(c, e, cancel, locked)
          /\ cam' = IF c.unlockPending THEN FinishUnlock(c) ELSE c
          /\ GoesTo("debug")

\* Mutant: the resume is scheduled even when no scene is running.
ChangeDebugModeAlways(c, mode, e) ==
    LET stopped == [c EXCEPT !.resume = FALSE, !.eval = @ \/ c.session = "Active"]
    IN  IF mode
        THEN [ReleaseCamera(stopped, e, FALSE) EXCEPT !.debugSeen = CanRelease(stopped, e)]
        ELSE [stopped EXCEPT !.debugSeen = FALSE, !.resume = TRUE,
                 !.attempts = IF c.session = "Active" THEN DebugAttempts ELSE @]

\* Mutant: debug mode counts as observed before the camera went back.
ChangeDebugModeFirst(c, mode, e) ==
    LET stopped == [c EXCEPT !.resume = FALSE, !.eval = @ \/ c.session = "Active"]
    IN  IF mode
        THEN [ReleaseCamera(stopped, e, FALSE) EXCEPT !.debugSeen = TRUE]
        ELSE [stopped EXCEPT !.debugSeen = FALSE]

\* A changed debug mode is taken over only after the camera went back.
ChangeDebugMode(c, mode, e) ==
    LET stopped == [c EXCEPT !.resume = FALSE, !.eval = @ \/ c.session = "Active"]
    IN  IF mode
        THEN [ReleaseCamera(stopped, e, FALSE) EXCEPT !.debugSeen = CanRelease(stopped, e)]
        ELSE [stopped EXCEPT !.debugSeen = FALSE,
                 !.resume = c.session = "Active",
                 !.attempts = IF c.session = "Active" THEN DebugAttempts ELSE @]

UpdateDebug(mode, preview, e) ==
    LET c == IF mode # cam.debugSeen THEN ChangeDebugMode(cam, mode, e) ELSE cam IN
    /\ pc = "debug"
    /\ cam' = c
    /\ IF c.debugSeen # mode \/ (c.session # "Active" /\ ~c.pose)
       THEN Returns
       ELSE pc' = "anchor" /\ live' = preview

\* Resume expiry, watchdog, anchor and evaluation.
UpdateAnchor(sampled, expired, measured, due, e) ==
    LET c == IF cam.resume /\ (live \/ expired)
             THEN [cam EXCEPT !.resume = FALSE, !.eval = @ /\ live] ELSE cam
        tracks == c.session = "Active" /\ (c.anchor \/ c.eval)
        refreshed == tracks /\ sampled
        a == [c EXCEPT !.anchor = @ \/ refreshed]
        evaluates == a.eval /\ ~Pending(a) /\ refreshed
        v == [a EXCEPT !.eval = FALSE, !.metadata = "committed"]
        retries(d) == d.resume /\ ~Pending(a) /\ ~d.eval /\ refreshed /\ due
    IN
    /\ pc = "anchor"
    /\ \/ /\ c.session = "Active" /\ c.sceneAge > Watchdog
          /\ cam' = Restore(c, e)
          /\ Returns
       \/ /\ ~(c.session = "Active" /\ c.sceneAge > Watchdog)
          /\ \/ tracks /\ ~sampled /\ ~c.anchor
             \/ evaluates /\ ~measured
          /\ cam' = a
          /\ Returns
       \/ /\ ~(c.session = "Active" /\ c.sceneAge > Watchdog)
          /\ evaluates /\ measured
          /\ cam' = v
          /\ GoesTo(IF ~v.debugSeen /\ ~v.resume THEN "show"
                    ELSE IF retries(v) THEN "resume" ELSE "present")
       \/ /\ ~(c.session = "Active" /\ c.sceneAge > Watchdog)
          /\ ~(tracks /\ ~sampled /\ ~c.anchor) /\ ~evaluates
          /\ cam' = a
          /\ GoesTo(IF retries(a) THEN "resume" ELSE "present")

\* One attempt to take the camera back after debug mode.
UpdateResume(resolves, posing, e) ==
    LET tried == [cam EXCEPT !.attempts = @ - 1]
        o == ApplyRequestedTransform(IF resolves THEN tried ELSE cam,
                                     FALSE, resolves, posing, e)
        givesUp == o.cam.session = "Active" /\ o.cam.attempts = 0
    IN
    /\ pc = "resume"
    /\ IF resolves /\ o.how = "failed"
       THEN /\ cam' = [o.cam EXCEPT !.resume = @ /\ ~givesUp]
            /\ Returns
       ELSE /\ cam' = [o.cam EXCEPT !.resume = FALSE]
            /\ GoesTo(IF o.how = "posed" THEN "posed" ELSE "present")

\* Debug mode ends here; an unresolved pose is given back; a changed preview
\* request is shown.
UpdatePresent(measured, fresh, ended, resolves, e) ==
    LET c == IF measured /\ cam.metadata = "ready" /\ ~live
             THEN [cam EXCEPT !.metadata = "committed"] ELSE cam
        failsEnd == ended /\ ~measured /\ cam.anchor /\ ~live /\ ~Pending(cam)
        unresolved == c.pose /\ ~live /\ ~resolves
    IN
    /\ pc = "present"
    /\ \/ /\ cam.debugSeen \/ failsEnd
          /\ cam' = c
          /\ Returns
       \/ /\ ~cam.debugSeen /\ ~failsEnd /\ unresolved
          /\ cam' = ReleaseCamera(c, e, TRUE)
          /\ Returns
       \/ /\ ~cam.debugSeen /\ ~failsEnd /\ ~unresolved
          /\ cam' = c
          /\ GoesTo(IF c.anchor /\ ~c.resume /\ fresh THEN "show" ELSE "step")

UpdateShow(resolves, posing, e) ==
    LET o == ApplyRequestedTransform(cam, live, resolves, posing, e) IN
    /\ pc = "show"
    /\ cam' = o.cam
    /\ ReturnsIf(o.how = "failed", IF o.how = "posed" THEN "posed" ELSE "step")

\* An A/D step replaces the pose; otherwise the pose is maintained.
UpdateStep(stepping, resolves, posing, e) ==
    /\ pc \in {"step", "posed"}
    /\ \/ /\ stepping /\ ~live /\ ~cam.resume /\ cam.metadata = "committed"
          /\ pc = "step" => ~cam.eval
          /\ cam' = ApplyTransform(cam, FALSE, posing, e).cam
       \/ /\ ~stepping
          /\ cam' = IF pc = "posed" THEN cam ELSE Maintain(cam, resolves, posing, e)
    /\ Returns

-----------------------------------------------------------------------------
(* Failures, other threads and the outside world.                           *)

\* An exception in Update or in a notice handler.
UpdateFails(e) ==
    /\ pc \in Stages \cup {"batch"}
    /\ cam' = EmergencyReset(cam, e)
    /\ ReturnsIf(pc # "batch", pc)

\* A load, a new game, an unsupported camera state or a failed main update.
\* The notices of the current batch were received before it and are dropped.
RequestReset ==
    /\ cam' = [ClearTarget(cam) EXCEPT !.reset = TRUE]
    /\ GoesTo(IF pc = "batch" THEN "overtaken" ELSE pc)

Older(age, on, limit) == IF on /\ age < limit THEN age + 1 ELSE age

TimePasses ==
    /\ pc = "idle"
    /\ cam' = [cam EXCEPT
                 !.sceneAge = Older(@, cam.session = "Active", Watchdog + 1),
                 !.noticeAge = Older(@, cam.session = "Active" \/ cam.target # NoKey, Hold),
                 !.unlockAge = Older(@, cam.unlockPending, UnlockWait)]
    /\ UNCHANGED <<pc, live>>

\* Another mod takes the camera, or gives it up.
CameraChangesHands ==
    /\ CanBeTaken
    /\ \E o \in {"none", "other"} : cam' = [cam EXCEPT !.owner = o]
    /\ UNCHANGED <<pc, live>>

TargetLockIsFreed ==
    /\ CanBeTaken
    /\ cam' = [cam EXCEPT !.lockOwner = "none"]
    /\ UNCHANGED <<pc, live>>

MainUpdate(e) ==
    \/ TickBegin(e)
    \/ \E type \in EventTypes, k \in Keys, player \in BOOLEAN :
          HandleSceneEvent(type, k, player, e)
    \/ \E reply, outdated \in BOOLEAN, controls \in ControlStates :
          TickEnd(reply, outdated, controls, e)

CameraStage(e) ==
    \/ \E locked \in BOOLEAN : UpdateUnlock(e, locked)
    \/ \E mode \in DebugModes, preview \in BOOLEAN : UpdateDebug(mode, preview, e)
    \/ \E sampled, expired, measured, due \in BOOLEAN :
          UpdateAnchor(sampled, expired, measured, due, e)
    \/ \E resolves \in BOOLEAN, posing \in Posings : UpdateResume(resolves, posing, e)
    \/ \E measured, fresh, ended, resolves \in BOOLEAN :
          UpdatePresent(measured, fresh, ended, resolves, e)
    \/ \E resolves \in BOOLEAN, posing \in Posings : UpdateShow(resolves, posing, e)
    \/ \E stepping, resolves \in BOOLEAN, posing \in Posings :
          UpdateStep(stepping, resolves, posing, e)

Next ==
    \/ \E e \in Environments : \/ MainUpdate(e)
                              \/ UpdateBegin(e)
                              \/ CameraStage(e)
                              \/ UpdateFails(e)
    \/ RequestReset
    \/ TimePasses
    \/ CameraChangesHands
    \/ TargetLockIsFreed

Spec == Init /\ [][Next]_vars

-----------------------------------------------------------------------------
(* Safety.                                                                  *)

\* A scene being given back always has a reset requested, so that the next
\* main update tries again even with no notice and no camera update to come
\* (ReleaseCamera, Restore and EmergencyReset each set it on their own path).
RestoreIsOwed == cam.session = "Restoring" => cam.reset

\* Nothing of the player's camera or target lock is held, recorded or pending
\* outside a scene that is running or being given back: neither by this
\* plugin's records nor by those of SmoothCam and TDM.
IdleIsClean ==
    cam.session \in {"Idle", "Preparing"} =>
        /\ ~cam.owns /\ cam.owner # "SSC" /\ ~cam.pose
        /\ ~cam.disables /\ cam.lockOwner # "SSC" /\ ~cam.unlockPending
        /\ ~cam.suspended /\ ~cam.eval /\ ~cam.anchor /\ ~cam.unlockQueued

\* What the foreign APIs granted is never forgotten: the camera is recorded in
\* ownsCamera_, the disabled target lock in ownsDisable_ together with the
\* pending flag that alone makes Update and Restore hand it back.
GrantsAreRecorded ==
    /\ cam.owner = "SSC" => cam.owns
    /\ cam.lockOwner = "SSC" => cam.disables
    /\ cam.disables => cam.unlockPending

\* Observed debug mode leaves SmoothCam in control, and a pending debug resume
\* means the scene runs, holds nothing yet and has an attempt left (the
\* unsigned counter is decremented without a test).
DebugHoldsNothing ==
    /\ cam.debugSeen => ~cam.owns /\ ~cam.pose /\ ~cam.resume
    /\ cam.resume => /\ cam.session = "Active" /\ ~cam.suspended
                     /\ ~cam.owns /\ cam.attempts > 0

\* A pose is maintained only while the camera is recorded as owned, but for a
\* scene whose ownership was found lost and which is being discarded.
PoseIsOwned == cam.pose => cam.owns \/ cam.session = "Restoring"

\* What Update has tested stays true of the record it reads again and again,
\* although a reset may be requested between any two stages: a scene being
\* given back or suspended never reaches a stage, no unlock is outstanding past
\* the unlock stage, and a pose is tried only outside debug mode.
StagesAreGuarded ==
    /\ pc \in Stages => cam.session # "Restoring" /\ ~cam.suspended
    /\ pc \in Stages \ {"unlock"} => ~cam.unlockPending /\ ~cam.unlockQueued
    /\ pc \in Stages \ {"unlock", "debug"} => cam.session = "Active"
    /\ pc = "resume" => cam.resume
    /\ pc = "show" => ~cam.resume
    /\ pc \in {"show", "step", "posed"} => ~cam.debugSeen

\* The camera is taken only for a running scene, with an anchor, after the
\* unlock wait, outside suspension and debug mode; and never while the scene's
\* metadata is on hold unless a live preview asks for it.
AcquiresForScene ==
    [][ ~cam.owns /\ cam'.owns =>
            /\ cam.session = "Active" /\ cam.anchor
            /\ ~cam.suspended /\ ~cam.debugSeen
            /\ ~cam.unlockQueued /\ ~cam.unlockPending
            /\ Pending(cam) => live ]_vars

\* A requested reset is consumed only together with everything it asks for:
\* the camera, the target lock and the pose are back and the scene is over,
\* or another start was accepted in the same step and holds nothing yet.
ResetIsNeverDropped ==
    [][ cam.reset /\ ~cam'.reset =>
            /\ cam'.session # "Restoring"
            /\ ~cam'.owns /\ cam'.owner # "SSC" /\ ~cam'.pose
            /\ ~cam'.disables /\ cam'.lockOwner # "SSC" ]_vars

\* animation-filter-design.md: every update is cut five seconds after the last
\* notice of its target.  After a main update, a running scene whose last
\* notice is Hold old has finished metadata.
HoldIsCut ==
    [][ (/\ pc \in {"batch", "overtaken"} /\ pc' = "idle"
         /\ cam'.session = "Active" /\ ~cam'.reset
         /\ cam.noticeAge >= Hold)
        => ~Pending(cam') ]_vars

-----------------------------------------------------------------------------
(* Refinement.  The lease is SmoothCam's own record of who owns the camera. *)

Lease == INSTANCE SceneLease WITH
            Scenes <- Keys, NoScene <- NoKey,
            scene <- cam.key, held <- cam.owner = "SSC",
            ending <- cam.session = "Restoring"

\* The session, its retries and its losses implement the camera lease.
IsALease == Lease!Spec

-----------------------------------------------------------------------------
(* Liveness.                                                                *)

\* Steps in which the foreign APIs do as they are asked.
Willing == {e \in Environments :
               e.camera = "ok" /\ e.release = "ok" /\ e.lock = "ok"}

\* The game keeps calling both hooks, a stage that was entered goes on, time
\* passes, and an API that is asked again and again at one stage gives in.
Fairness ==
    /\ SF_vars(\E e \in Willing : TickBegin(e))
    /\ SF_vars(\E e \in Willing, reply, outdated \in BOOLEAN, controls \in ControlStates :
                  TickEnd(reply, outdated, controls, e))
    /\ SF_vars(\E e \in Willing : UpdateBegin(e))
    /\ \A stage \in {"unlock", "debug", "anchor"} :
          SF_vars(pc = stage /\ \E e \in Willing : CameraStage(e))
    /\ WF_vars(\E e \in Willing : CameraStage(e))
    /\ SF_vars(TimePasses)

FairSpec == Spec /\ Fairness

\* A scene being given back is given back.
RestoreEnds == cam.session = "Restoring" ~> cam.session # "Restoring"

\* A player who starts to move gets the camera back.
MovementFreesCamera == cam.suspended /\ cam.owns ~> ~cam.owns

\* The target lock is disabled for a while only.
UnlockEnds == cam.disables ~> ~cam.disables

\* No scene outlives the watchdog, suspended or not.
WatchdogEnds == cam.sceneAge > Watchdog ~> cam.sceneAge <= Watchdog

=============================================================================
