--------------------------- MODULE SceneCameraProofs ---------------------------
(****************************************************************************)
(* Proofs about SceneCamera.tla, for every set of scene keys, every time    *)
(* limit and every answer of the foreign APIs.                              *)
(*                                                                          *)
(* The inductive invariant IInv joins the record's safety properties, each  *)
(* stated of an arbitrary record c so that it can be followed through the   *)
(* intermediate records of a handler (Kept, with Owed: Good), to what the   *)
(* stages of Update rely on.  The first half of the module takes the        *)
(* record through each operation; the second has one lemma per action.      *)
(****************************************************************************)
EXTENDS SceneCamera, TLAPS

\* The counters' zero is in their ranges.
LEMMA Zeros == /\ 0 \in Attempts /\ 0 \in NoticeAges
               /\ 0 \in SceneAges /\ 0 \in UnlockAges
BY ConstantsAssumption
   DEF ConstantsAssumption, Attempts, NoticeAges, SceneAges, UnlockAges

\* The named states and owners the actions assign are in their types.
LEMMA Named == /\ "Idle" \in SessionStates /\ "Restoring" \in SessionStates
               /\ "Active" \in SessionStates /\ "Preparing" \in SessionStates
               /\ "none" \in MetadataStates
               /\ NoKey \in SceneKeys
               /\ "none" \in LockOwners /\ "SSC" \in LockOwners
               /\ "none" \in CameraOwners /\ "SSC" \in CameraOwners
               /\ "waiting" \in MetadataStates /\ "ready" \in MetadataStates
               /\ "committed" \in MetadataStates
BY DEF SessionStates, SceneKeys, MetadataStates, LockOwners, CameraOwners

\* IdleIsClean of a record.
Clean(c) ==
    c.session \in {"Idle", "Preparing"} =>
        /\ ~c.owns /\ c.owner # "SSC" /\ ~c.pose
        /\ ~c.disables /\ c.lockOwner # "SSC" /\ ~c.unlockPending
        /\ ~c.suspended /\ ~c.eval /\ ~c.anchor /\ ~c.unlockQueued

\* GrantsAreRecorded of a record.
Recorded(c) ==
    /\ c.owner = "SSC" => c.owns
    /\ c.lockOwner = "SSC" => c.disables
    /\ c.disables => c.unlockPending

\* DebugHoldsNothing of a record.
Debugged(c) ==
    /\ c.debugSeen => ~c.owns /\ ~c.pose /\ ~c.resume
    /\ c.resume => /\ c.session = "Active" /\ ~c.suspended
                   /\ ~c.owns /\ c.attempts > 0

\* The session has a key unless it is idle, so a foreign key cannot end it.
Keyed(c) == c.session = "Idle" <=> c.key = NoKey

\* PoseIsOwned of a record.
Posed(c) == c.pose => c.owns \/ c.session = "Restoring"

\* What every operation preserves.
Kept(c) == /\ c \in Camera
           /\ Clean(c) /\ Recorded(c) /\ Debugged(c) /\ Keyed(c) /\ Posed(c)

\* Kept but for the pending debug resume, which giving back cancels anyway.
Held(c) == /\ c \in Camera
           /\ Clean(c) /\ Recorded(c) /\ Keyed(c) /\ Posed(c)
           /\ c.debugSeen => ~c.owns /\ ~c.pose

\* A kept record is a held one.
LEMMA KeptIsHeld == ASSUME NEW c, Kept(c) PROVE Held(c)
BY DEF Kept, Held, Debugged

\* RestoreIsOwed of a record; Restore breaks it midway.
Owed(c) == c.session = "Restoring" => c.reset

\* StopSceneWork: what it resets, and that it leaves both grants alone.
LEMMA StopSceneWorkFacts ==
    ASSUME NEW c \in Camera, NEW s, s = StopSceneWork(c)
    PROVE  /\ s \in Camera
           /\ s.session = IF c.session = "Idle" THEN "Idle" ELSE "Restoring"
           /\ s.key = c.key /\ s.reset = c.reset /\ s.anchor = c.anchor
           /\ s.pose = c.pose /\ s.debugSeen = c.debugSeen
           /\ s.owns = c.owns /\ s.owner = c.owner
           /\ s.disables = c.disables /\ s.lockOwner = c.lockOwner
           /\ s.unlockPending = c.unlockPending
           /\ ~s.suspended /\ ~s.unlockQueued /\ ~s.eval /\ ~s.resume
<1>1. s \in Camera
  <2>1. ClearTarget(c) \in Camera
    BY Named, ZenonT(40) DEF Camera, ClearTarget
  <2>2. PICK t \in Camera : t = ClearTarget(c)
    BY <2>1
  <2>3. s = [t EXCEPT !.suspended = FALSE, !.unlockQueued = FALSE, !.eval = FALSE,
                      !.session = IF @ = "Idle" THEN @ ELSE "Restoring",
                      !.resume = FALSE, !.attempts = 0]
    BY <2>2 DEF StopSceneWork
  <2> QED
    BY <2>3, Zeros, Named, ZenonT(40) DEF Camera
<1>2. /\ s.session = IF c.session = "Idle" THEN "Idle" ELSE "Restoring"
      /\ s.key = c.key /\ s.reset = c.reset /\ s.anchor = c.anchor
      /\ s.pose = c.pose /\ s.debugSeen = c.debugSeen
      BY DEF Camera, StopSceneWork, ClearTarget
<1>3. /\ s.owns = c.owns /\ s.owner = c.owner
      /\ s.disables = c.disables /\ s.lockOwner = c.lockOwner
      /\ s.unlockPending = c.unlockPending
      BY DEF Camera, StopSceneWork, ClearTarget
<1>4. ~s.suspended /\ ~s.unlockQueued /\ ~s.eval /\ ~s.resume
      BY DEF Camera, StopSceneWork, ClearTarget
<1> QED BY <1>1, <1>2, <1>3, <1>4

\* Stopping the scene's work loses no grant and cancels the debug resume.
LEMMA StopSceneWorkKeeps ==
    ASSUME NEW c, Held(c), NEW s, s = StopSceneWork(c)
    PROVE  Kept(s)
<1>1. c \in Camera
      BY DEF Held
<1> QED BY <1>1, StopSceneWorkFacts DEF Held, Kept, Clean, Recorded, Debugged, Keyed, Posed

\* Clear: an idle session without key, pose or anchor.
LEMMA ClearFacts ==
    ASSUME NEW c \in Camera, NEW d, d = Clear(c)
    PROVE  /\ d \in Camera
           /\ d.session = "Idle" /\ d.key = NoKey
           /\ d.reset = c.reset /\ d.debugSeen = c.debugSeen
           /\ d.owns = c.owns /\ d.owner = c.owner
           /\ d.disables = c.disables /\ d.lockOwner = c.lockOwner
           /\ d.unlockPending = c.unlockPending
           /\ ~d.pose /\ ~d.anchor
           /\ ~d.suspended /\ ~d.unlockQueued /\ ~d.eval /\ ~d.resume
<1> DEFINE s == StopSceneWork(c)
<1>1. /\ s \in Camera
      /\ s.reset = c.reset /\ s.debugSeen = c.debugSeen
      /\ s.owns = c.owns /\ s.owner = c.owner
      /\ s.disables = c.disables /\ s.lockOwner = c.lockOwner
      /\ s.unlockPending = c.unlockPending
      /\ ~s.suspended /\ ~s.unlockQueued /\ ~s.eval /\ ~s.resume
      BY StopSceneWorkFacts
<1>2. d = [s EXCEPT !.session = "Idle", !.key = NoKey, !.pose = FALSE,
                    !.anchor = FALSE, !.sceneAge = 0, !.noticeAge = 0]
      BY DEF Clear
<1> HIDE DEF s
<1>3. d \in Camera
      BY <1>1, <1>2, Zeros, Named, ZenonT(40) DEF Camera
<1>4. /\ d.session = "Idle" /\ d.key = NoKey
      /\ d.reset = s.reset /\ d.debugSeen = s.debugSeen
      /\ d.owns = s.owns /\ d.owner = s.owner
      /\ d.disables = s.disables /\ d.lockOwner = s.lockOwner
      BY <1>1, <1>2 DEF Camera
<1>5. /\ d.unlockPending = s.unlockPending
      /\ ~d.pose /\ ~d.anchor
      /\ d.suspended = s.suspended /\ d.unlockQueued = s.unlockQueued
      /\ d.eval = s.eval /\ d.resume = s.resume
      BY <1>1, <1>2 DEF Camera
<1> QED BY <1>1, <1>3, <1>4, <1>5

\* A record whose camera and target lock are back may be cleared.
LEMMA ClearKeeps ==
    ASSUME NEW c \in Camera, NEW d, d = Clear(c),
           ~c.owns, c.owner # "SSC", ~c.disables, c.lockOwner # "SSC",
           ~c.unlockPending
    PROVE  Kept(d) /\ d.session = "Idle" /\ d.reset = c.reset
BY ClearFacts DEF Kept, Clean, Recorded, Debugged, Keyed, Posed

\* FinishUnlock: TDM gets its lock back, the pending flag goes with it.
LEMMA FinishUnlockFacts ==
    ASSUME NEW c \in Camera, NEW u, u = FinishUnlock(c)
    PROVE  /\ u \in Camera
           /\ u.session = c.session /\ u.key = c.key /\ u.reset = c.reset
           /\ u.suspended = c.suspended /\ u.eval = c.eval /\ u.anchor = c.anchor
           /\ u.pose = c.pose /\ u.debugSeen = c.debugSeen /\ u.resume = c.resume
           /\ u.attempts = c.attempts /\ u.unlockQueued = c.unlockQueued
           /\ u.owns = c.owns /\ u.owner = c.owner
           /\ u.sceneAge = c.sceneAge /\ u.metadata = c.metadata
           /\ ~u.disables /\ ~u.unlockPending
           /\ u.lockOwner = IF c.disables THEN "none" ELSE c.lockOwner
<1>1. u \in Camera
  <2>1. CASE c.disables
        BY <2>1, Zeros, Named, ZenonT(40) DEF Camera, FinishUnlock
  <2>2. CASE ~c.disables
        BY <2>2, Zeros, Named, ZenonT(40) DEF Camera, FinishUnlock
  <2> QED BY <2>1, <2>2
<1>2. /\ u.session = c.session /\ u.key = c.key /\ u.reset = c.reset
      /\ u.suspended = c.suspended /\ u.eval = c.eval /\ u.anchor = c.anchor
      BY DEF Camera, FinishUnlock
<1>3. /\ u.pose = c.pose /\ u.debugSeen = c.debugSeen /\ u.resume = c.resume
      /\ u.attempts = c.attempts /\ u.unlockQueued = c.unlockQueued
      /\ u.owns = c.owns /\ u.owner = c.owner
      BY DEF Camera, FinishUnlock
<1>4. /\ u.sceneAge = c.sceneAge /\ u.metadata = c.metadata
      /\ ~u.disables /\ ~u.unlockPending
      /\ u.lockOwner = IF c.disables THEN "none" ELSE c.lockOwner
      BY DEF Camera, FinishUnlock
<1> QED BY <1>1, <1>2, <1>3, <1>4

\* CancelTargetUnlock keeps the record; where it can, the lock is back.
LEMMA CancelKeeps ==
    ASSUME NEW c, Kept(c), NEW e, NEW u, u = CancelTargetUnlock(c, e)
    PROVE  /\ Kept(u) /\ u.session = c.session /\ u.key = c.key
           /\ u.reset = c.reset /\ u.suspended = c.suspended
           /\ u.owns = c.owns /\ u.owner = c.owner /\ u.eval = c.eval
           /\ u.unlockQueued = c.unlockQueued /\ u.resume = c.resume
           /\ u.sceneAge = c.sceneAge /\ u.debugSeen = c.debugSeen
           /\ CanCancelUnlock(c, e) =>
                ~u.unlockPending /\ ~u.disables /\ u.lockOwner # "SSC"
<1>1. c \in Camera
      BY DEF Kept
<1>2. CASE c.unlockPending /\ CanCancelUnlock(c, e)
      BY <1>1, <1>2, FinishUnlockFacts
         DEF CancelTargetUnlock, Kept, Clean, Recorded, Debugged, Keyed, Posed
<1>3. CASE ~c.unlockPending
      BY <1>1, <1>3 DEF CancelTargetUnlock, Kept, Recorded
<1>4. CASE ~CanCancelUnlock(c, e)
      BY <1>1, <1>4 DEF CancelTargetUnlock
<1> QED BY <1>2, <1>3, <1>4

\* A granted release ends ownership and pose together.
LEMMA ReleasedFacts ==
    ASSUME NEW c \in Camera, NEW r, r = Released(c)
    PROVE  /\ r \in Camera
           /\ r.session = c.session /\ r.key = c.key /\ r.reset = c.reset
           /\ r.suspended = c.suspended /\ r.eval = c.eval /\ r.anchor = c.anchor
           /\ r.debugSeen = c.debugSeen /\ r.resume = c.resume
           /\ r.attempts = c.attempts /\ r.unlockQueued = c.unlockQueued
           /\ r.unlockPending = c.unlockPending
           /\ r.disables = c.disables /\ r.lockOwner = c.lockOwner
           /\ r.sceneAge = c.sceneAge /\ r.metadata = c.metadata
           /\ ~r.pose /\ ~r.owns
           /\ r.owner = IF c.owns THEN "none" ELSE c.owner
<1>1. r \in Camera
  <2>1. CASE c.owns
        BY <2>1, Named, ZenonT(40) DEF Camera, Released
  <2>2. CASE ~c.owns
        BY <2>2, c.owner \in CameraOwners, Named DEF Camera, Released
  <2> QED BY <2>1, <2>2
<1>2. /\ r.session = c.session /\ r.key = c.key /\ r.reset = c.reset
      /\ r.suspended = c.suspended /\ r.eval = c.eval /\ r.anchor = c.anchor
      BY DEF Camera, Released
<1>3. /\ r.debugSeen = c.debugSeen /\ r.resume = c.resume
      /\ r.attempts = c.attempts /\ r.unlockQueued = c.unlockQueued
      /\ r.unlockPending = c.unlockPending
      BY DEF Camera, Released
<1>4. /\ r.disables = c.disables /\ r.lockOwner = c.lockOwner
      /\ r.sceneAge = c.sceneAge /\ r.metadata = c.metadata
      /\ ~r.pose /\ ~r.owns
      /\ r.owner = IF c.owns THEN "none" ELSE c.owner
      BY DEF Camera, Released
<1> QED BY <1>1, <1>2, <1>3, <1>4

\* An ownership found lost: the scene is stopped and a reset requested.
LEMMA LostFacts ==
    ASSUME NEW c \in Camera, NEW r,
           r = Discarded(c)
    PROVE  /\ r \in Camera
           /\ r.session = IF c.session = "Idle" THEN "Idle" ELSE "Restoring"
           /\ r.key = c.key /\ r.anchor = c.anchor
           /\ r.pose = c.pose /\ r.debugSeen = c.debugSeen
           /\ r.reset /\ ~r.owns /\ r.owner = c.owner
           /\ r.disables = c.disables /\ r.lockOwner = c.lockOwner
           /\ r.unlockPending = c.unlockPending
           /\ ~r.suspended /\ ~r.unlockQueued /\ ~r.eval /\ ~r.resume
<1> DEFINE s == StopSceneWork(c)
<1>1. /\ s \in Camera
      /\ s.session = IF c.session = "Idle" THEN "Idle" ELSE "Restoring"
      /\ s.key = c.key /\ s.anchor = c.anchor
      /\ s.pose = c.pose /\ s.debugSeen = c.debugSeen
      /\ s.owner = c.owner
      /\ s.disables = c.disables /\ s.lockOwner = c.lockOwner
      /\ s.unlockPending = c.unlockPending
      /\ ~s.suspended /\ ~s.unlockQueued /\ ~s.eval /\ ~s.resume
      BY StopSceneWorkFacts
<1>a. r = [s EXCEPT !.owns = FALSE, !.reset = TRUE]
      BY DEF Discarded
<1> HIDE DEF s
<1>2. r \in Camera
      BY <1>1, <1>a, ZenonT(40) DEF Camera
<1>3. /\ r.session = s.session /\ r.key = s.key /\ r.anchor = s.anchor
      /\ r.pose = s.pose /\ r.debugSeen = s.debugSeen
      /\ r.reset /\ ~r.owns /\ r.owner = s.owner
      BY <1>1, <1>a DEF Camera
<1>4. /\ r.disables = s.disables /\ r.lockOwner = s.lockOwner
      /\ r.unlockPending = s.unlockPending
      /\ r.suspended = s.suspended /\ r.unlockQueued = s.unlockQueued
      /\ r.eval = s.eval /\ r.resume = s.resume
      BY <1>1, <1>a DEF Camera
<1> QED BY <1>1, <1>2, <1>3, <1>4

\* A requested reset changes nothing else of the record.
LEMMA AsksForResetFacts ==
    ASSUME NEW c \in Camera, NEW r, r = AsksForReset(c)
    PROVE  /\ r \in Camera /\ r.reset
           /\ Kept(c) => Kept(r)
           /\ r.session = c.session /\ r.key = c.key /\ r.suspended = c.suspended
           /\ r.owns = c.owns /\ r.owner = c.owner /\ r.pose = c.pose
           /\ r.resume = c.resume /\ r.unlockQueued = c.unlockQueued
           /\ r.unlockPending = c.unlockPending /\ r.debugSeen = c.debugSeen
<1>1. r \in Camera
      BY DEF Camera, AsksForReset
<1>2. /\ r.reset /\ r.session = c.session /\ r.key = c.key
      /\ r.suspended = c.suspended
      /\ r.owns = c.owns /\ r.owner = c.owner /\ r.pose = c.pose
      /\ r.resume = c.resume /\ r.unlockQueued = c.unlockQueued
      BY DEF Camera, AsksForReset
<1>3. /\ r.unlockPending = c.unlockPending /\ r.debugSeen = c.debugSeen
      /\ r.disables = c.disables /\ r.lockOwner = c.lockOwner
      /\ r.eval = c.eval /\ r.anchor = c.anchor /\ r.attempts = c.attempts
      BY DEF Camera, AsksForReset
<1> QED BY <1>1, <1>2, <1>3 DEF Kept, Clean, Recorded, Debugged, Keyed, Posed

\* ReleaseCamera keeps the record on each of its three ways out: returned,
\* found lost, or refused (with x what is left then).
LEMMA ReleaseKeeps ==
    ASSUME NEW c, Kept(c), NEW e, NEW x \in {c, AsksForReset(c)}, NEW r,
           r = IF CanRelease(c, e) THEN Released(c)
               ELSE IF FoundLost(c, e) THEN Discarded(c) ELSE x
    PROVE  /\ Kept(r)
           /\ r.session \in {c.session, "Restoring"}
           /\ CanRelease(c, e) =>
                /\ ~r.owns /\ r.owner # "SSC" /\ ~r.pose
                /\ r.session = c.session /\ r.key = c.key /\ r.reset = c.reset
                /\ r.suspended = c.suspended /\ r.resume = c.resume
                /\ r.attempts = c.attempts /\ r.debugSeen = c.debugSeen
                /\ r.unlockQueued = c.unlockQueued
                /\ r.unlockPending = c.unlockPending
                /\ r.disables = c.disables /\ r.lockOwner = c.lockOwner
           /\ ~CanRelease(c, e) =>
                \/ r.session = "Restoring" /\ r.reset /\ ~r.resume
                \/ r = x
<1>1. c \in Camera
      BY DEF Kept
<1>2. CASE CanRelease(c, e)
  <2>1. r = Released(c)
        BY <1>2
  <2>2. /\ r \in Camera
        /\ r.session = c.session /\ r.key = c.key /\ r.reset = c.reset
        /\ r.suspended = c.suspended /\ r.eval = c.eval /\ r.anchor = c.anchor
        /\ r.debugSeen = c.debugSeen /\ r.resume = c.resume
        /\ r.attempts = c.attempts /\ r.unlockQueued = c.unlockQueued
        /\ r.unlockPending = c.unlockPending
        /\ r.disables = c.disables /\ r.lockOwner = c.lockOwner
        /\ ~r.pose /\ ~r.owns
        /\ r.owner = IF c.owns THEN "none" ELSE c.owner
        BY <1>1, <2>1, ReleasedFacts
  <2>3. Kept(r) /\ r.owner # "SSC"
        BY <2>2 DEF Kept, Clean, Recorded, Debugged, Keyed, Posed
  <2> QED BY <1>2, <2>2, <2>3
<1>3. CASE ~CanRelease(c, e) /\ FoundLost(c, e)
  <2>1. r = Discarded(c)
        BY <1>3
  <2>2. c.owns /\ c.owner # "SSC"
        BY <1>3 DEF CanRelease, FoundLost
  <2>3. /\ r \in Camera
        /\ r.session = IF c.session = "Idle" THEN "Idle" ELSE "Restoring"
        /\ r.key = c.key /\ r.anchor = c.anchor
        /\ r.pose = c.pose /\ r.debugSeen = c.debugSeen
        /\ r.reset /\ ~r.owns /\ r.owner = c.owner
        /\ r.disables = c.disables /\ r.lockOwner = c.lockOwner
        /\ r.unlockPending = c.unlockPending
        /\ ~r.suspended /\ ~r.unlockQueued /\ ~r.eval /\ ~r.resume
        BY <1>1, <2>1, LostFacts
  <2>4. c.session # "Idle"
        BY <2>2 DEF Kept, Clean
  <2>5. Kept(r)
        BY <2>2, <2>3, <2>4 DEF Kept, Clean, Recorded, Debugged, Keyed, Posed
  <2> QED BY <1>3, <2>3, <2>4, <2>5
<1>4. CASE ~CanRelease(c, e) /\ ~FoundLost(c, e)
  <2>1. r = x
        BY <1>4
  <2>2. Kept(r) /\ r.session = c.session
        BY <1>1, <2>1, AsksForResetFacts
  <2> QED BY <1>4, <2>1, <2>2
<1> QED BY <1>2, <1>3, <1>4

\* Restore ends the scene or leaves it being given back with a reset owed;
\* neither outcome keeps a debug resume.
LEMMA RestoreHeldKeeps ==
    ASSUME NEW c, Held(c), NEW e, NEW r, r = Restore(c, e)
    PROVE  /\ Kept(r)
           /\ r.session = "Restoring" => r.reset
           /\ r.session \in {"Idle", "Restoring"}
           /\ ~r.resume
<1> DEFINE s == StopSceneWork(c)
           u == CancelTargetUnlock(s, e)
           q == ReleaseCamera(u, e, TRUE)
<1>a. /\ s = StopSceneWork(c) /\ u = CancelTargetUnlock(s, e)
      /\ q = IF CanRelease(u, e) THEN Released(u)
            ELSE IF FoundLost(u, e) THEN Discarded(u) ELSE AsksForReset(u)
      BY DEF ReleaseCamera
<1>b. r = IF ~CanCancelUnlock(s, e) THEN AsksForReset(s)
          ELSE IF CanRelease(u, e) THEN Clear(q) ELSE q
      BY DEF Restore
<1> HIDE DEF s, u, q
<1>1. c \in Camera
      BY DEF Held
<1>2. /\ Kept(s) /\ ~s.resume /\ s.reset = c.reset
      /\ s.session \in {"Idle", "Restoring"}
      BY <1>a, <1>1, StopSceneWorkKeeps, StopSceneWorkFacts
<1>3. /\ Kept(u) /\ u.session = s.session /\ ~u.resume /\ u.reset = c.reset
      /\ CanCancelUnlock(s, e) =>
             ~u.unlockPending /\ ~u.disables /\ u.lockOwner # "SSC"
      BY <1>a, <1>2, CancelKeeps
<1>4. CASE ~CanCancelUnlock(s, e)
  <2>1. r = AsksForReset(s)
        BY <1>b, <1>4
  <2>2. s \in Camera
        BY <1>2 DEF Kept
  <2>3. Kept(r) /\ r.reset /\ r.session = s.session /\ r.resume = s.resume
        BY <1>2, <2>1, <2>2, AsksForResetFacts
  <2> QED BY <1>2, <2>3
<1>5. CASE CanCancelUnlock(s, e) /\ CanRelease(u, e)
  <2>1. r = Clear(q)
        BY <1>b, <1>5
  <2>2. /\ Kept(q) /\ q.reset = u.reset /\ ~q.owns /\ q.owner # "SSC"
        /\ q.disables = u.disables /\ q.lockOwner = u.lockOwner
        /\ q.unlockPending = u.unlockPending
        BY <1>3, <1>5, <1>a, ReleaseKeeps
  <2>3. q \in Camera
        BY <2>2 DEF Kept
  <2>4. Kept(r) /\ r.session = "Idle" /\ r.reset = c.reset /\ ~r.resume
        BY <1>3, <1>5, <2>1, <2>2, <2>3, ClearKeeps, ClearFacts
  <2> QED BY <2>4
<1>6. CASE CanCancelUnlock(s, e) /\ ~CanRelease(u, e)
  <2>1. r = q
        BY <1>b, <1>6
  <2>2. /\ Kept(q) 
        /\ \/ q.session = "Restoring" /\ q.reset /\ ~q.resume
           \/ q = AsksForReset(u)
        BY <1>3, <1>6, <1>a, ReleaseKeeps
  <2>3. CASE q = AsksForReset(u)
    <3>1. u \in Camera
          BY <1>3 DEF Kept
    <3>2. q.session = u.session /\ q.reset /\ q.resume = u.resume
          BY <2>3, <3>1, AsksForResetFacts
    <3> QED BY <1>2, <1>3, <2>1, <2>2, <3>2
  <2> QED BY <2>1, <2>2, <2>3
<1> QED BY <1>4, <1>5, <1>6

\* The same for a kept record, as the event handlers have it.
LEMMA RestoreKeeps ==
    ASSUME NEW c, Kept(c), NEW e, NEW r, r = Restore(c, e)
    PROVE  /\ Kept(r)
           /\ r.session = "Restoring" => r.reset
           /\ r.session \in {"Idle", "Restoring"}
           /\ ~r.resume
BY KeptIsHeld, RestoreHeldKeeps

\* A record between two steps.
Good(c) == Kept(c) /\ Owed(c)

\* Two records agree on all that Kept reads.
Alike(c, d) ==
    /\ d.session = c.session /\ d.key = c.key /\ d.suspended = c.suspended
    /\ d.eval = c.eval /\ d.anchor = c.anchor /\ d.pose = c.pose
    /\ d.debugSeen = c.debugSeen /\ d.resume = c.resume
    /\ d.attempts = c.attempts /\ d.unlockQueued = c.unlockQueued
    /\ d.unlockPending = c.unlockPending
    /\ d.disables = c.disables /\ d.lockOwner = c.lockOwner
    /\ d.owns = c.owns /\ d.owner = c.owner

\* The record's invariant reads only the fields Alike compares.
LEMMA AlikeKeeps ==
    ASSUME NEW c, Kept(c), NEW d \in Camera, Alike(c, d)
    PROVE  Kept(d)
BY DEF Alike, Kept, Clean, Recorded, Debugged, Keyed, Posed

\* ProcessPendingReset consumes a reset only by a Restore, which keeps the
\* record; where it proceeds the session is not being given back.
LEMMA ProcessPendingResetKeeps ==
    ASSUME NEW c, Good(c), NEW e, NEW r, r = ProcessPendingReset(c, e)
    PROVE  /\ Good(r)
           /\ r = c \/ r.session \in {"Idle", "Restoring"}
           /\ r.resume => r = c
<1> DEFINE z == [c EXCEPT !.reset = FALSE]
<1>1. c \in Camera
      BY DEF Good, Kept
<1>2. z \in Camera
      BY <1>1 DEF Camera
<1>3. Alike(c, z)
  <2>1. /\ z.session = c.session /\ z.key = c.key /\ z.suspended = c.suspended
        /\ z.eval = c.eval /\ z.anchor = c.anchor /\ z.pose = c.pose
        /\ z.debugSeen = c.debugSeen /\ z.resume = c.resume
        BY <1>1 DEF Camera
  <2>2. /\ z.attempts = c.attempts /\ z.unlockQueued = c.unlockQueued
        /\ z.unlockPending = c.unlockPending
        /\ z.disables = c.disables /\ z.lockOwner = c.lockOwner
        /\ z.owns = c.owns /\ z.owner = c.owner
        BY <1>1 DEF Camera
  <2> QED BY <2>1, <2>2 DEF Alike
<1>4. Kept(z)
      BY <1>2, <1>3, AlikeKeeps DEF Good
<1>5. r = IF c.reset THEN Restore(z, e) ELSE c
      BY DEF ProcessPendingReset
<1> HIDE DEF z
<1> QED BY <1>4, <1>5, RestoreKeeps DEF Good, Owed

\* EmergencyReset, run after any exception, keeps the record too: a failed
\* emergency release leaves the ownership recorded and a reset requested.
LEMMA EmergencyResetKeeps ==
    ASSUME NEW c, Kept(c), NEW e, NEW r, r = EmergencyReset(c, e)
    PROVE  Good(r) /\ r.session \in {"Idle", "Restoring"}
<1> DEFINE s == StopSceneWork(c)
           u == CancelTargetUnlock(s, e)
           d == Clear(u)
           f == [d EXCEPT !.reset = FALSE, !.owns = FALSE,
                          !.owner = IF @ = "SSC" THEN "none" ELSE @]
<1>a. /\ s = StopSceneWork(c) /\ u = CancelTargetUnlock(s, e) /\ d = Clear(u)
      OBVIOUS
<1>b. r = IF CanCancelUnlock(s, e) /\ CanEmergencyRelease(u, e)
          THEN f ELSE AsksForReset(u)
      BY DEF EmergencyReset
<1> HIDE DEF s, u, d
<1>1. c \in Camera
      BY DEF Kept
<1>2. Kept(s) /\ s.session \in {"Idle", "Restoring"}
      BY <1>a, <1>1, KeptIsHeld, StopSceneWorkKeeps, StopSceneWorkFacts
<1>3. /\ Kept(u) /\ u.session = s.session
      /\ CanCancelUnlock(s, e) =>
             ~u.unlockPending /\ ~u.disables /\ u.lockOwner # "SSC"
      BY <1>a, <1>2, CancelKeeps
<1>4. u \in Camera
      BY <1>3 DEF Kept
<1>5. CASE CanCancelUnlock(s, e) /\ CanEmergencyRelease(u, e)
  <2>1. /\ d \in Camera
        /\ d.session = "Idle" /\ d.key = NoKey
        /\ d.disables = u.disables /\ d.lockOwner = u.lockOwner
        /\ d.unlockPending = u.unlockPending
        /\ ~d.pose /\ ~d.anchor
        /\ ~d.suspended /\ ~d.unlockQueued /\ ~d.eval /\ ~d.resume
        BY <1>a, <1>4, ClearFacts
  <2>2. f \in Camera
    <3>1. CASE d.owner = "SSC"
          BY <2>1, <3>1, Named DEF Camera
    <3>2. CASE d.owner # "SSC"
          BY <2>1, <3>2, Named DEF Camera
    <3> QED BY <3>1, <3>2
  <2>3. /\ f.session = d.session /\ f.key = d.key /\ ~f.reset /\ ~f.owns
        /\ f.owner # "SSC"
        BY <2>1 DEF Camera
  <2>4. /\ f.disables = d.disables /\ f.lockOwner = d.lockOwner
        /\ f.unlockPending = d.unlockPending
        /\ f.pose = d.pose /\ f.anchor = d.anchor
        BY <2>1 DEF Camera
  <2>5. /\ f.suspended = d.suspended /\ f.unlockQueued = d.unlockQueued
        /\ f.eval = d.eval /\ f.resume = d.resume
        BY <2>1 DEF Camera
  <2>6. r = f
        BY <1>b, <1>5
  <2> HIDE DEF f
  <2>7. Kept(f)
        BY <1>3, <1>5, <2>1, <2>2, <2>3, <2>4, <2>5
           DEF Kept, Clean, Recorded, Debugged, Keyed, Posed
  <2> QED BY <2>1, <2>3, <2>6, <2>7 DEF Good, Owed
<1>6. CASE ~(CanCancelUnlock(s, e) /\ CanEmergencyRelease(u, e))
  <2>1. r = AsksForReset(u)
        BY <1>b, <1>6
  <2> QED BY <1>2, <1>3, <1>4, <2>1, AsksForResetFacts DEF Good, Owed
<1> QED BY <1>5, <1>6

\* The coordinator's Observe does not touch what the procedure holds.
LEMMA ObserveKeeps ==
    ASSUME NEW c, Good(c), NEW type, NEW k \in Keys, NEW player \in BOOLEAN,
           NEW r, r = Observe(c, type, k, player)
    PROVE  Good(r)
<1>1. c \in Camera
      BY DEF Good, Kept
<1> DEFINE w == [c EXCEPT !.target = k, !.metadata = "waiting", !.noticeAge = 0]
<1>2. r = c \/ r = ClearTarget(c) \/ r = w
      BY DEF Observe
<1>3. w \in Camera
  <2>1. k \in SceneKeys
        BY DEF SceneKeys
  <2> QED BY <1>1, <2>1, Zeros, Named DEF Camera
<1>4. ClearTarget(c) \in Camera
      BY <1>1, Named DEF Camera, ClearTarget
<1>5. Alike(c, w) /\ w.reset = c.reset
      BY <1>1 DEF Camera, Alike
<1>6. Alike(c, ClearTarget(c)) /\ ClearTarget(c).reset = c.reset
      BY <1>1 DEF Camera, ClearTarget, Alike
<1> HIDE DEF w
<1>7. Kept(w) /\ w.session = c.session
      BY <1>3, <1>5, AlikeKeeps DEF Good, Alike
<1>8. Kept(ClearTarget(c)) /\ ClearTarget(c).session = c.session
      BY <1>4, <1>6, AlikeKeeps DEF Good, Alike
<1> QED BY <1>2, <1>5, <1>6, <1>7, <1>8 DEF Good, Owed

\* Prepare gives the idle session its key.
LEMMA PrepareKeeps ==
    ASSUME NEW c, Good(c), NEW k \in Keys, NEW player \in BOOLEAN,
           NEW p, p = Prepare(c, k, player)
    PROVE  Good(p)
<1> DEFINE w == [c EXCEPT !.session = "Preparing", !.key = k]
<1>1. c \in Camera
      BY DEF Good, Kept
<1>2. k \in SceneKeys /\ k # NoKey
      BY ConstantsAssumption DEF ConstantsAssumption, SceneKeys
<1>3. CASE p = c
      BY <1>3
<1>4. CASE c.session = "Idle" /\ p = w
  <2>1. w \in Camera
        BY <1>1, <1>2, Named DEF Camera
  <2>2. /\ w.session = "Preparing" /\ w.key = k /\ w.suspended = c.suspended
        /\ w.eval = c.eval /\ w.anchor = c.anchor /\ w.pose = c.pose
        /\ w.debugSeen = c.debugSeen /\ w.resume = c.resume
        BY <1>1 DEF Camera
  <2>3. /\ w.unlockQueued = c.unlockQueued /\ w.unlockPending = c.unlockPending
        /\ w.disables = c.disables /\ w.lockOwner = c.lockOwner
        /\ w.owns = c.owns /\ w.owner = c.owner
        BY <1>1 DEF Camera
  <2> HIDE DEF w
  <2> QED BY <1>2, <1>4, <2>1, <2>2, <2>3
          DEF Good, Owed, Kept, Clean, Recorded, Debugged, Keyed, Posed
<1> QED BY <1>3, <1>4 DEF Prepare

\* A start activates a prepared session, which holds nothing yet.
LEMMA OnAnimationStartKeeps ==
    ASSUME NEW c, Good(c), NEW k \in Keys, NEW player \in BOOLEAN,
           NEW r, r = OnAnimationStart(c, k, player)
    PROVE  Good(r)
<1> DEFINE p == Prepare(c, k, player)
           w == [p EXCEPT !.session = "Active", !.eval = TRUE, !.sceneAge = 0,
                          !.unlockQueued = HasTDM]
<1>1. Good(p)
      BY PrepareKeeps
<1>2. r = p \/ (p.session = "Preparing" /\ (r = Clear(p) \/ r = w))
      BY DEF OnAnimationStart
<1> HIDE DEF p
<1>3. p \in Camera
      BY <1>1 DEF Good, Kept
<1>4. CASE p.session = "Preparing" /\ r = Clear(p)
      BY <1>1, <1>3, <1>4, ClearKeeps DEF Good, Owed, Kept, Clean
<1>5. CASE p.session = "Preparing" /\ r = w
  <2>1. HasTDM \in BOOLEAN
        BY ConstantsAssumption DEF ConstantsAssumption
  <2>2. w \in Camera
        BY <1>3, <2>1, Zeros, Named DEF Camera
  <2>3. /\ w.session = "Active" /\ w.key = p.key /\ w.suspended = p.suspended
        /\ w.anchor = p.anchor /\ w.pose = p.pose
        /\ w.debugSeen = p.debugSeen /\ w.resume = p.resume
        BY <1>3 DEF Camera
  <2>4. /\ w.unlockPending = p.unlockPending
        /\ w.disables = p.disables /\ w.lockOwner = p.lockOwner
        /\ w.owns = p.owns /\ w.owner = p.owner
        BY <1>3 DEF Camera
  <2> HIDE DEF w
  <2> QED BY <1>1, <1>5, <2>2, <2>3, <2>4
          DEF Good, Owed, Kept, Clean, Recorded, Debugged, Keyed, Posed
<1> QED BY <1>1, <1>2, <1>4, <1>5

\* A requested evaluation of an active scene keeps the record.
LEMMA EvalKeeps ==
    ASSUME NEW c, Kept(c), NEW b \in BOOLEAN,
           c.session \in {"Idle", "Preparing"} => ~b,
           NEW r, r = [c EXCEPT !.eval = b]
    PROVE  /\ Kept(r) /\ r.session = c.session /\ r.reset = c.reset
           /\ r.suspended = c.suspended /\ r.resume = c.resume
           /\ r.debugSeen = c.debugSeen /\ r.unlockPending = c.unlockPending
           /\ r.unlockQueued = c.unlockQueued
<1>1. c \in Camera
      BY DEF Kept
<1>2. r \in Camera /\ r.eval = b
      BY <1>1 DEF Camera
<1>3. /\ r.session = c.session /\ r.key = c.key /\ r.suspended = c.suspended
      /\ r.pose = c.pose /\ r.anchor = c.anchor /\ r.reset = c.reset
      /\ r.debugSeen = c.debugSeen /\ r.resume = c.resume
      /\ r.attempts = c.attempts
      BY <1>1 DEF Camera
<1>4. /\ r.disables = c.disables /\ r.lockOwner = c.lockOwner
      /\ r.unlockPending = c.unlockPending /\ r.unlockQueued = c.unlockQueued
      /\ r.owns = c.owns /\ r.owner = c.owner
      BY <1>1 DEF Camera
<1> QED BY <1>2, <1>3, <1>4
        DEF Kept, Clean, Recorded, Debugged, Keyed, Posed

\* Handling any notice, of any scene, keeps the record.
LEMMA HandleKeeps ==
    ASSUME NEW c, Good(c), NEW type, NEW k \in Keys, NEW player \in BOOLEAN, NEW e,
           NEW r, r = Handle(c, type, k, player, e)
    PROVE  Good(r)
<1> DEFINE o == Observe(c, type, k, player)
           p == ProcessPendingReset(o, e)
<1>1. Good(o)
      BY ObserveKeeps
<1>2. Good(p)
      BY <1>1, ProcessPendingResetKeeps
<1>3. \/ r = p
      \/ r = Prepare(p, k, player)
      \/ r = OnAnimationStart(p, k, player)
      \/ r = OnAnimationEnd(p, k, e)
      \/ r = OnActiveNotice(p, k, type)
      BY DEF Handle
<1> HIDE DEF p
<1>4. CASE r = Prepare(p, k, player)
      BY <1>2, <1>4, PrepareKeeps
<1>5. CASE r = OnAnimationStart(p, k, player)
      BY <1>2, <1>5, OnAnimationStartKeeps
<1>6. CASE r = OnAnimationEnd(p, k, e)
      BY <1>2, <1>6, RestoreKeeps DEF OnAnimationEnd, Good, Owed
<1>7. CASE r = OnActiveNotice(p, k, type)
  <2>1. r = p \/ (p.session = "Active" /\ r = [p EXCEPT !.eval = TRUE])
        BY <1>7 DEF OnActiveNotice
  <2>2. CASE p.session = "Active" /\ r = [p EXCEPT !.eval = TRUE]
    <3>1. PICK t \in BOOLEAN : r = [p EXCEPT !.eval = t]
          BY <2>2
    <3> QED BY <1>2, <2>2, <3>1, EvalKeeps DEF Good, Owed
  <2> QED BY <1>2, <2>1, <2>2
<1> QED BY <1>2, <1>3, <1>4, <1>5, <1>6, <1>7

\* The coordinator's Tick does not touch what the procedure holds.
LEMMA MetadataTickKeeps ==
    ASSUME NEW c, Good(c), NEW reply, NEW t, t = MetadataTick(c, reply)
    PROVE  Good(t) /\ t.session = c.session
<1> DEFINE w == [c EXCEPT !.metadata = "ready"]
<1>1. c \in Camera
      BY DEF Good, Kept
<1>2. t = c \/ t = w
      BY DEF MetadataTick
<1>3. w \in Camera
      BY <1>1, Named DEF Camera
<1>4. Alike(c, w) /\ w.reset = c.reset
      BY <1>1 DEF Camera, Alike
<1> HIDE DEF w
<1>5. Kept(w) /\ w.session = c.session
      BY <1>3, <1>4, AlikeKeeps DEF Good, Alike
<1> QED BY <1>2, <1>4, <1>5 DEF Good, Owed

\* Suspending cancels the debug resume and the queued unlock.
LEMMA SuspendForMovementKeeps ==
    ASSUME NEW c, Good(c), c.session = "Active", NEW r, r = SuspendForMovement(c)
    PROVE  Good(r) /\ r.session = "Active"
<1>1. c \in Camera
      BY DEF Good, Kept
<1>2. r \in Camera
      BY <1>1 DEF Camera, SuspendForMovement
<1>3. /\ r.session = c.session /\ r.key = c.key
      /\ r.pose = c.pose /\ r.debugSeen = c.debugSeen /\ ~r.resume
      BY <1>1 DEF Camera, SuspendForMovement
<1>4. /\ r.disables = c.disables /\ r.lockOwner = c.lockOwner
      /\ r.unlockPending = c.unlockPending
      /\ r.owns = c.owns /\ r.owner = c.owner
      BY <1>1 DEF Camera, SuspendForMovement
<1> QED BY <1>2, <1>3, <1>4
        DEF Good, Owed, Kept, Clean, Recorded, Debugged, Keyed, Posed

\* Resuming after movement keeps the record of an active scene.
LEMMA ResumeAfterMovementKeeps ==
    ASSUME NEW c, Good(c), c.session = "Active", NEW r, r = ResumeAfterMovement(c)
    PROVE  Good(r)
<1>1. c \in Camera
      BY DEF Good, Kept
<1>2. r \in Camera
      BY <1>1 DEF Camera, ResumeAfterMovement
<1>3. /\ r.session = c.session /\ r.key = c.key /\ ~r.suspended
      /\ r.pose = c.pose /\ r.debugSeen = c.debugSeen /\ r.resume = c.resume
      /\ r.attempts = c.attempts
      BY <1>1 DEF Camera, ResumeAfterMovement
<1>4. /\ r.disables = c.disables /\ r.lockOwner = c.lockOwner
      /\ r.unlockPending = c.unlockPending
      /\ r.owns = c.owns /\ r.owner = c.owner
      BY <1>1 DEF Camera, ResumeAfterMovement
<1> QED BY <1>2, <1>3, <1>4
        DEF Good, Owed, Kept, Clean, Recorded, Debugged, Keyed, Posed

\* A main update of a suspended scene: watchdog, both returns, the resume.
LEMMA WhileSuspendedKeeps ==
    ASSUME NEW c, Good(c), c.session = "Active", NEW controls, NEW e,
           NEW r, r = WhileSuspended(c, controls, e)
    PROVE  Good(r)
<1> DEFINE u == CancelTargetUnlock(c, e)
           q == ReleaseCamera(u, e, FALSE)
<1>a. /\ u = CancelTargetUnlock(c, e)
      /\ q = IF CanRelease(u, e) THEN Released(u)
            ELSE IF FoundLost(u, e) THEN Discarded(u) ELSE u
      BY DEF ReleaseCamera
<1>b. \/ r = Restore(c, e)
      \/ CanRelease(u, e) /\ r = ResumeAfterMovement(q)
      \/ r = q
      BY DEF WhileSuspended
<1> HIDE DEF u, q
<1>1. Kept(u) /\ u.session = "Active"
      BY <1>a, CancelKeeps DEF Good
<1>2. /\ Kept(q)
      /\ CanRelease(u, e) => q.session = "Active"
      /\ \/ q.session = "Active"
         \/ q.session = "Restoring" /\ q.reset
      BY <1>a, <1>1, ReleaseKeeps
<1>3. Good(q)
      BY <1>2 DEF Good, Owed
<1>4. CASE r = Restore(c, e)
      BY <1>4, RestoreKeeps DEF Good, Owed
<1>5. CASE CanRelease(u, e) /\ r = ResumeAfterMovement(q)
      BY <1>2, <1>3, <1>5, ResumeAfterMovementKeeps
<1> QED BY <1>b, <1>3, <1>4, <1>5

\* The tail of a main update keeps the record.
LEMMA ProcessMainUpdateKeeps ==
    ASSUME NEW c, Good(c), NEW reply \in BOOLEAN, NEW outdated \in BOOLEAN,
           NEW controls, NEW e,
           NEW r, r = ProcessMainUpdate(c, reply, outdated, controls, e)
    PROVE  Good(r)
<1> DEFINE t == MetadataTick(c, reply)
           stale == t.session = "Active" /\ (outdated \/ t.metadata = "ready")
           m == [t EXCEPT !.eval = @ \/ stale]
           s == IF controls = "moving" /\ ~m.suspended THEN SuspendForMovement(m) ELSE m
<1>1. Good(t)
      BY MetadataTickKeeps
<1>2. r = IF m.session # "Active" \/ m.reset THEN m
          ELSE IF s.suspended THEN WhileSuspended(s, controls, e) ELSE s
      BY DEF ProcessMainUpdate
<1> HIDE DEF t
<1>3. t \in Camera
      BY <1>1 DEF Good, Kept
<1>4. PICK b \in BOOLEAN : b = (t.eval \/ stale)
      OBVIOUS
<1>5. m = [t EXCEPT !.eval = b]
      BY <1>4
<1>6. t.session \in {"Idle", "Preparing"} => ~b
      BY <1>1, <1>4 DEF Good, Kept, Clean
<1> HIDE DEF m
<1>7. Good(m)
      BY <1>1, <1>5, <1>6, EvalKeeps DEF Good, Owed
<1>8. CASE m.session = "Active"
  <2>1. Good(s) /\ s.session = "Active"
        BY <1>7, <1>8, SuspendForMovementKeeps
  <2> HIDE DEF s
  <2> QED BY <1>2, <1>7, <2>1, WhileSuspendedKeeps
<1> QED BY <1>2, <1>7, <1>8

\* The record as the stages after the unlock find it.
Running(c) ==
    /\ c.session = "Active" /\ ~c.suspended
    /\ ~c.unlockPending /\ ~c.unlockQueued

\* The record of an applied pose.
Acquires(c) == [Acquired(c) EXCEPT !.pose = TRUE]

\* Taking the camera records it and sets the pose.
LEMMA AcquiredFacts ==
    ASSUME NEW c \in Camera, NEW r, r = Acquired(c) \/ r = Acquires(c)
    PROVE  /\ r \in Camera /\ r.owns /\ r.owner = "SSC"
           /\ r.session = c.session /\ r.key = c.key /\ r.reset = c.reset
           /\ r.suspended = c.suspended /\ r.resume = c.resume
           /\ r.debugSeen = c.debugSeen
           /\ r.unlockQueued = c.unlockQueued /\ r.unlockPending = c.unlockPending
           /\ r.disables = c.disables /\ r.lockOwner = c.lockOwner
<1>1. CASE r = Acquired(c)
  <2>1. r \in Camera /\ r.owns /\ r.owner = "SSC"
        BY <1>1, Named DEF Camera, Acquired
  <2>2. /\ r.session = c.session /\ r.key = c.key /\ r.reset = c.reset
        /\ r.suspended = c.suspended /\ r.resume = c.resume
        /\ r.debugSeen = c.debugSeen
        BY <1>1 DEF Camera, Acquired
  <2>3. /\ r.unlockQueued = c.unlockQueued /\ r.unlockPending = c.unlockPending
        /\ r.disables = c.disables /\ r.lockOwner = c.lockOwner
        BY <1>1 DEF Camera, Acquired
  <2> QED BY <2>1, <2>2, <2>3
<1>2. CASE r = Acquires(c)
  <2>1. r \in Camera /\ r.owns /\ r.owner = "SSC"
        BY <1>2, Named DEF Camera, Acquires, Acquired
  <2>2. /\ r.session = c.session /\ r.key = c.key /\ r.reset = c.reset
        /\ r.suspended = c.suspended /\ r.resume = c.resume
        /\ r.debugSeen = c.debugSeen
        BY <1>2 DEF Camera, Acquires, Acquired
  <2>3. /\ r.unlockQueued = c.unlockQueued /\ r.unlockPending = c.unlockPending
        /\ r.disables = c.disables /\ r.lockOwner = c.lockOwner
        BY <1>2 DEF Camera, Acquires, Acquired
  <2> QED BY <2>1, <2>2, <2>3
<1> QED BY <1>1, <1>2

\* A running scene may take the camera outside debug mode; the debug resume
\* that asked for it is still to be cleared.
LEMMA AcquiredHolds ==
    ASSUME NEW c, Held(c), Running(c), ~c.debugSeen,
           NEW r, r = Acquired(c) \/ r = Acquires(c)
    PROVE  Held(r) /\ Running(r) /\ ~r.debugSeen /\ r.resume = c.resume
<1>1. c \in Camera
      BY DEF Held
<1> QED BY <1>1, AcquiredFacts
        DEF Held, Running, Clean, Recorded, Keyed, Posed

\* ApplyTransform: nothing changed, a Restore, or the camera acquired.
LEMMA ApplyTransformOutcome ==
    ASSUME NEW c, Held(c), Running(c), ~c.debugSeen,
           NEW liveEdit, NEW posing, NEW e,
           NEW o, o = ApplyTransform(c, liveEdit, posing, e)
    PROVE  \/ o.how = "failed" /\ o.cam = c
           \/ /\ o.how = "failed" /\ Good(o.cam) /\ ~o.cam.resume
              /\ o.cam.session \in {"Idle", "Restoring"}
           \/ o.how = "posed" /\ o.cam = Acquires(c) /\ Held(o.cam) /\ Running(o.cam)
<1>1. \/ o = Outcome(c, "failed")
      \/ o = Outcome(Restore(c, e), "failed")
      \/ o = Outcome(Restore(Acquired(c), e), "failed")
      \/ o = Outcome(Acquires(c), "posed")
      BY DEF ApplyTransform, Acquires
<1>2. CASE o = Outcome(Restore(c, e), "failed")
  <2>1. o.how = "failed" /\ o.cam = Restore(c, e)
        BY <1>2 DEF Outcome
  <2> QED BY <2>1, RestoreHeldKeeps DEF Good, Owed
<1>3. CASE o = Outcome(Restore(Acquired(c), e), "failed")
  <2>1. o.how = "failed" /\ o.cam = Restore(Acquired(c), e)
        BY <1>3 DEF Outcome
  <2>2. Held(Acquired(c))
        BY AcquiredHolds
  <2> QED BY <2>1, <2>2, RestoreHeldKeeps DEF Good, Owed
<1>4. CASE o = Outcome(Acquires(c), "posed")
  <2>1. o.how = "posed" /\ o.cam = Acquires(c)
        BY <1>4 DEF Outcome
  <2> QED BY <2>1, AcquiredHolds
<1> QED BY <1>1, <1>2, <1>3, <1>4 DEF Outcome

\* ApplyRequestedTransform adds the hold and the release of an unresolved pose.
LEMMA ApplyRequestedTransformOutcome ==
    ASSUME NEW c, Held(c), Running(c), ~c.debugSeen,
           NEW liveEdit, NEW resolves, NEW posing, NEW e,
           NEW o, o = ApplyRequestedTransform(c, liveEdit, resolves, posing, e)
    PROVE  \/ o.how \in {"failed", "held"} /\ o.cam = c
           \/ o.how = "failed" /\ c.owns /\ o.cam = ReleaseCamera(c, e, TRUE)
           \/ /\ o.how = "failed" /\ Good(o.cam) /\ ~o.cam.resume
              /\ o.cam.session \in {"Idle", "Restoring"}
           \/ o.how = "posed" /\ o.cam = Acquires(c) /\ Held(o.cam) /\ Running(o.cam)
<1>1. \/ o = Outcome(c, "held")
      \/ o = ApplyTransform(c, liveEdit, posing, e)
      \/ c.owns /\ o = Outcome(ReleaseCamera(c, e, TRUE), "failed")
      BY DEF ApplyRequestedTransform
<1>2. CASE o = ApplyTransform(c, liveEdit, posing, e)
      BY <1>2, ApplyTransformOutcome
<1>3. CASE o = Outcome(c, "held")
      BY <1>3 DEF Outcome
<1>4. CASE c.owns /\ o = Outcome(ReleaseCamera(c, e, TRUE), "failed")
      BY <1>4 DEF Outcome
<1> QED BY <1>1, <1>2, <1>3, <1>4

\* The debug resume may be dropped at any time, and kept while an attempt is
\* left: what Update does after each attempt.
LEMMA ResumeFlagKeeps ==
    ASSUME NEW c, Held(c), NEW b \in BOOLEAN,
           b => /\ c.session = "Active" /\ ~c.suspended
                /\ ~c.owns /\ c.attempts > 0 /\ ~c.debugSeen,
           NEW r, r = [c EXCEPT !.resume = b]
    PROVE  /\ Kept(r) /\ r.session = c.session /\ r.reset = c.reset
           /\ r.debugSeen = c.debugSeen /\ r.resume = b
           /\ Running(c) => Running(r)
<1>1. c \in Camera
      BY DEF Held
<1>2. r \in Camera /\ r.resume = b
      BY <1>1 DEF Camera
<1>3. /\ r.session = c.session /\ r.key = c.key /\ r.suspended = c.suspended
      /\ r.pose = c.pose /\ r.anchor = c.anchor /\ r.reset = c.reset
      /\ r.debugSeen = c.debugSeen /\ r.eval = c.eval
      /\ r.attempts = c.attempts
      BY <1>1 DEF Camera
<1>4. /\ r.disables = c.disables /\ r.lockOwner = c.lockOwner
      /\ r.unlockPending = c.unlockPending /\ r.unlockQueued = c.unlockQueued
      /\ r.owns = c.owns /\ r.owner = c.owner
      BY <1>1 DEF Camera
<1> QED BY <1>2, <1>3, <1>4
        DEF Held, Kept, Running, Clean, Recorded, Debugged, Keyed, Posed

\* The inductive invariant.
IInv == /\ Good(cam)
        /\ pc \in {"idle", "batch", "overtaken"} \cup Stages
        /\ live \in BOOLEAN
        /\ StagesAreGuarded

\* An action that ends outside Update has only the record to look after.
LEMMA OutsideStages ==
    ASSUME Good(cam'), pc' \in {"idle", "batch", "overtaken"}, live' \in BOOLEAN
    PROVE  IInv'
BY DEF IInv, StagesAreGuarded, Stages, Good, Owed, Kept, Clean, Recorded,
       Debugged, Keyed, Posed

\* An update that returns has only the record to look after.
LEMMA Returning ==
    ASSUME Good(cam'), Returns
    PROVE  IInv'
BY OutsideStages DEF Returns

\* The initial record is good.
LEMMA InitHolds == Init => IInv
<1> SUFFICES ASSUME Init PROVE IInv
    OBVIOUS
<1>1. cam \in Camera
      BY Zeros, Named DEF Init, Camera
<1>2. Good(cam)
      BY <1>1 DEF Init, Good, Owed, Kept, Clean, Recorded, Debugged, Keyed, Posed
<1> QED BY <1>2 DEF Init, IInv, StagesAreGuarded, Stages

\* The reset at the head of a main update keeps the invariant.
LEMMA TickBeginStep ==
    ASSUME IInv, NEW e, TickBegin(e)
    PROVE  IInv'
<1>1. Good(cam')
      BY ProcessPendingResetKeeps DEF IInv, TickBegin
<1> QED BY <1>1, OutsideStages DEF IInv, TickBegin, GoesTo

\* A handled notice keeps the invariant.
LEMMA HandleSceneEventStep ==
    ASSUME IInv, NEW type, NEW k \in Keys, NEW player \in BOOLEAN, NEW e,
           HandleSceneEvent(type, k, player, e)
    PROVE  IInv'
<1>1. Good(cam')
      BY HandleKeeps DEF IInv, HandleSceneEvent
<1> QED BY <1>1, OutsideStages DEF IInv, HandleSceneEvent

\* The tail of a main update keeps the invariant.
LEMMA TickEndStep ==
    ASSUME IInv, NEW reply \in BOOLEAN, NEW outdated \in BOOLEAN,
           NEW controls, NEW e, TickEnd(reply, outdated, controls, e)
    PROVE  IInv'
<1>1. Good(cam')
      BY ProcessMainUpdateKeeps DEF IInv, TickEnd
<1> QED BY <1>1, Returning DEF TickEnd

\* A failure in Update or in a handler keeps the invariant.
LEMMA UpdateFailsStep ==
    ASSUME IInv, NEW e, UpdateFails(e)
    PROVE  IInv'
<1>1. Good(cam')
      BY EmergencyResetKeeps DEF IInv, Good, UpdateFails
<1>2. CASE pc # "batch"
      BY <1>1, <1>2, Returning DEF UpdateFails, ReturnsIf
<1>3. CASE pc = "batch"
      BY <1>1, <1>3, OutsideStages DEF IInv, UpdateFails, ReturnsIf, GoesTo
<1> QED BY <1>2, <1>3

\* Update enters its stages only with a scene neither given back nor suspended.
LEMMA UpdateBeginStep ==
    ASSUME IInv, NEW e, UpdateBegin(e)
    PROVE  IInv'
<1> DEFINE c == ProcessPendingReset(cam, e)
<1>1. Good(c) /\ cam' = c
      BY ProcessPendingResetKeeps DEF IInv, UpdateBegin
<1>2. CASE ~Proceeds(c) \/ c.suspended
      BY <1>1, <1>2, Returning DEF UpdateBegin, ReturnsIf
<1>3. CASE Proceeds(c) /\ ~c.suspended
  <2>1. pc' = "unlock" /\ live' = live
        BY <1>3 DEF UpdateBegin, ReturnsIf, GoesTo
  <2> HIDE DEF c
  <2> QED BY <1>1, <1>3, <2>1 DEF IInv, StagesAreGuarded, Stages, Proceeds
<1> QED BY <1>2, <1>3

\* A reset requested from another thread between two stages withdraws nothing
\* Update has tested: it only raises the flag and clears the hold.
LEMMA RequestResetStep ==
    ASSUME IInv, RequestReset
    PROVE  IInv'
<1> DEFINE d == [ClearTarget(cam) EXCEPT !.reset = TRUE]
<1>1. cam \in Camera
      BY DEF IInv, Good, Kept
<1>2. d \in Camera /\ d.reset
      BY <1>1, Named DEF Camera, ClearTarget
<1>3. Alike(cam, d)
  <2>1. /\ d.session = cam.session /\ d.key = cam.key
        /\ d.suspended = cam.suspended /\ d.eval = cam.eval
        /\ d.anchor = cam.anchor /\ d.pose = cam.pose
        /\ d.debugSeen = cam.debugSeen
        BY <1>1 DEF Camera, ClearTarget
  <2>2. /\ d.resume = cam.resume
        /\ d.attempts = cam.attempts /\ d.unlockQueued = cam.unlockQueued
        /\ d.unlockPending = cam.unlockPending
        /\ d.disables = cam.disables /\ d.lockOwner = cam.lockOwner
        /\ d.owns = cam.owns /\ d.owner = cam.owner
        BY <1>1 DEF Camera, ClearTarget
  <2> QED BY <2>1, <2>2 DEF Alike
<1>4. cam' = d
      BY DEF RequestReset
<1> HIDE DEF d
<1>5. Kept(d)
      BY <1>2, <1>3, AlikeKeeps DEF IInv, Good
<1>6. Good(cam')
      BY <1>2, <1>4, <1>5 DEF Good, Owed
<1>7. pc' \in {pc, "overtaken"} /\ live' = live
      BY DEF RequestReset, GoesTo
<1> QED BY <1>3, <1>4, <1>6, <1>7 DEF IInv, StagesAreGuarded, Alike, Stages

\* The clocks saturate inside their types.
LEMMA TimePassesStep ==
    ASSUME IInv, TimePasses
    PROVE  IInv'
<1>1. cam \in Camera
      BY DEF IInv, Good, Kept
<1>2. PICK x, y, z :
         /\ x = Older(cam.sceneAge, cam.session = "Active", Watchdog + 1)
         /\ y = Older(cam.noticeAge, cam.session = "Active" \/ cam.target # NoKey, Hold)
         /\ z = Older(cam.unlockAge, cam.unlockPending, UnlockWait)
      OBVIOUS
<1>3. cam' = [cam EXCEPT !.sceneAge = x, !.noticeAge = y, !.unlockAge = z]
      BY <1>2 DEF TimePasses
<1>4. cam.sceneAge \in SceneAges /\ cam.noticeAge \in NoticeAges /\ cam.unlockAge \in UnlockAges
      BY <1>1 DEF Camera
<1>5. x \in SceneAges /\ y \in NoticeAges /\ z \in UnlockAges
      BY <1>2, <1>4, ConstantsAssumption
         DEF Older, SceneAges, NoticeAges, UnlockAges, ConstantsAssumption
<1>6. cam' \in Camera
      BY <1>1, <1>3, <1>5 DEF Camera
<1>7. Alike(cam, cam')
      BY <1>1, <1>3 DEF Camera, Alike
<1>8. cam'.reset = cam.reset
      BY <1>1, <1>3 DEF Camera
<1>9. Good(cam')
      BY <1>6, <1>7, <1>8, AlikeKeeps DEF IInv, Good, Owed, Alike
<1> QED BY <1>9, OutsideStages DEF IInv, TimePasses

\* Another mod taking the camera, or giving it up, costs no grant its record.
LEMMA OwnerStep ==
    ASSUME IInv, NEW o \in {"none", "other"}, cam' = [cam EXCEPT !.owner = o],
           UNCHANGED <<pc, live>>
    PROVE  IInv'
<1>1. cam \in Camera
      BY DEF IInv, Good, Kept
<1>2. o \in CameraOwners
      BY DEF CameraOwners
<1>3. cam' \in Camera /\ cam'.owner = o
      BY <1>1, <1>2 DEF Camera
<1>4. /\ cam'.session = cam.session /\ cam'.key = cam.key
      /\ cam'.reset = cam.reset
      /\ cam'.suspended = cam.suspended /\ cam'.eval = cam.eval
      /\ cam'.anchor = cam.anchor /\ cam'.pose = cam.pose
      /\ cam'.debugSeen = cam.debugSeen
      BY <1>1 DEF Camera
<1>5. /\ cam'.resume = cam.resume
      /\ cam'.attempts = cam.attempts /\ cam'.unlockQueued = cam.unlockQueued
      /\ cam'.unlockPending = cam.unlockPending
      /\ cam'.disables = cam.disables /\ cam'.lockOwner = cam.lockOwner
      /\ cam'.owns = cam.owns
      BY <1>1 DEF Camera
<1>6. Good(cam')
      BY <1>3, <1>4, <1>5
         DEF IInv, Good, Owed, Kept, Clean, Recorded, Debugged, Keyed, Posed
<1> QED BY <1>4, <1>5, <1>6 DEF IInv, StagesAreGuarded

\* TDM forgetting a disable leaves the plugin's record in place.
LEMMA TargetLockIsFreedStep ==
    ASSUME IInv, TargetLockIsFreed
    PROVE  IInv'
<1>0. cam' = [cam EXCEPT !.lockOwner = "none"]
      BY DEF TargetLockIsFreed
<1>1. cam \in Camera
      BY DEF IInv, Good, Kept
<1>3. cam' \in Camera /\ cam'.lockOwner = "none"
      BY <1>0, <1>1, Named DEF Camera
<1>4. /\ cam'.session = cam.session /\ cam'.key = cam.key
      /\ cam'.reset = cam.reset
      /\ cam'.suspended = cam.suspended /\ cam'.eval = cam.eval
      /\ cam'.anchor = cam.anchor /\ cam'.pose = cam.pose
      /\ cam'.debugSeen = cam.debugSeen
      BY <1>0, <1>1 DEF Camera
<1>5. /\ cam'.resume = cam.resume
      /\ cam'.attempts = cam.attempts /\ cam'.unlockQueued = cam.unlockQueued
      /\ cam'.unlockPending = cam.unlockPending
      /\ cam'.disables = cam.disables
      /\ cam'.owns = cam.owns /\ cam'.owner = cam.owner
      BY <1>0, <1>1 DEF Camera
<1>6. Good(cam')
      BY <1>3, <1>4, <1>5
         DEF IInv, Good, Owed, Kept, Clean, Recorded, Debugged, Keyed, Posed
<1> QED BY <1>4, <1>5, <1>6 DEF IInv, StagesAreGuarded, TargetLockIsFreed

\* The unlock request is taken from the queue.
LEMMA UnqueuedKeeps ==
    ASSUME NEW c, Good(c), NEW r, r = [c EXCEPT !.unlockQueued = FALSE]
    PROVE  /\ Good(r) /\ r.session = c.session /\ r.suspended = c.suspended
           /\ ~r.unlockQueued /\ r.debugSeen = c.debugSeen /\ r.resume = c.resume
           /\ r.unlockPending = c.unlockPending
<1>1. c \in Camera
      BY DEF Good, Kept
<1>2. r \in Camera /\ ~r.unlockQueued
      BY <1>1 DEF Camera
<1>3. /\ r.session = c.session /\ r.key = c.key /\ r.suspended = c.suspended
      /\ r.pose = c.pose /\ r.anchor = c.anchor /\ r.reset = c.reset
      /\ r.debugSeen = c.debugSeen /\ r.eval = c.eval /\ r.resume = c.resume
      /\ r.attempts = c.attempts
      BY <1>1 DEF Camera
<1>4. /\ r.disables = c.disables /\ r.lockOwner = c.lockOwner
      /\ r.unlockPending = c.unlockPending
      /\ r.owns = c.owns /\ r.owner = c.owner
      BY <1>1 DEF Camera
<1> QED BY <1>2, <1>3, <1>4
        DEF Good, Owed, Kept, Clean, Recorded, Debugged, Keyed, Posed

\* The unlock stage records what TDM granted and leaves no unlock behind.
LEMMA UpdateUnlockStep ==
    ASSUME IInv, NEW e, NEW locked, UpdateUnlock(e, locked)
    PROVE  IInv'
<1> DEFINE c == [cam EXCEPT !.unlockQueued = FALSE]
           requests == cam.unlockQueued /\ cam.session = "Active"
                       /\ CanRequestUnlock(cam, e, locked)
           asked == [c EXCEPT !.unlockPending = TRUE, !.unlockAge = 0,
                              !.disables = TRUE,
                              !.lockOwner = IF c.disables THEN @ ELSE "SSC"]
<1>0. \/ cam.session = "Active" /\ cam' = asked /\ Returns
      \/ cam' = c /\ Returns
      \/ c.unlockPending /\ cam' = FinishUnlock(c) /\ GoesTo("debug")
      \/ ~c.unlockPending /\ cam' = c /\ GoesTo("debug")
  <2>1. CASE requests
        BY <2>1 DEF UpdateUnlock
  <2>2. CASE ~requests
        BY <2>2 DEF UpdateUnlock
  <2> QED BY <2>1, <2>2
<1>1. c = [cam EXCEPT !.unlockQueued = FALSE]
      OBVIOUS
<1>2. cam.session # "Restoring" /\ ~cam.suspended
      BY DEF IInv, StagesAreGuarded, UpdateUnlock, Stages
<1> HIDE DEF c, requests
<1>3. /\ Good(c) /\ c.session = cam.session /\ c.suspended = cam.suspended
      /\ ~c.unlockQueued
      BY <1>1, UnqueuedKeeps DEF IInv
<1>4. c \in Camera
      BY <1>3 DEF Good, Kept
<1>5. CASE cam.session = "Active" /\ cam' = asked /\ Returns
  <2>1. asked \in Camera
    <3>1. CASE c.disables
          BY <1>4, <3>1, Zeros DEF Camera
    <3>2. CASE ~c.disables
          BY <1>4, <3>2, Zeros, Named DEF Camera
    <3> QED BY <3>1, <3>2
  <2>2. /\ asked.session = c.session /\ asked.key = c.key
        /\ asked.suspended = c.suspended /\ asked.resume = c.resume
        /\ asked.attempts = c.attempts /\ asked.debugSeen = c.debugSeen
        BY <1>4 DEF Camera
  <2>3. /\ asked.owns = c.owns /\ asked.owner = c.owner /\ asked.pose = c.pose
        /\ asked.unlockPending /\ asked.disables
        BY <1>4 DEF Camera
  <2> HIDE DEF asked
  <2>4. Good(asked)
        BY <1>3, <1>5, <2>1, <2>2, <2>3
           DEF Good, Owed, Kept, Clean, Recorded, Debugged, Keyed, Posed
  <2> QED BY <1>5, <2>4, Returning
<1>6. CASE cam' = c /\ Returns
      BY <1>3, <1>6, Returning
<1>7. CASE c.unlockPending /\ cam' = FinishUnlock(c) /\ GoesTo("debug")
  <2>1. /\ cam' \in Camera
        /\ cam'.session = c.session /\ cam'.key = c.key /\ cam'.reset = c.reset
        /\ cam'.suspended = c.suspended /\ cam'.eval = c.eval
        /\ cam'.anchor = c.anchor
        /\ cam'.pose = c.pose /\ cam'.debugSeen = c.debugSeen
        /\ cam'.resume = c.resume
        /\ cam'.attempts = c.attempts /\ cam'.unlockQueued = c.unlockQueued
        /\ cam'.owns = c.owns /\ cam'.owner = c.owner
        /\ ~cam'.disables /\ ~cam'.unlockPending
        /\ cam'.lockOwner = IF c.disables THEN "none" ELSE c.lockOwner
        BY <1>4, <1>7, FinishUnlockFacts
  <2>2. Good(cam')
        BY <1>3, <2>1
           DEF Good, Owed, Kept, Clean, Recorded, Debugged, Keyed, Posed
  <2> QED BY <1>2, <1>3, <1>7, <2>1, <2>2 DEF IInv, GoesTo, StagesAreGuarded, Stages
<1>8. CASE ~c.unlockPending /\ cam' = c /\ GoesTo("debug")
      BY <1>2, <1>3, <1>8 DEF IInv, GoesTo, StagesAreGuarded, Stages
<1> QED BY <1>0, <1>5, <1>6, <1>7, <1>8

\* A change of debug mode: observed only when the camera is back, left with a
\* resume only for a running scene.
LEMMA ChangeDebugModeKeeps ==
    ASSUME NEW c, Good(c), c.session # "Restoring", ~c.suspended,
           NEW mode \in BOOLEAN, mode # c.debugSeen, NEW e,
           NEW r, r = ChangeDebugMode(c, mode, e)
    PROVE  /\ Good(r)
           /\ r.debugSeen = mode =>
                /\ r.session = c.session /\ r.suspended = c.suspended
                /\ r.unlockPending = c.unlockPending
                /\ r.unlockQueued = c.unlockQueued
<1> DEFINE s == [c EXCEPT !.resume = FALSE, !.eval = @ \/ c.session = "Active"]
           q == ReleaseCamera(s, e, FALSE)
           d == [q EXCEPT !.debugSeen = CanRelease(s, e)]
           h == [s EXCEPT !.debugSeen = FALSE,
                          !.resume = c.session = "Active",
                          !.attempts = IF c.session = "Active" THEN DebugAttempts ELSE @]
<1>1. c \in Camera /\ c.debugSeen \in BOOLEAN
      BY DEF Good, Kept, Camera
<1>2. r = IF mode THEN d ELSE h
      BY DEF ChangeDebugMode
<1>3. s \in Camera
      BY <1>1 DEF Camera
<1>4. /\ s.session = c.session /\ s.key = c.key /\ s.suspended = c.suspended
      /\ s.pose = c.pose /\ s.anchor = c.anchor /\ s.reset = c.reset
      /\ s.debugSeen = c.debugSeen /\ ~s.resume
      BY <1>1 DEF Camera
<1>5. /\ s.disables = c.disables /\ s.lockOwner = c.lockOwner
      /\ s.unlockPending = c.unlockPending /\ s.unlockQueued = c.unlockQueued
      /\ s.owns = c.owns /\ s.owner = c.owner
      BY <1>1 DEF Camera
<1>6. s.eval = (c.eval \/ c.session = "Active")
      BY <1>1 DEF Camera
<1>q. q = IF CanRelease(s, e) THEN Released(s)
          ELSE IF FoundLost(s, e) THEN Discarded(s) ELSE s
      BY DEF ReleaseCamera
<1> HIDE DEF s, q
<1>7. Kept(s)
      BY <1>3, <1>4, <1>5, <1>6
         DEF Good, Kept, Clean, Recorded, Debugged, Keyed, Posed
<1>8. CASE mode
  <2>1. /\ Kept(q)
        /\ q.session \in {s.session, "Restoring"}
        /\ CanRelease(s, e) =>
             /\ ~q.owns /\ ~q.pose
             /\ q.session = s.session /\ q.suspended = s.suspended
             /\ q.resume = s.resume
             /\ q.unlockQueued = s.unlockQueued
             /\ q.unlockPending = s.unlockPending
        /\ ~CanRelease(s, e) =>
             (q.session = "Restoring" /\ q.reset) \/ q = s
        BY <1>7, <1>q, ReleaseKeeps
  <2>2. q \in Camera
        BY <2>1 DEF Kept
  <2>3. PICK b \in BOOLEAN : b = CanRelease(s, e)
    <3>1. CanRelease(s, e) \in BOOLEAN
          BY DEF CanRelease
    <3> QED BY <3>1
  <2>4. d = [q EXCEPT !.debugSeen = b]
        BY <2>3
  <2> HIDE DEF d
  <2>5. d \in Camera /\ d.debugSeen = b
        BY <2>2, <2>4 DEF Camera
  <2>6. /\ d.session = q.session /\ d.key = q.key /\ d.suspended = q.suspended
        /\ d.pose = q.pose /\ d.anchor = q.anchor /\ d.reset = q.reset
        /\ d.eval = q.eval /\ d.resume = q.resume /\ d.attempts = q.attempts
        BY <2>2, <2>4 DEF Camera
  <2>7. /\ d.disables = q.disables /\ d.lockOwner = q.lockOwner
        /\ d.unlockPending = q.unlockPending /\ d.unlockQueued = q.unlockQueued
        /\ d.owns = q.owns /\ d.owner = q.owner
        BY <2>2, <2>4 DEF Camera
  <2>8. Kept(d)
        BY <1>4, <2>1, <2>3, <2>5, <2>6, <2>7
           DEF Kept, Clean, Recorded, Debugged, Keyed, Posed
  <2>9. Good(d)
        BY <1>4, <2>1, <2>6, <2>8 DEF Good, Owed
  <2> QED BY <1>2, <1>4, <1>5, <1>8, <2>1, <2>3, <2>5, <2>6, <2>7, <2>9, ZenonT(40)
<1>9. CASE ~mode
  <2>1. c.debugSeen
        BY <1>1, <1>9
  <2>2. DebugAttempts \in Attempts /\ DebugAttempts > 0
        BY ConstantsAssumption DEF ConstantsAssumption, Attempts
  <2>3. PICK b \in BOOLEAN : b = (c.session = "Active")
        OBVIOUS
  <2>4. PICK n \in Attempts : n = IF c.session = "Active" THEN DebugAttempts ELSE s.attempts
        BY <1>3, <2>2 DEF Camera
  <2>5. h = [s EXCEPT !.debugSeen = FALSE, !.resume = b, !.attempts = n]
        BY <2>3, <2>4
  <2> HIDE DEF h
  <2>6. h \in Camera
        BY <1>3, <2>5, ZenonT(40) DEF Camera
  <2>7. /\ h.session = s.session /\ h.key = s.key /\ h.suspended = s.suspended
        /\ h.pose = s.pose /\ h.anchor = s.anchor /\ h.reset = s.reset
        /\ h.eval = s.eval /\ h.resume = b /\ h.attempts = n /\ ~h.debugSeen
        BY <1>3, <2>5 DEF Camera
  <2>8. /\ h.disables = s.disables /\ h.lockOwner = s.lockOwner
        /\ h.unlockPending = s.unlockPending /\ h.unlockQueued = s.unlockQueued
        /\ h.owns = s.owns /\ h.owner = s.owner
        BY <1>3, <2>5 DEF Camera
  <2>9. ~c.owns
        BY <2>1 DEF Good, Kept, Debugged
  <2>10. Kept(h)
        BY <1>4, <1>5, <1>7, <2>2, <2>3, <2>4, <2>6, <2>7, <2>8, <2>9, ZenonT(40)
           DEF Kept, Clean, Recorded, Debugged, Keyed, Posed
  <2> QED BY <1>2, <1>4, <1>5, <1>9, <2>7, <2>8, <2>10 DEF Good, Owed
<1> QED BY <1>8, <1>9

\* The debug stage goes on only with an active scene.
LEMMA UpdateDebugStep ==
    ASSUME IInv, NEW mode \in BOOLEAN, NEW preview \in BOOLEAN, NEW e,
           UpdateDebug(mode, preview, e)
    PROVE  IInv'
<1> DEFINE c == IF mode # cam.debugSeen THEN ChangeDebugMode(cam, mode, e) ELSE cam
<1>1. /\ Good(cam) /\ cam.session # "Restoring" /\ ~cam.suspended
      /\ ~cam.unlockPending /\ ~cam.unlockQueued
      BY DEF IInv, StagesAreGuarded, Stages, UpdateDebug
<1>2. /\ Good(c)
      /\ c.debugSeen = mode =>
            /\ c.session = cam.session /\ c.suspended = cam.suspended
            /\ c.unlockPending = cam.unlockPending
            /\ c.unlockQueued = cam.unlockQueued
      BY <1>1, ChangeDebugModeKeeps
<1>3. /\ cam' = c
      /\ \/ Returns
         \/ /\ c.debugSeen = mode /\ (c.session = "Active" \/ c.pose)
            /\ pc' = "anchor" /\ live' = preview
      BY DEF UpdateDebug
<1> HIDE DEF c
<1>4. CASE Returns
      BY <1>2, <1>3, <1>4, Returning
<1>5. CASE /\ c.debugSeen = mode /\ (c.session = "Active" \/ c.pose)
           /\ pc' = "anchor" /\ live' = preview
  <2>1. c.session = "Active"
        BY <1>1, <1>2, <1>5
           DEF Good, Kept, Clean, Posed, Camera, SessionStates
  <2> QED BY <1>1, <1>2, <1>3, <1>5, <2>1 DEF IInv, StagesAreGuarded, Stages
<1> QED BY <1>3, <1>4, <1>5

\* Expiry, watchdog, anchor and evaluation keep the invariant.
LEMMA UpdateAnchorStep ==
    ASSUME IInv, NEW sampled \in BOOLEAN, NEW expired \in BOOLEAN,
           NEW measured \in BOOLEAN, NEW due \in BOOLEAN, NEW e,
           UpdateAnchor(sampled, expired, measured, due, e)
    PROVE  IInv'
<1> DEFINE c == IF cam.resume /\ (live \/ expired)
                THEN [cam EXCEPT !.resume = FALSE, !.eval = @ /\ live] ELSE cam
           refreshed == c.session = "Active" /\ (c.anchor \/ c.eval) /\ sampled
           a == [c EXCEPT !.anchor = @ \/ refreshed]
           v == [a EXCEPT !.eval = FALSE, !.metadata = "committed"]
<1>1. /\ Good(cam) /\ Running(cam) /\ cam \in Camera
      BY DEF IInv, StagesAreGuarded, Stages, UpdateAnchor, Running, Good, Kept
<1>2. /\ Kept(c) /\ Running(c) /\ c.debugSeen = cam.debugSeen
      /\ c.resume => cam.resume
  <2> DEFINE w == [cam EXCEPT !.resume = FALSE, !.eval = @ /\ live]
  <2>1. w \in Camera /\ ~w.resume
        BY <1>1, ZenonT(40) DEF IInv, Camera
  <2>2. /\ w.session = cam.session /\ w.key = cam.key
        /\ w.suspended = cam.suspended
        /\ w.pose = cam.pose /\ w.debugSeen = cam.debugSeen
        BY <1>1 DEF Camera
  <2>3. /\ w.disables = cam.disables /\ w.lockOwner = cam.lockOwner
        /\ w.unlockPending = cam.unlockPending
        /\ w.unlockQueued = cam.unlockQueued
        /\ w.owns = cam.owns /\ w.owner = cam.owner
        BY <1>1 DEF Camera
  <2>4. c = cam \/ c = w
        OBVIOUS
  <2> HIDE DEF w, c
  <2>5. Kept(w) /\ Running(w)
        BY <1>1, <2>1, <2>2, <2>3
           DEF Good, Running, Kept, Clean, Recorded, Debugged, Keyed, Posed
  <2> QED BY <1>1, <2>1, <2>2, <2>4, <2>5 DEF Good
<1>3. \/ cam' = Restore(c, e) /\ Returns
      \/ cam' = a /\ Returns
      \/ /\ cam' = v /\ live' = live
         /\ \/ pc' = "show" /\ ~v.debugSeen /\ ~v.resume
            \/ pc' = "resume" /\ v.resume
            \/ pc' = "present"
      \/ /\ cam' = a /\ live' = live
         /\ \/ pc' = "resume" /\ a.resume
            \/ pc' = "present"
      BY DEF UpdateAnchor, GoesTo
<1> HIDE DEF c
<1>4. c \in Camera
      BY <1>2 DEF Kept
<1>5. a \in Camera
      BY <1>4 DEF Camera
<1>6. /\ a.session = c.session /\ a.key = c.key /\ a.suspended = c.suspended
      /\ a.pose = c.pose /\ a.debugSeen = c.debugSeen /\ a.resume = c.resume
      /\ a.attempts = c.attempts
      BY <1>4 DEF Camera
<1>7. /\ a.disables = c.disables /\ a.lockOwner = c.lockOwner
      /\ a.unlockPending = c.unlockPending /\ a.unlockQueued = c.unlockQueued
      /\ a.owns = c.owns /\ a.owner = c.owner
      BY <1>4 DEF Camera
<1> HIDE DEF a
<1>8. Kept(a) /\ Running(a)
      BY <1>2, <1>5, <1>6, <1>7
         DEF Running, Kept, Clean, Recorded, Debugged, Keyed, Posed
<1>9. v \in Camera
      BY <1>5, Named DEF Camera
<1>10. /\ v.session = a.session /\ v.key = a.key /\ v.suspended = a.suspended
       /\ v.pose = a.pose /\ v.debugSeen = a.debugSeen /\ v.resume = a.resume
       /\ v.attempts = a.attempts
       BY <1>5 DEF Camera
<1>11. /\ v.disables = a.disables /\ v.lockOwner = a.lockOwner
       /\ v.unlockPending = a.unlockPending /\ v.unlockQueued = a.unlockQueued
       /\ v.owns = a.owns /\ v.owner = a.owner
       BY <1>5 DEF Camera
<1> HIDE DEF v
<1>12. Kept(v) /\ Running(v)
       BY <1>8, <1>9, <1>10, <1>11
          DEF Running, Kept, Clean, Recorded, Debugged, Keyed, Posed
<1>13. Good(a) /\ Good(v)
       BY <1>8, <1>12 DEF Good, Owed, Running
<1>14. CASE cam' = Restore(c, e) /\ Returns
       BY <1>2, <1>14, RestoreKeeps, Returning DEF Good, Owed
<1>15. CASE cam' = a /\ Returns
       BY <1>13, <1>15, Returning
<1>16. CASE /\ cam' = v /\ live' = live
            /\ \/ pc' = "show" /\ ~v.debugSeen /\ ~v.resume
               \/ pc' = "resume" /\ v.resume
               \/ pc' = "present"
       BY <1>12, <1>13, <1>16 DEF IInv, StagesAreGuarded, Stages, Running
<1>17. CASE /\ cam' = a /\ live' = live
            /\ \/ pc' = "resume" /\ a.resume
               \/ pc' = "present"
       BY <1>8, <1>13, <1>17 DEF IInv, StagesAreGuarded, Stages, Running
<1> QED BY <1>3, <1>14, <1>15, <1>16, <1>17

\* A release inside Update, after which Update returns.
LEMMA ReleaseAsked ==
    ASSUME NEW c, Good(c), NEW e, NEW r,
           r = IF CanRelease(c, e) THEN Released(c)
               ELSE IF FoundLost(c, e) THEN Discarded(c) ELSE AsksForReset(c)
    PROVE  Good(r)
<1>1. c \in Camera /\ Kept(c) /\ Owed(c)
      BY DEF Good, Kept
<1>2. CASE CanRelease(c, e)
  <2>1. Kept(r) /\ r.session = c.session /\ r.reset = c.reset
        BY <1>1, <1>2, ReleaseKeeps
  <2> QED BY <1>1, <2>1 DEF Good, Owed
<1>3. CASE ~CanRelease(c, e)
  <2>1. /\ Kept(r)
        /\ \/ r.session = "Restoring" /\ r.reset
           \/ r = AsksForReset(c)
        BY <1>1, <1>3, ReleaseKeeps
  <2>2. AsksForReset(c).reset
        BY <1>1, AsksForResetFacts
  <2> QED BY <2>1, <2>2 DEF Good, Owed
<1> QED BY <1>2, <1>3

\* The present stage keeps the invariant on all its ways out.
LEMMA UpdatePresentStep ==
    ASSUME IInv, NEW measured, NEW fresh, NEW ended, NEW resolves, NEW e,
           UpdatePresent(measured, fresh, ended, resolves, e)
    PROVE  IInv'
<1> DEFINE w == [cam EXCEPT !.metadata = "committed"]
           c == IF measured /\ cam.metadata = "ready" /\ ~live THEN w ELSE cam
<1>1. Good(cam) /\ Running(cam) /\ cam \in Camera
      BY DEF IInv, StagesAreGuarded, Stages, UpdatePresent, Running, Good, Kept
<1>2. w \in Camera /\ w.reset = cam.reset
      BY <1>1, Named DEF Camera
<1>3. Alike(cam, w)
      BY <1>1 DEF Camera, Alike
<1>4. \/ cam' = c /\ Returns
      \/ cam' = ReleaseCamera(c, e, TRUE) /\ Returns
      \/ /\ cam' = c /\ live' = live /\ ~cam.debugSeen
         /\ (pc' = "show" /\ ~c.resume) \/ pc' = "step"
      BY DEF UpdatePresent, GoesTo
<1>5. c = cam \/ c = w
      OBVIOUS
<1> HIDE DEF w, c
<1>6. Good(w) /\ Running(w) /\ w.debugSeen = cam.debugSeen
      BY <1>1, <1>2, <1>3, AlikeKeeps DEF Good, Owed, Running, Alike
<1>7. Good(c) /\ Running(c) /\ c.debugSeen = cam.debugSeen
      BY <1>1, <1>5, <1>6
<1>8. CASE cam' = c /\ Returns
      BY <1>7, <1>8, Returning
<1>9. CASE cam' = ReleaseCamera(c, e, TRUE) /\ Returns
  <2> DEFINE r == ReleaseCamera(c, e, TRUE)
  <2>1. cam' = r /\ Returns
        BY <1>9
  <2>2. r = IF CanRelease(c, e) THEN Released(c)
            ELSE IF FoundLost(c, e) THEN Discarded(c) ELSE AsksForReset(c)
        BY DEF ReleaseCamera
  <2> HIDE DEF r
  <2>3. Good(r)
        BY <1>7, <2>2, ReleaseAsked
  <2> QED BY <2>1, <2>3, Returning
<1>10. CASE /\ cam' = c /\ live' = live /\ ~cam.debugSeen
            /\ (pc' = "show" /\ ~c.resume) \/ pc' = "step"
       BY <1>7, <1>10 DEF IInv, StagesAreGuarded, Stages, Running
<1> QED BY <1>4, <1>8, <1>9, <1>10

\* Showing a transform takes the camera only outside debug mode.
LEMMA UpdateShowStep ==
    ASSUME IInv, NEW resolves, NEW posing, NEW e, UpdateShow(resolves, posing, e)
    PROVE  IInv'
<1> DEFINE o == ApplyRequestedTransform(cam, live, resolves, posing, e)
<1>1. /\ Good(cam) /\ Running(cam) /\ cam \in Camera
      /\ ~cam.debugSeen /\ ~cam.resume
      BY DEF IInv, StagesAreGuarded, Stages, UpdateShow, Running, Good, Kept
<1>2. Held(cam)
      BY <1>1, KeptIsHeld DEF Good
<1>3. \/ o.how \in {"failed", "held"} /\ o.cam = cam
      \/ o.how = "failed" /\ cam.owns /\ o.cam = ReleaseCamera(cam, e, TRUE)
      \/ /\ o.how = "failed" /\ Good(o.cam) /\ ~o.cam.resume
         /\ o.cam.session \in {"Idle", "Restoring"}
      \/ o.how = "posed" /\ o.cam = Acquires(cam) /\ Held(o.cam) /\ Running(o.cam)
      BY <1>1, <1>2, ApplyRequestedTransformOutcome
<1>4. /\ cam' = o.cam
      /\ o.how = "failed" => Returns
      /\ o.how # "failed" => pc' \in {"posed", "step"} /\ live' = live
      BY DEF UpdateShow, ReturnsIf, GoesTo
<1> HIDE DEF o
<1>5. CASE o.how = "failed"
  <2> DEFINE r == ReleaseCamera(cam, e, TRUE)
  <2>1. r = IF CanRelease(cam, e) THEN Released(cam)
            ELSE IF FoundLost(cam, e) THEN Discarded(cam) ELSE AsksForReset(cam)
        BY DEF ReleaseCamera
  <2>2. o.cam = cam \/ Good(o.cam) \/ o.cam = r
        BY <1>3, <1>5
  <2> HIDE DEF r
  <2>3. Good(o.cam)
        BY <1>1, <2>1, <2>2, ReleaseAsked
  <2> QED BY <1>4, <1>5, <2>3, Returning
<1>6. CASE o.how = "held" /\ o.cam = cam
      BY <1>1, <1>4, <1>6 DEF IInv, StagesAreGuarded, Stages, Running
<1>7. CASE /\ o.how = "posed" /\ o.cam = Acquires(cam)
           /\ Held(o.cam) /\ Running(o.cam)
  <2>1. ~o.cam.resume /\ ~o.cam.debugSeen
        BY <1>1, <1>7, AcquiredFacts
  <2>2. Good(o.cam)
        BY <1>7, <2>1 DEF Held, Running, Good, Owed, Kept, Debugged
  <2> QED BY <1>4, <1>7, <2>1, <2>2 DEF IInv, StagesAreGuarded, Stages, Running
<1> QED BY <1>3, <1>5, <1>6, <1>7

\* A preset step or the maintained pose keeps the invariant.
LEMMA UpdateStepStep ==
    ASSUME IInv, NEW stepping, NEW resolves, NEW posing, NEW e,
           UpdateStep(stepping, resolves, posing, e)
    PROVE  IInv'
<1> DEFINE o == ApplyTransform(cam, FALSE, posing, e)
<1>1. /\ Good(cam) /\ Running(cam) /\ cam \in Camera /\ ~cam.debugSeen
      BY DEF IInv, StagesAreGuarded, Stages, UpdateStep, Running, Good, Kept
<1>2. Held(cam) /\ Kept(cam)
      BY <1>1, KeptIsHeld DEF Good
<1>3. /\ Returns
      /\ \/ cam' = cam
         \/ cam' = Restore(cam, e)
         \/ ~cam.resume /\ cam' = o.cam
      BY DEF UpdateStep, Maintain
<1>4. CASE ~cam.resume /\ cam' = o.cam
  <2>1. \/ o.how = "failed" /\ o.cam = cam
        \/ /\ o.how = "failed" /\ Good(o.cam) /\ ~o.cam.resume
           /\ o.cam.session \in {"Idle", "Restoring"}
        \/ /\ o.how = "posed" /\ o.cam = Acquires(cam)
           /\ Held(o.cam) /\ Running(o.cam)
        BY <1>1, <1>2, ApplyTransformOutcome
  <2> HIDE DEF o
  <2>2. CASE o.cam = Acquires(cam) /\ Held(o.cam) /\ Running(o.cam)
    <3>1. ~o.cam.resume /\ ~o.cam.debugSeen
          BY <1>1, <1>4, <2>2, AcquiredFacts
    <3>2. Good(o.cam)
          BY <2>2, <3>1 DEF Held, Running, Good, Owed, Kept, Debugged
    <3> QED BY <1>3, <1>4, <3>2, Returning
  <2>3. CASE Good(o.cam)
        BY <1>3, <1>4, <2>3, Returning
  <2> QED BY <1>1, <2>1, <2>2, <2>3
<1>5. CASE cam' = Restore(cam, e)
      BY <1>2, <1>3, <1>5, RestoreKeeps, Returning DEF Good, Owed
<1> QED BY <1>1, <1>3, <1>4, <1>5, Returning

\* An attempt to take the camera back after debug mode: the unsigned attempt
\* counter is positive when it is decremented, and the flag outlives no last
\* attempt.
LEMMA UpdateResumeStep ==
    ASSUME IInv, NEW resolves \in BOOLEAN, NEW posing, NEW e,
           UpdateResume(resolves, posing, e)
    PROVE  IInv'
<1> DEFINE tried == [cam EXCEPT !.attempts = @ - 1]
           t == IF resolves THEN tried ELSE cam
           o == ApplyRequestedTransform(t, FALSE, resolves, posing, e)
           keeps == o.cam.resume /\ ~(o.cam.session = "Active" /\ o.cam.attempts = 0)
           f == [o.cam EXCEPT !.resume = keeps]
           g == [o.cam EXCEPT !.resume = FALSE]
<1>1. /\ Good(cam) /\ Kept(cam) /\ Running(cam) /\ cam \in Camera
      /\ cam.resume /\ ~cam.owns /\ ~cam.debugSeen /\ cam.attempts > 0
      BY DEF IInv, StagesAreGuarded, Stages, UpdateResume, Running, Good, Kept, Debugged
<1>2. /\ Held(t) /\ Running(t) /\ t.resume /\ ~t.owns /\ ~t.debugSeen
      /\ t.attempts \in Attempts
  <2>1. cam.attempts - 1 \in Attempts
    <3>1. cam.attempts \in Attempts
          BY <1>1 DEF Camera
    <3> QED BY <1>1, <3>1, ConstantsAssumption DEF Attempts, ConstantsAssumption
  <2>2. tried \in Camera
        BY <1>1, <2>1 DEF Camera
  <2>3. /\ tried.session = cam.session /\ tried.key = cam.key
        /\ tried.suspended = cam.suspended /\ tried.resume = cam.resume
        /\ tried.pose = cam.pose /\ tried.debugSeen = cam.debugSeen
        BY <1>1 DEF Camera
  <2>4. /\ tried.disables = cam.disables /\ tried.lockOwner = cam.lockOwner
        /\ tried.unlockPending = cam.unlockPending
        /\ tried.unlockQueued = cam.unlockQueued
        /\ tried.owns = cam.owns /\ tried.owner = cam.owner
        BY <1>1 DEF Camera
  <2>5. t = tried \/ t = cam
        OBVIOUS
  <2>6. t \in Camera
        BY <1>1, <2>2, <2>5
  <2> HIDE DEF tried, t
  <2>7. Held(t)
        BY <1>1, <2>2, <2>3, <2>4, <2>5
           DEF Running, Held, Kept, Clean, Recorded, Debugged, Keyed, Posed
  <2>8. t.attempts \in Attempts
        BY <2>6 DEF Camera
  <2> QED BY <1>1, <2>3, <2>4, <2>5, <2>7, <2>8 DEF Running
<1>3. \/ o.how = "failed" /\ cam' = f /\ Returns
      \/ cam' = g /\ pc' \in {"posed", "present"} /\ live' = live
         /\ (~resolves \/ o.how # "failed")
  <2>1. CASE resolves /\ o.how = "failed"
        BY <2>1 DEF UpdateResume
  <2>2. CASE ~(resolves /\ o.how = "failed")
        BY <2>2 DEF UpdateResume, GoesTo
  <2> QED BY <2>1, <2>2
<1>4. \/ o.how \in {"failed", "held"} /\ o.cam = t
      \/ /\ o.how = "failed" /\ Good(o.cam) /\ ~o.cam.resume
         /\ o.cam.session \in {"Idle", "Restoring"}
      \/ o.how = "posed" /\ o.cam = Acquires(t) /\ Held(o.cam) /\ Running(o.cam)
  <2> HIDE DEF t
  <2> QED BY <1>2, ApplyRequestedTransformOutcome
<1>5. ~resolves => o.how # "failed" \/ o.cam = t
      BY <1>2 DEF ApplyRequestedTransform, Outcome
<1> HIDE DEF t, o
<1>6. CASE cam' = g /\ o.cam = t /\ pc' \in {"posed", "present"} /\ live' = live
  <2>1. PICK b \in BOOLEAN : ~b
        OBVIOUS
  <2>2. g = [t EXCEPT !.resume = b]
        BY <1>6, <2>1
  <2> HIDE DEF g
  <2>3. Kept(g) /\ Running(g) /\ g.debugSeen = t.debugSeen
        BY <1>2, <2>1, <2>2, ResumeFlagKeeps
  <2> QED BY <1>2, <1>6, <2>3
          DEF IInv, StagesAreGuarded, Stages, Running, Good, Owed
<1>7. CASE /\ cam' = g /\ o.how = "posed" /\ o.cam = Acquires(t)
           /\ Held(o.cam) /\ Running(o.cam)
           /\ pc' \in {"posed", "present"} /\ live' = live
  <2>1. t \in Camera
        BY <1>2 DEF Held
  <2>2. ~o.cam.debugSeen
        BY <1>2, <1>7, <2>1, AcquiredFacts
  <2>3. PICK b \in BOOLEAN : ~b
        OBVIOUS
  <2>4. g = [o.cam EXCEPT !.resume = b]
        BY <2>3
  <2> HIDE DEF g
  <2>5. Kept(g) /\ Running(g) /\ g.debugSeen = o.cam.debugSeen
        BY <1>7, <2>3, <2>4, ResumeFlagKeeps
  <2> QED BY <1>2, <1>7, <2>2, <2>5
          DEF IInv, StagesAreGuarded, Stages, Running, Good, Owed
<1>8. CASE cam' = f /\ Returns /\ o.cam = t
  <2>1. PICK b \in BOOLEAN : b = keeps
        OBVIOUS
  <2>2. f = [t EXCEPT !.resume = b]
        BY <1>8, <2>1
  <2>7. keeps => ~(t.session = "Active" /\ t.attempts = 0)
        BY <1>8
  <2>8. /\ t.attempts # 0 => t.attempts > 0
        /\ t.session = "Active"
        BY <1>2, ConstantsAssumption DEF Running, Attempts, ConstantsAssumption
  <2> HIDE DEF keeps
  <2>3. b => t.attempts > 0
        BY <2>1, <2>7, <2>8
  <2> HIDE DEF f
  <2>6. /\ t.session = "Active" /\ ~t.suspended
        /\ ~t.owns /\ ~t.debugSeen /\ Held(t)
        BY <1>2 DEF Running
  <2>4. Kept(f) /\ f.session = t.session
        BY <2>2, <2>3, <2>6, ResumeFlagKeeps
  <2>5. Good(f)
        BY <1>2, <2>4 DEF Good, Owed, Running
  <2> QED BY <1>8, <2>5, Returning
<1>9. CASE /\ cam' = f /\ Returns
           /\ Good(o.cam) /\ ~o.cam.resume /\ o.cam.session \in {"Idle", "Restoring"}
  <2>4. PICK b \in BOOLEAN : ~b
        OBVIOUS
  <2>1. f = [o.cam EXCEPT !.resume = b]
        BY <1>9, <2>4
  <2> HIDE DEF f
  <2>2. Held(o.cam)
        BY <1>9, KeptIsHeld DEF Good
  <2>3. Kept(f) /\ f.session = o.cam.session /\ f.reset = o.cam.reset
        BY <2>1, <2>2, <2>4, ResumeFlagKeeps
  <2> QED BY <1>9, <2>3, Returning DEF Good, Owed
<1> QED BY <1>3, <1>4, <1>5, <1>6, <1>7, <1>8, <1>9

\* The main-update entry point keeps the invariant.
LEMMA MainUpdateStep ==
    ASSUME IInv, NEW e, MainUpdate(e)
    PROVE  IInv'
<1>1. CASE TickBegin(e)
      BY <1>1, TickBeginStep
<1>2. ASSUME NEW type \in EventTypes, NEW k \in Keys, NEW player \in BOOLEAN,
             HandleSceneEvent(type, k, player, e)
      PROVE  IInv'
      BY <1>2, HandleSceneEventStep
<1>3. ASSUME NEW reply \in BOOLEAN, NEW outdated \in BOOLEAN,
             NEW controls \in ControlStates, TickEnd(reply, outdated, controls, e)
      PROVE  IInv'
      BY <1>3, TickEndStep
<1> QED BY <1>1, <1>2, <1>3 DEF MainUpdate

\* Each stage of Update keeps the invariant.
LEMMA CameraStageStep ==
    ASSUME IInv, NEW e, CameraStage(e)
    PROVE  IInv'
<1>1. ASSUME NEW locked \in BOOLEAN, UpdateUnlock(e, locked)
      PROVE  IInv'
      BY <1>1, UpdateUnlockStep
<1>2. ASSUME NEW mode \in DebugModes, NEW preview \in BOOLEAN,
             UpdateDebug(mode, preview, e)
      PROVE  IInv'
      BY <1>2, UpdateDebugStep, ConstantsAssumption DEF ConstantsAssumption
<1>3. ASSUME NEW sampled \in BOOLEAN, NEW expired \in BOOLEAN,
             NEW measured \in BOOLEAN, NEW due \in BOOLEAN,
             UpdateAnchor(sampled, expired, measured, due, e)
      PROVE  IInv'
      BY <1>3, UpdateAnchorStep
<1>4. ASSUME NEW resolves \in BOOLEAN, NEW posing \in Posings,
             UpdateResume(resolves, posing, e)
      PROVE  IInv'
      BY <1>4, UpdateResumeStep
<1>5. ASSUME NEW measured \in BOOLEAN, NEW fresh \in BOOLEAN,
             NEW ended \in BOOLEAN, NEW resolves \in BOOLEAN,
             UpdatePresent(measured, fresh, ended, resolves, e)
      PROVE  IInv'
      BY <1>5, UpdatePresentStep
<1>6. ASSUME NEW resolves \in BOOLEAN, NEW posing \in Posings,
             UpdateShow(resolves, posing, e)
      PROVE  IInv'
      BY <1>6, UpdateShowStep
<1>7. ASSUME NEW stepping \in BOOLEAN, NEW resolves \in BOOLEAN,
             NEW posing \in Posings, UpdateStep(stepping, resolves, posing, e)
      PROVE  IInv'
      BY <1>7, UpdateStepStep
<1> QED BY <1>1, <1>2, <1>3, <1>4, <1>5, <1>6, <1>7 DEF CameraStage

\* Every step keeps the invariant.
LEMMA StepHolds == IInv /\ [Next]_vars => IInv'
<1> SUFFICES ASSUME IInv, [Next]_vars
             PROVE  IInv'
    OBVIOUS
<1>1. ASSUME NEW e \in Environments, MainUpdate(e)
      PROVE  IInv'
      BY <1>1, MainUpdateStep
<1>2. ASSUME NEW e \in Environments, UpdateBegin(e)
      PROVE  IInv'
      BY <1>2, UpdateBeginStep
<1>3. ASSUME NEW e \in Environments, CameraStage(e)
      PROVE  IInv'
      BY <1>3, CameraStageStep
<1>4. ASSUME NEW e \in Environments, UpdateFails(e)
      PROVE  IInv'
      BY <1>4, UpdateFailsStep
<1>5. CASE RequestReset
      BY <1>5, RequestResetStep
<1>6. CASE TimePasses
      BY <1>6, TimePassesStep
<1>7. CASE CameraChangesHands
      BY <1>7, OwnerStep DEF CameraChangesHands
<1>8. CASE TargetLockIsFreed
      BY <1>8, TargetLockIsFreedStep
<1>9. CASE UNCHANGED vars
      BY <1>9 DEF vars, IInv, StagesAreGuarded, Stages, Good, Owed, Kept,
                  Clean, Recorded, Debugged, Keyed, Posed
<1> QED BY <1>1, <1>2, <1>3, <1>4, <1>5, <1>6, <1>7, <1>8, <1>9 DEF Next

\* The inductive invariant holds in every reachable state.
THEOREM Inductive == Spec => []IInv
<1>1. Init => IInv
      BY InitHolds
<1>2. IInv /\ [Next]_vars => IInv'
      BY StepHolds
<1> QED BY <1>1, <1>2, PTL DEF Spec

\* Every field of the record stays in its type, for every set of scene keys
\* and every setting of the time limits.
THEOREM TypeIsCorrect == Spec => []TypeOK
<1>1. IInv => TypeOK
      BY DEF IInv, Good, Kept, TypeOK
<1> QED BY <1>1, Inductive, PTL

\* A scene being given back always has a reset requested: ReleaseCamera,
\* Restore and EmergencyReset never leave it with nobody to try again.
THEOREM AnythingGivenBackIsOwed == Spec => []RestoreIsOwed
<1>1. IInv => RestoreIsOwed
      BY DEF IInv, Good, Owed, RestoreIsOwed
<1> QED BY <1>1, Inductive, PTL

\* Outside a running or ending scene nothing of the player's is held, whatever
\* the foreign APIs answered and whoever took the camera meanwhile.
THEOREM NothingIsHeldWhenIdle == Spec => []IdleIsClean
<1>1. IInv => IdleIsClean
      BY DEF IInv, Good, Kept, Clean, IdleIsClean
<1> QED BY <1>1, Inductive, PTL

\* A camera or target lock granted to the plugin is on its record until it is
\* back, through every failed release, exception and reset.
THEOREM NoGrantIsForgotten == Spec => []GrantsAreRecorded
<1>1. IInv => GrantsAreRecorded
      BY DEF IInv, Good, Kept, Recorded, GrantsAreRecorded
<1> QED BY <1>1, Inductive, PTL

\* Observed debug mode leaves SmoothCam in control, and the unsigned counter
\* of resume attempts is decremented only when positive.
THEOREM DebugLeavesTheCamera == Spec => []DebugHoldsNothing
<1>1. IInv => DebugHoldsNothing
      BY DEF IInv, Good, Kept, Debugged, DebugHoldsNothing
<1> QED BY <1>1, Inductive, PTL

\* A pose is maintained only with the camera recorded as owned.
THEOREM NoPoseWithoutOwnership == Spec => []PoseIsOwned
<1>1. IInv => PoseIsOwned
      BY DEF IInv, Good, Kept, Posed, PoseIsOwned
<1> QED BY <1>1, Inductive, PTL

\* What a stage of Update tested still holds at the later stages that rely on
\* it, with resets requested from other threads in between.
THEOREM WhatUpdateTestedStaysTrue == Spec => []StagesAreGuarded
<1>1. IInv => StagesAreGuarded
      BY DEF IInv
<1> QED BY <1>1, Inductive, PTL

=============================================================================
