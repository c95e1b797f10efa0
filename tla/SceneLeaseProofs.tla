---------------------------- MODULE SceneLeaseProofs ----------------------------
(****************************************************************************)
(* What one step of the scene procedure may do with SmoothCam's camera.     *)
(* SceneCameraProofs shows what is true between two steps; this module      *)
(* shows what a step may change: when the camera is taken, when a requested *)
(* reset is consumed, that every step is one of the abstract lease of       *)
(* SceneLease or leaves it as it is, and that the camera comes back in the  *)
(* end.                                                                     *)
(*                                                                          *)
(* All operations fall into two classes: those that only give back          *)
(* (GivesBack) and the three stages that apply a pose (Takes).              *)
(****************************************************************************)
EXTENDS SceneCameraProofs

\* A record that has nothing of the player's and owes nothing.
Bare(d) == /\ d.session # "Restoring"
           /\ ~d.owns /\ d.owner # "SSC" /\ ~d.pose
           /\ ~d.disables /\ d.lockOwner # "SSC"

\* The lease is not taken: the same scene goes on or ends, or it is over.
Eases(c, d) ==
    \/ /\ d.key = c.key
       /\ d.owner = "SSC" => c.owner = "SSC"
       /\ c.session = "Restoring" => d.session = "Restoring"
    \/ d.owner # "SSC" /\ d.session # "Restoring"

\* A requested reset stays requested until nothing is left to give back.
Honours(c, d) == c.reset => d.reset \/ Bare(d)

\* What a step does that applies no pose.
GivesBack(c, d) == (d.owns => c.owns) /\ Eases(c, d) /\ Honours(c, d)

\* What a stage does that applies one, to a record with an anchor.
Takes(c, d) == c.anchor /\ d.key = c.key /\ Honours(c, d)

\* Two records agree on the lease and the reset.
Same(c, d) ==
    /\ d.key = c.key /\ d.session = c.session /\ d.reset = c.reset
    /\ d.owns = c.owns /\ d.owner = c.owner

\* They also agree on everything that a reset asks to be given back.
Echo(c, d) ==
    /\ Same(c, d) /\ d.pose = c.pose
    /\ d.disables = c.disables /\ d.lockOwner = c.lockOwner

-----------------------------------------------------------------------------
(* How the classes combine.                                                 *)

\* A record outside any scene is bare.
LEMMA IdleIsBare ==
    ASSUME NEW c, Kept(c), c.session \in {"Idle", "Preparing"}
    PROVE  Bare(c)
BY DEF Kept, Clean, Bare

\* Whatever was there before, a bare record is one that gave it back.
LEMMA BareGivesBack ==
    ASSUME NEW c, NEW d, Bare(d)
    PROVE  GivesBack(c, d)
BY DEF Bare, GivesBack, Eases, Honours

\* A change of other fields gives back, trivially.
LEMMA SameGivesBack ==
    ASSUME NEW c, NEW d, Same(c, d)
    PROVE  GivesBack(c, d)
BY DEF Same, GivesBack, Eases, Honours

\* Giving back after a change of other fields.
LEMMA SameThen ==
    ASSUME NEW c, NEW b, NEW d, Same(c, b), GivesBack(b, d)
    PROVE  GivesBack(c, d)
BY DEF Same, GivesBack, Eases, Honours

\* Giving back, or taking, before a change of other fields.
LEMMA ThenEcho ==
    ASSUME NEW c, NEW b, NEW d, Echo(b, d)
    PROVE  /\ GivesBack(c, b) => GivesBack(c, d)
           /\ Takes(c, b) => Takes(c, d)
BY DEF Echo, Same, GivesBack, Takes, Eases, Honours, Bare

-----------------------------------------------------------------------------
(* The operations that give back.                                           *)

\* ReleaseCamera never drops a reset: released, discarded or refused.
LEMMA ReleaseGivesBack ==
    ASSUME NEW c, Kept(c), NEW e, NEW x \in {c, AsksForReset(c)}, NEW r,
           r = IF CanRelease(c, e) THEN Released(c)
               ELSE IF FoundLost(c, e) THEN Discarded(c) ELSE x
    PROVE  GivesBack(c, r) /\ (c.reset => r.reset)
<1>1. c \in Camera
      BY DEF Kept
<1>2. CASE r = Released(c)
  <2>1. /\ r.session = c.session /\ r.key = c.key /\ r.reset = c.reset
        /\ ~r.owns /\ r.owner = IF c.owns THEN "none" ELSE c.owner
        BY <1>1, <1>2, ReleasedFacts
  <2> QED BY <2>1 DEF GivesBack, Eases, Honours
<1>3. CASE r = Discarded(c)
  <2>1. /\ r.session = IF c.session = "Idle" THEN "Idle" ELSE "Restoring"
        /\ r.key = c.key /\ r.reset /\ ~r.owns /\ r.owner = c.owner
        BY <1>1, <1>3, LostFacts
  <2> QED BY <2>1 DEF GivesBack, Eases, Honours
<1>4. CASE r = AsksForReset(c)
  <2>1. /\ r.reset /\ r.session = c.session /\ r.key = c.key
        /\ r.owns = c.owns /\ r.owner = c.owner
        BY <1>1, <1>4, AsksForResetFacts
  <2> QED BY <2>1 DEF GivesBack, Eases, Honours
<1>5. CASE r = c
      BY <1>5 DEF GivesBack, Eases, Honours
<1> QED BY <1>2, <1>3, <1>4, <1>5

\* Restore leaves a reset requested or nothing to give back, whatever was
\* requested before it.
LEMMA RestoreGivesBack ==
    ASSUME NEW c, Held(c), NEW e, NEW r, r = Restore(c, e)
    PROVE  /\ GivesBack(c, r) /\ (r.reset \/ Bare(r))
           /\ Bare(r) \/ r.key = c.key
<1> DEFINE s == StopSceneWork(c)
           u == CancelTargetUnlock(s, e)
           q == ReleaseCamera(u, e, TRUE)
<1>a. /\ s = StopSceneWork(c) /\ u = CancelTargetUnlock(s, e)
      /\ q = IF CanRelease(u, e) THEN Released(u)
            ELSE IF FoundLost(u, e) THEN Discarded(u) ELSE AsksForReset(u)
      BY DEF ReleaseCamera
<1>b. r = IF ~CanCancelUnlock(s, e) THEN AsksForReset(s)
          ELSE IF CanRelease(u, e) THEN Clear(q) ELSE q
      BY DEF Restore
<1> HIDE DEF s, u, q
<1>1. /\ Kept(r) /\ (r.session = "Restoring" => r.reset)
      /\ r.session \in {"Idle", "Restoring"}
      BY RestoreHeldKeeps
<1>2. r.reset \/ Bare(r)
      BY <1>1, IdleIsBare
<1>3. CASE r.session = "Idle"
  <2>1. Bare(r)
        BY <1>1, <1>3, IdleIsBare
  <2> QED BY <1>2, <2>1, BareGivesBack
<1>4. CASE r.session = "Restoring"
  <2>1. c \in Camera
        BY DEF Held
  <2>2. /\ Kept(s) /\ s.key = c.key /\ s.owns = c.owns /\ s.owner = c.owner
        BY <1>a, <2>1, StopSceneWorkKeeps, StopSceneWorkFacts
  <2>3. /\ Kept(u) /\ u.key = c.key /\ u.owns = c.owns /\ u.owner = c.owner
        BY <1>a, <2>2, CancelKeeps
  <2>4. CASE r = AsksForReset(s)
    <3>1. s \in Camera
          BY <2>2 DEF Kept
    <3>2. r.key = s.key /\ r.owns = s.owns /\ r.owner = s.owner
          BY <2>4, <3>1, AsksForResetFacts
    <3> QED BY <1>1, <1>2, <1>4, <2>2, <3>2 DEF GivesBack, Eases, Honours
  <2>5. CASE r = Clear(q) /\ CanRelease(u, e)
    <3>1. Kept(q)
          BY <1>a, <2>3, ReleaseKeeps
    <3>2. r.session = "Idle"
          BY <2>5, <3>1, ClearFacts DEF Kept
    <3> QED BY <1>4, <3>2
  <2>6. CASE r = q /\ ~CanRelease(u, e)
    <3>1. u \in Camera
          BY <2>3 DEF Kept
    <3>2. CASE q = Discarded(u)
      <4>1. r.key = u.key /\ ~r.owns /\ r.owner = u.owner
            BY <2>6, <3>1, <3>2, LostFacts
      <4> QED BY <1>1, <1>2, <1>4, <2>3, <4>1 DEF GivesBack, Eases, Honours
    <3>3. CASE q = AsksForReset(u)
      <4>1. r.key = u.key /\ r.owns = u.owns /\ r.owner = u.owner
            BY <2>6, <3>1, <3>3, AsksForResetFacts
      <4> QED BY <1>1, <1>2, <1>4, <2>3, <4>1 DEF GivesBack, Eases, Honours
    <3> QED BY <1>a, <2>6, <3>2, <3>3
  <2> QED BY <1>b, <2>4, <2>5, <2>6
<1> QED BY <1>1, <1>3, <1>4

\* A pending reset is consumed by a Restore.
LEMMA ProcessPendingResetGivesBack ==
    ASSUME NEW c, Good(c), NEW e, NEW r, r = ProcessPendingReset(c, e)
    PROVE  /\ GivesBack(c, r)
           /\ ~c.reset => r = c
           /\ c.reset => r.session \in {"Idle", "Restoring"}
<1> DEFINE z == [c EXCEPT !.reset = FALSE]
<1>1. c \in Camera
      BY DEF Good, Kept
<1>2. CASE ~c.reset
  <2>1. r = c
        BY <1>2 DEF ProcessPendingReset
  <2> QED BY <1>2, <2>1, SameGivesBack DEF Same
<1>3. CASE c.reset
  <2>1. z \in Camera
        BY <1>1 DEF Camera
  <2>2. Alike(c, z)
    <3>1. /\ z.session = c.session /\ z.key = c.key /\ z.suspended = c.suspended
          /\ z.eval = c.eval /\ z.anchor = c.anchor /\ z.pose = c.pose
          /\ z.debugSeen = c.debugSeen /\ z.resume = c.resume
          BY <1>1 DEF Camera
    <3>2. /\ z.attempts = c.attempts /\ z.unlockQueued = c.unlockQueued
          /\ z.unlockPending = c.unlockPending
          /\ z.disables = c.disables /\ z.lockOwner = c.lockOwner
          /\ z.owns = c.owns /\ z.owner = c.owner
          BY <1>1 DEF Camera
    <3> QED BY <3>1, <3>2 DEF Alike
  <2>3. r = Restore(z, e)
        BY <1>3 DEF ProcessPendingReset
  <2> HIDE DEF z
  <2>4. Held(z)
        BY <2>1, <2>2, AlikeKeeps, KeptIsHeld DEF Good
  <2>5. /\ GivesBack(z, r) /\ (r.reset \/ Bare(r))
        /\ r.session \in {"Idle", "Restoring"}
        BY <2>3, <2>4, RestoreGivesBack, RestoreHeldKeeps
  <2> QED BY <1>3, <2>2, <2>5 DEF Alike, GivesBack, Eases, Honours
<1> QED BY <1>2, <1>3

\* EmergencyReset drops the reset only with the scene cleared.
LEMMA EmergencyResetGivesBack ==
    ASSUME NEW c, Kept(c), NEW e, NEW r, r = EmergencyReset(c, e)
    PROVE  GivesBack(c, r)
<1> DEFINE s == StopSceneWork(c)
           u == CancelTargetUnlock(s, e)
<1>1. /\ Good(r) /\ r.session \in {"Idle", "Restoring"}
      BY EmergencyResetKeeps
<1>2. CASE r.session = "Idle"
      BY <1>1, <1>2, IdleIsBare, BareGivesBack DEF Good
<1>3. CASE r.session = "Restoring"
  <2>1. c \in Camera
        BY DEF Kept
  <2>2. /\ Kept(s) /\ s.key = c.key /\ s.owns = c.owns /\ s.owner = c.owner
        BY <2>1, KeptIsHeld, StopSceneWorkKeeps, StopSceneWorkFacts
  <2> HIDE DEF s
  <2>3. /\ Kept(u) /\ u.key = c.key /\ u.owns = c.owns /\ u.owner = c.owner
        BY <2>2, CancelKeeps
  <2>4. CASE r = AsksForReset(u)
    <3> HIDE DEF u
    <3>1. u \in Camera
          BY <2>3 DEF Kept
    <3>2. r.reset /\ r.key = u.key /\ r.owns = u.owns /\ r.owner = u.owner
          BY <2>4, <3>1, AsksForResetFacts
    <3> QED BY <1>3, <2>3, <3>2 DEF GivesBack, Eases, Honours
  <2>5. CASE r = [Clear(u) EXCEPT !.reset = FALSE, !.owns = FALSE,
                                  !.owner = IF @ = "SSC" THEN "none" ELSE @]
    <3> HIDE DEF u
    <3>1. Clear(u) \in Camera /\ Clear(u).session = "Idle"
          BY <2>3, ClearFacts DEF Kept
    <3>2. r.session = "Idle"
          BY <2>5, <3>1 DEF Camera
    <3> QED BY <1>3, <3>2
  <2> QED BY <2>4, <2>5 DEF EmergencyReset, s
<1> QED BY <1>1, <1>2, <1>3

-----------------------------------------------------------------------------
(* Scene notices and the tail of a main update.                             *)

\* The coordinator's target is none of the lease's business.
LEMMA ObserveEchoes ==
    ASSUME NEW c, Good(c), NEW type, NEW k, NEW player,
           NEW r, r = Observe(c, type, k, player)
    PROVE  Echo(c, r)
<1> DEFINE w == [c EXCEPT !.target = k, !.metadata = "waiting", !.noticeAge = 0]
<1>1. c \in Camera
      BY DEF Good, Kept
<1>2. r = c \/ r = ClearTarget(c) \/ r = w
      BY DEF Observe
<1>3. Echo(c, c)
      BY DEF Echo, Same
<1>4. Echo(c, ClearTarget(c))
      BY <1>1 DEF Camera, ClearTarget, Echo, Same
<1>5. Echo(c, w)
      BY <1>1 DEF Camera, Echo, Same
<1> QED BY <1>2, <1>3, <1>4, <1>5

\* A scene is prepared only where nothing is held.
LEMMA PrepareGivesBack ==
    ASSUME NEW c, Good(c), NEW k \in Keys, NEW player \in BOOLEAN,
           NEW p, p = Prepare(c, k, player)
    PROVE  GivesBack(c, p) /\ (c.session = "Idle" => Bare(p))
<1>1. Good(p) /\ c \in Camera
      BY PrepareKeeps DEF Good, Kept
<1>2. CASE p = c
      BY <1>1, <1>2, IdleIsBare, SameGivesBack DEF Good, Same
<1>3. CASE p = [c EXCEPT !.session = "Preparing", !.key = k]
  <2>1. p.session = "Preparing"
        BY <1>1, <1>3 DEF Camera
  <2> QED BY <1>1, <2>1, IdleIsBare, BareGivesBack DEF Good
<1> QED BY <1>2, <1>3 DEF Prepare

\* A scene becomes active holding nothing yet.
LEMMA OnAnimationStartGivesBack ==
    ASSUME NEW c, Good(c), NEW k \in Keys, NEW player \in BOOLEAN,
           NEW r, r = OnAnimationStart(c, k, player)
    PROVE  GivesBack(c, r) /\ (c.session = "Idle" => Bare(r))
<1> DEFINE p == Prepare(c, k, player)
           w == [p EXCEPT !.session = "Active", !.eval = TRUE, !.sceneAge = 0,
                          !.unlockQueued = HasTDM]
<1>1. /\ Good(p) /\ GivesBack(c, p) /\ (c.session = "Idle" => Bare(p))
      BY PrepareKeeps, PrepareGivesBack
<1>2. r = p \/ (p.session = "Preparing" /\ (r = Clear(p) \/ r = w))
      BY DEF OnAnimationStart
<1>3. Good(r)
      BY OnAnimationStartKeeps
<1> HIDE DEF p
<1>4. p \in Camera
      BY <1>1 DEF Good, Kept
<1>5. CASE r = Clear(p)
  <2>1. r.session = "Idle"
        BY <1>4, <1>5, ClearFacts
  <2> QED BY <1>3, <2>1, IdleIsBare, BareGivesBack DEF Good
<1>6. CASE p.session = "Preparing" /\ r = w
  <2>1. Bare(p)
        BY <1>1, <1>6, IdleIsBare DEF Good
  <2>2. /\ w.session = "Active" /\ w.owns = p.owns /\ w.owner = p.owner
        /\ w.pose = p.pose
        /\ w.disables = p.disables /\ w.lockOwner = p.lockOwner
        BY <1>4 DEF Camera
  <2>3. Bare(r)
        BY <1>6, <2>1, <2>2 DEF Bare
  <2> QED BY <2>3, BareGivesBack
<1> QED BY <1>1, <1>2, <1>5, <1>6

\* What a notice does once no reset is pending, of an idle scene in particular.
LEMMA NoticeGivesBack ==
    ASSUME NEW c, Good(c), NEW type, NEW k \in Keys, NEW player \in BOOLEAN, NEW e,
           NEW r, \/ r = Prepare(c, k, player)
                  \/ r = OnAnimationStart(c, k, player)
                  \/ r = OnAnimationEnd(c, k, e)
                  \/ r = OnActiveNotice(c, k, type)
    PROVE  GivesBack(c, r) /\ (c.session = "Idle" => Bare(r))
<1>1. c \in Camera /\ Kept(c)
      BY DEF Good, Kept
<1>2. GivesBack(c, c) /\ (c.session = "Idle" => Bare(c))
      BY <1>1, IdleIsBare, SameGivesBack DEF Same
<1>3. CASE r = Prepare(c, k, player)
      BY <1>3, PrepareGivesBack
<1>4. CASE r = OnAnimationStart(c, k, player)
      BY <1>4, OnAnimationStartGivesBack
<1>5. CASE r = OnAnimationEnd(c, k, e)
  <2>1. r = c \/ (c.key = k /\ r = Restore(c, e))
        BY <1>5 DEF OnAnimationEnd
  <2>2. c.key = k => c.session # "Idle"
        BY <1>1, ConstantsAssumption DEF Kept, Keyed, ConstantsAssumption
  <2>3. r = Restore(c, e) => GivesBack(c, r)
        BY <1>1, KeptIsHeld, RestoreGivesBack
  <2> QED BY <1>2, <2>1, <2>2, <2>3
<1>6. CASE r = OnActiveNotice(c, k, type)
  <2>1. r = c \/ (c.session = "Active" /\ r = [c EXCEPT !.eval = TRUE])
        BY <1>6 DEF OnActiveNotice
  <2>2. CASE c.session = "Active" /\ r = [c EXCEPT !.eval = TRUE]
    <3>1. Same(c, r)
          BY <1>1, <2>2 DEF Camera, Same
    <3> QED BY <2>2, <3>1, SameGivesBack
  <2> QED BY <1>2, <2>1, <2>2
<1> QED BY <1>3, <1>4, <1>5, <1>6

\* A handled notice: where a reset was consumed, the notice finds an idle scene.
LEMMA HandleGivesBack ==
    ASSUME NEW c, Good(c), NEW type, NEW k \in Keys, NEW player \in BOOLEAN, NEW e,
           NEW r, r = Handle(c, type, k, player, e)
    PROVE  GivesBack(c, r)
<1> DEFINE o == Observe(c, type, k, player)
           p == ProcessPendingReset(o, e)
<1>1. Good(o) /\ Same(c, o)
      BY ObserveKeeps, ObserveEchoes DEF Echo
<1>2. /\ Good(p) /\ GivesBack(o, p)
      /\ ~o.reset => p = o
      /\ o.reset => p.session \in {"Idle", "Restoring"}
      BY <1>1, ProcessPendingResetKeeps, ProcessPendingResetGivesBack
<1>3. \/ r = p
      \/ /\ p.session # "Restoring"
         /\ \/ r = Prepare(p, k, player)
            \/ r = OnAnimationStart(p, k, player)
            \/ r = OnAnimationEnd(p, k, e)
            \/ r = OnActiveNotice(p, k, type)
      BY DEF Handle, Proceeds
<1> HIDE DEF o, p
<1>4. CASE r = p
      BY <1>1, <1>2, <1>4, SameThen
<1>5. CASE /\ p.session # "Restoring"
           /\ \/ r = Prepare(p, k, player)
              \/ r = OnAnimationStart(p, k, player)
              \/ r = OnAnimationEnd(p, k, e)
              \/ r = OnActiveNotice(p, k, type)
  <2>1. GivesBack(p, r) /\ (p.session = "Idle" => Bare(r))
        BY <1>2, <1>5, NoticeGivesBack
  <2>2. CASE o.reset
        BY <1>2, <1>5, <2>1, <2>2, BareGivesBack
  <2>3. CASE ~o.reset
        BY <1>1, <1>2, <2>1, <2>3, SameThen
  <2> QED BY <2>2, <2>3
<1> QED BY <1>3, <1>4, <1>5

\* Both attempts of a suspended scene give back.
LEMMA WhileSuspendedGivesBack ==
    ASSUME NEW c, Good(c), ~c.reset, NEW controls, NEW e,
           NEW r, r = WhileSuspended(c, controls, e)
    PROVE  GivesBack(c, r)
<1> DEFINE u == CancelTargetUnlock(c, e)
           q == ReleaseCamera(u, e, FALSE)
<1>a. /\ u = CancelTargetUnlock(c, e)
      /\ q = IF CanRelease(u, e) THEN Released(u)
            ELSE IF FoundLost(u, e) THEN Discarded(u) ELSE u
      BY DEF ReleaseCamera
<1>b. \/ r = Restore(c, e)
      \/ r = ResumeAfterMovement(q)
      \/ r = q
      BY DEF WhileSuspended
<1> HIDE DEF u, q
<1>1. Kept(u) /\ Same(c, u)
      BY <1>a, CancelKeeps DEF Good, Same
<1>2. Kept(q) /\ GivesBack(u, q)
      BY <1>a, <1>1, ReleaseKeeps, ReleaseGivesBack
<1>3. GivesBack(c, q)
      BY <1>1, <1>2, SameThen
<1>4. CASE r = Restore(c, e)
      BY <1>4, KeptIsHeld, RestoreGivesBack DEF Good
<1>5. CASE r = ResumeAfterMovement(q)
  <2>1. Echo(q, r)
        BY <1>2, <1>5 DEF Kept, Camera, ResumeAfterMovement, Echo, Same
  <2> QED BY <1>3, <2>1, ThenEcho
<1> QED BY <1>b, <1>3, <1>4, <1>5

\* The tail of a main update gives back only, and only with no reset pending.
LEMMA ProcessMainUpdateGivesBack ==
    ASSUME NEW c, Good(c), NEW reply \in BOOLEAN, NEW outdated \in BOOLEAN,
           NEW controls, NEW e,
           NEW r, r = ProcessMainUpdate(c, reply, outdated, controls, e)
    PROVE  GivesBack(c, r)
<1> DEFINE t == MetadataTick(c, reply)
           stale == t.session = "Active" /\ (outdated \/ t.metadata = "ready")
           m == [t EXCEPT !.eval = @ \/ stale]
           s == IF controls = "moving" /\ ~m.suspended THEN SuspendForMovement(m) ELSE m
<1>1. Good(t) /\ c \in Camera
      BY MetadataTickKeeps DEF Good, Kept
<1>2. Same(c, t)
  <2>1. t = c \/ t = [c EXCEPT !.metadata = "ready"]
        BY DEF MetadataTick
  <2> HIDE DEF t
  <2> QED BY <1>1, <2>1 DEF Camera, Same
<1>3. r = IF m.session # "Active" \/ m.reset THEN m
          ELSE IF s.suspended THEN WhileSuspended(s, controls, e) ELSE s
      BY DEF ProcessMainUpdate
<1> HIDE DEF t
<1>4. t \in Camera
      BY <1>1 DEF Good, Kept
<1>5. PICK b \in BOOLEAN : b = (t.eval \/ stale)
      OBVIOUS
<1>6. m = [t EXCEPT !.eval = b]
      BY <1>5
<1>7. t.session \in {"Idle", "Preparing"} => ~b
      BY <1>1, <1>5 DEF Good, Kept, Clean
<1> HIDE DEF m
<1>8. Good(m) /\ Same(t, m)
  <2>1. Good(m)
        BY <1>1, <1>6, <1>7, EvalKeeps DEF Good, Owed
  <2>2. Same(t, m)
        BY <1>4, <1>6 DEF Camera, Same
  <2> QED BY <2>1, <2>2
<1>9. Same(c, m)
      BY <1>2, <1>8 DEF Same
<1>10. CASE m.session # "Active" \/ m.reset
       BY <1>3, <1>9, <1>10, SameGivesBack
<1>11. CASE m.session = "Active" /\ ~m.reset
  <2>1. Good(s)
        BY <1>8, <1>11, SuspendForMovementKeeps
  <2>2. Same(m, SuspendForMovement(m))
        BY <1>8 DEF Good, Kept, Camera, SuspendForMovement, Same
  <2>3. Same(c, s)
        BY <1>9, <2>2 DEF Same
  <2>4. ~s.reset
        BY <1>9, <1>11, <2>3 DEF Same
  <2> HIDE DEF s
  <2>5. GivesBack(s, WhileSuspended(s, controls, e))
        BY <2>1, <2>4, WhileSuspendedGivesBack
  <2> QED BY <1>3, <1>11, <2>3, <2>5, SameThen, SameGivesBack
<1> QED BY <1>10, <1>11

-----------------------------------------------------------------------------
(* Applying a pose.                                                         *)

\* ApplyTransform takes the camera only with an anchor; a pose that fails at
\* once gives the scene up.
LEMMA ApplyTransformTakes ==
    ASSUME NEW c, Held(c), Running(c), ~c.debugSeen,
           NEW liveEdit, NEW posing, NEW e,
           NEW o, o = ApplyTransform(c, liveEdit, posing, e)
    PROVE  GivesBack(c, o.cam) \/ Takes(c, o.cam)
<1> DEFINE a == Acquired(c)
<1>1. c \in Camera
      BY DEF Held
<1>2. Held(a) /\ a.key = c.key /\ a.reset = c.reset
      BY <1>1, AcquiredHolds, AcquiredFacts
<1>3. \/ o.cam = c
      \/ o.cam = Restore(c, e)
      \/ c.anchor /\ o.cam = Restore(a, e)
      \/ c.anchor /\ o.cam = Acquires(c)
      BY DEF ApplyTransform, Acquires, Outcome
<1> HIDE DEF a
<1>4. CASE o.cam = c
      BY <1>4, SameGivesBack DEF Same
<1>5. CASE o.cam = Restore(c, e)
      BY <1>5, RestoreGivesBack
<1>6. CASE c.anchor /\ o.cam = Restore(a, e)
  <2>1. /\ o.cam.reset \/ Bare(o.cam)
        /\ Bare(o.cam) \/ o.cam.key = a.key
        BY <1>2, <1>6, RestoreGivesBack
  <2> QED BY <1>2, <1>6, <2>1, BareGivesBack DEF Takes, Honours
<1>7. CASE c.anchor /\ o.cam = Acquires(c)
  <2>1. o.cam.key = c.key /\ o.cam.reset = c.reset
        BY <1>1, <1>7, AcquiredFacts
  <2> QED BY <1>7, <2>1 DEF Takes, Honours
<1> QED BY <1>3, <1>4, <1>5, <1>6, <1>7

\* The metadata hold keeps the camera from being taken, but for a live edit or
\* a pose that is already shown.
LEMMA ApplyRequestedTransformTakes ==
    ASSUME NEW c, Held(c), Running(c), ~c.debugSeen, ~c.resume \/ ~c.owns,
           NEW liveEdit, NEW resolves, NEW posing, NEW e,
           NEW o, o = ApplyRequestedTransform(c, liveEdit, resolves, posing, e)
    PROVE  \/ GivesBack(c, o.cam)
           \/ Takes(c, o.cam) /\ (Pending(c) => liveEdit \/ c.owns)
<1>1. \/ o.cam = c
      \/ o = ApplyTransform(c, liveEdit, posing, e) /\ (Pending(c) => liveEdit \/ c.pose)
      \/ c.owns /\ o.cam = ReleaseCamera(c, e, TRUE)
      BY DEF ApplyRequestedTransform, Outcome
<1>2. c.pose => c.owns
      BY DEF Held, Posed, Running
<1>3. CASE o.cam = c
      BY <1>3, SameGivesBack DEF Same
<1>4. CASE o = ApplyTransform(c, liveEdit, posing, e) /\ (Pending(c) => liveEdit \/ c.pose)
      BY <1>2, <1>4, ApplyTransformTakes
<1>5. CASE c.owns /\ o.cam = ReleaseCamera(c, e, TRUE)
  <2> DEFINE r == ReleaseCamera(c, e, TRUE)
  <2>1. r = IF CanRelease(c, e) THEN Released(c)
            ELSE IF FoundLost(c, e) THEN Discarded(c) ELSE AsksForReset(c)
        BY DEF ReleaseCamera
  <2>2. Kept(c)
        BY <1>5 DEF Held, Kept, Debugged
  <2> HIDE DEF r
  <2>3. GivesBack(c, r)
        BY <2>1, <2>2, ReleaseGivesBack
  <2> QED BY <1>5, <2>3 DEF r
<1> QED BY <1>1, <1>3, <1>4, <1>5

-----------------------------------------------------------------------------
(* Every action gives back, or takes where Update allows it.                *)

\* The two classes, with what Update has tested before it takes.
GivesOrTakes ==
    \/ GivesBack(cam, cam')
    \/ /\ Takes(cam, cam') /\ Running(cam) /\ ~cam.debugSeen
       /\ Pending(cam) => live \/ cam.owns

\* The queued unlock leaves the lease alone.
LEMMA UpdateUnlockGivesBack ==
    ASSUME IInv, NEW e, NEW locked, UpdateUnlock(e, locked)
    PROVE  GivesBack(cam, cam')
<1> DEFINE c == [cam EXCEPT !.unlockQueued = FALSE]
           asked == [c EXCEPT !.unlockPending = TRUE, !.unlockAge = 0,
                              !.disables = TRUE,
                              !.lockOwner = IF c.disables THEN @ ELSE "SSC"]
<1>1. cam \in Camera
      BY DEF IInv, Good, Kept
<1>2. cam' = asked \/ cam' = c \/ cam' = FinishUnlock(c)
      BY DEF UpdateUnlock
<1>3. c \in Camera /\ Same(cam, c)
      BY <1>1 DEF Camera, Same
<1>4. Same(c, asked)
      BY <1>3 DEF Camera, Same
<1> HIDE DEF c, asked
<1>5. Same(c, FinishUnlock(c))
      BY <1>3, FinishUnlockFacts DEF Same
<1> QED BY <1>2, <1>3, <1>4, <1>5, SameGivesBack, SameThen

\* A change of debug mode gives the camera back and keeps a requested reset.
LEMMA UpdateDebugGivesBack ==
    ASSUME IInv, NEW mode \in BOOLEAN, NEW preview, NEW e,
           UpdateDebug(mode, preview, e)
    PROVE  GivesBack(cam, cam')
<1> DEFINE s == [cam EXCEPT !.resume = FALSE, !.eval = @ \/ cam.session = "Active"]
           q == ReleaseCamera(s, e, FALSE)
           d == [q EXCEPT !.debugSeen = CanRelease(s, e)]
           h == [s EXCEPT !.debugSeen = FALSE,
                          !.resume = cam.session = "Active",
                          !.attempts = IF cam.session = "Active" THEN DebugAttempts ELSE @]
<1>1. Good(cam) /\ cam \in Camera
      BY DEF IInv, Good, Kept
<1>2. cam' = cam \/ cam' = d \/ cam' = h
      BY DEF UpdateDebug, ChangeDebugMode
<1>3. s \in Camera /\ Same(cam, s) /\ ~s.resume
      BY <1>1 DEF Camera, Same
<1>4. /\ s.suspended = cam.suspended /\ s.anchor = cam.anchor
      /\ s.pose = cam.pose /\ s.debugSeen = cam.debugSeen
      /\ s.eval = (cam.eval \/ cam.session = "Active")
      BY <1>1 DEF Camera
<1>5. /\ s.disables = cam.disables /\ s.lockOwner = cam.lockOwner
      /\ s.unlockPending = cam.unlockPending /\ s.unlockQueued = cam.unlockQueued
      BY <1>1 DEF Camera
<1>6. Same(s, h)
      BY <1>3 DEF Camera, Same
<1>7. q = IF CanRelease(s, e) THEN Released(s)
          ELSE IF FoundLost(s, e) THEN Discarded(s) ELSE s
      BY DEF ReleaseCamera
<1> HIDE DEF s, h
<1>8. Kept(s)
      BY <1>1, <1>3, <1>4, <1>5
         DEF Good, Kept, Same, Clean, Recorded, Debugged, Keyed, Posed
<1> HIDE DEF q
<1>9. Kept(q) /\ GivesBack(s, q)
      BY <1>7, <1>8, ReleaseKeeps, ReleaseGivesBack
<1>10. Echo(q, d)
       BY <1>9 DEF Kept, Camera, Echo, Same
<1> HIDE DEF d
<1>11. GivesBack(s, d)
       BY <1>9, <1>10, ThenEcho
<1>12. CASE cam' = cam
       BY <1>12, SameGivesBack DEF Same
<1>13. CASE cam' = d
       BY <1>3, <1>11, <1>13, SameThen
<1>14. CASE cam' = h
       BY <1>3, <1>6, <1>14, SameThen, SameGivesBack
<1> QED BY <1>2, <1>12, <1>13, <1>14

\* Expiry, anchor and evaluation leave the lease alone; the watchdog ends it.
LEMMA UpdateAnchorGivesBack ==
    ASSUME IInv, NEW sampled, NEW expired, NEW measured, NEW due, NEW e,
           UpdateAnchor(sampled, expired, measured, due, e)
    PROVE  GivesBack(cam, cam')
<1> DEFINE w == [cam EXCEPT !.resume = FALSE, !.eval = @ /\ live]
           c == IF cam.resume /\ (live \/ expired) THEN w ELSE cam
           refreshed == c.session = "Active" /\ (c.anchor \/ c.eval) /\ sampled
           a == [c EXCEPT !.anchor = @ \/ refreshed]
           v == [a EXCEPT !.eval = FALSE, !.metadata = "committed"]
<1>1. /\ Good(cam) /\ Running(cam) /\ cam \in Camera
      BY DEF IInv, StagesAreGuarded, Stages, UpdateAnchor, Running, Good, Kept
<1>2. w \in Camera /\ ~w.resume /\ Same(cam, w)
      BY <1>1, ZenonT(40) DEF IInv, Camera, Same
<1>3. w.pose = cam.pose /\ w.debugSeen = cam.debugSeen
      BY <1>1 DEF Camera
<1>4. /\ w.disables = cam.disables /\ w.lockOwner = cam.lockOwner
      /\ w.unlockPending = cam.unlockPending
      BY <1>1 DEF Camera
<1>5. \/ cam' = Restore(c, e)
      \/ cam' = v
      \/ cam' = a
      BY DEF UpdateAnchor
<1>6. c = cam \/ c = w
      OBVIOUS
<1> HIDE DEF w, c
<1>7. Held(w)
      BY <1>1, <1>2, <1>3, <1>4
         DEF Good, Kept, Held, Running, Same, Clean, Recorded, Debugged, Keyed, Posed
<1>8. Held(c) /\ Same(cam, c)
      BY <1>1, <1>2, <1>6, <1>7, KeptIsHeld DEF Good, Same
<1>9. c \in Camera
      BY <1>8 DEF Held
<1>10. Same(c, a)
       BY <1>9 DEF Camera, Same
<1>11. a \in Camera
  <2>1. PICK b \in BOOLEAN : b = (c.anchor \/ refreshed)
        OBVIOUS
  <2>2. a = [c EXCEPT !.anchor = b]
        BY <2>1
  <2> HIDE DEF a
  <2> QED BY <1>9, <2>2 DEF Camera
<1> HIDE DEF a
<1>12. Same(a, v)
       BY <1>11 DEF Camera, Same
<1> HIDE DEF v
<1>13. Same(cam, a) /\ Same(cam, v)
       BY <1>8, <1>10, <1>12 DEF Same
<1>14. CASE cam' = Restore(c, e)
  <2>1. GivesBack(c, Restore(c, e))
        BY <1>8, RestoreGivesBack
  <2> QED BY <1>8, <1>14, <2>1, SameThen
<1> QED BY <1>5, <1>13, <1>14, SameGivesBack

\* An unresolved pose is given back; nothing else touches the lease here.
LEMMA UpdatePresentGivesBack ==
    ASSUME IInv, NEW measured, NEW fresh, NEW ended, NEW resolves, NEW e,
           UpdatePresent(measured, fresh, ended, resolves, e)
    PROVE  GivesBack(cam, cam')
<1> DEFINE w == [cam EXCEPT !.metadata = "committed"]
           c == IF measured /\ cam.metadata = "ready" /\ ~live THEN w ELSE cam
           r == ReleaseCamera(c, e, TRUE)
<1>1. Kept(cam) /\ cam \in Camera
      BY DEF IInv, Good, Kept
<1>2. w \in Camera /\ Alike(cam, w) /\ Same(cam, w)
  <2>1. w \in Camera
        BY <1>1, Named DEF Camera
  <2>2. Alike(cam, w)
        BY <1>1 DEF Camera, Alike
  <2>3. Same(cam, w)
        BY <1>1 DEF Camera, Same
  <2> QED BY <2>1, <2>2, <2>3
<1>3. cam' = c \/ cam' = r
      BY DEF UpdatePresent
<1>4. c = cam \/ c = w
      OBVIOUS
<1>5. r = IF CanRelease(c, e) THEN Released(c)
          ELSE IF FoundLost(c, e) THEN Discarded(c) ELSE AsksForReset(c)
      BY DEF ReleaseCamera
<1> HIDE DEF w, c, r
<1>6. Kept(c) /\ Same(cam, c)
      BY <1>1, <1>2, <1>4, AlikeKeeps DEF Same
<1>7. GivesBack(c, r)
      BY <1>5, <1>6, ReleaseGivesBack
<1> QED BY <1>3, <1>6, <1>7, SameThen, SameGivesBack

\* A changed request is shown, with the scene and its hold as Update found them.
LEMMA UpdateShowTakes ==
    ASSUME IInv, NEW resolves, NEW posing, NEW e, UpdateShow(resolves, posing, e)
    PROVE  GivesOrTakes
<1>1. /\ Good(cam) /\ Running(cam) /\ ~cam.debugSeen /\ ~cam.resume
      BY DEF IInv, StagesAreGuarded, Stages, UpdateShow, Running
<1>2. Held(cam)
      BY <1>1, KeptIsHeld DEF Good
<1>3. cam' = ApplyRequestedTransform(cam, live, resolves, posing, e).cam
      BY DEF UpdateShow
<1> QED BY <1>1, <1>2, <1>3, ApplyRequestedTransformTakes DEF GivesOrTakes

\* A step takes the camera for committed metadata only; maintaining gives back.
LEMMA UpdateStepTakes ==
    ASSUME IInv, NEW stepping, NEW resolves, NEW posing, NEW e,
           UpdateStep(stepping, resolves, posing, e)
    PROVE  GivesOrTakes
<1>1. /\ Good(cam) /\ Running(cam) /\ ~cam.debugSeen
      BY DEF IInv, StagesAreGuarded, Stages, UpdateStep, Running
<1>2. Held(cam)
      BY <1>1, KeptIsHeld DEF Good
<1>3. \/ cam' = cam
      \/ cam' = Restore(cam, e)
      \/ ~Pending(cam) /\ cam' = ApplyTransform(cam, FALSE, posing, e).cam
      BY DEF UpdateStep, Maintain, Pending
<1>4. CASE cam' = cam
      BY <1>4, SameGivesBack DEF Same, GivesOrTakes
<1>5. CASE cam' = Restore(cam, e)
      BY <1>2, <1>5, RestoreGivesBack DEF GivesOrTakes
<1>6. CASE ~Pending(cam) /\ cam' = ApplyTransform(cam, FALSE, posing, e).cam
      BY <1>1, <1>2, <1>6, ApplyTransformTakes DEF GivesOrTakes
<1> QED BY <1>3, <1>4, <1>5, <1>6

\* The debug resume takes the camera under the same conditions.
LEMMA UpdateResumeTakes ==
    ASSUME IInv, NEW resolves \in BOOLEAN, NEW posing, NEW e,
           UpdateResume(resolves, posing, e)
    PROVE  GivesOrTakes
<1> DEFINE tried == [cam EXCEPT !.attempts = @ - 1]
           t == IF resolves THEN tried ELSE cam
           o == ApplyRequestedTransform(t, FALSE, resolves, posing, e)
           keeps == o.cam.resume /\ ~(o.cam.session = "Active" /\ o.cam.attempts = 0)
           f == [o.cam EXCEPT !.resume = keeps]
           g == [o.cam EXCEPT !.resume = FALSE]
<1>1. /\ Good(cam) /\ Kept(cam) /\ Running(cam) /\ cam \in Camera
      /\ ~cam.owns /\ ~cam.debugSeen /\ cam.attempts > 0
      BY DEF IInv, StagesAreGuarded, Stages, UpdateResume, Running, Good, Kept, Debugged
<1>2. cam' = f \/ cam' = g
      BY DEF UpdateResume
<1>3. t = cam \/ t = tried
      OBVIOUS
<1>4. /\ Held(t) /\ Running(t) /\ ~t.owns /\ ~t.debugSeen /\ Same(cam, t)
      /\ t.anchor = cam.anchor /\ t.metadata = cam.metadata
  <2>1. cam.attempts - 1 \in Attempts
    <3>1. cam.attempts \in Attempts
          BY <1>1 DEF Camera
    <3> QED BY <1>1, <3>1, ConstantsAssumption DEF Attempts, ConstantsAssumption
  <2>2. tried \in Camera /\ Same(cam, tried)
        BY <1>1, <2>1 DEF Camera, Same
  <2>3. /\ tried.suspended = cam.suspended /\ tried.anchor = cam.anchor
        /\ tried.pose = cam.pose /\ tried.debugSeen = cam.debugSeen
        /\ tried.metadata = cam.metadata /\ tried.eval = cam.eval
        BY <1>1 DEF Camera
  <2>4. /\ tried.disables = cam.disables /\ tried.lockOwner = cam.lockOwner
        /\ tried.unlockPending = cam.unlockPending
        /\ tried.unlockQueued = cam.unlockQueued
        BY <1>1 DEF Camera
  <2> HIDE DEF tried
  <2>5. Held(tried)
        BY <1>1, <2>2, <2>3, <2>4
           DEF Held, Kept, Same, Running, Clean, Recorded, Debugged, Keyed, Posed
  <2> HIDE DEF t
  <2> QED BY <1>1, <1>3, <2>2, <2>3, <2>4, <2>5, KeptIsHeld DEF Running, Same
<1> HIDE DEF t
<1>5. \/ GivesBack(t, o.cam)
      \/ Takes(t, o.cam) /\ ~Pending(t)
      BY <1>4, ApplyRequestedTransformTakes
<1>6. o.cam \in Camera
  <2>1. \/ o.cam = t
        \/ Good(o.cam)
        \/ Held(o.cam)
    <3>1. \/ o.cam = t
          \/ t.owns
          \/ Good(o.cam)
          \/ Held(o.cam)
          BY <1>4, ApplyRequestedTransformOutcome
    <3> QED BY <1>4, <3>1
  <2> QED BY <1>4, <2>1 DEF Held, Good, Kept
<1> HIDE DEF o
<1>7. Echo(o.cam, f) /\ Echo(o.cam, g)
      BY <1>6 DEF Camera, Echo, Same
<1> HIDE DEF f, g
<1>8. \/ GivesBack(t, cam')
      \/ Takes(t, cam') /\ ~Pending(t)
      BY <1>2, <1>5, <1>7, ThenEcho
<1>9. CASE GivesBack(t, cam')
      BY <1>4, <1>9, SameThen DEF GivesOrTakes
<1>10. CASE Takes(t, cam') /\ ~Pending(t)
       BY <1>1, <1>4, <1>10 DEF GivesOrTakes, Takes, Same, Honours, Pending
<1> QED BY <1>8, <1>9, <1>10

\* Other threads, the clock and other mods take no lease for the scene.
LEMMA OutsideGivesBack ==
    ASSUME IInv, RequestReset \/ TimePasses \/ CameraChangesHands \/ TargetLockIsFreed
    PROVE  GivesBack(cam, cam')
<1>1. cam \in Camera
      BY DEF IInv, Good, Kept
<1>2. CASE RequestReset
  <2> DEFINE d == [ClearTarget(cam) EXCEPT !.reset = TRUE]
  <2>1. /\ d.key = cam.key /\ d.session = cam.session /\ d.reset
        /\ d.owns = cam.owns /\ d.owner = cam.owner
        BY <1>1 DEF Camera, ClearTarget
  <2>2. cam' = d
        BY <1>2 DEF RequestReset
  <2> HIDE DEF d
  <2> QED BY <2>1, <2>2 DEF GivesBack, Eases, Honours
<1>3. CASE TimePasses
  <2>1. PICK x, y, z : cam' = [cam EXCEPT !.sceneAge = x, !.noticeAge = y, !.unlockAge = z]
        BY <1>3 DEF TimePasses
  <2>2. Same(cam, cam')
        BY <1>1, <2>1 DEF Camera, Same
  <2> QED BY <2>2, SameGivesBack
<1>4. CASE CameraChangesHands
  <2>1. PICK o \in {"none", "other"} : cam' = [cam EXCEPT !.owner = o]
        BY <1>4 DEF CameraChangesHands
  <2>2. /\ cam'.key = cam.key /\ cam'.session = cam.session /\ cam'.reset = cam.reset
        /\ cam'.owns = cam.owns /\ cam'.owner = o
        BY <1>1, <2>1 DEF Camera
  <2> QED BY <2>2 DEF GivesBack, Eases, Honours
<1>5. CASE TargetLockIsFreed
  <2>1. Same(cam, cam')
        BY <1>1, <1>5 DEF TargetLockIsFreed, Camera, Same
  <2> QED BY <2>1, SameGivesBack
<1> QED BY <1>2, <1>3, <1>4, <1>5

\* Every step is of one of the two classes.
LEMMA StepsGiveOrTake ==
    ASSUME IInv, [Next]_vars
    PROVE  GivesOrTakes
<1>1. Good(cam)
      BY DEF IInv
<1>2. ASSUME NEW e \in Environments, MainUpdate(e) \/ UpdateBegin(e) \/ UpdateFails(e)
      PROVE  GivesBack(cam, cam')
  <2>1. CASE TickBegin(e) \/ UpdateBegin(e)
        BY <1>1, <2>1, ProcessPendingResetGivesBack DEF TickBegin, UpdateBegin
  <2>2. ASSUME NEW type \in EventTypes, NEW k \in Keys, NEW player \in BOOLEAN,
               HandleSceneEvent(type, k, player, e)
        PROVE  GivesBack(cam, cam')
        BY <1>1, <2>2, HandleGivesBack DEF HandleSceneEvent
  <2>3. ASSUME NEW reply \in BOOLEAN, NEW outdated \in BOOLEAN,
               NEW controls \in ControlStates, TickEnd(reply, outdated, controls, e)
        PROVE  GivesBack(cam, cam')
        BY <1>1, <2>3, ProcessMainUpdateGivesBack DEF TickEnd
  <2>4. CASE UpdateFails(e)
        BY <1>1, <2>4, EmergencyResetGivesBack DEF UpdateFails, Good
  <2> QED BY <1>2, <2>1, <2>2, <2>3, <2>4 DEF MainUpdate
<1>3. ASSUME NEW e \in Environments, CameraStage(e)
      PROVE  GivesOrTakes
  <2>1. ASSUME NEW locked \in BOOLEAN, UpdateUnlock(e, locked)
        PROVE  GivesOrTakes
        BY <2>1, UpdateUnlockGivesBack DEF GivesOrTakes
  <2>2. ASSUME NEW mode \in DebugModes, NEW preview \in BOOLEAN,
               UpdateDebug(mode, preview, e)
        PROVE  GivesOrTakes
        BY <2>2, UpdateDebugGivesBack, ConstantsAssumption
           DEF GivesOrTakes, ConstantsAssumption
  <2>3. ASSUME NEW sampled \in BOOLEAN, NEW expired \in BOOLEAN,
               NEW measured \in BOOLEAN, NEW due \in BOOLEAN,
               UpdateAnchor(sampled, expired, measured, due, e)
        PROVE  GivesOrTakes
        BY <2>3, UpdateAnchorGivesBack DEF GivesOrTakes
  <2>4. ASSUME NEW resolves \in BOOLEAN, NEW posing \in Posings,
               UpdateResume(resolves, posing, e)
        PROVE  GivesOrTakes
        BY <2>4, UpdateResumeTakes
  <2>5. ASSUME NEW measured \in BOOLEAN, NEW fresh \in BOOLEAN,
               NEW ended \in BOOLEAN, NEW resolves \in BOOLEAN,
               UpdatePresent(measured, fresh, ended, resolves, e)
        PROVE  GivesOrTakes
        BY <2>5, UpdatePresentGivesBack DEF GivesOrTakes
  <2>6. ASSUME NEW resolves \in BOOLEAN, NEW posing \in Posings,
               UpdateShow(resolves, posing, e)
        PROVE  GivesOrTakes
        BY <2>6, UpdateShowTakes
  <2>7. ASSUME NEW stepping \in BOOLEAN, NEW resolves \in BOOLEAN,
               NEW posing \in Posings, UpdateStep(stepping, resolves, posing, e)
        PROVE  GivesOrTakes
        BY <2>7, UpdateStepTakes
  <2> QED BY <1>3, <2>1, <2>2, <2>3, <2>4, <2>5, <2>6, <2>7 DEF CameraStage
<1>4. CASE RequestReset \/ TimePasses \/ CameraChangesHands \/ TargetLockIsFreed
      BY <1>4, OutsideGivesBack DEF GivesOrTakes
<1>5. CASE UNCHANGED vars
      BY <1>5, SameGivesBack DEF vars, Same, GivesOrTakes
<1> QED BY <1>2, <1>3, <1>4, <1>5 DEF Next, GivesOrTakes

-----------------------------------------------------------------------------
(* The theorems.                                                            *)

\* The camera is taken only for a running scene with an anchor, after the
\* unlock wait, outside suspension and debug mode, and during the metadata hold
\* for a live edit only.
THEOREM CameraIsTakenForTheScene == Spec => AcquiresForScene
<1>1. ASSUME IInv, [Next]_vars, ~cam.owns, cam'.owns
      PROVE  /\ cam.session = "Active" /\ cam.anchor
             /\ ~cam.suspended /\ ~cam.debugSeen
             /\ ~cam.unlockQueued /\ ~cam.unlockPending
             /\ Pending(cam) => live
      BY <1>1, StepsGiveOrTake DEF GivesOrTakes, GivesBack, Takes, Running
<1>2. IInv /\ [Next]_vars =>
        [ ~cam.owns /\ cam'.owns =>
            /\ cam.session = "Active" /\ cam.anchor
            /\ ~cam.suspended /\ ~cam.debugSeen
            /\ ~cam.unlockQueued /\ ~cam.unlockPending
            /\ Pending(cam) => live ]_vars
      BY <1>1
<1> QED BY <1>2, Inductive, PTL DEF Spec, AcquiresForScene

\* A requested reset is consumed only with the camera, the target lock and the
\* pose back: no path from RequestReset to a cleared flag leaves one behind.
THEOREM ResetsAreHonoured == Spec => ResetIsNeverDropped
<1>1. ASSUME IInv, [Next]_vars, cam.reset, ~cam'.reset
      PROVE  Bare(cam')
      BY <1>1, StepsGiveOrTake DEF GivesOrTakes, GivesBack, Takes, Honours
<1>2. IInv /\ [Next]_vars =>
        [ cam.reset /\ ~cam'.reset =>
            /\ cam'.session # "Restoring"
            /\ ~cam'.owns /\ cam'.owner # "SSC" /\ ~cam'.pose
            /\ ~cam'.disables /\ cam'.lockOwner # "SSC" ]_vars
      BY <1>1 DEF Bare
<1> QED BY <1>2, Inductive, PTL DEF Spec, ResetIsNeverDropped

\* The procedure starts with the camera not on lease.
LEMMA LeaseInit == Init => Lease!Init
BY DEF Init, Lease!Init

\* A step of either class is a step of the lease or leaves it as it is.
LEMMA LeaseStep ==
    ASSUME IInv, IInv', [Next]_vars
    PROVE  [Lease!Next]_(Lease!vars)
<1>1. /\ cam \in Camera /\ cam' \in Camera
      /\ Keyed(cam) /\ Keyed(cam') /\ Clean(cam) /\ Clean(cam')
      BY DEF IInv, Good, Kept
<1>2. cam'.key \in Keys \cup {NoKey}
      BY <1>1 DEF Camera, SceneKeys
<1>3. \/ Eases(cam, cam')
      \/ cam.session = "Active" /\ cam'.key = cam.key
      BY StepsGiveOrTake DEF GivesOrTakes, GivesBack, Takes, Running
<1>4. CASE cam'.owner # "SSC" /\ cam'.session # "Restoring"
  <2>1. CASE cam.key = NoKey /\ cam'.key = NoKey
        BY <1>1, <1>4, <2>1 DEF Keyed, Clean, Lease!vars
  <2>2. CASE ~(cam.key = NoKey /\ cam'.key = NoKey)
        BY <1>2, <1>4, <2>2 DEF Lease!Next, Lease!Change
  <2> QED BY <2>1, <2>2
<1>5. CASE /\ cam'.key = cam.key
           /\ cam'.owner = "SSC" => cam.owner = "SSC"
           /\ cam.session = "Restoring" => cam'.session = "Restoring"
      BY <1>1, <1>5
         DEF Keyed, Lease!vars, Lease!Next, Lease!End, Lease!GiveBack
<1>6. CASE cam.session = "Active" /\ cam'.key = cam.key
      BY <1>1, <1>6
         DEF Keyed, Lease!vars, Lease!Next, Lease!End, Lease!GiveBack, Lease!Take
<1> QED BY <1>3, <1>4, <1>5, <1>6 DEF Eases

\* With all its retries, losses and resets the scene procedure implements the
\* camera lease: taken for the current scene only, never once the scene is
\* ending, and back before the next one.
THEOREM SceneCameraIsALease == Spec => IsALease
<1>1. IInv /\ IInv' /\ [Next]_vars => [Lease!Next]_(Lease!vars)
      BY LeaseStep
<1> QED BY <1>1, LeaseInit, Inductive, PTL DEF Spec, IsALease, Lease!Spec

-----------------------------------------------------------------------------
(* What happens in the end.  SF of the beginning and of the end of a main   *)
(* update is what SceneCamera's Fairness asks of them; the theorems of this *)
(* part take from it that both then do happen again and again.              *)

\* Main updates keep beginning while the foreign APIs do as they are asked.
KeepsBeginning == []<><<\E e \in Willing : TickBegin(e)>>_vars

\* And they keep ending so.
KeepsEnding ==
    []<><<\E e \in Willing, reply, outdated \in BOOLEAN, controls \in ControlStates :
             TickEnd(reply, outdated, controls, e)>>_vars

\* The camera is owned but on its way back.
Leaving(c) == c.owns /\ (c.suspended \/ c.session = "Restoring")

\* A step that leaves such a camera on its way, or returns it.
StaysLeaving(c, d) == Leaving(c) => Leaving(d) \/ ~d.owns

\* An idle record owns nothing, and a scene being given back is on its way.
LEMMA OverIsLeaving ==
    ASSUME NEW c, NEW d, Kept(d), d.session \in {"Idle", "Preparing", "Restoring"}
    PROVE  StaysLeaving(c, d)
BY DEF Kept, Clean, StaysLeaving, Leaving

\* Willing APIs always let the target lock be cancelled.
LEMMA WillingCancels ==
    ASSUME NEW c, NEW e \in Willing
    PROVE  CanCancelUnlock(c, e)
BY DEF Willing, CanCancelUnlock, CanFinishUnlock

\* Willing APIs release the camera, or it is found lost.
LEMMA WillingReleases ==
    ASSUME NEW c, NEW e \in Willing
    PROVE  CanRelease(c, e) \/ (c.owns /\ FoundLost(c, e))
BY DEF Willing, CanRelease, FoundLost, OnThread

\* Restore with willing APIs: the camera is back, and the scene is over unless
\* the ownership was found lost just now.
LEMMA WillingRestores ==
    ASSUME NEW c, Held(c), NEW e \in Willing, NEW r, r = Restore(c, e)
    PROVE  ~r.owns /\ (r.session = "Restoring" => c.owns)
<1> DEFINE s == StopSceneWork(c)
           u == CancelTargetUnlock(s, e)
           q == ReleaseCamera(u, e, TRUE)
<1>1. r = IF CanRelease(u, e) THEN Clear(q) ELSE q
      BY WillingCancels DEF Restore
<1>2. q = IF CanRelease(u, e) THEN Released(u)
          ELSE IF FoundLost(u, e) THEN Discarded(u) ELSE AsksForReset(u)
      BY DEF ReleaseCamera
<1>3. c \in Camera
      BY DEF Held
<1>4. Kept(s) /\ s.owns = c.owns
      BY <1>3, StopSceneWorkKeeps, StopSceneWorkFacts
<1> HIDE DEF s
<1>5. Kept(u) /\ u.owns = c.owns /\ u \in Camera
      BY <1>4, CancelKeeps DEF Kept
<1> HIDE DEF u, q
<1>6. CASE CanRelease(u, e)
  <2>1. q \in Camera /\ ~q.owns
        BY <1>2, <1>5, <1>6, ReleasedFacts
  <2>2. r.session = "Idle" /\ ~r.owns
        BY <1>1, <1>6, <2>1, ClearFacts
  <2> QED BY <2>2
<1>7. CASE ~CanRelease(u, e) /\ u.owns /\ FoundLost(u, e)
  <2>1. r = Discarded(u)
        BY <1>1, <1>2, <1>7
  <2> QED BY <1>5, <1>7, <2>1, LostFacts
<1> QED BY <1>6, <1>7, WillingReleases

\* A main update that begins with a reset pending and willing APIs acts upon it.
LEMMA WillingBegins ==
    ASSUME NEW c, Good(c), c.reset, NEW e \in Willing,
           NEW r, r = ProcessPendingReset(c, e)
    PROVE  ~r.owns /\ (r.session = "Restoring" => c.owns)
<1> DEFINE z == [c EXCEPT !.reset = FALSE]
<1>1. c \in Camera /\ Kept(c)
      BY DEF Good, Kept
<1>2. z \in Camera /\ Alike(c, z)
  <2>1. z \in Camera
        BY <1>1 DEF Camera
  <2>2. /\ z.session = c.session /\ z.key = c.key /\ z.suspended = c.suspended
        /\ z.eval = c.eval /\ z.anchor = c.anchor /\ z.pose = c.pose
        /\ z.debugSeen = c.debugSeen /\ z.resume = c.resume
        BY <1>1 DEF Camera
  <2>3. /\ z.attempts = c.attempts /\ z.unlockQueued = c.unlockQueued
        /\ z.unlockPending = c.unlockPending
        /\ z.disables = c.disables /\ z.lockOwner = c.lockOwner
        /\ z.owns = c.owns /\ z.owner = c.owner
        BY <1>1 DEF Camera
  <2> QED BY <2>1, <2>2, <2>3 DEF Alike
<1>3. r = Restore(z, e)
      BY DEF ProcessPendingReset
<1> HIDE DEF z
<1>4. Held(z) /\ z.owns = c.owns
      BY <1>1, <1>2, AlikeKeeps, KeptIsHeld DEF Alike
<1> QED BY <1>3, <1>4, WillingRestores

\* A main update of a suspended scene leaves the camera on its way, and has it
\* back when the APIs are willing: by its watchdog, by the release it attempts
\* in any case, or because the ownership is found lost.
LEMMA WhileSuspendedReturns ==
    ASSUME NEW c, Good(c), c.suspended, NEW controls, NEW e,
           NEW r, r = WhileSuspended(c, controls, e)
    PROVE  /\ StaysLeaving(c, r)
           /\ e \in Willing => ~r.owns
<1> DEFINE u == CancelTargetUnlock(c, e)
           q == ReleaseCamera(u, e, FALSE)
<1>a. /\ u = CancelTargetUnlock(c, e)
      /\ q = IF CanRelease(u, e) THEN Released(u)
            ELSE IF FoundLost(u, e) THEN Discarded(u) ELSE u
      BY DEF ReleaseCamera
<1>b. \/ r = Restore(c, e)
      \/ CanRelease(u, e) /\ r = ResumeAfterMovement(q)
      \/ r = q
      BY DEF WhileSuspended
<1> HIDE DEF u, q
<1>1. Kept(u) /\ u.suspended /\ u \in Camera
      BY <1>a, CancelKeeps DEF Good, Kept
<1>2. CanRelease(u, e) => q \in Camera /\ ~q.owns
      BY <1>a, <1>1, ReleasedFacts
<1>3. CASE r = Restore(c, e)
      BY <1>3, KeptIsHeld, RestoreHeldKeeps, OverIsLeaving, WillingRestores DEF Good
<1>4. CASE CanRelease(u, e) /\ r = ResumeAfterMovement(q)
      BY <1>2, <1>4 DEF Camera, ResumeAfterMovement, StaysLeaving
<1>5. CASE r = q
  <2>1. CASE CanRelease(u, e)
        BY <1>2, <1>5, <2>1 DEF StaysLeaving
  <2>2. CASE ~CanRelease(u, e) /\ FoundLost(u, e)
    <3>1. ~r.owns
          BY <1>a, <1>1, <1>5, <2>2, LostFacts
    <3> QED BY <3>1 DEF StaysLeaving
  <2>3. CASE ~CanRelease(u, e) /\ ~FoundLost(u, e)
    <3>1. r = u /\ e \notin Willing
          BY <1>a, <1>5, <2>3, WillingReleases
    <3> QED BY <1>1, <3>1 DEF StaysLeaving, Leaving
  <2> QED BY <2>1, <2>2, <2>3
<1> QED BY <1>b, <1>3, <1>4, <1>5

\* So does the tail of every main update, once no reset is pending.
LEMMA ProcessMainUpdateReturns ==
    ASSUME NEW c, Good(c), NEW reply \in BOOLEAN, NEW outdated \in BOOLEAN,
           NEW controls, NEW e,
           NEW r, r = ProcessMainUpdate(c, reply, outdated, controls, e)
    PROVE  /\ StaysLeaving(c, r)
           /\ e \in Willing /\ Leaving(c) /\ ~c.reset => ~r.owns
<1> DEFINE t == MetadataTick(c, reply)
           stale == t.session = "Active" /\ (outdated \/ t.metadata = "ready")
           m == [t EXCEPT !.eval = @ \/ stale]
           s == IF controls = "moving" /\ ~m.suspended THEN SuspendForMovement(m) ELSE m
<1>1. Good(t) /\ c \in Camera
      BY MetadataTickKeeps DEF Good, Kept
<1>2. Same(c, t) /\ t.suspended = c.suspended
  <2>1. t = c \/ t = [c EXCEPT !.metadata = "ready"]
        BY DEF MetadataTick
  <2> HIDE DEF t
  <2> QED BY <1>1, <2>1 DEF Camera, Same
<1>3. r = IF m.session # "Active" \/ m.reset THEN m
          ELSE IF s.suspended THEN WhileSuspended(s, controls, e) ELSE s
      BY DEF ProcessMainUpdate
<1> HIDE DEF t
<1>4. PICK b \in BOOLEAN : b = (t.eval \/ stale)
      OBVIOUS
<1>5. m = [t EXCEPT !.eval = b]
      BY <1>4
<1>6. t.session \in {"Idle", "Preparing"} => ~b
      BY <1>1, <1>4 DEF Good, Kept, Clean
<1> HIDE DEF m
<1>7. Good(m) /\ m.suspended = c.suspended
      BY <1>1, <1>2, <1>5, <1>6, EvalKeeps DEF Good, Owed
<1>8. /\ m.owns = c.owns /\ m.session = c.session /\ m.reset = c.reset
  <2>1. /\ m.owns = t.owns /\ m.session = t.session /\ m.reset = t.reset
        BY <1>1, <1>5 DEF Good, Kept, Camera
  <2> QED BY <1>2, <2>1 DEF Same
<1>9. CASE ~Leaving(c)
      BY <1>9 DEF StaysLeaving
<1>10. CASE Leaving(c) /\ (m.session # "Active" \/ m.reset)
  <2>1. r = m /\ Leaving(r)
        BY <1>3, <1>7, <1>8, <1>10 DEF Leaving
  <2>2. c.reset
        BY <1>8, <1>10 DEF Leaving, Good, Kept, Clean, Owed, Camera, SessionStates
  <2> QED BY <2>1, <2>2 DEF StaysLeaving
<1>11. CASE Leaving(c) /\ m.session = "Active" /\ ~m.reset
  <2>1. s = m /\ m.suspended /\ Leaving(m)
        BY <1>7, <1>8, <1>11 DEF Leaving
  <2>2. r = WhileSuspended(m, controls, e)
        BY <1>3, <1>11, <2>1
  <2> HIDE DEF s
  <2> QED BY <1>7, <2>1, <2>2, WhileSuspendedReturns DEF StaysLeaving
<1> QED BY <1>9, <1>10, <1>11

\* No notice takes the camera, or its return, back.
LEMMA HandleStaysLeaving ==
    ASSUME NEW c, Good(c), NEW type, NEW k \in Keys, NEW player \in BOOLEAN, NEW e,
           NEW r, r = Handle(c, type, k, player, e)
    PROVE  StaysLeaving(c, r)
<1> DEFINE o == Observe(c, type, k, player)
           p == ProcessPendingReset(o, e)
           w == [c EXCEPT !.target = k, !.metadata = "waiting", !.noticeAge = 0]
<1>1. Good(o) /\ Same(c, o) /\ o.suspended = c.suspended
  <2>1. o = c \/ o = ClearTarget(c) \/ o = w
        BY DEF Observe
  <2>2. /\ ClearTarget(c).suspended = c.suspended
        /\ w.suspended = c.suspended
        BY DEF Good, Kept, Camera, ClearTarget
  <2> HIDE DEF o
  <2> QED BY <2>1, <2>2, ObserveKeeps, ObserveEchoes DEF Echo, o
<1>2. /\ Good(p)
      /\ p = o \/ p.session \in {"Idle", "Restoring"}
      BY <1>1, ProcessPendingResetKeeps
<1>3. \/ r = p
      \/ /\ p.session # "Restoring"
         /\ \/ r = Prepare(p, k, player)
            \/ r = OnAnimationStart(p, k, player)
            \/ r = OnAnimationEnd(p, k, e)
            \/ r = OnActiveNotice(p, k, type)
      BY DEF Handle, Proceeds
<1> HIDE DEF o, p
<1>4. StaysLeaving(c, p)
      BY <1>1, <1>2, OverIsLeaving DEF Good, Same, StaysLeaving, Leaving
<1>5. CASE p.session = "Idle" /\ r # p
  <2>1. ~r.owns
        BY <1>2, <1>3, <1>5, NoticeGivesBack DEF Bare
  <2> QED BY <2>1 DEF StaysLeaving
<1>6. CASE p.session = "Preparing" /\ r # p
  <2>1. p = o
        BY <1>2, <1>6
  <2>2. ~Leaving(c)
        BY <1>1, <1>6, <2>1 DEF Good, Kept, Clean, Same, Leaving
  <2> QED BY <2>2 DEF StaysLeaving
<1>7. CASE p.session = "Active" /\ r # p
  <2>1. \/ r = Restore(p, e)
        \/ r = [p EXCEPT !.eval = TRUE]
        BY <1>3, <1>7
           DEF Prepare, OnAnimationStart, OnAnimationEnd, OnActiveNotice
  <2>2. CASE r = Restore(p, e)
        BY <1>2, <2>2, KeptIsHeld, RestoreHeldKeeps, OverIsLeaving DEF Good
  <2>3. CASE r = [p EXCEPT !.eval = TRUE]
    <3>1. r.owns = p.owns /\ r.session = p.session /\ r.suspended = p.suspended
          BY <1>2, <2>3 DEF Good, Kept, Camera
    <3> QED BY <1>4, <3>1 DEF StaysLeaving, Leaving
  <2> QED BY <2>1, <2>2, <2>3
<1> QED BY <1>2, <1>3, <1>4, <1>5, <1>6, <1>7
        DEF Good, Kept, Camera, SessionStates

\* Nor does any other thread, the clock or another mod.
LEMMA OutsideStaysLeaving ==
    ASSUME IInv, RequestReset \/ TimePasses \/ CameraChangesHands \/ TargetLockIsFreed
    PROVE  StaysLeaving(cam, cam')
<1>1. cam \in Camera
      BY DEF IInv, Good, Kept
<1>2. /\ cam'.owns = cam.owns /\ cam'.session = cam.session
      /\ cam'.suspended = cam.suspended
  <2>1. CASE RequestReset
    <3> DEFINE d == [ClearTarget(cam) EXCEPT !.reset = TRUE]
    <3>1. /\ d.owns = cam.owns /\ d.session = cam.session
          /\ d.suspended = cam.suspended
          BY <1>1 DEF Camera, ClearTarget
    <3> QED BY <2>1, <3>1 DEF RequestReset
  <2>2. CASE TimePasses
    <3>1. PICK x, y, z : cam' = [cam EXCEPT !.sceneAge = x, !.noticeAge = y,
                                            !.unlockAge = z]
          BY <2>2 DEF TimePasses
    <3> QED BY <1>1, <3>1 DEF Camera
  <2>3. CASE CameraChangesHands
        BY <1>1, <2>3 DEF Camera, CameraChangesHands
  <2>4. CASE TargetLockIsFreed
        BY <1>1, <2>4 DEF Camera, TargetLockIsFreed
  <2> QED BY <2>1, <2>2, <2>3, <2>4
<1> QED BY <1>2 DEF StaysLeaving, Leaving

\* A camera on its way stays on it until it is back, whatever step is taken:
\* the stages of Update never find it so.
LEMMA StepsStayLeaving ==
    ASSUME IInv, [Next]_vars
    PROVE  StaysLeaving(cam, cam')
<1>1. Good(cam)
      BY DEF IInv
<1>2. ASSUME NEW e \in Environments, MainUpdate(e) \/ UpdateBegin(e) \/ UpdateFails(e)
      PROVE  StaysLeaving(cam, cam')
  <2>1. CASE TickBegin(e) \/ UpdateBegin(e)
    <3>1. /\ Good(cam')
          /\ cam' = cam \/ cam'.session \in {"Idle", "Restoring"}
          BY <1>1, <2>1, ProcessPendingResetKeeps DEF TickBegin, UpdateBegin
    <3> QED BY <3>1, OverIsLeaving DEF Good, StaysLeaving
  <2>2. ASSUME NEW type \in EventTypes, NEW k \in Keys, NEW player \in BOOLEAN,
               HandleSceneEvent(type, k, player, e)
        PROVE  StaysLeaving(cam, cam')
        BY <1>1, <2>2, HandleStaysLeaving DEF HandleSceneEvent
  <2>3. ASSUME NEW reply \in BOOLEAN, NEW outdated \in BOOLEAN,
               NEW controls \in ControlStates, TickEnd(reply, outdated, controls, e)
        PROVE  StaysLeaving(cam, cam')
        BY <1>1, <2>3, ProcessMainUpdateReturns DEF TickEnd
  <2>4. CASE UpdateFails(e)
    <3>1. Good(cam') /\ cam'.session \in {"Idle", "Restoring"}
          BY <1>1, <2>4, EmergencyResetKeeps DEF UpdateFails, Good
    <3> QED BY <3>1, OverIsLeaving DEF Good
  <2> QED BY <1>2, <2>1, <2>2, <2>3, <2>4 DEF MainUpdate
<1>3. ASSUME NEW e \in Environments, CameraStage(e)
      PROVE  StaysLeaving(cam, cam')
  <2>1. pc \in Stages
    <3>1. ASSUME NEW locked, UpdateUnlock(e, locked)
          PROVE  pc \in Stages
          BY <3>1 DEF UpdateUnlock, Stages
    <3>2. ASSUME NEW mode, NEW preview, UpdateDebug(mode, preview, e)
          PROVE  pc \in Stages
          BY <3>2 DEF UpdateDebug, Stages
    <3>3. ASSUME NEW sampled, NEW expired, NEW measured, NEW due,
               UpdateAnchor(sampled, expired, measured, due, e)
          PROVE  pc \in Stages
          BY <3>3 DEF UpdateAnchor, Stages
    <3>4. ASSUME NEW resolves, NEW posing, UpdateResume(resolves, posing, e)
          PROVE  pc \in Stages
          BY <3>4 DEF UpdateResume, Stages
    <3>5. ASSUME NEW measured, NEW fresh, NEW ended, NEW resolves,
               UpdatePresent(measured, fresh, ended, resolves, e)
          PROVE  pc \in Stages
          BY <3>5 DEF UpdatePresent, Stages
    <3>6. ASSUME NEW resolves, NEW posing, UpdateShow(resolves, posing, e)
          PROVE  pc \in Stages
          BY <3>6 DEF UpdateShow, Stages
    <3>7. ASSUME NEW stepping, NEW resolves, NEW posing,
               UpdateStep(stepping, resolves, posing, e)
          PROVE  pc \in Stages
          BY <3>7 DEF UpdateStep, Stages
    <3> QED BY <1>3, <3>1, <3>2, <3>3, <3>4, <3>5, <3>6, <3>7, Zenon
            DEF CameraStage
  <2> QED BY <2>1 DEF IInv, StagesAreGuarded, StaysLeaving, Leaving
<1>4. CASE RequestReset \/ TimePasses \/ CameraChangesHands \/ TargetLockIsFreed
      BY <1>4, OutsideStaysLeaving
<1>5. CASE UNCHANGED vars
      BY <1>5 DEF vars, StaysLeaving
<1> QED BY <1>2, <1>3, <1>4, <1>5 DEF Next

\* A scene being given back is given back if main updates keep beginning with
\* willing APIs: the first such attempt returns the camera or finds it lost,
\* and none can take it again before the second one ends the scene.
THEOREM ScenesAreGivenBack == Spec /\ KeepsBeginning => RestoreEnds
<1> DEFINE P == cam.session = "Restoring"
           O == cam.owns
           Begins == \E e \in Willing : TickBegin(e)
<1>1. IInv /\ P /\ ~O /\ [Next]_vars => (~O)'
  <2> SUFFICES ASSUME IInv, P, ~O, [Next]_vars PROVE (~O)'
      OBVIOUS
  <2> QED BY StepsGiveOrTake DEF GivesOrTakes, GivesBack, Takes, Running
<1>2. IInv /\ P /\ <<Begins>>_vars => (~O)' /\ (P' => O)
  <2> SUFFICES ASSUME IInv, P, NEW e \in Willing, TickBegin(e)
               PROVE  (~O)' /\ (P' => O)
      OBVIOUS
  <2> QED BY WillingBegins DEF IInv, Good, Owed, TickBegin
<1>3. ~P => cam.session # "Restoring"
      OBVIOUS
<1> QED BY <1>1, <1>2, <1>3, Inductive, PTL DEF Spec, KeepsBeginning, RestoreEnds

\* A player who starts to move gets the camera back if main updates keep
\* beginning and ending with willing APIs: the end of one returns the camera
\* unless a reset is pending, and then the beginning of the next one does.
THEOREM MovingFreesTheCamera ==
    Spec /\ KeepsBeginning /\ KeepsEnding => MovementFreesCamera
<1> DEFINE L == Leaving(cam)
           R == cam.reset
           O == cam.owns
           Begins == \E e \in Willing : TickBegin(e)
           Ends == \E e \in Willing, reply, outdated \in BOOLEAN,
                      controls \in ControlStates : TickEnd(reply, outdated, controls, e)
<1>1. cam.suspended /\ cam.owns => L
      BY DEF Leaving
<1>2. IInv /\ L /\ [Next]_vars => L' \/ (~O)'
  <2> SUFFICES ASSUME IInv, L, [Next]_vars PROVE L' \/ (~O)'
      OBVIOUS
  <2> QED BY StepsStayLeaving DEF StaysLeaving
<1>3. IInv /\ L /\ R /\ [Next]_vars => R' \/ (~O)'
  <2> SUFFICES ASSUME IInv, R, [Next]_vars PROVE R' \/ (~O)'
      OBVIOUS
  <2> QED BY StepsGiveOrTake DEF GivesOrTakes, GivesBack, Takes, Honours, Bare
<1>4. IInv /\ L /\ R /\ <<Begins>>_vars => (~O)'
  <2> SUFFICES ASSUME IInv, R, NEW e \in Willing, TickBegin(e) PROVE (~O)'
      OBVIOUS
  <2> QED BY WillingBegins DEF IInv, TickBegin
<1>5. IInv /\ L /\ ~R /\ <<Ends>>_vars => (~O)'
  <2> SUFFICES ASSUME IInv, L, ~R, NEW e \in Willing,
                      NEW reply \in BOOLEAN, NEW outdated \in BOOLEAN,
                      NEW controls \in ControlStates,
                      TickEnd(reply, outdated, controls, e)
               PROVE  (~O)'
      OBVIOUS
  <2> QED BY ProcessMainUpdateReturns DEF IInv, TickEnd
<1> QED BY <1>1, <1>2, <1>3, <1>4, <1>5, Inductive, PTL
        DEF Spec, KeepsBeginning, KeepsEnding, MovementFreesCamera

=============================================================================
