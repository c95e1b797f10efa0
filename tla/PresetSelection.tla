---------------------------- MODULE PresetSelection ----------------------------
(***************************************************************************)
(* Which preset an active scene shows (SceneCamera.cpp: MeasureAnchorLOS,  *)
(* EvaluateVisibility, SelectPresetStep, ApplyRequestedTransform and the   *)
(* stages of Update that call them), between three parties: the main       *)
(* thread, the A/D keys, and the preset editor with its preview slot       *)
(* (PresetPreviewService).                                                 *)
(*                                                                         *)
(* An action of the main thread is one whole ProcessMainUpdate and Update; *)
(* what may happen between its locked sections is AnimationUpdate's        *)
(* subject, what the camera API may answer is SceneCamera's.  Here poses   *)
(* always apply, debug mode is off and a scene is always active: Restart   *)
(* ends one and begins the next.                                           *)
(***************************************************************************)
EXTENDS CandidateRules, SequencesExt

CONSTANTS
    IDs,          \* preset ids, strings
    Filters,      \* the filter of each preset
    Animations,   \* animations a scene may play
    Stored,       \* bound: the lists of presets there may be at first
    EditedIDs,    \* bound: the presets the editor touches
    Views,        \* bound: the sights all presets may have at a time
    MaxRequests,  \* bound: preview requests
    MaxPresses,   \* bound: key presses
    MaxUpsets     \* bound: presets saved or deleted, animation notices and ends
                  \* of a scene, together

NewPreset == "<new preset>"

ASSUME SelectionAssumption ==
    /\ {NoID, NewPreset} \cap IDs = {}
    /\ \A i \in IDs : /\ Filters[i].invalid \in BOOLEAN
                      /\ Filters[i].name \subseteq SUBSET Animations
                      /\ Filters[i].tag \subseteq SUBSET Animations
    /\ \A l \in Stored : l \in Seq(IDs) /\ \A i, j \in DOMAIN l : l[i] = l[j] => i = j
    /\ EditedIDs \subseteq IDs /\ Views \subseteq [IDs -> Sights]
    /\ {MaxRequests, MaxPresses, MaxUpsets} \subseteq Nat

VARIABLES
    presets,   \* the repository's published ids, in order
    metadata,  \* Pending() and Ready()
    scene,     \* the fields of SceneCamera
    preview,   \* request_ and previewSessionActive_
    editing,   \* the scene the editor's frame found editable, or 0
    pressing,  \* a key press between RequestPresetStep's checks and its store
    spent      \* how much of each bound is used up

vars == <<presets, metadata, scene, preview, editing, pressing, spent>>

\* A preview request, told apart by its revision as by its address; live: it
\* has a transform; scene: the scene it was made in (nothing in the code).
NoRequest == [revision |-> 0, live |-> FALSE, id |-> NoID, scene |-> 0]
Requests == [revision : 0 .. MaxRequests, live : BOOLEAN, id : IDs \cup {NoID},
             scene : 0 .. MaxUpsets + 1]
Candidates == [id : IDs \cup {NewPreset}, usable : BOOLEAN]

Unknown == [known |-> FALSE, animation |-> "none"]
KnownAs(a) == [known |-> TRUE, animation |-> a]

NewScene ==
    [number |-> 1,               \* nothing in the code
     active |-> NoID,            \* activePresetID_
     chosen |-> FALSE,           \* initialPresetSelectionDone_
     anchor |-> FALSE,           \* anchor_
     lost |-> FALSE,             \* anchorInputUnavailable_
     due |-> TRUE,               \* sceneEvaluationPending_
     shown |-> <<>>,             \* visibilityEvaluation_->candidates
     draft |-> FALSE,            \* they are the rating of a draft; nothing in the code
     current |-> FALSE,          \* evaluatedMetadata_ and evaluatedPresets_ are
                                 \* the ones in force
     enabled |-> FALSE,          \* presetSwitchEnabled_
     step |-> 0,                 \* presetStepRequested_
     posed |-> FALSE,            \* cameraPose_
     applied |-> NoRequest]      \* appliedPreviewRequest_

Init ==
    /\ presets \in Stored
    /\ metadata = [pending |-> TRUE, ready |-> Unknown]
    /\ scene = NewScene
    /\ preview = [session |-> FALSE, request |-> NoRequest]
    /\ editing = 0
    /\ pressing = 0
    /\ spent = [requests |-> 0, presses |-> 0, upsets |-> 0]

Upset ==
    /\ spent.upsets < MaxUpsets
    /\ spent' = [spent EXCEPT !.upsets = @ + 1]

PresetIDs == {presets[i] : i \in DOMAIN presets}

-----------------------------------------------------------------------------
(* Pieces of Update, on the record of the scene.                            *)

\* Mutant: the filter is forgotten.
RatedBySight(sights) ==
    [i \in DOMAIN presets |->
        [id |-> presets[i], usable |-> FailureReason(sights[presets[i]]) = "none"]]

\* EvaluateVisibilityCandidate and the filter, for every preset.
Rated(sights) ==
    [i \in DOMAIN presets |->
        [id |-> presets[i],
         usable |-> /\ FailureReason(sights[presets[i]]) = "none"
                    /\ Matches(Filters[presets[i]], metadata.ready)]]

Measured(s, sights) ==
    [s EXCEPT !.shown = Rated(sights), !.draft = FALSE, !.current = TRUE]

Choose(m, first, preferred) ==
    [m EXCEPT !.chosen = TRUE,
              !.active = IF preferred \in IDsOf(m.shown) THEN preferred
                         ELSE IF first \in IDsOf(m.shown) THEN first ELSE NoID]

\* Mutant: a preset that became unusable gives way to another.
ChosenAnew(m, preferred) ==
    Choose(m, IF m.chosen /\ m.active \in UsableIDs(m.shown) THEN m.active
              ELSE SelectInitial(m.shown), preferred)

\* The first selection of a scene is the first usable preset; later the
\* selected one stays while it is in the list.
Chosen(m, preferred) ==
    Choose(m, IF m.chosen THEN m.active ELSE SelectInitial(m.shown), preferred)

\* EvaluateVisibility, which measures first.
Evaluated(s, preferred, sights) == Chosen(Measured(s, sights), preferred)

\* ResolveTransform.
Resolves(s) == preview.request.live \/ s.active \in PresetIDs

Released(s) ==
    [s EXCEPT !.posed = FALSE, !.enabled = FALSE, !.step = 0, !.applied = NoRequest]

Posed(s, live) == [s EXCEPT !.posed = TRUE, !.enabled = ~live]

\* Mutant: the candidate of an unsaved draft has no name.
DraftRatedNameless(s, sight) ==
    [s EXCEPT !.draft = TRUE,
              !.shown = <<[id |-> preview.request.id,
                           usable |-> FailureReason(sight) = "none"]>>]

\* EvaluatePreviewVisibility: the pose of a live edit is rated without the
\* filter, and that candidate shown alone.
DraftRated(s, sight) ==
    [s EXCEPT !.draft = TRUE,
              !.shown = <<[id |-> IF preview.request.id = NoID THEN NewPreset
                                  ELSE preview.request.id,
                           usable |-> FailureReason(sight) = "none"]>>]

\* ApplyRequestedTransform.
Requested(s, sight) ==
    LET request == preview.request  live == preview.session IN
    IF ~live /\ metadata.pending /\ ~s.posed THEN s
    ELSE IF Resolves(s)
    THEN LET posed == [Posed(s, live) EXCEPT !.applied = request]
         IN IF live /\ request.live THEN DraftRated(posed, sight) ELSE posed
    ELSE IF s.posed /\ ~live THEN Released([s EXCEPT !.applied = request])
    ELSE [s EXCEPT !.applied = request]

\* SelectPresetStep, under the checks it makes at the boundary.
Stepped(s) ==
    LET next == Step(s.shown, s.active, s.step)
        quiet == [s EXCEPT !.step = 0]
    IN IF /\ s.enabled /\ next \notin {NoID, s.active} /\ next \in PresetIDs
          /\ ~metadata.pending /\ s.current
       THEN Posed([quiet EXCEPT !.active = next], FALSE)
       ELSE quiet

PreviewEnded(s) ==
    /\ s.anchor /\ ~preview.session
    /\ preview.request # s.applied /\ preview.request # NoRequest
    /\ ~preview.request.live /\ s.applied.live

-----------------------------------------------------------------------------
(* The main thread.                                                         *)

(* The stages of Update.  u: what this update meets (whether the anchor can *)
(* be read, whether the timer of the next measurement has run out, and the  *)
(* sights) and what it found when it began.                                 *)
Met(s, refreshed, timed, sights, sight) ==
    [refreshed |-> refreshed, timed |-> timed, sights |-> sights, sight |-> sight,
     ended |-> PreviewEnded(s),
     preferred |-> IF PreviewEnded(s) THEN preview.request.id ELSE NoID,
     ready |-> s.due /\ ~metadata.pending /\ refreshed]

EvaluationStage(s, u) ==
    IF u.ready
    THEN Requested([Evaluated(s, u.preferred, u.sights) EXCEPT !.due = FALSE,
                                                               !.lost = FALSE], u.sight)
    ELSE IF u.refreshed THEN s ELSE [s EXCEPT !.lost = TRUE]

Measures(s, u) ==
    /\ ~metadata.pending /\ ~u.ready /\ ~preview.session /\ ~u.ended
    /\ ~s.due /\ u.refreshed
    /\ u.timed = "due" \/ (u.timed = "early" /\ s.lost)

MeasureStage(s, u) ==
    IF Measures(s, u) THEN [Measured(s, u.sights) EXCEPT !.lost = FALSE] ELSE s

SwitchStage(s, u) ==
    LET can == /\ ~metadata.pending /\ u.refreshed /\ ~s.lost /\ ~preview.session
               /\ ~s.due
    IN [s EXCEPT !.enabled = can, !.step = IF can THEN @ ELSE 0]

ReturnStage(s, u) ==
    IF u.ended /\ ~metadata.pending /\ ~u.ready
    THEN Evaluated(s, u.preferred, u.sights) ELSE s

StepStage(s) ==
    IF preview.session THEN [s EXCEPT !.enabled = FALSE, !.step = 0]
    ELSE IF s.step = 0 THEN s ELSE Stepped(s)

\* An update that releases the camera ends there.
StepUnlessReleased(s, before) == IF before.posed /\ ~s.posed THEN s ELSE StepStage(s)

RequestStage(s, u) ==
    StepUnlessReleased(IF s.anchor /\ preview.request # s.applied
                       THEN Requested(s, u.sight) ELSE s, s)

PoseStage(s, u) ==
    IF s.posed /\ ~preview.session /\ ~Resolves(s) THEN Released(s)
    ELSE RequestStage(s, u)

RestUnlessReleased(s, before, u) ==
    IF before.posed /\ ~s.posed THEN s
    ELSE PoseStage(ReturnStage(SwitchStage(MeasureStage(s, u), u), u), u)

Stages(s, u) == RestUnlessReleased(EvaluationStage(s, u), s, u)

\* ProcessMainUpdate asks for an evaluation when what was evaluated is out of
\* date; Update returns early while there has never been an anchor.
Update(refreshed, timed, sights, sight) ==
    LET s == [scene EXCEPT !.due = @ \/ ~scene.current,
                           !.anchor = @ \/ refreshed]
    IN /\ scene' = IF s.anchor
                    THEN Stages(s, Met(s, refreshed, timed, sights, sight)) ELSE s
       /\ UNCHANGED <<presets, metadata, preview, editing, pressing, spent>>

\* OnAnimationChange and its like, after the coordinator has observed it.
Notice ==
    /\ Upset
    /\ metadata' = [metadata EXCEPT !.pending = TRUE]
    /\ scene' = [scene EXCEPT !.due = TRUE, !.enabled = FALSE, !.step = 0]
    /\ UNCHANGED <<presets, preview, editing, pressing>>

\* The coordinator has the answers, or gave up after its deadline.
Settle(m) ==
    /\ metadata.pending
    /\ metadata' = [pending |-> FALSE, ready |-> m]
    /\ scene' = [scene EXCEPT !.current = FALSE]
    /\ UNCHANGED <<presets, preview, editing, pressing, spent>>

\* Restore, and the start of the next scene.
Restart ==
    /\ Upset
    /\ scene' = [NewScene EXCEPT !.number = scene.number + 1]
    /\ metadata' = [metadata EXCEPT !.pending = TRUE]
    /\ preview' = [session |-> FALSE, request |-> NoRequest]
    /\ UNCHANGED <<presets, editing, pressing>>

-----------------------------------------------------------------------------
(* The keys and the editor.                                                 *)

\* RequestPresetStep: the checks, then the store.
Press(direction) ==
    /\ pressing = 0 /\ ~metadata.pending /\ scene.enabled
    /\ spent.presses < MaxPresses
    /\ spent' = [spent EXCEPT !.presses = @ + 1]
    /\ pressing' = direction
    /\ UNCHANGED <<presets, metadata, scene, preview, editing>>

StoreStep ==
    /\ pressing # 0
    /\ scene' = [scene EXCEPT !.step = pressing]
    /\ pressing' = 0
    /\ UNCHANGED <<presets, metadata, preview, editing, spent>>

\* OpenEditor, once the feedback says that a preview is shown or possible; its
\* frames then ask again whether the session is still on.
BeginSession ==
    /\ ~preview.session
    /\ scene.posed \/ scene.chosen
    /\ preview' = [preview EXCEPT !.session = TRUE]
    /\ editing' = scene.number
    /\ UNCHANGED <<presets, metadata, scene, pressing, spent>>

BeginFrame ==
    /\ editing # 0
    /\ editing' = IF preview.session THEN scene.number ELSE 0
    /\ UNCHANGED <<presets, metadata, scene, preview, pressing, spent>>

Ask(live, id) ==
    /\ spent.requests < MaxRequests
    /\ spent' = [spent EXCEPT !.requests = @ + 1]
    /\ preview' = [preview EXCEPT !.request =
           [revision |-> spent.requests + 1, live |-> live, id |-> id,
            scene |-> editing]]
    /\ UNCHANGED <<presets, metadata, scene, editing, pressing>>

\* SetPreview: the draft of a preset, or of one not saved yet.
SetPreview(id) == editing # 0 /\ Ask(TRUE, id)

\* CloseEditor: EndPreviewSession, then ClearPreview with the preset selected
\* in the editor.  Opening has posted a draft before; it is cleared within a
\* session only when no preset is left (SelectFirstPreset).
EndSession ==
    /\ preview.session
    /\ preview.request.live \/ presets = <<>>
    /\ preview' = [preview EXCEPT !.session = FALSE]
    /\ editing' = 0
    /\ UNCHANGED <<presets, metadata, scene, pressing, spent>>

ClearPreview(id) ==
    /\ preview.request.live
    /\ preview.session => presets = <<>> /\ id = NoID
    /\ Ask(FALSE, id)

Edited(list) ==
    /\ Upset
    /\ presets' = list
    /\ scene' = [scene EXCEPT !.current = FALSE]
    /\ UNCHANGED <<metadata, preview, editing, pressing>>

\* Saved, deleted or brought back by a reload, in a frame that may edit.
Create(id) == editing # 0 /\ id \notin PresetIDs /\ Edited(Append(presets, id))
Delete(id) ==
    editing # 0 /\ \E i \in DOMAIN presets : presets[i] = id /\ Edited(RemoveAt(presets, i))

\* The sight of the draft matters only while there is one.
DraftSights ==
    IF preview.request.live THEN {view[i] : view \in Views, i \in EditedIDs}
    ELSE {NoPose}

Next ==
    \/ \E sights \in Views, sight \in DraftSights :
          \/ \E timed \in {"stopped", "early", "due"} : Update(TRUE, timed, sights, sight)
          \/ Update(FALSE, "stopped", sights, sight)
    \/ Notice \/ Restart
    \/ \E m \in {Unknown} \cup {KnownAs(a) : a \in Animations} : Settle(m)
    \/ \E d \in {-1, 1} : Press(d)
    \/ StoreStep
    \/ BeginSession \/ BeginFrame \/ EndSession
    \/ \E id \in EditedIDs \cup {NoID} : SetPreview(id) \/ ClearPreview(id)
    \/ \E id \in EditedIDs : Create(id) \/ Delete(id)

Spec == Init /\ [][Next]_vars

-----------------------------------------------------------------------------
TypeOK ==
    /\ presets \in Seq(IDs) /\ Len(presets) = Cardinality(PresetIDs)
    /\ metadata \in [pending : BOOLEAN,
                     ready : {Unknown} \cup {KnownAs(a) : a \in Animations}]
    /\ scene.active \in IDs \cup {NoID} /\ scene.shown \in Seq(Candidates)
    /\ scene.applied \in Requests /\ scene.step \in -1 .. 1
    /\ \A f \in {"chosen", "anchor", "lost", "due", "draft", "current", "enabled",
               "posed"} :
          scene[f] \in BOOLEAN
    /\ preview \in [session : BOOLEAN, request : Requests]
    /\ editing \in 0 .. scene.number
    /\ pressing \in -1 .. 1

\* A key always finds a usable candidate if there is one; going on in one
\* direction comes by all of them, wherever it begins (no other set of them is
\* closed under a step); and going back undoes a step.
StepsGoRound ==
    LET list == scene.shown  usable == UsableIDs(list)
        Onward(id) == Step(list, id, 1)
    IN /\ usable # {} => \A id \in IDsOf(list) \cup {NoID} : Onward(id) \in usable
       /\ \A S \in SUBSET usable :
             S # {} /\ (\A id \in S : Onward(id) \in S) => S = usable
       /\ \A id \in usable : Step(list, Onward(id), -1) = id

\* The same scene goes on, and its first selection is behind it.
GoesOn == scene'.number = scene.number /\ scene.chosen

\* Once chosen, the preset changes only by a key, by the end of a preview, or
\* because it was deleted: never because it or the others were rated anew.  Nor
\* does rating alone take the camera, unless the preset it was given back for is
\* in the list again, or give it back.
SelectionIsSteady ==
    [][ /\ GoesOn /\ scene'.active # scene.active =>
              \/ scene.step # 0
              \/ PreviewEnded(scene) /\ scene'.active = preview.request.id
              \/ scene'.active = NoID /\ scene.active \notin PresetIDs
        /\ GoesOn /\ scene'.posed # scene.posed =>
              \/ scene.posed /\ scene'.active \notin PresetIDs
              \/ ~scene.posed /\ \/ scene.step # 0 \/ preview.session
                                 \/ preview.request # scene.applied
                                 \/ ~scene.current /\ scene.active \in PresetIDs]_vars

\* A key moves to a preset of the list whose sight was good and whose filter
\* takes the animation in force, all of it known and the input present.  Where
\* the list is still the rating of a draft, the filter had no say in it.
StepsFollowTheRating ==
    [][GoesOn /\ scene'.active \notin {scene.active, NoID} /\ ~PreviewEnded(scene) =>
          /\ [id |-> scene'.active, usable |-> TRUE] \in
                {scene'.shown[i] : i \in DOMAIN scene'.shown}
          /\ Matches(Filters[scene'.active], metadata.ready) \/ scene'.draft
          /\ ~metadata.pending /\ ~scene'.lost]_vars

=============================================================================
