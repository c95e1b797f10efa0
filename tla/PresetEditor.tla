----------------------------- MODULE PresetEditor -----------------------------
(****************************************************************************)
(* The preset editor (PresetEditorMenu.cpp) with the key that opens and     *)
(* closes it (EditHotkey): drafts, their preview, the questions asked       *)
(* before unsaved changes go, and everything that takes the window away.    *)
(*                                                                          *)
(* A frame of the editor reads the feedback of the camera once and then     *)
(* takes at most one click; the camera, on the main thread, goes on         *)
(* meanwhile.  What the camera does with a request is PresetSelection's     *)
(* subject, how presets are written is PresetStore's: here they show or not,*)
(* succeed or fail.                                                         *)
(*                                                                          *)
(* Revisions are told apart only from that of the draft: mine marks a       *)
(* request made with draftRevision, current a feedback whose                *)
(* appliedRevision is draftRevision.                                        *)
(****************************************************************************)
EXTENDS EditHotkey, SequencesExt

CONSTANTS
    IDs,      \* preset ids in the order they are given out
    Reloads,  \* bound: the contents of the preset file after an edit outside
    Scopes    \* bounds of a behaviour, one of which Init chooses

NoID == 0

\* The pose of a new preset, another one, and one that is not valid (as that of
\* PresetTransform{}).  Names and filters need no preview: what counts of them is
\* whether they differ from the saved ones.
Poses == {"new", "dragged"}
Invalid == "invalid"
Preset == [id : IDs, pose : Poses]

ASSUME EditorAssumption ==
    /\ IDs \subseteq Nat \ {NoID}
    /\ \A l \in Reloads : /\ l \in Seq(Preset)
                          /\ \A i, j \in DOMAIN l : l[i].id = l[j].id => i = j
    /\ \A s \in Scopes :
          /\ s.keys \subseteq Keys /\ s.thread \in {"frames", "other"}
          /\ {s.edits, s.sets} \subseteq BOOLEAN

VARIABLES
    presets,   \* the repository's published list
    ed,        \* EditorState, the preview request and session
    feedback,  \* PresetPreviewFeedback
    frame,     \* what a frame that is under way found: whether it may edit, save
    scope      \* the bounds of this behaviour

vars == <<presets, ed, feedback, frame, scope, hotkeyVars>>
hotkeyRest == <<file, settings, down, input, promised, asked, captive>>

NoRequest == [live |-> FALSE, pose |-> Invalid, mine |-> FALSE]
NoFeedback == [active |-> FALSE, applied |-> FALSE, possible |-> FALSE, pose |-> Invalid]
Actions == {"none", "select", "new", "newFromCurrent", "reload", "close"}

Closed == [window |-> FALSE, session |-> FALSE, request |-> NoRequest, current |-> FALSE,
           selected |-> NoID, creating |-> FALSE, dirty |-> FALSE,
           draft |-> Invalid, saved |-> Invalid, renamed |-> FALSE,
           pending |-> "none", target |-> NoID, popup |-> "none",
           left |-> FALSE]  \* history: the framework closed it on unsaved changes

Init ==
    /\ HotkeyInit
    /\ presets \in Reloads
    /\ ed = Closed
    /\ feedback = NoFeedback
    /\ frame = "none"
    /\ scope \in Scopes

-----------------------------------------------------------------------------
(* Pieces of the editor, on the record d.                                   *)

HasID(list, id) == \E i \in DOMAIN list : list[i].id = id
Index(list, id) == CHOOSE i \in DOMAIN list : list[i].id = id
WithID(list, id) == list[Index(list, id)]
NewIDs(list) == {id \in IDs : ~HasID(list, id)}

\* An invalid draft keeps the last preview, and its revision.
PublishDraft(d) ==
    IF d.draft = Invalid THEN d
    ELSE [d EXCEPT !.request = [live |-> TRUE, pose |-> d.draft, mine |-> TRUE],
                   !.current = FALSE]

ClearPreview(d) == IF d.request.live THEN [d EXCEPT !.request = NoRequest] ELSE d

SelectPreset(d, preset) ==
    [d EXCEPT !.selected = preset.id, !.saved = preset.pose, !.draft = preset.pose,
              !.renamed = FALSE, !.creating = FALSE, !.dirty = FALSE]

\* Without presets the texts stay as they were.
SelectNone(d) ==
    ClearPreview([d EXCEPT !.selected = NoID, !.saved = Invalid,
                           !.draft = Invalid, !.creating = FALSE, !.dirty = FALSE])

SelectFirstPreset(d, list) ==
    IF list = <<>> THEN SelectNone(d) ELSE PublishDraft(SelectPreset(d, list[1]))

SelectPresetByID(d, list, id) ==
    IF HasID(list, id) THEN PublishDraft(SelectPreset(d, WithID(list, id)))
    ELSE SelectFirstPreset(d, list)

\* BeginNew, and BeginNewFromCurrent with the pose that is shown.
Begin(d, pose) ==
    PublishDraft([d EXCEPT !.selected = NoID, !.creating = TRUE, !.dirty = TRUE,
                           !.draft = pose, !.saved = pose, !.renamed = FALSE])

\* A draft that is closed has no revision any more.
CancelDraft(d, closing) ==
    IF ~d.creating
    THEN PublishDraft([d EXCEPT !.draft = d.saved, !.renamed = FALSE, !.dirty = FALSE])
    ELSE IF closing
    THEN [d EXCEPT !.selected = NoID, !.saved = Invalid, !.draft = Invalid,
                   !.creating = FALSE, !.dirty = FALSE, !.current = FALSE,
                   !.request.mine = FALSE]
    ELSE SelectFirstPreset(d, presets)

Leave(d) == [ClearPreview(d) EXCEPT !.window = FALSE, !.session = FALSE]

\* CloseEditor.
CloseEditor(d) == [Leave(d) EXCEPT !.pending = "none"]

\* RunPendingAction, with the presets as they are now.
Run(d, action, id, list) ==
    \/ /\ action = "select"
       /\ ed' = SelectPresetByID(d, list, id) /\ presets' = list /\ UNCHANGED hotkey
    \/ /\ action = "new"
       /\ ed' = Begin(d, "new") /\ presets' = list /\ UNCHANGED hotkey
    \/ /\ action = "newFromCurrent"
       /\ ed' = IF feedback.pose = Invalid THEN d ELSE Begin(d, feedback.pose)
       /\ presets' = list /\ UNCHANGED hotkey
    \/ /\ action = "reload" /\ UNCHANGED hotkey
       /\ \/ ed' = d /\ presets' = list
          \/ \E outside \in Reloads :
                ed' = SelectFirstPreset(d, outside) /\ presets' = outside
    \/ /\ action = "close"
       /\ ed' = CloseEditor(d) /\ presets' = list /\ hotkey' = Cancelled(hotkey)
    \/ /\ action = "none"
       /\ ed' = d /\ presets' = list /\ UNCHANGED hotkey

\* Mutant: the action is taken without a question.
RequestActionUnasked(action, id) ==
    Run([ed EXCEPT !.pending = "none", !.target = NoID], action, id, presets)

\* Unsaved changes are asked about first.
RequestAction(action, id) ==
    IF ~ed.dirty THEN Run([ed EXCEPT !.target = NoID], action, id, presets)
    ELSE /\ ed' = [ed EXCEPT !.pending = action, !.target = id, !.popup = "unsaved"]
         /\ UNCHANGED <<presets, hotkey>>

DraftID(d, new) == IF d.creating THEN new ELSE d.selected

\* Mutant: what the frame found is taken for granted.
MaySaveAsFound(new) ==
    /\ ed.draft # Invalid /\ DraftID(ed, new) # NoID
    /\ ~ed.creating => HasID(presets, ed.selected)

\* Mutant: the contents are not looked at.
MaySaveUnvalidated(new) ==
    /\ feedback.applied /\ ed.current
    /\ DraftID(ed, new) # NoID
    /\ ~ed.creating => HasID(presets, ed.selected)

\* What SaveDraft checks: the latest preview is applied, the contents are valid,
\* and the repository still has the preset.
MaySave(new) ==
    /\ feedback.applied /\ ed.current
    /\ ed.draft # Invalid /\ DraftID(ed, new) # NoID
    /\ ~ed.creating => HasID(presets, ed.selected)

Draft(new) == [id |-> DraftID(ed, new), pose |-> ed.draft]

Stored(preset) ==
    IF ed.creating THEN Append(presets, preset)
    ELSE [i \in DOMAIN presets |-> IF presets[i].id = preset.id THEN preset ELSE presets[i]]

AfterSave(new) ==
    [ed EXCEPT !.selected = DraftID(ed, new), !.saved = ed.draft,
               !.renamed = FALSE, !.creating = FALSE, !.dirty = FALSE]

\* The id of a new preset was chosen when it was begun.
NewID == IF ed.creating /\ NewIDs(presets) # {}
         THEN CHOOSE id \in NewIDs(presets) : \A i \in NewIDs(presets) : id <= i
         ELSE NoID

-----------------------------------------------------------------------------
(* The window is opened.                                                    *)

CanStartPreview == feedback.active /\ (feedback.applied \/ feedback.possible)

\* OpenEditor; only the draft of a first preset is taken up again.
Opened(d, id) ==
    LET begun == [d EXCEPT !.window = TRUE, !.session = TRUE, !.left = FALSE]
    IN IF presets # <<>> THEN SelectPresetByID(begun, presets, id)
       ELSE IF d.creating THEN PublishDraft(begun)
       ELSE Begin(begun, "new")

Open(id) ==
    /\ ed' = Opened(ed, id)
    /\ UNCHANGED <<presets, feedback, frame, scope>>

\* "Preview & edit selected" of the dashboard, which is disabled while a key is
\* awaited.
DashboardOpens ==
    /\ ~ed.window /\ ~hotkey.awaiting
    /\ CanStartPreview
    /\ Open(ed.selected)
    /\ hotkey' = Cancelled(hotkey) /\ asked' = FALSE
    /\ UNCHANGED <<file, settings, down, input, promised, captive>>

\* UpdateSceneToolbarVisibility: a press that came while the editor is closed;
\* the preset shown now is opened unless another window blocks or there is none.
HudTakesRequest ==
    /\ ~ed.window /\ hotkey.requested
    /\ \/ /\ CanStartPreview
          /\ \E id \in IDs : Open(id)
          /\ hotkey' = [Cancelled(hotkey) EXCEPT !.requested = FALSE]
          /\ asked' = FALSE
       \/ /\ hotkey' = [hotkey EXCEPT !.requested = FALSE]
          /\ UNCHANGED <<presets, ed, feedback, frame, scope, asked>>
    /\ UNCHANGED <<file, settings, down, input, promised, captive>>

\* The dashboard selects a preset where the selected one is not in the list, or
\* on a click; nothing is shown of it.
DashboardSelects(id) ==
    /\ ~ed.window /\ HasID(presets, id) /\ id # ed.selected
    /\ ed' = SelectPreset(ed, WithID(presets, id))
    /\ UNCHANGED <<presets, feedback, frame, scope, hotkeyVars>>

-----------------------------------------------------------------------------
(* A frame of the editor (RenderEditor).                                    *)

Quiet == UNCHANGED <<feedback, scope, hotkeyRest>>

\* The press that closes comes first in a frame.
FrameTakesRequest ==
    /\ ed.window /\ frame = "none" /\ hotkey.requested
    /\ IF ed.dirty
       THEN /\ ed' = [ed EXCEPT !.pending = "close", !.target = NoID, !.popup = "unsaved"]
            /\ hotkey' = [hotkey EXCEPT !.requested = FALSE]
            /\ UNCHANGED asked
       ELSE /\ ed' = CloseEditor(ed)
            /\ hotkey' = [Cancelled(hotkey) EXCEPT !.requested = FALSE]
            /\ asked' = FALSE
    /\ UNCHANGED <<presets, feedback, frame, scope,
                   file, settings, down, input, promised, captive>>

\* CanEditPreset, and CanSavePreset for the button.
BeginFrame ==
    /\ ed.window /\ frame = "none" /\ ~hotkey.requested
    /\ frame' = IF ~(ed.session /\ feedback.applied) THEN "locked"
                ELSE IF ed.dirty /\ ed.current /\ (ed.creating \/ ed.selected # NoID)
                THEN "savable" ELSE "editable"
    /\ UNCHANGED <<presets, ed, feedback, scope, hotkeyVars>>

Editable == frame \in {"editable", "savable"}

\* A click on the window, which a question blocks.
Click == Editable /\ ed.popup = "none" /\ frame' = "none" /\ Quiet

ClickAction(action, id) ==
    /\ Click
    /\ action = "select" => HasID(presets, id) /\ (ed.creating \/ id # ed.selected)
    /\ action = "newFromCurrent" => feedback.pose # Invalid
    /\ action \in {"new", "newFromCurrent"} => NewIDs(presets) # {}
    /\ scope.edits \/ action = "close"
    /\ RequestAction(action, id)

Edit(d) ==
    /\ Click /\ scope.edits
    /\ ed' = [d EXCEPT !.dirty = d.creating \/ d.renamed \/ d.draft # d.saved]
    /\ UNCHANGED <<presets, hotkey>>

\* A drag; the name alone is published as well, the filters are not.
EditPose(pose) ==
    /\ pose # ed.draft
    /\ Edit(PublishDraft([ed EXCEPT !.draft = pose]))

EditName == \E b \in BOOLEAN : Edit(PublishDraft([ed EXCEPT !.renamed = b]))
EditFilter == \E b \in BOOLEAN : Edit([ed EXCEPT !.renamed = b])

\* Save; the repository may refuse.
ClickSave ==
    /\ Click /\ frame = "savable"
    /\ MaySave(NewID)
    /\ presets' = Stored(Draft(NewID))
    /\ ed' = AfterSave(NewID)
    /\ UNCHANGED hotkey

ClickCancelChanges ==
    /\ Click /\ ed.dirty /\ (ed.creating \/ ed.selected # NoID)
    /\ ed' = CancelDraft(ed, FALSE)
    /\ UNCHANGED <<presets, hotkey>>

ClickDelete ==
    /\ Click /\ ~ed.creating /\ ed.selected # NoID
    /\ ed' = [ed EXCEPT !.popup = "delete"]
    /\ UNCHANGED <<presets, hotkey>>

\* A locked editor closes at once, whatever is unsaved.
ClickCloseLocked ==
    /\ frame = "locked" /\ frame' = "none"
    /\ ed' = [CloseEditor(ed) EXCEPT !.popup = "none"]
    /\ hotkey' = Cancelled(hotkey)
    /\ Quiet /\ UNCHANGED presets

\* A frame without a click.  A locked one drops what was pending; whether the
\* question that is not drawn comes back is up to the framework.
EndFrame ==
    /\ frame # "none" /\ frame' = "none"
    /\ IF frame = "locked"
       THEN \E popup \in {ed.popup, "none"} :
               ed' = [ed EXCEPT !.pending = "none", !.target = NoID, !.popup = popup]
       ELSE UNCHANGED ed
    /\ Quiet /\ UNCHANGED <<presets, hotkey>>

\* The answers to a question (RenderUnsavedPopup, RenderDeletePopup).
Answer(popup) == Editable /\ ed.popup = popup /\ frame' = "none" /\ Quiet

SaveAndContinue ==
    /\ Answer("unsaved")
    /\ MaySave(NewID)
    /\ LET saved == [AfterSave(NewID) EXCEPT !.pending = "none", !.target = NoID,
                                             !.popup = "none"]
       IN Run(saved, ed.pending, ed.target, Stored(Draft(NewID)))

DiscardAndContinue ==
    /\ Answer("unsaved")
    /\ LET left == [CancelDraft(ed, ed.pending = "close") EXCEPT
                       !.pending = "none", !.target = NoID, !.popup = "none"]
       IN Run(left, ed.pending, ed.target, presets)

KeepEditing ==
    /\ Answer("unsaved")
    /\ ed' = [ed EXCEPT !.pending = "none", !.target = NoID, !.popup = "none"]
    /\ UNCHANGED <<presets, hotkey>>

Remaining == RemoveAt(presets, Index(presets, ed.selected))

ConfirmDelete ==
    /\ Answer("delete")
    /\ HasID(presets, ed.selected)
    /\ presets' = Remaining
    /\ ed' = [SelectFirstPreset(ed, Remaining) EXCEPT !.popup = "none"]
    /\ UNCHANGED hotkey

\* Cancel, or the repository refuses.
DeleteNothing ==
    /\ Answer("delete")
    /\ ed' = [ed EXCEPT !.popup = "none"]
    /\ UNCHANGED <<presets, hotkey>>

-----------------------------------------------------------------------------
(* What takes the window away.                                              *)

\* The framework closes its menu (OnMenuEvent).  A pending press stays.
MenuCloses ==
    /\ frame = "none"
    /\ ed' = [Leave(ed) EXCEPT !.left = ed.window /\ ed.dirty]
    /\ hotkey' = Cancelled(hotkey) /\ asked' = FALSE
    /\ UNCHANGED <<presets, feedback, frame, scope,
                   file, settings, down, input, promised, captive>>

\* A load or a new game; not on the thread of the frames, perhaps.
CloseForLifecycle ==
    /\ ed' = Leave(ed)
    /\ hotkey' = Untouched /\ asked' = FALSE /\ captive' = {}
    /\ frame' = "none"
    /\ UNCHANGED <<presets, feedback, scope, file, settings, down, input, promised>>

-----------------------------------------------------------------------------
(* The camera, on the main thread.                                          *)

Camera == UNCHANGED <<presets, frame, scope, hotkeyVars>>

\* What is requested, or a preset.
CameraShows(pose) ==
    /\ IF ed.request.live THEN pose = ed.request.pose
       ELSE \E i \in DOMAIN presets : presets[i].pose = pose
    /\ feedback' = [active |-> TRUE, applied |-> TRUE, possible |-> TRUE, pose |-> pose]
    /\ ed' = [ed EXCEPT !.current = ed.request.live /\ ed.request.mine]
    /\ Camera

CameraCannot(possible) ==
    /\ feedback' = [NoFeedback EXCEPT !.active = TRUE, !.possible = possible]
    /\ ed' = [ed EXCEPT !.current = FALSE]
    /\ Camera

\* InvalidatePreviewSession: the scene ends or the player may move.
SceneLets(active) ==
    /\ feedback' = [NoFeedback EXCEPT !.active = active]
    /\ ed' = [ed EXCEPT !.session = FALSE, !.request = NoRequest, !.current = FALSE]
    /\ Camera

-----------------------------------------------------------------------------
(* The key, with what this module knows of the editor.                      *)

Beside == UNCHANGED <<presets, ed, feedback, frame, scope>>

\* ShouldHandleEditHotkey; another window may block, no preset be shown.
Keyboard ==
    /\ scope.thread = "frames" => frame = "none"
    /\ \E phase \in {"down", "held", "up"}, key \in scope.keys :
          \E canToggle \in {ed.window, ed.window \/ CanStartPreview} :
             KeyInput(phase, key, canToggle, scope.thread = "frames")
    /\ Beside

Settings ==
    /\ frame = "none"
    /\ \E ok \in BOOLEAN :
          \/ ApplyCapturedEditHotkey(ok)
          \/ /\ ~ed.window /\ scope.sets
             /\ \E d \in BOOLEAN : SetDebugMode(d, ok)
    /\ Beside

Change ==
    /\ ~ed.window /\ scope.sets
    /\ ChangeEditHotkey
    /\ Beside

Store == StoreInput /\ Beside

Restart ==
    /\ scope.sets
    /\ \E ok \in BOOLEAN : Restarted(ok)
    /\ ed' = Closed /\ feedback' = NoFeedback /\ frame' = "none"
    /\ UNCHANGED <<presets, scope>>

-----------------------------------------------------------------------------
Opens == DashboardOpens \/ HudTakesRequest \/ \E id \in IDs : DashboardSelects(id)

Edits == \E pose \in Poses \cup {Invalid} : EditPose(pose)

Clicks ==
    \/ \E action \in Actions \ {"none", "select"} : ClickAction(action, NoID)
    \/ \E id \in IDs : ClickAction("select", id)
    \/ Edits \/ EditName \/ EditFilter
    \/ ClickSave \/ ClickCancelChanges \/ ClickDelete \/ ClickCloseLocked

Answers ==
    \/ SaveAndContinue \/ DiscardAndContinue \/ KeepEditing
    \/ ConfirmDelete \/ DeleteNothing

Shows ==
    \/ \E pose \in Poses : CameraShows(pose)
    \/ \E b \in BOOLEAN : CameraCannot(b) \/ SceneLets(b)

Next ==
    \/ Opens
    \/ FrameTakesRequest \/ BeginFrame \/ Clicks \/ Answers \/ EndFrame
    \/ MenuCloses \/ CloseForLifecycle
    \/ Shows
    \/ Keyboard \/ Store \/ Settings \/ Change \/ Restart

Spec == Init /\ [][Next]_vars

-----------------------------------------------------------------------------
TypeOK ==
    /\ HotkeyTypeOK
    /\ presets \in Seq(Preset)
    /\ \A i, j \in DOMAIN presets : presets[i].id = presets[j].id => i = j
    /\ {ed.window, ed.session, ed.current, ed.creating, ed.dirty, ed.renamed, ed.left}
          \subseteq BOOLEAN
    /\ ed.request \in [live : BOOLEAN, pose : Poses \cup {Invalid}, mine : BOOLEAN]
    /\ {ed.draft, ed.saved} \subseteq Poses \cup {Invalid}
    /\ {ed.selected, ed.target} \subseteq IDs \cup {NoID} /\ ed.pending \in Actions
    /\ ed.popup \in {"none", "unsaved", "delete"}
    /\ feedback \in [active : BOOLEAN, applied : BOOLEAN, possible : BOOLEAN,
                     pose : Poses \cup {Invalid}]
    /\ frame \in {"none", "locked", "editable", "savable"}
    /\ scope \in Scopes

\* preset-settings-spec.md, line 312: in an editor that may edit, unsaved changes
\* go only by what the user asked for - another edit, a save, a cancel, the answer
\* to a question.  Selecting, New, Reload, Close and the key never take them along.
UnsavedIsAsked ==
    [][ /\ ed.window /\ ed.dirty /\ frame # "locked"
        /\ ~ed'.window \/ ed'.draft # ed.draft \/ ed'.selected # ed.selected
           \/ ed'.renamed # ed.renamed \/ ed'.creating # ed.creating
        => \/ Edits \/ EditName \/ EditFilter \/ ClickSave \/ ClickCancelChanges
           \/ Answers
           \/ MenuCloses \/ CloseForLifecycle \/ Restart ]_vars

\* preset-settings-spec.md, line 287: what is saved is what the camera of this
\* scene shows at that moment; after a boundary that took the preview away nothing
\* is saved until the draft has been shown again.
SavedWasSeen ==
    [][ ClickSave \/ SaveAndContinue =>
          /\ feedback.active /\ feedback.applied
          /\ feedback.pose = ed.draft /\ ed.draft \in Poses ]_vars

\* preset-settings-spec.md: the key changes only to one the user pressed after
\* asking for a change that nothing has cancelled since - as long as input and
\* frames share a thread.
AssignmentIsWanted ==
    [][ scope.thread = "frames" /\ settings'.is.key # settings.is.key =>
          asked \/ Restart ]_vars

\* preset-crud-design.md, line 156: unsaved values stay in the editor when the
\* framework closes its menu, and editing goes on when it is opened again.
DraftOutlivesMenuClose ==
    [][ ed.left /\ ~ed.window /\ ed'.window /\ ed'.selected = ed.selected
        => ed'.draft = ed.draft /\ ed'.dirty ]_vars
=============================================================================
