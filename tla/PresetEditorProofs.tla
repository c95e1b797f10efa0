-------------------------- MODULE PresetEditorProofs --------------------------
(***************************************************************************)
(* Proofs about PresetEditor and EditHotkey, for all keys, presets, files  *)
(* edited outside and scopes.                                              *)
(***************************************************************************)
EXTENDS PresetEditor, SequenceTheorems, WellFoundedInduction, TLAPS

-----------------------------------------------------------------------------
(* The inductive invariant.                                                 *)

Hotkeys == [awaiting : BOOLEAN, captured : Assignable \cup {NoKey},
            owned : Keys \cup {NoKey}, requested : BOOLEAN]

\* The settings and the key, whatever the thread of the input.  An input that
\* waits to be stored never holds the key that cannot be assigned.
KeysSound ==
    /\ HotkeyTypeOK
    /\ input # NoInput => input.captured # Escape
    /\ AssignmentLasts

\* On the thread of the frames, a key is awaited, or waits to be assigned, only
\* while the user wants it.
Wanted ==
    scope.thread = "frames" =>
        /\ input = NoInput
        /\ hotkey.awaiting => asked
        /\ hotkey.captured # NoKey => asked

Drafts == Poses \cup {Invalid}
Requests == [live : BOOLEAN, pose : Drafts, mine : BOOLEAN]
Feedbacks == [active : BOOLEAN, applied : BOOLEAN, possible : BOOLEAN, pose : Drafts]
Editors ==
    [window : BOOLEAN, session : BOOLEAN, request : Requests, current : BOOLEAN,
     selected : IDs \cup {NoID}, creating : BOOLEAN, dirty : BOOLEAN,
     draft : Drafts, saved : Drafts, renamed : BOOLEAN,
     pending : Actions, target : IDs \cup {NoID},
     popup : {"none", "unsaved", "delete"}, left : BOOLEAN]

\* No id is there twice.
Listed(list) ==
    /\ list \in Seq(Preset)
    /\ \A i, j \in DOMAIN list : list[i].id = list[j].id => i = j

\* While the window is there and the draft is valid, the request made with its
\* revision is of its pose, and so is what a current feedback shows.
Tracks(d) ==
    /\ d.current => feedback.applied
    /\ d.window /\ d.draft # Invalid =>
          /\ d.request.live /\ d.request.mine => d.request.pose = d.draft
          /\ d.current => feedback.pose = d.draft

Good(d) == d \in Editors /\ Tracks(d)

Seen == feedback \in Feedbacks /\ (feedback.applied => feedback.active)

Framed ==
    /\ frame \in {"none", "locked", "editable", "savable"}
    /\ frame # "none" => ed.window

IInv ==
    /\ KeysSound /\ Wanted
    /\ Listed(presets) /\ Good(ed) /\ Seen /\ Framed
    /\ scope \in Scopes

-----------------------------------------------------------------------------
(* The settings and the key.                                                *)

Idle(h) == ~h.awaiting /\ h.captured = NoKey

\* A cancelled assignment is idle.
LEMMA CancelledIs ==
    ASSUME NEW h \in Hotkeys
    PROVE  /\ Cancelled(h) \in Hotkeys /\ Idle(Cancelled(h))
           /\ [Cancelled(h) EXCEPT !.requested = FALSE] \in Hotkeys
           /\ Idle([Cancelled(h) EXCEPT !.requested = FALSE])
  BY DEF Hotkeys, Cancelled, Idle

\* A stored setting is not the missing file.
LEMMA SavedIsNoFile == NoFile \notin Saved /\ Default \in Saved
  BY HotkeyAssumption DEF NoFile, Saved, Default, Assignable

\* Steps that leave the settings alone, and take no wish back but with the key.
LEMMA GestureKeeps ==
    ASSUME KeysSound, Wanted,
           UNCHANGED <<file, settings, down, input, promised, scope>>,
           hotkey' \in Hotkeys, asked' \in BOOLEAN, captive' \in SUBSET Keys,
           \/ Idle(hotkey')
           \/ /\ hotkey'.awaiting => hotkey.awaiting
              /\ hotkey'.captured = hotkey.captured
              /\ asked => asked'
    PROVE  KeysSound' /\ Wanted'
  <1>1. HotkeyTypeOK'
    BY DEF KeysSound, HotkeyTypeOK, Hotkeys, Decision, NoInput
  <1>2. KeysSound'
    BY <1>1 DEF KeysSound, AssignmentLasts, FileSays, Default
  <1>3. Wanted'
    BY DEF Wanted, Idle
  <1> QED
    BY <1>2, <1>3

\* A write that succeeds, or changes nothing.
LEMMA SavesIs ==
    ASSUME KeysSound, NEW to \in Saved, NEW ok \in BOOLEAN, Saves(to, ok)
    PROVE  /\ file' \in Saved \cup {NoFile} /\ settings' \in [is : Saved, blind : BOOLEAN]
           /\ ok => FileSays' = to /\ settings'.is = to
           /\ ~ok => UNCHANGED <<file, settings>>
  <1>1. CASE ok
    <2>1. file' = to /\ settings' = [is |-> to, blind |-> FALSE]
      BY <1>1 DEF Saves
    <2>2. file' \in Saved /\ file' # NoFile
      BY <2>1, SavedIsNoFile
    <2>3. FileSays' = to /\ settings'.is = to
      BY <2>1, <2>2 DEF FileSays
    <2>4. settings' \in [is : Saved, blind : BOOLEAN]
      BY <2>1
    <2> QED
      BY <1>1, <2>2, <2>3, <2>4
  <1>2. CASE ~ok
    BY <1>2 DEF Saves, KeysSound, HotkeyTypeOK
  <1> QED
    BY <1>1, <1>2

\* A captured key becomes the hotkey, or its write fails.
LEMMA ApplyKeeps ==
    ASSUME KeysSound, Wanted, NEW ok \in BOOLEAN, ApplyCapturedEditHotkey(ok),
           UNCHANGED scope
    PROVE  KeysSound' /\ Wanted'
  <1> USE DEF ApplyCapturedEditHotkey
  <1>1. hotkey \in Hotkeys
    BY DEF KeysSound, HotkeyTypeOK, Hotkeys
  <1>2. hotkey' \in Hotkeys /\ Idle(hotkey')
    BY <1>1, CancelledIs
  <1>3. hotkey.captured \in Assignable
    BY <1>1 DEF Hotkeys
  <1>4. PICK to \in Saved : to = [settings.is EXCEPT !.key = hotkey.captured]
    BY <1>3 DEF KeysSound, HotkeyTypeOK, Saved
  <1>5. Saves(to, ok) /\ to.key = hotkey.captured
    BY <1>4 DEF KeysSound, HotkeyTypeOK, Saved
  <1>6. /\ file' \in Saved \cup {NoFile} /\ settings' \in [is : Saved, blind : BOOLEAN]
        /\ ok => FileSays' = to /\ settings'.is = to
        /\ ~ok => UNCHANGED <<file, settings>>
    BY <1>5, SavesIs
  <1>7. HotkeyTypeOK'
    BY <1>2, <1>3, <1>6 DEF KeysSound, HotkeyTypeOK, Hotkeys, Decision, NoInput
  <1>8. AssignmentLasts'
    <2>1. CASE ok
      BY <1>5, <1>6, <2>1 DEF AssignmentLasts
    <2>2. CASE ~ok
      BY <1>6, <2>2 DEF KeysSound, AssignmentLasts, FileSays, Default
    <2> QED
      BY <2>1, <2>2
  <1>9. Wanted'
    BY <1>2 DEF Wanted, Idle
  <1> QED
    BY <1>7, <1>8, <1>9 DEF KeysSound

\* The debug switch is stored, or its write fails.
LEMMA SetDebugKeeps ==
    ASSUME KeysSound, Wanted, NEW debug \in BOOLEAN, NEW ok \in BOOLEAN,
           SetDebugMode(debug, ok), UNCHANGED scope
    PROVE  KeysSound' /\ Wanted' /\ settings'.is.key = settings.is.key
  <1> USE DEF SetDebugMode
  <1>1. PICK to \in Saved : /\ to = [settings.is EXCEPT !.debug = debug]
                            /\ to.key = settings.is.key
    BY SavedIsNoFile DEF KeysSound, HotkeyTypeOK, Saved
  <1>2. /\ file' \in Saved \cup {NoFile} /\ settings' \in [is : Saved, blind : BOOLEAN]
        /\ ok => FileSays' = to /\ settings'.is = to
        /\ ~ok => UNCHANGED <<file, settings>>
    BY <1>1, SavesIs
  <1>3. HotkeyTypeOK'
    BY <1>2 DEF KeysSound, HotkeyTypeOK, Decision, NoInput
  <1>4. CASE ok
    <2>1. AssignmentLasts'
      BY <1>1, <1>2, <1>4 DEF KeysSound, AssignmentLasts
    <2> QED
      BY <1>1, <1>2, <1>3, <1>4, <2>1 DEF KeysSound, Wanted
  <1>5. CASE ~ok
    BY <1>2, <1>3, <1>5 DEF KeysSound, AssignmentLasts, FileSays, Default, Wanted
  <1> QED
    BY <1>4, <1>5

\* The user asks for another key.
LEMMA ChangeKeeps ==
    ASSUME KeysSound, Wanted, ChangeEditHotkey, UNCHANGED scope
    PROVE  KeysSound' /\ Wanted'
  <1> USE DEF ChangeEditHotkey
  <1>1. hotkey \in Hotkeys
    BY DEF KeysSound, HotkeyTypeOK, Hotkeys
  <1>2. PICK b \in BOOLEAN : b = ~hotkey.awaiting
    OBVIOUS
  <1>3. hotkey' = [hotkey EXCEPT !.awaiting = b, !.captured = NoKey] /\ asked' = b
    BY <1>2
  <1>4. hotkey' \in Hotkeys /\ (hotkey'.awaiting => asked') /\ hotkey'.captured = NoKey
    BY <1>1, <1>3 DEF Hotkeys
  <1>5. HotkeyTypeOK'
    BY <1>3, <1>4 DEF KeysSound, HotkeyTypeOK, Hotkeys, Decision, NoInput
  <1>6. KeysSound'
    BY <1>5 DEF KeysSound, AssignmentLasts, FileSays, Default
  <1>7. Wanted'
    BY <1>4 DEF Wanted
  <1> QED
    BY <1>6, <1>7

\* What a decision says.
LEMMA DecideIs ==
    ASSUME KeysSound, NEW phase \in {"down", "held", "up"}, NEW key \in Keys,
           NEW canToggle \in BOOLEAN, NEW decision,
           decision = Decide(phase, key, canToggle)
    PROVE  /\ decision \in Decision /\ decision.captured # Escape
           /\ decision.finish => hotkey.awaiting
  <1>1. hotkey \in Hotkeys /\ NoKey # Escape
    BY HotkeyAssumption DEF KeysSound, HotkeyTypeOK, Hotkeys
  <1>2. PICK captured \in Keys \cup {NoKey} :
            captured = (IF key = Escape THEN NoKey ELSE key) /\ captured # Escape
    BY <1>1
  <1>3. PICK owned \in Keys \cup {NoKey} : owned = IF phase = "held" THEN key ELSE NoKey
    OBVIOUS
  <1>4. \/ decision = [PassOn(key) EXCEPT !.consume = TRUE, !.owned = owned]
        \/ /\ hotkey.awaiting
           /\ decision = [PassOn(key) EXCEPT !.consume = TRUE, !.finish = TRUE,
                                             !.owned = key, !.captured = captured]
        \/ decision = [PassOn(key) EXCEPT !.consume = TRUE, !.toggle = TRUE, !.owned = key]
        \/ decision = PassOn(key)
    BY <1>2, <1>3 DEF Decide
  <1>5. CASE decision = [PassOn(key) EXCEPT !.consume = TRUE, !.owned = owned]
    BY <1>1, <1>5 DEF PassOn, Decision
  <1>6. CASE /\ hotkey.awaiting
             /\ decision = [PassOn(key) EXCEPT !.consume = TRUE, !.finish = TRUE,
                                               !.owned = key, !.captured = captured]
    <2>1. decision = [key |-> key, consume |-> TRUE, toggle |-> FALSE, finish |-> TRUE,
                      captured |-> captured, owned |-> key]
      BY <1>6 DEF PassOn
    <2>2. decision \in Decision /\ decision.captured # Escape
      BY <1>2, <2>1 DEF Decision
    <2> QED
      BY <1>6, <2>2
  <1>7. CASE decision = [PassOn(key) EXCEPT !.consume = TRUE, !.toggle = TRUE, !.owned = key]
    BY <1>1, <1>7 DEF PassOn, Decision
  <1>8. CASE decision = PassOn(key)
    BY <1>1, <1>8 DEF PassOn, Decision
  <1> QED
    BY <1>4, <1>5, <1>6, <1>7, <1>8

\* What is stored of a decision.
LEMMA StoresIs ==
    ASSUME KeysSound, NEW decision \in Decision, decision.captured # Escape,
           NEW held \in SUBSET Keys, Stores(decision, held)
    PROVE  /\ hotkey' \in Hotkeys /\ asked' \in BOOLEAN /\ captive' \in SUBSET Keys
           /\ ~decision.finish => /\ hotkey'.awaiting => hotkey.awaiting
                                  /\ hotkey'.captured = hotkey.captured
                                  /\ asked => asked'
           /\ decision.finish => /\ ~hotkey'.awaiting
                                 /\ hotkey'.captured = decision.captured
                                 /\ hotkey'.captured # NoKey /\ asked => asked'
  <1> USE DEF Stores
  <1>1. hotkey \in Hotkeys /\ asked \in BOOLEAN
    BY DEF KeysSound, HotkeyTypeOK, Hotkeys
  <1>2. PICK awaiting \in BOOLEAN : awaiting = (hotkey.awaiting /\ ~decision.finish)
    OBVIOUS
  <1>3. PICK requested \in BOOLEAN : requested = (hotkey.requested \/ decision.toggle)
    OBVIOUS
  <1>4. PICK captured \in Assignable \cup {NoKey} :
            captured = IF decision.finish THEN decision.captured ELSE hotkey.captured
    BY <1>1 DEF Decision, Hotkeys, Assignable
  <1>5. hotkey' = [awaiting |-> awaiting, captured |-> captured,
                   owned |-> decision.owned, requested |-> requested]
    BY <1>2, <1>3, <1>4
  <1>6. hotkey' \in Hotkeys
    BY <1>5 DEF Hotkeys, Decision
  <1>7. hotkey'.awaiting = awaiting /\ hotkey'.captured = captured
    BY <1>5
  <1>8. asked' \in BOOLEAN /\ captive' \in SUBSET Keys
    OBVIOUS
  <1>9. ~decision.finish => /\ hotkey'.awaiting => hotkey.awaiting
                            /\ hotkey'.captured = hotkey.captured
                            /\ asked => asked'
    BY <1>2, <1>4, <1>7
  <1>10. decision.finish => /\ ~hotkey'.awaiting
                            /\ hotkey'.captured = decision.captured
                            /\ hotkey'.captured # NoKey /\ asked => asked'
    BY <1>2, <1>4, <1>7
  <1> QED
    BY <1>6, <1>8, <1>9, <1>10

\* A key of the keyboard, decided and, on one thread, stored at once.
LEMMA KeyInputKeeps ==
    ASSUME KeysSound, Wanted, NEW phase \in {"down", "held", "up"}, NEW key \in Keys,
           NEW canToggle \in BOOLEAN,
           KeyInput(phase, key, canToggle, scope.thread = "frames"), UNCHANGED scope
    PROVE  KeysSound' /\ Wanted'
  <1> USE DEF KeyInput
  <1>1. PICK decision : decision = Decide(phase, key, canToggle)
    OBVIOUS
  <1>2. /\ decision \in Decision /\ decision.captured # Escape
        /\ decision.finish => hotkey.awaiting
    BY <1>1, DecideIs
  <1>3. down' \in SUBSET Keys /\ down' = Held(phase, key)
    BY DEF Held, KeysSound, HotkeyTypeOK
  <1>4. UNCHANGED <<file, settings, promised, scope>>
    OBVIOUS
  <1>5. CASE scope.thread = "frames"
    <2>1. Stores(decision, down') /\ UNCHANGED input
      BY <1>1, <1>3, <1>5
    <2>2. /\ hotkey' \in Hotkeys /\ asked' \in BOOLEAN /\ captive' \in SUBSET Keys
          /\ ~decision.finish => /\ hotkey'.awaiting => hotkey.awaiting
                                 /\ hotkey'.captured = hotkey.captured
                                 /\ asked => asked'
          /\ decision.finish => /\ ~hotkey'.awaiting
                                /\ hotkey'.captured # NoKey /\ asked => asked'
      BY <1>2, <1>3, <2>1, StoresIs
    <2>3. HotkeyTypeOK'
      BY <1>3, <1>4, <2>1, <2>2 DEF KeysSound, HotkeyTypeOK, Hotkeys, Decision, NoInput
    <2>4. KeysSound'
      BY <1>4, <2>1, <2>3 DEF KeysSound, AssignmentLasts, FileSays, Default
    <2>5. Wanted'
      BY <1>2, <1>5, <2>1, <2>2 DEF Wanted
    <2> QED
      BY <2>4, <2>5
  <1>6. CASE scope.thread # "frames"
    <2>1. input' = decision /\ UNCHANGED <<hotkey, asked, captive>>
      BY <1>1, <1>6
    <2>2. HotkeyTypeOK'
      BY <1>2, <1>3, <1>4, <2>1 DEF KeysSound, HotkeyTypeOK
    <2>3. KeysSound'
      BY <1>2, <1>4, <2>1, <2>2 DEF KeysSound, AssignmentLasts, FileSays, Default
    <2> QED
      BY <1>4, <1>6, <2>3 DEF Wanted
  <1> QED
    BY <1>5, <1>6

\* What was decided is stored later, on the thread of the input.
LEMMA StoreInputKeeps ==
    ASSUME KeysSound, Wanted, StoreInput, UNCHANGED scope
    PROVE  KeysSound' /\ Wanted'
  <1> USE DEF StoreInput
  <1>1. input \in Decision /\ input.captured # Escape /\ down \in SUBSET Keys
    BY DEF KeysSound, HotkeyTypeOK
  <1>2. hotkey' \in Hotkeys /\ asked' \in BOOLEAN /\ captive' \in SUBSET Keys
    BY <1>1, StoresIs
  <1>3. HotkeyTypeOK'
    BY <1>2 DEF KeysSound, HotkeyTypeOK, Hotkeys
  <1>4. KeysSound'
    BY <1>3 DEF KeysSound, AssignmentLasts, FileSays, Default
  <1> QED
    BY <1>4 DEF Wanted

\* The game starts anew and loads the settings.
LEMMA RestartedKeeps ==
    ASSUME KeysSound, Wanted, NEW ok \in BOOLEAN, Restarted(ok), UNCHANGED scope
    PROVE  KeysSound' /\ Wanted'
  <1> USE DEF Restarted
  <1>1. FileSays \in Saved
    BY SavedIsNoFile DEF FileSays, KeysSound, HotkeyTypeOK
  <1>2. settings' = [is |-> IF ok THEN FileSays ELSE Default, blind |-> ~ok]
    BY DEF Loaded
  <1>3. settings' \in [is : Saved, blind : BOOLEAN]
    BY <1>1, <1>2, SavedIsNoFile
  <1>4. settings'.is = FileSays' \/ settings'.blind
    <2>1. CASE ok
      BY <1>2, <2>1 DEF FileSays, Default
    <2>2. CASE ~ok
      <3>1. settings' = [is |-> Default, blind |-> TRUE]
        <4>1. ok = FALSE
          BY <2>2
        <4> QED
          BY <1>2, <4>1
      <3> QED
        BY <3>1
    <2> QED
      BY <2>1, <2>2
  <1>5. hotkey' \in Hotkeys /\ Idle(hotkey')
    BY DEF Hotkeys, Idle, Untouched
  <1>6. HotkeyTypeOK'
    <2>1. file' \in Saved \cup {NoFile} /\ promised' \in Assignable \cup {NoKey}
      BY DEF KeysSound, HotkeyTypeOK
    <2>2. {down', captive'} \subseteq SUBSET Keys /\ input' = NoInput /\ asked' \in BOOLEAN
      OBVIOUS
    <2> QED
      BY <1>3, <1>5, <2>1, <2>2 DEF HotkeyTypeOK, Hotkeys
  <1>7. AssignmentLasts'
    BY <1>4 DEF KeysSound, AssignmentLasts, FileSays, Default
  <1> QED
    BY <1>5, <1>6, <1>7 DEF KeysSound, Wanted, Idle

-----------------------------------------------------------------------------
(* The list of presets.                                                     *)

\* An id of the list has its place there.
LEMMA IndexIs ==
    ASSUME NEW list \in Seq(Preset), NEW id, HasID(list, id)
    PROVE  /\ Index(list, id) \in DOMAIN list
           /\ WithID(list, id) \in Preset /\ WithID(list, id).id = id
  <1>1. \E i \in DOMAIN list : list[i].id = id
    BY DEF HasID
  <1>2. Index(list, id) \in DOMAIN list /\ list[Index(list, id)].id = id
    BY <1>1, Zenon DEF Index
  <1> QED
    BY <1>2, LenProperties, ElementOfSeq DEF WithID

\* A list without one of its presets.
LEMMA RemovedIsListed ==
    ASSUME NEW list, Listed(list), NEW k \in DOMAIN list
    PROVE  Listed(RemoveAt(list, k))
  <1>1. PICK n \in Nat : /\ n = Len(list) /\ DOMAIN list = 1 .. n
                         /\ k \in 1 .. n /\ list \in Seq(Preset)
    BY LenProperties DEF Listed
  <1>2. PICK a : a = SubSeq(list, 1, k - 1)
    OBVIOUS
  <1>3. PICK b : b = SubSeq(list, k + 1, n)
    OBVIOUS
  <1>4. PICK rest : rest = RemoveAt(list, k) /\ rest = a \o b
    BY <1>1, <1>2, <1>3 DEF RemoveAt
  <1>5. \A i \in 1 .. n : list[i] \in Preset
    BY <1>1, ElementOfSeq
  <1>6. /\ a \in Seq(Preset) /\ Len(a) = k - 1
        /\ \A i \in 1 .. k - 1 : a[i] = list[i]
    <2>1. 1 \in Int /\ k - 1 \in Int /\ \A i \in 1 .. k - 1 : list[i] \in Preset
      BY <1>1, <1>5
    <2>2. /\ a \in Seq(Preset) /\ Len(a) = IF 1 <= k - 1 THEN k - 1 - 1 + 1 ELSE 0
          /\ \A i \in 1 .. k - 1 - 1 + 1 : a[i] = list[1 + i - 1]
      BY <1>2, <2>1, SubSeqProperties
    <2> QED
      BY <1>1, <2>2
  <1>7. /\ b \in Seq(Preset) /\ Len(b) = n - k
        /\ \A i \in 1 .. n - k : b[i] = list[k + i]
    <2>1. /\ k + 1 \in Int /\ n \in Int
          /\ \A i \in k + 1 .. n : list[i] \in Preset
      BY <1>1, <1>5
    <2>2. /\ b \in Seq(Preset)
          /\ Len(b) = IF k + 1 <= n THEN n - (k + 1) + 1 ELSE 0
          /\ \A i \in 1 .. n - (k + 1) + 1 : b[i] = list[k + 1 + i - 1]
      BY <1>3, <2>1, SubSeqProperties
    <2>3. Len(b) = n - k
      BY <1>1, <2>2
    <2>4. ASSUME NEW i \in 1 .. n - k
          PROVE  b[i] = list[k + i]
      <3>1. i \in 1 .. n - (k + 1) + 1 /\ k + 1 + i - 1 = k + i
        BY <1>1
      <3> QED
        BY <2>2, <3>1
    <2> QED
      BY <2>2, <2>3, <2>4
  <1>8. /\ rest \in Seq(Preset) /\ Len(rest) = n - 1
        /\ \A i \in 1 .. n - 1 : rest[i] = IF i <= k - 1 THEN list[i] ELSE list[i + 1]
    <2>1. a \in Seq(Preset) /\ b \in Seq(Preset) /\ rest = a \o b
      BY <1>4, <1>6, <1>7
    <2>2. /\ rest \in Seq(Preset) /\ Len(rest) = Len(a) + Len(b)
          /\ \A i \in 1 .. Len(a) + Len(b) :
                rest[i] = IF i <= Len(a) THEN a[i] ELSE b[i - Len(a)]
      BY <2>1, ConcatProperties
    <2>3. /\ rest \in Seq(Preset) /\ Len(rest) = n - 1
          /\ \A i \in 1 .. n - 1 :
                rest[i] = IF i <= k - 1 THEN a[i] ELSE b[i - (k - 1)]
      BY <1>1, <1>6, <1>7, <2>2, SMTT(30)
    <2>4. ASSUME NEW i \in 1 .. n - 1
          PROVE  rest[i] = IF i <= k - 1 THEN list[i] ELSE list[i + 1]
      <3>1. CASE i <= k - 1
        BY <1>1, <1>6, <2>3, <3>1
      <3>2. CASE ~(i <= k - 1)
        <4>1. i - (k - 1) \in 1 .. n - k /\ k + (i - (k - 1)) = i + 1
          BY <1>1, <3>2
        <4>2. b[i - (k - 1)] = list[i + 1]
          BY <1>7, <4>1
        <4> QED
          BY <2>3, <3>2, <4>2
      <3> QED
        BY <3>1, <3>2
    <2> QED
      BY <2>3, <2>4
  <1>9. DOMAIN rest = 1 .. n - 1
    BY <1>8, LenProperties
  <1>10. \A i, j \in 1 .. n : list[i].id = list[j].id => i = j
    BY <1>1 DEF Listed
  <1>11. ASSUME NEW i \in DOMAIN rest, NEW j \in DOMAIN rest, rest[i].id = rest[j].id
         PROVE  i = j
    <2>1. PICK x \in 1 .. n :
             x = (IF i <= k - 1 THEN i ELSE i + 1) /\ rest[i] = list[x]
      BY <1>1, <1>8, <1>9
    <2>2. PICK y \in 1 .. n :
             y = (IF j <= k - 1 THEN j ELSE j + 1) /\ rest[j] = list[y]
      BY <1>1, <1>8, <1>9
    <2>3. x = y
      BY <1>10, <1>11, <2>1, <2>2
    <2> QED
      BY <1>1, <1>9, <2>1, <2>2, <2>3
  <1> QED
    BY <1>4, <1>8, <1>11 DEF Listed

\* A list with a new one.
LEMMA AppendedIsListed ==
    ASSUME NEW list, Listed(list), NEW preset \in Preset, ~HasID(list, preset.id)
    PROVE  Listed(Append(list, preset))
  <1>1. PICK more : more = Append(list, preset)
    OBVIOUS
  <1>2. /\ more \in Seq(Preset) /\ Len(more) = Len(list) + 1
        /\ \A i \in 1 .. Len(list) : more[i] = list[i]
        /\ more[Len(list) + 1] = preset
    BY <1>1, AppendProperties DEF Listed
  <1>3. /\ DOMAIN more = 1 .. Len(more) /\ DOMAIN list = 1 .. Len(list)
        /\ Len(list) \in Nat
    BY <1>2, LenProperties DEF Listed
  <1>4. \A i \in DOMAIN list : list[i].id # preset.id
    BY DEF HasID
  <1>5. \A i, j \in DOMAIN more : more[i].id = more[j].id => i = j
    BY <1>2, <1>3, <1>4 DEF Listed
  <1> QED
    BY <1>1, <1>2, <1>5 DEF Listed

\* A list with one of them replaced.
LEMMA ReplacedIsListed ==
    ASSUME NEW list, Listed(list), NEW preset \in Preset
    PROVE  Listed([i \in DOMAIN list |-> IF list[i].id = preset.id THEN preset ELSE list[i]])
  <1>1. PICK now : now = [i \in DOMAIN list |->
                             IF list[i].id = preset.id THEN preset ELSE list[i]]
    OBVIOUS
  <1>2. DOMAIN list = 1 .. Len(list) /\ Len(list) \in Nat /\ list \in Seq(Preset)
    BY LenProperties DEF Listed
  <1>3. \A i \in DOMAIN list : list[i] \in Preset
    BY <1>2, ElementOfSeq
  <1>4. now \in [1 .. Len(list) -> Preset]
    BY <1>1, <1>2, <1>3
  <1>5. now \in Seq(Preset)
    BY <1>2, <1>4, SeqDef
  <1>6. DOMAIN now = DOMAIN list /\ \A i \in DOMAIN list : now[i].id = list[i].id
    BY <1>1
  <1> QED
    BY <1>1, <1>5, <1>6 DEF Listed

-----------------------------------------------------------------------------
(* The pieces of the editor.                                                *)

\* A pose is a valid draft.
LEMMA PosesAre == Invalid \notin Poses /\ Poses \subseteq Drafts /\ Invalid \in Drafts
  BY DEF Invalid, Poses, Drafts

\* What PublishDraft makes of an editor: its request is of the draft.
LEMMA PublishIs ==
    ASSUME NEW d \in Editors, d.current => feedback.applied,
           NEW e, e = PublishDraft(d)
    PROVE  /\ Good(e)
           /\ (d.window => e.window) /\ (e.window => d.window)
           /\ e.selected = d.selected /\ e.draft = d.draft /\ e.saved = d.saved
           /\ (e.creating <=> d.creating) /\ (e.dirty <=> d.dirty)
           /\ (e.renamed <=> d.renamed)
           /\ (e.current => d.current)
  <1>1. CASE d.draft = Invalid
    BY <1>1 DEF PublishDraft, Good, Tracks
  <1>2. CASE d.draft # Invalid
    <2>1. e = [d EXCEPT !.request = [live |-> TRUE, pose |-> d.draft, mine |-> TRUE],
                        !.current = FALSE]
      BY <1>2 DEF PublishDraft
    <2>2. PICK q \in Requests : q = [live |-> TRUE, pose |-> d.draft, mine |-> TRUE]
      BY DEF Editors, Requests
    <2>3. e \in Editors
      BY <2>1, <2>2 DEF Editors
    <2>4. /\ e.request.pose = e.draft /\ ~e.current
          /\ e.window = d.window /\ e.selected = d.selected /\ e.draft = d.draft
          /\ e.saved = d.saved /\ e.creating = d.creating /\ e.dirty = d.dirty
          /\ e.renamed = d.renamed
      BY <2>1 DEF Editors
    <2>5. Tracks(e)
      BY <2>4 DEF Tracks
    <2> QED
      BY <2>3, <2>4, <2>5 DEF Good
  <1> QED
    BY <1>1, <1>2

\* What ClearPreview makes of an editor: no request is live.
LEMMA ClearIs ==
    ASSUME NEW d \in Editors, NEW e, e = ClearPreview(d)
    PROVE  /\ e \in Editors /\ ~e.request.live
           /\ (d.window => e.window) /\ (e.window => d.window)
           /\ e.selected = d.selected /\ e.draft = d.draft /\ e.saved = d.saved
           /\ (e.creating <=> d.creating) /\ (e.dirty <=> d.dirty)
           /\ (e.renamed <=> d.renamed)
           /\ (e.current => d.current)
  <1>1. CASE d.request.live
    <2>1. e = [d EXCEPT !.request = NoRequest]
      BY <1>1 DEF ClearPreview
    <2>2. NoRequest \in Requests /\ ~NoRequest.live
      BY PosesAre DEF Requests, NoRequest
    <2>3. e \in Editors /\ e.request = NoRequest
      BY <2>1, <2>2 DEF Editors
    <2> QED
      BY <2>1, <2>2, <2>3 DEF Editors
  <1>2. CASE ~d.request.live
    BY <1>2 DEF ClearPreview
  <1> QED
    BY <1>1, <1>2

\* What SelectPreset makes of an editor, before it publishes.
LEMMA SelectPresetIs ==
    ASSUME NEW d \in Editors, NEW preset \in Preset, NEW e, e = SelectPreset(d, preset)
    PROVE  /\ e \in Editors
           /\ (d.window => e.window) /\ (e.window => d.window)
           /\ e.draft \in Poses /\ (e.current => d.current)
  <1>1. preset.id \in IDs /\ preset.pose \in Poses
    BY DEF Preset
  <1>2. e = [d EXCEPT !.selected = preset.id, !.saved = preset.pose, !.draft = preset.pose,
                      !.renamed = FALSE, !.creating = FALSE, !.dirty = FALSE]
    BY DEF SelectPreset
  <1> QED
    BY <1>1, <1>2, PosesAre, ZenonT(40) DEF Editors

\* The first preset of a list is selected, or none.
LEMMA SelectFirstKeeps ==
    ASSUME NEW d \in Editors, d.current => feedback.applied, NEW list \in Seq(Preset),
           NEW e, e = SelectFirstPreset(d, list)
    PROVE  Good(e) /\ (d.window => e.window) /\ (e.window => d.window)
  <1>1. CASE list = <<>>
    <2>1. PICK n : n = [d EXCEPT !.selected = NoID, !.saved = Invalid,
                                 !.draft = Invalid, !.creating = FALSE, !.dirty = FALSE]
      OBVIOUS
    <2>2. n \in Editors /\ n.draft = Invalid /\ n.window = d.window /\ n.current = d.current
      BY <2>1, PosesAre DEF Editors
    <2>3. e = ClearPreview(n)
      BY <1>1, <2>1 DEF SelectFirstPreset, SelectNone
    <2>4. /\ e \in Editors /\ e.draft = Invalid /\ (e.current => n.current)
          /\ (n.window => e.window) /\ (e.window => n.window)
      BY <2>2, <2>3, ClearIs
    <2> QED
      BY <2>2, <2>4 DEF Good, Tracks
  <1>2. CASE list # <<>>
    <2>1. list[1] \in Preset
      BY <1>2, ElementOfSeq, EmptySeq, LenProperties
    <2>2. PICK p : p = SelectPreset(d, list[1])
      OBVIOUS
    <2>3. /\ p \in Editors /\ (p.current => d.current)
          /\ (d.window => p.window) /\ (p.window => d.window)
      BY <2>1, <2>2, SelectPresetIs
    <2>4. e = PublishDraft(p)
      BY <1>2, <2>2 DEF SelectFirstPreset
    <2> QED
      BY <2>3, <2>4, PublishIs
  <1> QED
    BY <1>1, <1>2

\* A preset is selected by its id.
LEMMA SelectByIDKeeps ==
    ASSUME NEW d \in Editors, d.current => feedback.applied, NEW list \in Seq(Preset),
           NEW id, NEW e, e = SelectPresetByID(d, list, id)
    PROVE  Good(e) /\ (d.window => e.window) /\ (e.window => d.window)
  <1>1. CASE HasID(list, id)
    <2>1. WithID(list, id) \in Preset
      BY <1>1, IndexIs
    <2>2. PICK p : p = SelectPreset(d, WithID(list, id))
      OBVIOUS
    <2>3. /\ p \in Editors /\ (p.current => d.current)
          /\ (d.window => p.window) /\ (p.window => d.window)
      BY <2>1, <2>2, SelectPresetIs
    <2>4. e = PublishDraft(p)
      BY <1>1, <2>2 DEF SelectPresetByID
    <2> QED
      BY <2>3, <2>4, PublishIs
  <1>2. CASE ~HasID(list, id)
    BY <1>2, SelectFirstKeeps DEF SelectPresetByID
  <1> QED
    BY <1>1, <1>2

\* A new preset is begun.
LEMMA BeginKeeps ==
    ASSUME NEW d \in Editors, d.current => feedback.applied, NEW pose \in Drafts,
           NEW e, e = Begin(d, pose)
    PROVE  Good(e) /\ (d.window => e.window) /\ (e.window => d.window)
  <1>1. PICK b : b = [d EXCEPT !.selected = NoID, !.creating = TRUE, !.dirty = TRUE,
                               !.draft = pose, !.saved = pose, !.renamed = FALSE]
    OBVIOUS
  <1>2. b \in Editors /\ b.window = d.window /\ b.current = d.current
    BY <1>1 DEF Editors
  <1>3. e = PublishDraft(b)
    BY <1>1 DEF Begin
  <1> QED
    BY <1>2, <1>3, PublishIs

\* The draft goes back to what was saved.
LEMMA CancelDraftKeeps ==
    ASSUME Listed(presets), NEW d, Good(d), NEW closing, NEW e, e = CancelDraft(d, closing)
    PROVE  Good(e) /\ (d.window => e.window) /\ (e.window => d.window)
  <1>1. d \in Editors /\ (d.current => feedback.applied)
    BY DEF Good, Tracks
  <1>2. CASE ~d.creating
    <2>1. PICK b : b = [d EXCEPT !.draft = d.saved, !.renamed = FALSE, !.dirty = FALSE]
      OBVIOUS
    <2>2. b \in Editors /\ b.window = d.window /\ b.current = d.current
      BY <1>1, <2>1 DEF Editors
    <2>3. e = PublishDraft(b)
      BY <1>2, <2>1 DEF CancelDraft
    <2> QED
      BY <1>1, <2>2, <2>3, PublishIs
  <1>3. CASE d.creating /\ closing
    <2>1. PICK r : r = [d.request EXCEPT !.mine = FALSE]
      OBVIOUS
    <2>2. e = [d EXCEPT !.selected = NoID, !.saved = Invalid, !.draft = Invalid,
                        !.creating = FALSE, !.dirty = FALSE, !.current = FALSE,
                        !.request = r]
      BY <1>1, <1>3, <2>1 DEF CancelDraft, Editors
    <2>3. r \in Requests
      BY <1>1, <2>1 DEF Editors, Requests
    <2>4. Invalid \in Drafts /\ d \in Editors
      BY <1>1, PosesAre
    <2>5. e \in Editors
      BY <2>2, <2>3, <2>4, ZenonT(40) DEF Editors
    <2>6. e.draft = Invalid /\ ~e.current /\ e.window = d.window
      BY <2>2, <2>4 DEF Editors
    <2> QED
      BY <2>5, <2>6 DEF Good, Tracks
  <1>4. CASE d.creating /\ ~closing
    <2>1. e = SelectFirstPreset(d, presets)
      BY <1>4 DEF CancelDraft
    <2> QED
      BY <1>1, <2>1, SelectFirstKeeps DEF Listed
  <1> QED
    BY <1>2, <1>3, <1>4

\* The window goes away, with the request.
LEMMA LeaveKeeps ==
    ASSUME NEW d, Good(d), NEW e, e = Leave(d)
    PROVE  Good(e) /\ ~e.window /\ e.draft = d.draft /\ e.selected = d.selected
  <1>1. PICK c : c = ClearPreview(d)
    OBVIOUS
  <1>2. c \in Editors /\ c.draft = d.draft /\ c.selected = d.selected /\ (c.current => d.current)
    BY <1>1, ClearIs DEF Good
  <1>3. e = [c EXCEPT !.window = FALSE, !.session = FALSE]
    BY <1>1 DEF Leave
  <1>4. e \in Editors /\ ~e.window /\ e.draft = c.draft /\ e.selected = c.selected
        /\ e.current = c.current
    BY <1>2, <1>3 DEF Editors
  <1> QED
    BY <1>2, <1>4 DEF Good, Tracks

\* The editor closes.
LEMMA CloseKeeps ==
    ASSUME NEW d, Good(d), NEW e, e = CloseEditor(d)
    PROVE  Good(e) /\ ~e.window
  <1>1. PICK l : l = Leave(d)
    OBVIOUS
  <1>2. Good(l) /\ ~l.window
    BY <1>1, LeaveKeeps
  <1>3. e = [l EXCEPT !.pending = "none"]
    BY <1>1 DEF CloseEditor
  <1>4. e \in Editors /\ ~e.window /\ e.current = l.current
    BY <1>2, <1>3 DEF Good, Editors, Actions
  <1> QED
    BY <1>2, <1>4 DEF Good, Tracks

-----------------------------------------------------------------------------
(* A frame of the editor.                                                   *)

\* What a click, an answer or the end of a frame comes to.
EditorStep ==
    /\ Good(ed') /\ Listed(presets')
    /\ hotkey' \in {hotkey, Cancelled(hotkey)}
    /\ frame' = "none" /\ Quiet

\* The four atomics have their types.
LEMMA HotkeyIs == KeysSound => hotkey \in Hotkeys
  BY DEF KeysSound, HotkeyTypeOK, Hotkeys

\* A step of the editor leaves the key alone or cancels its assignment.
LEMMA SettledKeys ==
    ASSUME KeysSound, Wanted, hotkey' \in {hotkey, Cancelled(hotkey)},
           UNCHANGED <<hotkeyRest, scope>>
    PROVE  KeysSound' /\ Wanted'
  <1>1. hotkey \in Hotkeys
    BY HotkeyIs
  <1>2. hotkey' \in Hotkeys
    BY <1>1, CancelledIs
  <1>3. /\ UNCHANGED <<file, settings, down, input, promised, scope>>
        /\ asked' \in BOOLEAN /\ captive' \in SUBSET Keys /\ asked' = asked
    BY DEF hotkeyRest, KeysSound, HotkeyTypeOK
  <1>4. CASE hotkey' = hotkey
    BY <1>2, <1>3, <1>4, GestureKeeps
  <1>5. CASE hotkey' = Cancelled(hotkey)
    BY <1>1, <1>2, <1>3, <1>5, GestureKeeps, CancelledIs
  <1> QED
    BY <1>4, <1>5

\* What is good of the next editor is good of it in the next state.
LEMMA GoodStays ==
    ASSUME Good(ed'), UNCHANGED feedback
    PROVE  Good(ed)'
  BY DEF Good, Tracks

\* A step of the editor within a frame keeps the invariant.
LEMMA EditorStepKeeps ==
    ASSUME IInv, EditorStep
    PROVE  IInv'
  <1>1. KeysSound' /\ Wanted'
    BY SettledKeys DEF IInv, EditorStep, Quiet
  <1>2. Good(ed)' /\ Listed(presets)'
    BY GoodStays DEF EditorStep, Quiet
  <1>3. Seen' /\ Framed' /\ (scope \in Scopes)'
    BY DEF IInv, EditorStep, Quiet, Seen, Framed
  <1> QED
    BY <1>1, <1>2, <1>3 DEF IInv

\* A pending action is run, once nothing stands against it.
LEMMA RunKeeps ==
    ASSUME IInv, NEW d, Good(d), NEW action, NEW id, NEW list, Listed(list),
           Run(d, action, id, list)
    PROVE  Good(ed') /\ Listed(presets') /\ hotkey' \in {hotkey, Cancelled(hotkey)}
  <1>1. d \in Editors /\ (d.current => feedback.applied) /\ list \in Seq(Preset)
    BY DEF Good, Tracks, Listed
  <1>2. CASE action = "select" /\ ed' = SelectPresetByID(d, list, id) /\ presets' = list
             /\ UNCHANGED hotkey
    BY <1>1, <1>2, SelectByIDKeeps
  <1>3. CASE action = "new" /\ ed' = Begin(d, "new") /\ presets' = list /\ UNCHANGED hotkey
    <2>1. "new" \in Drafts
      BY DEF Drafts, Poses
    <2> QED
      BY <1>1, <1>3, <2>1, BeginKeeps
  <1>4. CASE /\ ed' = IF feedback.pose = Invalid THEN d ELSE Begin(d, feedback.pose)
             /\ presets' = list /\ UNCHANGED hotkey
    <2>1. feedback.pose \in Drafts
      BY DEF IInv, Seen, Feedbacks
    <2> QED
      BY <1>1, <1>4, <2>1, BeginKeeps
  <1>5. CASE ed' = d /\ presets' = list /\ UNCHANGED hotkey
    BY <1>5
  <1>6. CASE /\ UNCHANGED hotkey
             /\ \E outside \in Reloads :
                   ed' = SelectFirstPreset(d, outside) /\ presets' = outside
    <2>1. PICK outside \in Reloads :
                   ed' = SelectFirstPreset(d, outside) /\ presets' = outside
      BY <1>6
    <2>2. Listed(outside)
      BY EditorAssumption DEF Listed
    <2>3. Good(ed')
      BY <1>1, <2>1, <2>2, SelectFirstKeeps DEF Listed
    <2> QED
      BY <1>6, <2>1, <2>2, <2>3
  <1>7. CASE ed' = CloseEditor(d) /\ presets' = list /\ hotkey' = Cancelled(hotkey)
    BY <1>7, CloseKeeps
  <1> QED
    BY <1>2, <1>3, <1>4, <1>5, <1>6, <1>7 DEF Run

\* A button of the toolbar.
LEMMA ClickActionKeeps ==
    ASSUME IInv, NEW action \in Actions, NEW id \in IDs \cup {NoID}, ClickAction(action, id)
    PROVE  EditorStep
  <1>1. Good(ed) /\ Listed(presets) /\ frame' = "none" /\ Quiet
    BY DEF IInv, ClickAction, Click
  <1>2. CASE ~ed.dirty
    <2>1. PICK d : d = [ed EXCEPT !.target = NoID]
      OBVIOUS
    <2>2. /\ d \in Editors /\ d.window = ed.window /\ d.draft = ed.draft
          /\ d.request = ed.request /\ d.current = ed.current
      BY <1>1, <2>1 DEF Good, Editors
    <2>3. Good(d)
      BY <1>1, <2>2 DEF Good, Tracks
    <2>4. Run(d, action, id, presets)
      BY <1>2, <2>1 DEF ClickAction, RequestAction
    <2> QED
      BY <1>1, <2>3, <2>4, RunKeeps DEF EditorStep
  <1>3. CASE ed.dirty
    <2>1. /\ ed' = [ed EXCEPT !.pending = action, !.target = id, !.popup = "unsaved"]
          /\ UNCHANGED <<presets, hotkey>>
      BY <1>3 DEF ClickAction, RequestAction
    <2>2. /\ ed' \in Editors /\ ed'.window = ed.window /\ ed'.draft = ed.draft
          /\ ed'.request = ed.request /\ ed'.current = ed.current
      BY <1>1, <2>1 DEF Good, Editors
    <2>3. Good(ed')
      BY <1>1, <2>2 DEF Good, Tracks
    <2> QED
      BY <1>1, <2>1, <2>3 DEF EditorStep
  <1> QED
    BY <1>2, <1>3

\* An edit of the draft marks it as unsaved where it is.
LEMMA EditIs ==
    ASSUME IInv, NEW d, Good(d), Edit(d)
    PROVE  EditorStep
  <1>1. PICK b \in BOOLEAN : b = (d.creating \/ d.renamed \/ d.draft # d.saved)
    OBVIOUS
  <1>2. ed' = [d EXCEPT !.dirty = b]
    BY <1>1 DEF Edit
  <1>3. /\ ed' \in Editors /\ ed'.window = d.window /\ ed'.draft = d.draft
        /\ ed'.request = d.request /\ ed'.current = d.current
    BY <1>2 DEF Good, Editors
  <1>4. Good(ed')
    BY <1>3 DEF Good, Tracks
  <1> QED
    BY <1>4 DEF EditorStep, Edit, Click, IInv

\* An edit of pose, name or filter.
LEMMA EditKeeps ==
    ASSUME IInv, Edits \/ EditName \/ EditFilter
    PROVE  EditorStep
  <1>1. ed \in Editors /\ Tracks(ed) /\ (ed.current => feedback.applied)
    BY DEF IInv, Good, Tracks
  <1>2. CASE Edits
    <2>1. PICK pose \in Drafts : Edit(PublishDraft([ed EXCEPT !.draft = pose]))
      BY <1>2 DEF Edits, EditPose, Drafts
    <2>2. PICK d : d = [ed EXCEPT !.draft = pose]
      OBVIOUS
    <2>3. d \in Editors /\ d.current = ed.current
      BY <1>1, <2>2 DEF Editors
    <2>4. Good(PublishDraft(d))
      BY <1>1, <2>3, PublishIs
    <2> QED
      BY <2>1, <2>2, <2>4, EditIs
  <1>3. CASE EditName
    <2>1. PICK b \in BOOLEAN : Edit(PublishDraft([ed EXCEPT !.renamed = b]))
      BY <1>3 DEF EditName
    <2>2. PICK d : d = [ed EXCEPT !.renamed = b]
      OBVIOUS
    <2>3. d \in Editors /\ d.current = ed.current
      BY <1>1, <2>2 DEF Editors
    <2>4. Good(PublishDraft(d))
      BY <1>1, <2>3, PublishIs
    <2> QED
      BY <2>1, <2>2, <2>4, EditIs
  <1>4. CASE EditFilter
    <2>1. PICK b \in BOOLEAN : Edit([ed EXCEPT !.renamed = b])
      BY <1>4 DEF EditFilter
    <2>2. PICK d : d = [ed EXCEPT !.renamed = b]
      OBVIOUS
    <2>3. /\ d \in Editors /\ d.window = ed.window /\ d.draft = ed.draft
          /\ d.request = ed.request /\ d.current = ed.current
      BY <1>1, <2>2 DEF Editors
    <2>4. Good(d)
      BY <1>1, <2>3 DEF Good, Tracks
    <2> QED
      BY <2>1, <2>2, <2>4, EditIs
  <1> QED
    BY <1>2, <1>3, <1>4

\* The id of a new preset is one the repository does not have.
LEMMA NewIDIs == NewID = NoID \/ NewID \in NewIDs(presets)
  <1> SUFFICES ASSUME NewIDs(presets) # {}
               PROVE  \E id \in NewIDs(presets) : \A i \in NewIDs(presets) : id <= i
    BY Zenon DEF NewID
  <1>1. PICK T : T = NewIDs(presets) /\ T \subseteq Nat /\ T # {}
    BY EditorAssumption DEF NewIDs
  <1> DEFINE less == {p \in Nat \X Nat : p[1] < p[2]}
  <1>2. IsWellFoundedOn(less, Nat)
    BY NatLessThanWellFounded, Zenon DEF OpToRel
  <1>3. \E m \in T : \A n \in T : ~ (<<n, m>> \in less)
    <2> HIDE DEF less
    <2> QED
      BY <1>1, <1>2, WFMin, Zenon
  <1>4. \A m, n \in Nat : <<n, m>> \in less <=> n < m
    OBVIOUS
  <1>5. \A m, n \in Nat : ~ (n < m) => m <= n
    OBVIOUS
  <1> HIDE DEF less
  <1>6. \E m \in T : \A n \in T : m <= n
    BY <1>1, <1>3, <1>4, <1>5
  <1> QED
    BY <1>1, <1>6

\* What a save leaves in the repository and in the editor.
LEMMA SavedIs ==
    ASSUME IInv, MaySave(NewID), NEW e, e = AfterSave(NewID)
    PROVE  Good(e) /\ Listed(Stored(Draft(NewID)))
  <1>1. ed \in Editors /\ Tracks(ed) /\ Listed(presets)
    BY DEF IInv, Good
  <1>2. DraftID(ed, NewID) \in IDs /\ ed.draft \in Poses
    <2>1. ed.draft \in Poses
      BY <1>1 DEF MaySave, Editors, Drafts
    <2>2. DraftID(ed, NewID) # NoID
      BY DEF MaySave
    <2>3. CASE ed.creating
      BY <2>1, <2>2, <2>3, NewIDIs DEF DraftID, NewIDs
    <2>4. CASE ~ed.creating
      BY <1>1, <2>1, <2>2, <2>4 DEF DraftID, Editors
    <2> QED
      BY <2>3, <2>4
  <1>3. /\ Draft(NewID) \in Preset /\ Draft(NewID).id = DraftID(ed, NewID)
    BY <1>2 DEF Draft, Preset
  <1>4. Listed(Stored(Draft(NewID)))
    <2>1. CASE ed.creating
      <3>1. ~HasID(presets, NewID) /\ DraftID(ed, NewID) = NewID
        BY <2>1, NewIDIs DEF MaySave, DraftID, NewIDs
      <3> QED
        BY <1>1, <1>3, <2>1, <3>1, AppendedIsListed DEF Stored
    <2>2. CASE ~ed.creating
      BY <1>1, <1>3, <2>2, ReplacedIsListed DEF Stored
    <2> QED
      BY <2>1, <2>2
  <1>5. PICK id \in IDs : id = DraftID(ed, NewID)
    BY <1>2
  <1>6. PICK pose \in Drafts : pose = ed.draft
    BY <1>1 DEF Editors
  <1>7. e = [ed EXCEPT !.selected = id, !.saved = pose,
                       !.renamed = FALSE, !.creating = FALSE, !.dirty = FALSE]
    BY <1>5, <1>6 DEF AfterSave
  <1>8. /\ e \in Editors /\ e.window = ed.window /\ e.draft = ed.draft
        /\ e.request = ed.request /\ e.current = ed.current
    <2>1. id \in IDs \cup {NoID}
      BY <1>5
    <2>2. e \in Editors
      BY <1>1, <1>7, <2>1 DEF Editors
    <2> QED
      BY <1>1, <1>7, <2>2 DEF Editors
  <1>9. Good(e)
    BY <1>1, <1>8 DEF Good, Tracks
  <1> QED
    BY <1>4, <1>9

\* A save.
LEMMA ClickSaveKeeps ==
    ASSUME IInv, ClickSave
    PROVE  EditorStep
  <1>1. Good(AfterSave(NewID)) /\ Listed(Stored(Draft(NewID)))
    BY SavedIs DEF ClickSave
  <1> QED
    BY <1>1 DEF ClickSave, Click, EditorStep

\* Changes are cancelled.
LEMMA CancelKeeps ==
    ASSUME IInv, ClickCancelChanges
    PROVE  EditorStep
  <1>1. Good(CancelDraft(ed, FALSE)) /\ Listed(presets)
    BY CancelDraftKeeps DEF IInv
  <1> QED
    BY <1>1 DEF ClickCancelChanges, Click, EditorStep

\* Only questions change.
LEMMA QuestionsAre ==
    ASSUME NEW d, Good(d), NEW pending \in Actions, NEW target \in IDs \cup {NoID},
           NEW popup \in {"none", "unsaved", "delete"}
    PROVE  /\ Good([d EXCEPT !.pending = pending, !.target = target, !.popup = popup])
           /\ Good([d EXCEPT !.popup = popup])
  <1>1. PICK e : e = [d EXCEPT !.pending = pending, !.target = target, !.popup = popup]
    OBVIOUS
  <1>2. PICK f : f = [d EXCEPT !.popup = popup]
    OBVIOUS
  <1>3. d \in Editors /\ Tracks(d)
    BY DEF Good
  <1>4. /\ e \in Editors /\ e.window = d.window /\ e.draft = d.draft
        /\ e.request = d.request /\ e.current = d.current
    BY <1>1, <1>3 DEF Editors
  <1>5. /\ f \in Editors /\ f.window = d.window /\ f.draft = d.draft
        /\ f.request = d.request /\ f.current = d.current
    BY <1>2, <1>3 DEF Editors
  <1>6. Good(e)
    BY <1>3, <1>4 DEF Good, Tracks
  <1>7. Good(f)
    BY <1>3, <1>5 DEF Good, Tracks
  <1> QED
    BY <1>1, <1>2, <1>6, <1>7

\* A question is put or withdrawn.
LEMMA QuestionKeeps ==
    ASSUME IInv, ClickDelete \/ KeepEditing \/ DeleteNothing \/ EndFrame
    PROVE  EditorStep
  <1>1. Good(ed) /\ Listed(presets)
    BY DEF IInv
  <1>2. "none" \in Actions /\ NoID \in IDs \cup {NoID}
    BY DEF Actions
  <1>3. ed.popup \in {"none", "unsaved", "delete"}
    BY <1>1 DEF Good, Editors
  <1>4. CASE ClickDelete
    BY <1>1, <1>2, <1>4, QuestionsAre DEF ClickDelete, Click, EditorStep
  <1>5. CASE KeepEditing
    BY <1>1, <1>2, <1>5, QuestionsAre DEF KeepEditing, Answer, EditorStep
  <1>6. CASE DeleteNothing
    BY <1>1, <1>2, <1>6, QuestionsAre DEF DeleteNothing, Answer, EditorStep
  <1>7. CASE EndFrame
    <2>1. Good(ed')
      <3>1. CASE frame = "locked"
        <4>1. PICK popup \in {ed.popup, "none"} :
                 ed' = [ed EXCEPT !.pending = "none", !.target = NoID, !.popup = popup]
          BY <1>7, <3>1 DEF EndFrame
        <4>2. popup \in {"none", "unsaved", "delete"}
          BY <1>3, <4>1
        <4> QED
          BY <1>1, <1>2, <4>1, <4>2, QuestionsAre
      <3>2. CASE frame # "locked"
        BY <1>1, <1>7, <3>2 DEF EndFrame
      <3> QED
        BY <3>1, <3>2
    <2> QED
      BY <1>1, <1>7, <2>1 DEF EndFrame, EditorStep
  <1> QED
    BY <1>4, <1>5, <1>6, <1>7

\* A locked editor is closed.
LEMMA CloseLockedKeeps ==
    ASSUME IInv, ClickCloseLocked
    PROVE  EditorStep
  <1>1. Good(CloseEditor(ed)) /\ Listed(presets)
    BY CloseKeeps DEF IInv
  <1>2. Good([CloseEditor(ed) EXCEPT !.popup = "none"])
    <2>1. "none" \in Actions /\ NoID \in IDs \cup {NoID}
      BY DEF Actions
    <2> QED
      BY <1>1, <2>1, QuestionsAre
  <1> QED
    BY <1>1, <1>2 DEF ClickCloseLocked, EditorStep

\* The unsaved draft is saved or discarded, and the pending action run.
LEMMA ContinueKeeps ==
    ASSUME IInv, SaveAndContinue \/ DiscardAndContinue
    PROVE  EditorStep
  <1>1. Good(ed) /\ Listed(presets) /\ "none" \in Actions /\ NoID \in IDs \cup {NoID}
    BY DEF IInv, Actions
  <1>2. CASE SaveAndContinue
    <2>1. PICK saved : saved = [AfterSave(NewID) EXCEPT !.pending = "none", !.target = NoID,
                                                        !.popup = "none"]
      OBVIOUS
    <2>2. Good(AfterSave(NewID)) /\ Listed(Stored(Draft(NewID)))
      BY <1>2, SavedIs DEF SaveAndContinue
    <2>3. Good(saved)
      BY <1>1, <2>1, <2>2, QuestionsAre
    <2>4. Run(saved, ed.pending, ed.target, Stored(Draft(NewID)))
      BY <1>2, <2>1 DEF SaveAndContinue
    <2> QED
      BY <1>2, <2>2, <2>3, <2>4, RunKeeps DEF SaveAndContinue, Answer, EditorStep
  <1>3. CASE DiscardAndContinue
    <2>1. PICK left : left = [CancelDraft(ed, ed.pending = "close") EXCEPT
                                 !.pending = "none", !.target = NoID, !.popup = "none"]
      OBVIOUS
    <2>2. Good(CancelDraft(ed, ed.pending = "close"))
      BY <1>1, CancelDraftKeeps
    <2>3. Good(left)
      BY <1>1, <2>1, <2>2, QuestionsAre
    <2>4. Run(left, ed.pending, ed.target, presets)
      BY <1>3, <2>1 DEF DiscardAndContinue
    <2> QED
      BY <1>1, <1>3, <2>3, <2>4, RunKeeps DEF DiscardAndContinue, Answer, EditorStep
  <1> QED
    BY <1>2, <1>3

\* The selected preset is deleted.
LEMMA DeleteKeeps ==
    ASSUME IInv, ConfirmDelete
    PROVE  EditorStep
  <1>1. Good(ed) /\ Listed(presets) /\ HasID(presets, ed.selected)
    BY DEF IInv, ConfirmDelete
  <1>2. Index(presets, ed.selected) \in DOMAIN presets
    BY <1>1, IndexIs DEF Listed
  <1>3. Listed(Remaining)
    BY <1>1, <1>2, RemovedIsListed DEF Remaining
  <1>4. Good(SelectFirstPreset(ed, Remaining))
    BY <1>1, <1>3, SelectFirstKeeps DEF Good, Tracks, Listed
  <1>5. Good([SelectFirstPreset(ed, Remaining) EXCEPT !.popup = "none"])
    <2>1. "none" \in Actions /\ NoID \in IDs \cup {NoID}
      BY DEF Actions
    <2> QED
      BY <1>4, <2>1, QuestionsAre
  <1> QED
    BY <1>3, <1>5 DEF ConfirmDelete, Answer, EditorStep

-----------------------------------------------------------------------------
(* The window opens, and what takes it away.                                *)

\* An editor that is opened is good.
LEMMA OpenedKeeps ==
    ASSUME IInv, NEW id, NEW e, e = Opened(ed, id)
    PROVE  Good(e)
  <1>1. ed \in Editors /\ (ed.current => feedback.applied) /\ presets \in Seq(Preset)
    BY DEF IInv, Good, Tracks, Listed
  <1>2. PICK begun : begun = [ed EXCEPT !.window = TRUE, !.session = TRUE, !.left = FALSE]
    OBVIOUS
  <1>3. begun \in Editors /\ begun.current = ed.current
    BY <1>1, <1>2 DEF Editors
  <1>4. "new" \in Drafts
    BY DEF Drafts, Poses
  <1>5. \/ e = SelectPresetByID(begun, presets, id)
        \/ e = PublishDraft(begun)
        \/ e = Begin(begun, "new")
    BY <1>2 DEF Opened
  <1>6. CASE e = SelectPresetByID(begun, presets, id)
    BY <1>1, <1>3, <1>6, SelectByIDKeeps
  <1>7. CASE e = PublishDraft(begun)
    BY <1>1, <1>3, <1>7, PublishIs
  <1>8. CASE e = Begin(begun, "new")
    BY <1>1, <1>3, <1>4, <1>8, BeginKeeps
  <1> QED
    BY <1>5, <1>6, <1>7, <1>8

\* What the key holds after the editor has been opened or closed.
KeyStep ==
    /\ UNCHANGED <<file, settings, down, input, promised, scope>>
    /\ captive' \in SUBSET Keys /\ asked' \in BOOLEAN
    /\ \/ hotkey' \in {Cancelled(hotkey), [Cancelled(hotkey) EXCEPT !.requested = FALSE],
                       Untouched}
       \/ hotkey' \in {hotkey, [hotkey EXCEPT !.requested = FALSE]} /\ asked' = asked

\* Such a step begins no assignment and captures no key.
LEMMA KeyStepKeeps ==
    ASSUME KeysSound, Wanted, KeyStep
    PROVE  KeysSound' /\ Wanted'
  <1> USE DEF KeyStep
  <1>1. hotkey \in Hotkeys
    BY HotkeyIs
  <1>2. CASE hotkey' \in {Cancelled(hotkey), [Cancelled(hotkey) EXCEPT !.requested = FALSE],
                          Untouched}
    <2>1. Untouched \in Hotkeys /\ Idle(Untouched)
      BY DEF Untouched, Hotkeys, Idle
    <2>2. hotkey' \in Hotkeys /\ Idle(hotkey')
      BY <1>1, <1>2, <2>1, CancelledIs
    <2> QED
      BY <2>2, GestureKeeps
  <1>3. CASE hotkey' \in {hotkey, [hotkey EXCEPT !.requested = FALSE]} /\ asked' = asked
    <2>1. /\ hotkey' \in Hotkeys /\ hotkey'.captured = hotkey.captured
          /\ hotkey'.awaiting => hotkey.awaiting
      BY <1>1, <1>3 DEF Hotkeys
    <2> QED
      BY <1>3, <2>1, GestureKeeps
  <1> QED
    BY <1>2, <1>3

\* What takes the window away, or brings it, keeps the invariant.
LEMMA WindowStepKeeps ==
    ASSUME IInv, KeyStep, Good(ed'), frame' = "none", UNCHANGED <<presets, feedback>>
    PROVE  IInv'
  <1>1. KeysSound' /\ Wanted'
    BY KeyStepKeeps DEF IInv
  <1>2. Good(ed)'
    BY GoodStays
  <1>3. Listed(presets)' /\ Seen' /\ Framed' /\ (scope \in Scopes)'
    BY DEF IInv, KeyStep, Seen, Framed
  <1> QED
    BY <1>1, <1>2, <1>3 DEF IInv

\* The window opens.
LEMMA OpensKeeps ==
    ASSUME IInv, Opens
    PROVE  IInv'
  <1>1. /\ captive \in SUBSET Keys /\ asked \in BOOLEAN /\ Good(ed)
        /\ frame # "none" => ed.window
    BY DEF IInv, KeysSound, HotkeyTypeOK, Framed
  <1>2. CASE DashboardOpens
    <2>1. Good(ed') /\ frame' = "none" /\ UNCHANGED <<presets, feedback>>
      BY <1>1, <1>2, OpenedKeeps DEF DashboardOpens, Open
    <2>2. KeyStep
      BY <1>1, <1>2 DEF DashboardOpens, Open, KeyStep
    <2> QED
      BY <2>1, <2>2, WindowStepKeeps
  <1>3. CASE HudTakesRequest
    <2>1. frame = "none"
      BY <1>1, <1>3 DEF HudTakesRequest
    <2>2. CASE /\ \E id \in IDs : Open(id)
               /\ hotkey' = [Cancelled(hotkey) EXCEPT !.requested = FALSE]
               /\ asked' = FALSE
      <3>1. Good(ed') /\ UNCHANGED <<presets, feedback, frame, scope>>
        BY <2>2, OpenedKeeps DEF Open
      <3>2. KeyStep
        BY <1>1, <1>3, <2>2, <3>1 DEF HudTakesRequest, KeyStep
      <3> QED
        BY <2>1, <3>1, <3>2, WindowStepKeeps
    <2>3. CASE /\ hotkey' = [hotkey EXCEPT !.requested = FALSE]
               /\ UNCHANGED <<presets, ed, feedback, frame, scope, asked>>
      <3>1. KeyStep
        BY <1>1, <1>3, <2>3 DEF HudTakesRequest, KeyStep
      <3> QED
        BY <1>1, <2>1, <2>3, <3>1, WindowStepKeeps
    <2> QED
      BY <1>3, <2>2, <2>3 DEF HudTakesRequest
  <1>4. CASE \E id \in IDs : DashboardSelects(id)
    <2>1. PICK id \in IDs : DashboardSelects(id)
      BY <1>4
    <2>2. /\ ~ed.window /\ HasID(presets, id) /\ ed' = SelectPreset(ed, WithID(presets, id))
          /\ UNCHANGED <<presets, feedback, frame, scope, hotkeyVars>>
      BY <2>1 DEF DashboardSelects
    <2>3. WithID(presets, id) \in Preset
      BY <2>2, IndexIs DEF IInv, Listed
    <2>4. ed' \in Editors /\ ~ed'.window /\ (ed'.current => ed.current)
      BY <1>1, <2>2, <2>3, SelectPresetIs DEF Good
    <2>5. Good(ed')
      BY <1>1, <2>4 DEF Good, Tracks
    <2>6. KeyStep
      BY <1>1, <2>2 DEF hotkeyVars, KeyStep
    <2> QED
      BY <1>1, <2>2, <2>5, <2>6, WindowStepKeeps
  <1> QED
    BY <1>2, <1>3, <1>4 DEF Opens

\* A frame takes a press of the key as a wish to close.
LEMMA FrameTakesRequestKeeps ==
    ASSUME IInv, FrameTakesRequest
    PROVE  IInv'
  <1> USE DEF FrameTakesRequest
  <1>1. captive \in SUBSET Keys /\ asked \in BOOLEAN /\ Good(ed)
    BY DEF IInv, KeysSound, HotkeyTypeOK
  <1>2. KeyStep
    BY <1>1 DEF KeyStep
  <1>3. Good(ed')
    <2>1. CASE ed.dirty
      <3>1. ed' = [ed EXCEPT !.pending = "close", !.target = NoID, !.popup = "unsaved"]
        BY <2>1
      <3>2. "close" \in Actions /\ NoID \in IDs \cup {NoID}
        BY DEF Actions
      <3> QED
        BY <1>1, <3>1, <3>2, QuestionsAre
    <2>2. CASE ~ed.dirty
      BY <1>1, <2>2, CloseKeeps
    <2> QED
      BY <2>1, <2>2
  <1> QED
    BY <1>2, <1>3, WindowStepKeeps

\* The framework closes its menu.
LEMMA MenuClosesKeeps ==
    ASSUME IInv, MenuCloses
    PROVE  IInv'
  <1> USE DEF MenuCloses
  <1>1. captive \in SUBSET Keys /\ Good(ed)
    BY DEF IInv, KeysSound, HotkeyTypeOK
  <1>2. KeyStep
    BY <1>1 DEF KeyStep
  <1>3. PICK l : l = Leave(ed)
    OBVIOUS
  <1>4. Good(l) /\ ~l.window
    BY <1>1, <1>3, LeaveKeeps
  <1>5. PICK b \in BOOLEAN : b = (ed.window /\ ed.dirty)
    OBVIOUS
  <1>6. ed' = [l EXCEPT !.left = b]
    BY <1>3, <1>5
  <1>7. ed' \in Editors /\ ~ed'.window /\ ed'.current = l.current
    BY <1>4, <1>6 DEF Good, Editors
  <1>8. Good(ed')
    BY <1>4, <1>7 DEF Good, Tracks
  <1> QED
    BY <1>2, <1>8, WindowStepKeeps

\* The lifecycle takes the editor away.
LEMMA LifecycleKeeps ==
    ASSUME IInv, CloseForLifecycle
    PROVE  IInv'
  <1> USE DEF CloseForLifecycle
  <1>1. KeyStep
    BY DEF KeyStep
  <1>2. Good(ed')
    BY LeaveKeeps DEF IInv
  <1> QED
    BY <1>1, <1>2, WindowStepKeeps

\* Steps that leave the editor alone.
LEMMA BesideKeeps ==
    ASSUME IInv, Beside, KeysSound', Wanted'
    PROVE  IInv'
  <1>1. Good(ed)' /\ Listed(presets)'
    BY DEF Beside, IInv, Good, Tracks
  <1>2. Seen' /\ Framed' /\ (scope \in Scopes)'
    BY DEF Beside, IInv, Seen, Framed
  <1> QED
    BY <1>1, <1>2 DEF IInv

\* A frame begins.
LEMMA BeginFrameKeeps ==
    ASSUME IInv, BeginFrame
    PROVE  IInv'
  <1> USE DEF BeginFrame
  <1>1. Framed'
    BY DEF Framed
  <1>2. KeysSound' /\ Wanted'
    BY DEF IInv, hotkeyVars, KeysSound, HotkeyTypeOK, AssignmentLasts, FileSays, Wanted
  <1>3. Good(ed)' /\ Listed(presets)' /\ Seen' /\ (scope \in Scopes)'
    BY DEF IInv, Good, Tracks, Seen
  <1> QED
    BY <1>1, <1>2, <1>3 DEF IInv

-----------------------------------------------------------------------------
(* The camera, the key and the game.                                        *)

\* What the camera does about a request.
LEMMA CameraStepKeeps ==
    ASSUME IInv, Camera, feedback' \in Feedbacks, feedback'.applied => feedback'.active,
           ed' \in Editors, ed'.window => ed.window, ed.window => ed'.window,
           ed'.draft = ed.draft,
           ed'.current => feedback'.applied,
           ed.window /\ ed.draft # Invalid =>
              /\ ed'.request.live /\ ed'.request.mine => ed'.request.pose = ed.draft
              /\ ed'.current => feedback'.pose = ed.draft
    PROVE  IInv'
  <1>1. KeysSound' /\ Wanted'
    BY DEF Camera, IInv, hotkeyVars, KeysSound, HotkeyTypeOK, AssignmentLasts, FileSays,
           Wanted
  <1>2. Good(ed)'
    BY DEF Good, Tracks
  <1>3. Listed(presets)' /\ Seen' /\ Framed' /\ (scope \in Scopes)'
    BY DEF IInv, Camera, Seen, Framed
  <1> QED
    BY <1>1, <1>2, <1>3 DEF IInv

\* The camera shows the request, cannot, or the scene lets it go.
LEMMA ShowsKeeps ==
    ASSUME IInv, Shows
    PROVE  IInv'
  <1>1. ed \in Editors /\ Tracks(ed) /\ Invalid \in Drafts
    BY PosesAre DEF IInv, Good
  <1>2. CASE \E pose \in Poses : CameraShows(pose)
    <2>1. PICK pose \in Poses : CameraShows(pose)
      BY <1>2
    <2>2. /\ feedback' = [active |-> TRUE, applied |-> TRUE, possible |-> TRUE, pose |-> pose]
          /\ ed.request.live => pose = ed.request.pose
          /\ Camera
      BY <2>1 DEF CameraShows
    <2>3. PICK b \in BOOLEAN : b = (ed.request.live /\ ed.request.mine)
      OBVIOUS
    <2>4. ed' = [ed EXCEPT !.current = b]
      BY <2>1, <2>3 DEF CameraShows
    <2>5. /\ ed' \in Editors /\ ed'.window = ed.window /\ ed'.draft = ed.draft
          /\ ed'.request = ed.request /\ ed'.current = b
      BY <1>1, <2>4 DEF Editors
    <2>6. /\ feedback' \in Feedbacks /\ feedback'.active /\ feedback'.applied
          /\ feedback'.pose = pose
      BY <2>2, PosesAre DEF Feedbacks
    <2>7. ed.window /\ ed.draft # Invalid =>
              /\ ed'.request.live /\ ed'.request.mine => ed'.request.pose = ed.draft
              /\ ed'.current => feedback'.pose = ed.draft
      BY <1>1, <2>2, <2>3, <2>5, <2>6 DEF Tracks
    <2> QED
      BY <2>2, <2>5, <2>6, <2>7, CameraStepKeeps
  <1>3. CASE \E b \in BOOLEAN : CameraCannot(b)
    <2>1. PICK b \in BOOLEAN : CameraCannot(b)
      BY <1>3
    <2>2. /\ feedback' = [NoFeedback EXCEPT !.active = TRUE, !.possible = b]
          /\ ed' = [ed EXCEPT !.current = FALSE] /\ Camera
      BY <2>1 DEF CameraCannot
    <2>3. /\ ed' \in Editors /\ ed'.window = ed.window /\ ed'.draft = ed.draft
          /\ ed'.request = ed.request /\ ~ed'.current
      BY <1>1, <2>2 DEF Editors
    <2>4. feedback' \in Feedbacks /\ ~feedback'.applied
      BY <1>1, <2>2 DEF Feedbacks, NoFeedback
    <2>5. ed.window /\ ed.draft # Invalid =>
              (ed'.request.live /\ ed'.request.mine => ed'.request.pose = ed.draft)
      BY <1>1, <2>3 DEF Tracks
    <2> QED
      BY <2>2, <2>3, <2>4, <2>5, CameraStepKeeps
  <1>4. CASE \E b \in BOOLEAN : SceneLets(b)
    <2>1. PICK b \in BOOLEAN : SceneLets(b)
      BY <1>4
    <2>2. /\ feedback' = [NoFeedback EXCEPT !.active = b]
          /\ ed' = [ed EXCEPT !.session = FALSE, !.request = NoRequest, !.current = FALSE]
          /\ Camera
      BY <2>1 DEF SceneLets
    <2>3. NoRequest \in Requests /\ ~NoRequest.live
      BY <1>1 DEF NoRequest, Requests
    <2>4. /\ ed' \in Editors /\ ed'.window = ed.window /\ ed'.draft = ed.draft
          /\ ed'.request = NoRequest /\ ~ed'.current
      BY <1>1, <2>2, <2>3 DEF Editors
    <2>5. feedback' \in Feedbacks /\ ~feedback'.applied
      BY <1>1, <2>2 DEF Feedbacks, NoFeedback
    <2> QED
      BY <2>2, <2>3, <2>4, <2>5, CameraStepKeeps
  <1> QED
    BY <1>2, <1>3, <1>4 DEF Shows

\* A key of the keyboard.
LEMMA KeyboardKeeps ==
    ASSUME IInv, Keyboard
    PROVE  IInv'
  <1>1. scope.keys \subseteq Keys
    BY EditorAssumption DEF IInv
  <1>2. ed.window \in BOOLEAN /\ (ed.window \/ CanStartPreview) \in BOOLEAN
    BY DEF IInv, Good, Editors
  <1>3. PICK phase \in {"down", "held", "up"}, key \in Keys, canToggle \in BOOLEAN :
             KeyInput(phase, key, canToggle, scope.thread = "frames")
    BY <1>1, <1>2, ZenonT(40) DEF Keyboard
  <1>4. Beside
    BY DEF Keyboard
  <1>5. UNCHANGED scope
    BY <1>4 DEF Beside
  <1>6. KeysSound' /\ Wanted'
    BY <1>3, <1>5, KeyInputKeeps DEF IInv
  <1> QED
    BY <1>4, <1>6, BesideKeeps

\* What another thread decided is stored.
LEMMA StoreKeeps ==
    ASSUME IInv, Store
    PROVE  IInv'
  <1>1. KeysSound' /\ Wanted'
    BY StoreInputKeeps DEF IInv, Store, Beside
  <1> QED
    BY <1>1, BesideKeeps DEF Store

\* The settings page.
LEMMA SettingsKeeps ==
    ASSUME IInv, Settings
    PROVE  IInv'
  <1>1. UNCHANGED scope /\ Beside
    BY DEF Settings, Beside
  <1>2. PICK ok \in BOOLEAN : \/ ApplyCapturedEditHotkey(ok)
                              \/ \E d \in BOOLEAN : SetDebugMode(d, ok)
    BY DEF Settings
  <1>3. KeysSound' /\ Wanted'
    BY <1>1, <1>2, ApplyKeeps, SetDebugKeeps DEF IInv
  <1> QED
    BY <1>1, <1>3, BesideKeeps

\* The change of the key there.
LEMMA ChangesKeeps ==
    ASSUME IInv, Change
    PROVE  IInv'
  <1>1. KeysSound' /\ Wanted'
    BY ChangeKeeps DEF IInv, Change, Beside
  <1> QED
    BY <1>1, BesideKeeps DEF Change

\* The closed editor has its type.
LEMMA ClosedIsGood == Closed \in Editors /\ ~Closed.window /\ ~Closed.current
  <1>1. NoRequest \in Requests /\ Invalid \in Drafts
    BY PosesAre DEF NoRequest, Requests
  <1> QED
    BY <1>1 DEF Closed, Editors, Actions

\* The game starts anew.
LEMMA RestartKeeps ==
    ASSUME IInv, Restart
    PROVE  IInv'
  <1>1. PICK ok \in BOOLEAN : Restarted(ok)
    BY DEF Restart
  <1>2. KeysSound' /\ Wanted'
    BY <1>1, RestartedKeeps DEF IInv, Restart
  <1>3. /\ ed' = Closed /\ feedback' = NoFeedback /\ frame' = "none"
        /\ UNCHANGED <<presets, scope>>
    BY DEF Restart
  <1>4. Good(ed)'
    BY <1>3, ClosedIsGood DEF Good, Tracks
  <1>5. Seen'
    BY <1>3, PosesAre DEF Seen, Feedbacks, NoFeedback
  <1> QED
    BY <1>2, <1>3, <1>4, <1>5 DEF IInv, Framed

-----------------------------------------------------------------------------
(* The theorems.                                                            *)

\* The invariant holds at first.
LEMMA InitHolds ==
    ASSUME Init
    PROVE  IInv
  <1> USE DEF Init
  <1>1. Good(ed)
    BY ClosedIsGood DEF Good, Tracks
  <1>2. Seen /\ Framed
    BY PosesAre DEF Seen, Framed, Feedbacks, NoFeedback
  <1>3. Listed(presets)
    BY EditorAssumption DEF Listed
  <1>4. FileSays = Default /\ settings.is = Default
    BY DEF HotkeyInit, FileSays, Loaded
  <1>5. settings \in [is : Saved, blind : BOOLEAN]
    BY SavedIsNoFile, <1>4 DEF HotkeyInit, Loaded
  <1>6. HotkeyTypeOK
    BY <1>5, HotkeyAssumption DEF HotkeyInit, HotkeyTypeOK, Untouched, Assignable
  <1>7. KeysSound
    BY <1>4, <1>6 DEF HotkeyInit, KeysSound, AssignmentLasts, Default
  <1>8. Wanted
    BY DEF HotkeyInit, Wanted, Untouched
  <1> QED
    BY <1>1, <1>2, <1>3, <1>7, <1>8 DEF IInv

\* The steps of a frame that is under way.
LEMMA ClicksKeep ==
    ASSUME IInv, Clicks \/ Answers \/ EndFrame
    PROVE  EditorStep
  <1>1. CASE \E action \in Actions, id \in IDs \cup {NoID} : ClickAction(action, id)
    BY <1>1, ClickActionKeeps
  <1>2. CASE Edits \/ EditName \/ EditFilter
    BY <1>2, EditKeeps
  <1>3. CASE ClickSave
    BY <1>3, ClickSaveKeeps
  <1>4. CASE ClickCancelChanges
    BY <1>4, CancelKeeps
  <1>5. CASE ClickDelete \/ KeepEditing \/ DeleteNothing \/ EndFrame
    BY <1>5, QuestionKeeps
  <1>6. CASE ClickCloseLocked
    BY <1>6, CloseLockedKeeps
  <1>7. CASE SaveAndContinue \/ DiscardAndContinue
    BY <1>7, ContinueKeeps
  <1>8. CASE ConfirmDelete
    BY <1>8, DeleteKeeps
  <1>9. Clicks => \/ \E action \in Actions, id \in IDs \cup {NoID} : ClickAction(action, id)
                  \/ Edits \/ EditName \/ EditFilter
                  \/ ClickSave \/ ClickCancelChanges \/ ClickDelete \/ ClickCloseLocked
    BY DEF Clicks, Actions
  <1> QED
    BY <1>1, <1>2, <1>3, <1>4, <1>5, <1>6, <1>7, <1>8, <1>9 DEF Answers

\* Every step keeps the invariant.
LEMMA StepKeeps ==
    ASSUME IInv, [Next]_vars
    PROVE  IInv'
  <1>1. CASE UNCHANGED vars
    <2>1. KeysSound' /\ Wanted'
      BY <1>1 DEF vars, IInv, hotkeyVars, KeysSound, HotkeyTypeOK, AssignmentLasts,
                  FileSays, Wanted
    <2> QED
      BY <1>1, <2>1, BesideKeeps DEF vars, Beside
  <1>2. CASE Opens
    BY <1>2, OpensKeeps
  <1>3. CASE FrameTakesRequest
    BY <1>3, FrameTakesRequestKeeps
  <1>4. CASE BeginFrame
    BY <1>4, BeginFrameKeeps
  <1>5. CASE Clicks \/ Answers \/ EndFrame
    BY <1>5, ClicksKeep, EditorStepKeeps
  <1>6. CASE MenuCloses
    BY <1>6, MenuClosesKeeps
  <1>7. CASE CloseForLifecycle
    BY <1>7, LifecycleKeeps
  <1>8. CASE Shows
    BY <1>8, ShowsKeeps
  <1>9. CASE Keyboard
    BY <1>9, KeyboardKeeps
  <1>10. CASE Store
    BY <1>10, StoreKeeps
  <1>11. CASE Settings
    BY <1>11, SettingsKeeps
  <1>12. CASE Change
    BY <1>12, ChangesKeeps
  <1>13. CASE Restart
    BY <1>13, RestartKeeps
  <1> QED
    BY <1>1, <1>2, <1>3, <1>4, <1>5, <1>6, <1>7, <1>8, <1>9, <1>10, <1>11, <1>12, <1>13
    DEF Next

\* The inductive invariant: besides the types, what a current feedback shows is
\* the pose of the draft, and on one thread a key is awaited or captured only
\* while the user wants it.
THEOREM Invariance == Spec => []IInv
  <1>1. Init => IInv
    BY InitHolds
  <1>2. IInv /\ [Next]_vars => IInv'
    BY StepKeeps
  <1> QED
    BY <1>1, <1>2, PTL DEF Spec

\* Every variable keeps its type, and the repository never gets an id twice,
\* whatever is saved, deleted or loaded from a file edited outside.
THEOREM TypeCorrect == Spec => []TypeOK
  <1>1. IInv => TypeOK
    <2> SUFFICES ASSUME IInv PROVE TypeOK
      OBVIOUS
    <2>1. ed \in Editors
      BY DEF IInv, Good
    <2>2. /\ {ed.window, ed.session, ed.current, ed.creating, ed.dirty, ed.renamed, ed.left}
                \subseteq BOOLEAN
          /\ ed.request \in [live : BOOLEAN, pose : Poses \cup {Invalid}, mine : BOOLEAN]
          /\ {ed.draft, ed.saved} \subseteq Poses \cup {Invalid}
          /\ {ed.selected, ed.target} \subseteq IDs \cup {NoID} /\ ed.pending \in Actions
          /\ ed.popup \in {"none", "unsaved", "delete"}
      BY <2>1 DEF Editors, Requests, Drafts
    <2> QED
      BY <2>2 DEF TypeOK, IInv, KeysSound, Listed, Seen, Framed, Feedbacks, Drafts
  <1> QED
    BY <1>1, Invariance, PTL

\* An assignment the user was told of outlasts failed writes and restarts, and
\* memory never holds what the file does not.
THEOREM AssignmentStays == Spec => []AssignmentLasts
  <1>1. IInv => AssignmentLasts
    BY DEF IInv, KeysSound
  <1> QED
    BY <1>1, Invariance, PTL

\* What is saved is what the camera shows at that moment.
THEOREM SavedAsSeen == Spec => SavedWasSeen
  <1> DEFINE AsSeen == ClickSave \/ SaveAndContinue =>
                          /\ feedback.active /\ feedback.applied
                          /\ feedback.pose = ed.draft /\ ed.draft \in Poses
  <1>1. IInv => AsSeen
    <2> SUFFICES ASSUME IInv, ClickSave \/ SaveAndContinue
                 PROVE  /\ feedback.active /\ feedback.applied
                        /\ feedback.pose = ed.draft /\ ed.draft \in Poses
      OBVIOUS
    <2>1. MaySave(NewID) /\ frame # "none"
      BY DEF ClickSave, SaveAndContinue, Click, Answer, Editable
    <2>2. ed.window /\ ed \in Editors /\ Tracks(ed)
      BY <2>1 DEF IInv, Framed, Good
    <2>3. feedback.applied /\ ed.current /\ ed.draft # Invalid
      BY <2>1 DEF MaySave
    <2>4. feedback.pose = ed.draft
      BY <2>2, <2>3 DEF Tracks
    <2>5. ed.draft \in Poses
      BY <2>2, <2>3 DEF Editors, Drafts
    <2> QED
      BY <2>3, <2>4, <2>5 DEF IInv, Seen
  <1> QED
    BY <1>1, Invariance, PTL DEF Spec, SavedWasSeen

\* On the thread of the frames, no key is assigned that the user has not asked for
\* since the last cancel.
THEOREM AssignedAsWanted == Spec => AssignmentIsWanted
  <1> DEFINE AsWanted == scope.thread = "frames" /\ settings'.is.key # settings.is.key =>
                            asked \/ Restart
  <1>1. IInv /\ [Next]_vars => AsWanted
    <2> SUFFICES ASSUME IInv, [Next]_vars, scope.thread = "frames", ~Restart,
                        settings'.is.key # settings.is.key
                 PROVE  asked
      OBVIOUS
    <2>1. Settings
      BY ClicksKeep
      DEF Next, vars, hotkeyVars, hotkeyRest, Opens, DashboardOpens, HudTakesRequest,
          DashboardSelects, FrameTakesRequest, BeginFrame, EditorStep, Quiet, MenuCloses,
          CloseForLifecycle, Shows, CameraShows, CameraCannot, SceneLets, Camera,
          Keyboard, KeyInput, Store, StoreInput, Change, ChangeEditHotkey
    <2>2. \E ok \in BOOLEAN : ApplyCapturedEditHotkey(ok)
      BY <2>1, SetDebugKeeps DEF Settings, Beside, IInv
    <2>3. hotkey.captured # NoKey
      BY <2>2 DEF ApplyCapturedEditHotkey
    <2> QED
      BY <2>3 DEF IInv, Wanted
  <1> QED
    BY <1>1, Invariance, PTL DEF Spec, AssignmentIsWanted

\* What the user was asked about, or will be, is there.
Undisturbed ==
    /\ ed'.window /\ ed'.draft = ed.draft /\ ed'.selected = ed.selected
    /\ ed'.renamed = ed.renamed /\ ed'.creating = ed.creating

\* A question, and what only withdraws it, touches no draft.
LEMMA QuestionDisturbsNothing ==
    ASSUME ed \in Editors, ed.window, NEW pending \in Actions, NEW target, NEW popup,
           ed' = [ed EXCEPT !.pending = pending, !.target = target, !.popup = popup]
    PROVE  Undisturbed
  BY DEF Editors, Undisturbed

\* Unsaved changes go only by an edit, a save, a cancel or the answer to a
\* question: never by selecting, New, Reload, Close, the key or the camera.
THEOREM UnsavedStays == Spec => UnsavedIsAsked
  <1> DEFINE Asked ==
        /\ ed.window /\ ed.dirty /\ frame # "locked"
        /\ ~ed'.window \/ ed'.draft # ed.draft \/ ed'.selected # ed.selected
           \/ ed'.renamed # ed.renamed \/ ed'.creating # ed.creating
        => \/ Edits \/ EditName \/ EditFilter \/ ClickSave \/ ClickCancelChanges
           \/ Answers
           \/ MenuCloses \/ CloseForLifecycle \/ Restart
  <1>1. IInv /\ [Next]_vars => Asked
    <2> SUFFICES ASSUME IInv, [Next]_vars, ed.window, ed.dirty, frame # "locked",
                        ~(Edits \/ EditName \/ EditFilter \/ ClickSave \/ ClickCancelChanges),
                        ~(Answers \/ MenuCloses \/ CloseForLifecycle \/ Restart)
                 PROVE  Undisturbed
      BY DEF Undisturbed
    <2>1. ed \in Editors
      BY DEF IInv, Good
    <2>2. CASE UNCHANGED ed
      BY <2>2 DEF Undisturbed
    <2>3. CASE Opens
      BY <2>3 DEF Opens, DashboardOpens, HudTakesRequest, DashboardSelects
    <2>4. CASE FrameTakesRequest
      <3>1. ed' = [ed EXCEPT !.pending = "close", !.target = NoID, !.popup = "unsaved"]
        BY <2>4 DEF FrameTakesRequest
      <3>2. "close" \in Actions
        BY DEF Actions
      <3> QED
        BY <2>1, <3>1, <3>2, QuestionDisturbsNothing
    <2>5. CASE \E action \in Actions, id \in IDs \cup {NoID} : ClickAction(action, id)
      <3>1. PICK action \in Actions, id \in IDs \cup {NoID} : ClickAction(action, id)
        BY <2>5
      <3>2. ed' = [ed EXCEPT !.pending = action, !.target = id, !.popup = "unsaved"]
        BY <3>1 DEF ClickAction, RequestAction
      <3> QED
        BY <2>1, <3>2, QuestionDisturbsNothing
    <2>6. CASE ClickDelete
      <3>1. ed' = [ed EXCEPT !.popup = "delete"]
        BY <2>6 DEF ClickDelete
      <3> QED
        BY <2>1, <3>1 DEF Editors, Undisturbed
    <2>7. CASE EndFrame \/ BeginFrame
      BY <2>2, <2>7 DEF EndFrame, BeginFrame
    <2>8. CASE Shows
      <3>1. \/ \E b : ed' = [ed EXCEPT !.current = b]
            \/ ed' = [ed EXCEPT !.session = FALSE, !.request = NoRequest, !.current = FALSE]
        BY <2>8, Zenon DEF Shows, CameraShows, CameraCannot, SceneLets
      <3> QED
        BY <2>1, <3>1 DEF Editors, Undisturbed
    <2>9. CASE Keyboard \/ Store \/ Settings \/ Change
      BY <2>2, <2>9 DEF Keyboard, Store, Settings, Change, Beside
    <2>10. Clicks => \/ \E action \in Actions, id \in IDs \cup {NoID} : ClickAction(action, id)
                     \/ Edits \/ EditName \/ EditFilter
                     \/ ClickSave \/ ClickCancelChanges \/ ClickDelete
      BY DEF Clicks, Actions, ClickCloseLocked
    <2>11. UNCHANGED vars => UNCHANGED ed
      BY DEF vars
    <2> QED
      BY <2>2, <2>3, <2>4, <2>5, <2>6, <2>7, <2>8, <2>9, <2>10, <2>11 DEF Next
  <1> QED
    BY <1>1, Invariance, PTL DEF Spec, UnsavedIsAsked

=============================================================================
