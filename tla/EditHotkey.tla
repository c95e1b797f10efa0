------------------------------ MODULE EditHotkey ------------------------------
(****************************************************************************)
(* The key that opens and closes the preset editor: its settings file       *)
(* (EditHotkeySettings.cpp) and the keyboard input that is captured for it  *)
(* (PresetEditorMenu.cpp: OnEditHotkeyInput, ApplyCapturedEditHotkey;       *)
(* PresetEditorPolicy.h: DecideEditHotkeyInput).                            *)
(*                                                                          *)
(* The actions say nothing of the editor: PresetEditor composes them with   *)
(* it.  The input callback may run on the thread of the frames or on        *)
(* another; there, frames come between what it reads and what it stores.    *)
(****************************************************************************)
EXTENDS Naturals

CONSTANTS
    Keys,        \* keyboard keys
    DefaultKey,  \* kDefaultEditHotkey
    Escape,      \* kEscapeKeyboardKey, which cannot be assigned
    NoKey        \* 0

ASSUME HotkeyAssumption ==
    /\ {DefaultKey, Escape} \subseteq Keys /\ DefaultKey # Escape
    /\ NoKey \notin Keys

VARIABLES
    file,      \* the settings file
    settings,  \* EditHotkeySettings
    hotkey,    \* the four atomics of EditorState
    down,      \* the keys held down
    input,     \* the decision of an input callback that has not stored it yet
    promised,  \* history: the key the user was told is assigned
    asked,     \* history: the user wants the next key assigned
    captive    \* history: held keys whose press was kept from the game

hotkeyVars == <<file, settings, hotkey, down, input, promised, asked, captive>>

Assignable == Keys \ {Escape}
Default == [key |-> DefaultKey, debug |-> FALSE]
Saved == [key : Assignable, debug : BOOLEAN]
NoFile == [key |-> NoKey, debug |-> FALSE]

\* What a file stands for; without one the defaults hold.
FileSays == IF file = NoFile THEN Default ELSE file

Decision == [key : Keys, consume : BOOLEAN, toggle : BOOLEAN, finish : BOOLEAN,
             captured : Keys \cup {NoKey}, owned : Keys \cup {NoKey}]
NoInput == [key |-> NoKey]

Untouched == [awaiting |-> FALSE, captured |-> NoKey, owned |-> NoKey, requested |-> FALSE]

\* LoadFromFile, when the game starts.  blind marks a load that failed, until the
\* next save.
Loaded(ok) == [is |-> IF ok THEN FileSays ELSE Default, blind |-> ~ok]

HotkeyInit ==
    /\ file = NoFile
    /\ settings = Loaded(TRUE)
    /\ hotkey = Untouched
    /\ down = {} /\ input = NoInput /\ captive = {}
    /\ promised = DefaultKey /\ asked = FALSE

-----------------------------------------------------------------------------
(* The settings.                                                            *)

\* Mutant: memory follows although the file could not be written.
SavesAnyway(to, ok) ==
    /\ settings' = [is |-> to, blind |-> FALSE]
    /\ file' = IF ok THEN to ELSE file

\* Both settings are written to a temporary file that replaces the old one in
\* one step; memory follows.
Saves(to, ok) ==
    IF ok THEN file' = to /\ settings' = [is |-> to, blind |-> FALSE]
    ELSE UNCHANGED <<file, settings>>

\* After a load that failed this replaces a key that was never seen.
SetDebugMode(debug, ok) ==
    /\ Saves([settings.is EXCEPT !.debug = debug], ok)
    /\ promised' = IF ok /\ settings.blind THEN NoKey ELSE promised
    /\ UNCHANGED <<hotkey, down, input, asked, captive>>

-----------------------------------------------------------------------------
(* The frames: the HUD element and the dashboard apply what was captured.   *)

\* Mutant: what was captured already is not taken back.
CancelledHalf(h) == [h EXCEPT !.awaiting = FALSE]

\* CancelEditHotkeyAssignment.
Cancelled(h) == [h EXCEPT !.awaiting = FALSE, !.captured = NoKey]

ApplyCapturedEditHotkey(ok) ==
    /\ hotkey.captured # NoKey
    /\ hotkey' = Cancelled(hotkey)
    /\ Saves([settings.is EXCEPT !.key = hotkey.captured], ok)
    /\ promised' = IF ok THEN hotkey.captured ELSE promised
    /\ asked' = FALSE
    /\ UNCHANGED <<down, input, captive>>

\* The button, which changes into "Cancel" while a key is awaited.
ChangeEditHotkey ==
    /\ hotkey' = [hotkey EXCEPT !.awaiting = ~@, !.captured = NoKey]
    /\ asked' = ~hotkey.awaiting
    /\ UNCHANGED <<file, settings, down, input, promised, captive>>

-----------------------------------------------------------------------------
(* The keyboard: a key goes down, is reported as held, and goes up.         *)

PassOn(key) ==
    [key |-> key, consume |-> FALSE, toggle |-> FALSE, finish |-> FALSE,
     captured |-> NoKey, owned |-> NoKey]

\* DecideEditHotkeyInput.  What it does not consume forgets the owned key.
Decide(phase, key, canToggle) ==
    CASE phase # "down" /\ hotkey.owned = key ->
            [PassOn(key) EXCEPT !.consume = TRUE,
                                !.owned = IF phase = "held" THEN key ELSE NoKey]
      [] phase = "down" /\ hotkey.awaiting ->
            [PassOn(key) EXCEPT !.consume = TRUE, !.finish = TRUE, !.owned = key,
                                !.captured = IF key = Escape THEN NoKey ELSE key]
      [] phase = "down" /\ ~hotkey.awaiting /\ key = settings.is.key /\ canToggle ->
            [PassOn(key) EXCEPT !.consume = TRUE, !.toggle = TRUE, !.owned = key]
      [] OTHER -> PassOn(key)

\* The stores that follow a decision, with the keys held down by then.  An
\* Escape that was awaited takes the wish back.
Stores(decision, held) ==
    /\ hotkey' = [awaiting |-> hotkey.awaiting /\ ~decision.finish,
                  captured |-> IF decision.finish THEN decision.captured
                               ELSE hotkey.captured,
                  owned |-> decision.owned,
                  requested |-> hotkey.requested \/ decision.toggle]
    /\ asked' = (asked /\ ~(decision.finish /\ decision.captured = NoKey))
    /\ captive' = (captive \cup IF decision.consume THEN {decision.key} ELSE {}) \cap held

Held(phase, key) ==
    CASE phase = "down" -> down \cup {key}
      [] phase = "held" -> down
      [] phase = "up" -> down \ {key}

\* OnEditHotkeyInput, which stores at once or is overtaken before it does.
KeyInput(phase, key, canToggle, atOnce) ==
    /\ input = NoInput
    /\ phase = "down" <=> key \notin down
    /\ down' = Held(phase, key)
    /\ IF atOnce
       THEN Stores(Decide(phase, key, canToggle), Held(phase, key)) /\ UNCHANGED input
       ELSE input' = Decide(phase, key, canToggle) /\ UNCHANGED <<hotkey, asked, captive>>
    /\ UNCHANGED <<file, settings, promised>>

StoreInput ==
    /\ input # NoInput
    /\ Stores(input, down)
    /\ input' = NoInput
    /\ UNCHANGED <<file, settings, down, promised>>

\* The game is started again.
Restarted(ok) ==
    /\ settings' = Loaded(ok)
    /\ hotkey' = Untouched
    /\ down' = {} /\ input' = NoInput /\ captive' = {}
    /\ asked' = FALSE
    /\ UNCHANGED <<file, promised>>

-----------------------------------------------------------------------------
HotkeyTypeOK ==
    /\ file \in Saved \cup {NoFile}
    /\ settings \in [is : Saved, blind : BOOLEAN]
    /\ hotkey \in [awaiting : BOOLEAN, captured : Assignable \cup {NoKey},
                   owned : Keys \cup {NoKey}, requested : BOOLEAN]
    /\ {down, captive} \subseteq SUBSET Keys
    /\ input \in Decision \cup {NoInput}
    /\ promised \in Assignable \cup {NoKey} /\ asked \in BOOLEAN

\* preset-settings-spec.md: an assignment the user was told of outlasts every
\* failed write and every restart, and memory never holds what the file does not;
\* after a load that failed both hold again from the next assignment on.
AssignmentLasts ==
    /\ promised # NoKey => FileSays.key = promised
    /\ ~settings.blind => settings.is = FileSays

\* preset-settings-spec.md, line 62: a press that was captured is kept from the
\* game up to its release, never its end alone passed on.
GestureIsWhole == captive \subseteq {hotkey.owned}
=============================================================================
