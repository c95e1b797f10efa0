------------------------------ MODULE PresetStore ------------------------------
(***************************************************************************)
(* The preset repository (runtime/PresetRepository.cpp) and the file it    *)
(* keeps: the load at start-up, Reload, Create, Update and Delete, each cut*)
(* at the calls into the file system, every one of which may fail.  People *)
(* and other programs write the file too, and the game may die anywhere.   *)
(*                                                                         *)
(* The edits and Reload come from the editor's thread and the load ends    *)
(* before the editor exists, so the operations do not interleave.          *)
(* A preset is a value; order, names and field ranges are left out, and so *)
(* are edits refused for their values, which touch nothing.  Running out   *)
(* of memory, or a mutex that throws, is not modelled.                     *)
(***************************************************************************)
EXTENDS Naturals, FiniteSets

CONSTANTS IDs, Values,  \* preset ids and the presets they may name
          NoPreset,     \* the id names no preset
          Unreadable,   \* file contents that ParseSnapshot refuses
          Missing,      \* there is no file
          MaxOutside,   \* writes by others
          MaxFailures,  \* failing file-system calls
          MaxCrashes    \* ends of the game

ASSUME StoreAssumption ==
    /\ MaxOutside \in Nat /\ MaxFailures \in Nat /\ MaxCrashes \in Nat
    /\ NoPreset \notin Values
    /\ \A l \in [IDs -> Values \cup {NoPreset}] : l \notin Unreadable \cup {Missing}
    /\ Missing \notin Unreadable

VARIABLES
    file,     \* what presets.json holds
    backups,  \* the contents of its complete *.invalid*.bak copies
    repo,     \* persistedSnapshot_ (published under the same lock), loaded_,
              \* backupBeforeNextWrite_
    op,       \* the operation under way: its kind, next step and list
    known,    \* ghost: see Ghosts
    spent     \* how much of each bound is used up

vars == <<file, backups, repo, op, known, spent>>

Lists == [IDs -> Values \cup {NoPreset}]
Empty == [i \in IDs |-> NoPreset]
Contents == Lists \cup Unreadable \cup {Missing}

Steps == {"exists", "read", "take", "fail", "idle", "backup", "write", "replace"}
Kinds == {"load", "reload", "edit"}

\* "list": nobody else wrote the file since the list was read from it or saved
\* in it; "care": nobody else wrote it since the plugin last read it, saved it,
\* copied it, or found that it exists and does not load.
Ghosts == [list : BOOLEAN, care : BOOLEAN]

\* Start-up: the load's first step is next.
Started == [kind |-> "load", step |-> "exists", list |-> Empty]
Blank == [list |-> Empty, loaded |-> FALSE, backup |-> FALSE]

Init ==
    /\ file \in Contents
    /\ backups = {}
    /\ repo = Blank
    /\ op = Started
    /\ known = [list |-> FALSE, care |-> FALSE]
    /\ spent = [outside |-> 0, failures |-> 0, crashes |-> 0]

-----------------------------------------------------------------------------
\* The call into the file system fails.
Fails ==
    /\ spent.failures < MaxFailures
    /\ spent' = [spent EXCEPT !.failures = @ + 1]

At(step) == op.step = step
Goto(step) == op' = [op EXCEPT !.step = step]

\* std::filesystem::exists(a_path, existsError) of LoadFromFile.
LoadFindsNothing ==
    /\ At("exists") /\ file = Missing
    /\ repo' = [list |-> Empty, loaded |-> TRUE, backup |-> FALSE]
    /\ known' = [list |-> TRUE, care |-> TRUE]
    /\ Goto("idle")
    /\ UNCHANGED <<file, backups, spent>>

LoadFindsFile ==
    /\ At("exists") /\ file # Missing
    /\ Goto("read")
    /\ UNCHANGED <<file, backups, repo, known, spent>>

LoadCannotTell ==
    /\ At("exists") /\ Fails
    /\ Goto("fail")
    /\ UNCHANGED <<file, backups, repo, known>>

BeginReload ==
    /\ At("idle")
    /\ op' = [op EXCEPT !.kind = "reload", !.step = "read"]
    /\ UNCHANGED <<file, backups, repo, known, spent>>

\* Opening and parsing, outside the lock.
\* Mutant: the document is taken without being checked.
ReadFileUnchecked ==
    /\ At("read") /\ file # Missing
    /\ op' = [op EXCEPT !.step = "take", !.list = file]
    /\ known' = [list |-> TRUE, care |-> TRUE]
    /\ UNCHANGED <<file, backups, repo, spent>>

ReadFile ==
    /\ At("read") /\ file \in Lists
    /\ op' = [op EXCEPT !.step = "take", !.list = file]
    /\ known' = [list |-> TRUE, care |-> TRUE]
    /\ UNCHANGED <<file, backups, repo, spent>>

ReadFails ==
    /\ At("read")
    /\ IF file \in Lists THEN Fails ELSE UNCHANGED spent
    /\ Goto("fail")
    /\ UNCHANGED <<file, backups, repo, known>>

TakeList ==
    /\ At("take")
    /\ repo' = [list |-> op.list, loaded |-> TRUE, backup |-> FALSE]
    /\ Goto("idle")
    /\ UNCHANGED <<file, backups, known, spent>>

\* The handlers.  They ask whether the file exists and ignore the error of the
\* question, which then answers no.  A failed load empties the list, a failed
\* Reload keeps it.
LoadHandled(exists) ==
    IF op.kind = "load" THEN [Blank EXCEPT !.backup = exists]
                        ELSE [repo EXCEPT !.backup = exists]

HandleFailure ==
    /\ At("fail")
    /\ repo' = LoadHandled(file # Missing)
    /\ known' = [list |-> known.list /\ op.kind = "reload", care |-> file # Missing]
    /\ Goto("idle")
    /\ UNCHANGED <<file, backups, spent>>

HandleBlindly ==
    /\ At("fail") /\ Fails
    /\ repo' = LoadHandled(FALSE)
    /\ known' = [list |-> known.list /\ op.kind = "reload", care |-> FALSE]
    /\ Goto("idle")
    /\ UNCHANGED <<file, backups>>

-----------------------------------------------------------------------------
\* The edits, and PersistAndPublishLocked that all of them end in.
BeginEdit(list) ==
    /\ op' = [kind |-> "edit", list |-> list,
              step |-> IF repo.backup THEN "backup" ELSE "write"]
    /\ UNCHANGED <<file, backups, repo, known, spent>>

\* Create does not ask whether the list is loaded.
Create(i, v) ==
    /\ At("idle") /\ repo.list[i] = NoPreset
    /\ BeginEdit([repo.list EXCEPT ![i] = v])

Update(i, v) ==
    /\ At("idle") /\ repo.loaded /\ repo.list[i] # NoPreset
    /\ BeginEdit([repo.list EXCEPT ![i] = v])

Delete(i) ==
    /\ At("idle") /\ repo.loaded /\ repo.list[i] # NoPreset
    /\ BeginEdit([repo.list EXCEPT ![i] = NoPreset])

\* A failing step ends the edit: Failure(exception.what()).
EditFails ==
    /\ At("backup") \/ At("write") \/ At("replace")
    /\ Fails
    /\ Goto("idle")
    /\ UNCHANGED <<file, backups, repo, known>>

\* Mutant: the flag is cleared before the copy that may fail.
BackUpFlagFirst ==
    /\ At("backup")
    /\ repo' = [repo EXCEPT !.backup = FALSE]
    /\ \/ /\ backups' = IF file = Missing THEN backups ELSE backups \cup {file}
          /\ known' = [known EXCEPT !.care = TRUE]
          /\ Goto("write")
          /\ UNCHANGED spent
       \/ Fails /\ Goto("idle") /\ UNCHANGED <<backups, known>>
    /\ UNCHANGED file

\* BackupUnreadableFile: copied under a name not taken, or nothing to copy.
BackUp ==
    /\ At("backup")
    /\ backups' = IF file = Missing THEN backups ELSE backups \cup {file}
    /\ repo' = [repo EXCEPT !.backup = FALSE]
    /\ known' = [known EXCEPT !.care = TRUE]
    /\ Goto("write")
    /\ UNCHANGED <<file, spent>>

\* Mutant: the list changes before the file is replaced.
WriteTemporaryLate ==
    /\ At("write")
    /\ repo' = [repo EXCEPT !.list = op.list]
    /\ Goto("replace")
    /\ UNCHANGED <<file, backups, known, spent>>

\* The temporary file has a name of its own; only its loss or its move shows.
WriteTemporary ==
    /\ At("write")
    /\ Goto("replace")
    /\ UNCHANGED <<file, backups, repo, known, spent>>

\* MoveFileExW replaces the file at once; the list is published after it, still
\* under the lock.
Replace ==
    /\ At("replace")
    /\ file' = op.list
    /\ repo' = [repo EXCEPT !.list = op.list, !.loaded = TRUE]
    /\ known' = [list |-> TRUE, care |-> TRUE]
    /\ Goto("idle")
    /\ UNCHANGED <<backups, spent>>

-----------------------------------------------------------------------------
\* A person, a mod manager or another program writes or removes the file.
Outside(c) ==
    /\ spent.outside < MaxOutside /\ c # file
    /\ file' = c
    /\ known' = [list |-> FALSE, care |-> FALSE]
    /\ spent' = [spent EXCEPT !.outside = @ + 1]
    /\ UNCHANGED <<backups, repo, op>>

\* The game dies; what is on the disk is all the next start has.
Crash ==
    /\ spent.crashes < MaxCrashes
    /\ repo' = Blank
    /\ op' = Started
    /\ known' = [known EXCEPT !.list = FALSE]
    /\ spent' = [spent EXCEPT !.crashes = @ + 1]
    /\ UNCHANGED <<file, backups>>

Load == LoadFindsNothing \/ LoadFindsFile \/ LoadCannotTell
Read == ReadFile \/ ReadFails \/ TakeList \/ HandleFailure \/ HandleBlindly
Edit == \/ \E i \in IDs, v \in Values : Create(i, v) \/ Update(i, v)
        \/ \E i \in IDs : Delete(i)
Persist == EditFails \/ BackUp \/ WriteTemporary \/ Replace

Next == \/ Load \/ BeginReload \/ Read \/ Edit \/ Persist
        \/ \E c \in Contents : Outside(c)
        \/ Crash

Spec == Init /\ [][Next]_vars

-----------------------------------------------------------------------------
TypeOK ==
    /\ file \in Contents
    /\ backups \subseteq Contents \ {Missing}
    /\ repo \in [list : Lists, loaded : BOOLEAN, backup : BOOLEAN]
    /\ op \in [kind : Kinds, step : Steps, list : Lists]
    /\ known \in Ghosts
    /\ spent \in [outside : 0 .. MaxOutside, failures : 0 .. MaxFailures,
                  crashes : 0 .. MaxCrashes]

\* What the procedure is offered, and what the next edit starts from, is what
\* the file holds, whatever failed on the way: as long as nobody else wrote it
\* (PersistAndPublishLocked changes memory only after the file).
MemoryFollowsFile ==
    At("idle") /\ repo.loaded /\ known.list =>
        \/ file = repo.list
        \/ file = Missing /\ repo.list = Empty

\* A step of the plugin that replaces the file (only others change it without
\* moving the operation on) loses nothing the plugin knew to be there: what it
\* replaces has a complete copy, or differs from the new list in one preset.
\* (backupBeforeNextWrite_ across failed loads, failed edits, retries and
\* restarts.)
OneChange(old, new) ==
    /\ old \in Lists
    /\ Cardinality({i \in IDs : old[i] # new[i]}) <= 1

NoPresetIsLost ==
    [][op' # op /\ known.care /\ file' # file =>
          file = Missing \/ file \in backups \/ OneChange(file, file')]_vars

\* The repository is such a document, whatever fails on the way: what a load has
\* read counts once it is parsed, an edit once the file is replaced.
Document == INSTANCE PresetDocument WITH
    stored <- file, offered <- repo.list, ready <- repo.loaded,
    read <- IF At("take") THEN op.list ELSE Missing

IsADocument == Document!Spec
=============================================================================
