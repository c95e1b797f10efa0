---------------------------- MODULE PresetStoreProofs ----------------------------
(***************************************************************************)
(* Proofs about PresetStore, for all ids, values, unreadable contents and  *)
(* bounds.                                                                 *)
(***************************************************************************)
EXTENDS PresetStore, FiniteSetTheorems, TLAPS

-----------------------------------------------------------------------------
(* The inductive invariant.                                                 *)

\* Nothing would be lost with the file: it is gone, or has a copy, or is in
\* memory.
Held == file = Missing \/ file \in backups \/ file = repo.list

\* A list that was read and not taken yet is the file's, unless others wrote.
ReadIsFresh == At("take") /\ (known.list \/ known.care) => file = op.list

\* Memory is the file's list at every step, not only between operations.
MemoryIsFresh ==
    ~At("take") /\ repo.loaded /\ known.list =>
        \/ file = repo.list
        \/ file = Missing /\ repo.list = Empty

\* When no copy is owed, none is needed.
NoCopyIsNeeded ==
    op.step \in {"idle", "backup", "write", "replace"} /\ known.care /\ ~repo.backup
        => Held

\* What an edit is about to replace is not lost by it.
EditLosesNothing ==
    op.step \in {"write", "replace"} /\ known.care =>
        file = Missing \/ file \in backups \/ OneChange(file, op.list)

IInv == /\ TypeOK
        /\ ReadIsFresh
        /\ MemoryIsFresh
        /\ NoCopyIsNeeded
        /\ EditLosesNothing


-----------------------------------------------------------------------------
(* Lemmas about edits.                                                      *)

\* Putting a value in one place changes at most one preset.
LEMMA OneEdit ==
    ASSUME NEW l \in Lists, NEW i \in IDs, NEW v \in Values \cup {NoPreset}
    PROVE  /\ [l EXCEPT ![i] = v] \in Lists
           /\ OneChange(l, [l EXCEPT ![i] = v])
<1> DEFINE changed == {j \in IDs : l[j] # [l EXCEPT ![i] = v][j]}
<1>1. [l EXCEPT ![i] = v] \in Lists
  BY DEF Lists
<1>2. changed \subseteq {i}
  BY DEF Lists
<1>3. IsFiniteSet({i}) /\ Cardinality({i}) = 1
  BY FS_Singleton
<1>4. Cardinality(changed) <= 1
  BY <1>2, <1>3, FS_Subset
<1> QED
  BY <1>1, <1>4 DEF OneChange

-----------------------------------------------------------------------------
(* Init and each action.                                                    *)

LEMMA EmptyIsAList == Empty \in Lists /\ Lists \subseteq Contents
BY DEF Empty, Lists, Contents

LEMMA InitIsInductive == Init => IInv
BY EmptyIsAList, StoreAssumption
   DEF Init, IInv, TypeOK, Started, Blank, Contents, Steps, Kinds, Ghosts,
       ReadIsFresh, MemoryIsFresh, NoCopyIsNeeded, EditLosesNothing, At

\* The load finds no file.
LEMMA LoadFindsNothingKeepsIInv ==
    ASSUME IInv, LoadFindsNothing
    PROVE  IInv'
<1> USE DEF IInv, At, LoadFindsNothing, Goto
<1>1. TypeOK'
  BY EmptyIsAList, StoreAssumption DEF TypeOK, Steps, Kinds, Ghosts
<1>2. ReadIsFresh'
  BY DEF TypeOK, ReadIsFresh, Ghosts
<1>3. MemoryIsFresh'
  BY DEF TypeOK, ReadIsFresh, MemoryIsFresh, Ghosts
<1>4. NoCopyIsNeeded'
  BY DEF TypeOK, ReadIsFresh, NoCopyIsNeeded, Held, Ghosts
<1>5. EditLosesNothing'
  BY DEF TypeOK, NoCopyIsNeeded, EditLosesNothing, Held, Ghosts
<1> QED
  BY <1>1, <1>2, <1>3, <1>4, <1>5

\* The load finds a file.
LEMMA LoadFindsFileKeepsIInv ==
    ASSUME IInv, LoadFindsFile
    PROVE  IInv'
<1> USE DEF IInv, At, LoadFindsFile, Goto
<1>1. TypeOK'
  BY EmptyIsAList, StoreAssumption DEF TypeOK, Steps, Kinds, Ghosts
<1>2. ReadIsFresh'
  BY DEF TypeOK, ReadIsFresh, Ghosts
<1>3. MemoryIsFresh'
  BY DEF TypeOK, ReadIsFresh, MemoryIsFresh, Ghosts
<1>4. NoCopyIsNeeded'
  BY DEF TypeOK, ReadIsFresh, NoCopyIsNeeded, Held, Ghosts
<1>5. EditLosesNothing'
  BY DEF TypeOK, NoCopyIsNeeded, EditLosesNothing, Held, Ghosts
<1> QED
  BY <1>1, <1>2, <1>3, <1>4, <1>5

\* The load cannot tell whether there is a file.
LEMMA LoadCannotTellKeepsIInv ==
    ASSUME IInv, LoadCannotTell
    PROVE  IInv'
<1> USE DEF IInv, At, LoadCannotTell, Goto, Fails
<1>1. TypeOK'
  BY EmptyIsAList, StoreAssumption DEF TypeOK, Steps, Kinds, Ghosts
<1>2. ReadIsFresh'
  BY DEF TypeOK, ReadIsFresh, Ghosts
<1>3. MemoryIsFresh'
  BY DEF TypeOK, ReadIsFresh, MemoryIsFresh, Ghosts
<1>4. NoCopyIsNeeded'
  BY DEF TypeOK, ReadIsFresh, NoCopyIsNeeded, Held, Ghosts
<1>5. EditLosesNothing'
  BY DEF TypeOK, NoCopyIsNeeded, EditLosesNothing, Held, Ghosts
<1> QED
  BY <1>1, <1>2, <1>3, <1>4, <1>5

\* Reload begins.
LEMMA BeginReloadKeepsIInv ==
    ASSUME IInv, BeginReload
    PROVE  IInv'
<1> USE DEF IInv, At, BeginReload
<1>1. TypeOK'
  BY EmptyIsAList, StoreAssumption DEF TypeOK, Steps, Kinds, Ghosts
<1>2. ReadIsFresh'
  BY DEF TypeOK, ReadIsFresh, Ghosts
<1>3. MemoryIsFresh'
  BY DEF TypeOK, ReadIsFresh, MemoryIsFresh, Ghosts
<1>4. NoCopyIsNeeded'
  BY DEF TypeOK, ReadIsFresh, NoCopyIsNeeded, Held, Ghosts
<1>5. EditLosesNothing'
  BY DEF TypeOK, NoCopyIsNeeded, EditLosesNothing, Held, Ghosts
<1> QED
  BY <1>1, <1>2, <1>3, <1>4, <1>5

\* The file is read and parsed.
LEMMA ReadFileKeepsIInv ==
    ASSUME IInv, ReadFile
    PROVE  IInv'
<1> USE DEF IInv, At, ReadFile
<1>1. TypeOK'
  BY EmptyIsAList, StoreAssumption DEF TypeOK, Steps, Kinds, Ghosts
<1>2. ReadIsFresh'
  BY DEF TypeOK, ReadIsFresh, Ghosts
<1>3. MemoryIsFresh'
  BY DEF TypeOK, ReadIsFresh, MemoryIsFresh, Ghosts
<1>4. NoCopyIsNeeded'
  BY DEF TypeOK, ReadIsFresh, NoCopyIsNeeded, Held, Ghosts
<1>5. EditLosesNothing'
  BY DEF TypeOK, NoCopyIsNeeded, EditLosesNothing, Held, Ghosts
<1> QED
  BY <1>1, <1>2, <1>3, <1>4, <1>5

\* The file cannot be read or parsed.
LEMMA ReadFailsKeepsIInv ==
    ASSUME IInv, ReadFails
    PROVE  IInv'
<1> USE DEF IInv, At, ReadFails, Goto, Fails
<1>1. TypeOK'
  BY EmptyIsAList, StoreAssumption DEF TypeOK, Steps, Kinds, Ghosts
<1>2. ReadIsFresh'
  BY DEF TypeOK, ReadIsFresh, Ghosts
<1>3. MemoryIsFresh'
  BY DEF TypeOK, ReadIsFresh, MemoryIsFresh, Ghosts
<1>4. NoCopyIsNeeded'
  BY DEF TypeOK, ReadIsFresh, NoCopyIsNeeded, Held, Ghosts
<1>5. EditLosesNothing'
  BY DEF TypeOK, NoCopyIsNeeded, EditLosesNothing, Held, Ghosts
<1> QED
  BY <1>1, <1>2, <1>3, <1>4, <1>5

\* What was read becomes the list.
LEMMA TakeListKeepsIInv ==
    ASSUME IInv, TakeList
    PROVE  IInv'
<1> USE DEF IInv, At, TakeList, Goto
<1>1. TypeOK'
  BY EmptyIsAList, StoreAssumption DEF TypeOK, Steps, Kinds, Ghosts
<1>2. ReadIsFresh'
  BY DEF TypeOK, ReadIsFresh, Ghosts
<1>3. MemoryIsFresh'
  BY DEF TypeOK, ReadIsFresh, MemoryIsFresh, Ghosts
<1>4. NoCopyIsNeeded'
  BY DEF TypeOK, ReadIsFresh, NoCopyIsNeeded, Held, Ghosts
<1>5. EditLosesNothing'
  BY DEF TypeOK, NoCopyIsNeeded, EditLosesNothing, Held, Ghosts
<1> QED
  BY <1>1, <1>2, <1>3, <1>4, <1>5

\* A failed load or reload asks for the file and gets an answer.
LEMMA HandleFailureKeepsIInv ==
    ASSUME IInv, HandleFailure
    PROVE  IInv'
<1> USE DEF IInv, At, HandleFailure, Goto, LoadHandled, Blank
<1>1. TypeOK'
  BY EmptyIsAList, StoreAssumption DEF TypeOK, Steps, Kinds, Ghosts
<1>2. ReadIsFresh'
  BY DEF TypeOK, ReadIsFresh, Ghosts
<1>3. MemoryIsFresh'
  BY DEF TypeOK, ReadIsFresh, MemoryIsFresh, Ghosts
<1>4. NoCopyIsNeeded'
  BY DEF TypeOK, ReadIsFresh, NoCopyIsNeeded, Held, Ghosts
<1>5. EditLosesNothing'
  BY DEF TypeOK, NoCopyIsNeeded, EditLosesNothing, Held, Ghosts
<1> QED
  BY <1>1, <1>2, <1>3, <1>4, <1>5

\* A failed load or reload asks for the file and gets an error.
LEMMA HandleBlindlyKeepsIInv ==
    ASSUME IInv, HandleBlindly
    PROVE  IInv'
<1> USE DEF IInv, At, HandleBlindly, Goto, LoadHandled, Fails, Blank
<1>1. TypeOK'
  <2>1. spent' \in [outside : 0 .. MaxOutside, failures : 0 .. MaxFailures,
                    crashes : 0 .. MaxCrashes]
    BY StoreAssumption DEF TypeOK
  <2>2. repo' \in [list : Lists, loaded : BOOLEAN, backup : BOOLEAN]
    BY EmptyIsAList DEF TypeOK
  <2>3. op' \in [kind : Kinds, step : Steps, list : Lists] /\ known' \in Ghosts
    BY EmptyIsAList DEF TypeOK, Steps, Kinds, Ghosts
  <2> QED
    BY <2>1, <2>2, <2>3 DEF TypeOK
<1>2. ReadIsFresh'
  BY DEF TypeOK, ReadIsFresh, Ghosts
<1>3. MemoryIsFresh'
  BY DEF TypeOK, ReadIsFresh, MemoryIsFresh, Ghosts
<1>4. NoCopyIsNeeded'
  BY DEF TypeOK, ReadIsFresh, NoCopyIsNeeded, Held, Ghosts
<1>5. EditLosesNothing'
  BY DEF TypeOK, NoCopyIsNeeded, EditLosesNothing, Held, Ghosts
<1> QED
  BY <1>1, <1>2, <1>3, <1>4, <1>5

\* A step of an edit fails.
LEMMA EditFailsKeepsIInv ==
    ASSUME IInv, EditFails
    PROVE  IInv'
<1> USE DEF IInv, At, EditFails, Goto, Fails
<1>1. TypeOK'
  BY EmptyIsAList, StoreAssumption DEF TypeOK, Steps, Kinds, Ghosts
<1>2. ReadIsFresh'
  BY DEF TypeOK, ReadIsFresh, Ghosts
<1>3. MemoryIsFresh'
  BY DEF TypeOK, ReadIsFresh, MemoryIsFresh, Ghosts
<1>4. NoCopyIsNeeded'
  BY DEF TypeOK, ReadIsFresh, NoCopyIsNeeded, Held, Ghosts
<1>5. EditLosesNothing'
  BY DEF TypeOK, NoCopyIsNeeded, EditLosesNothing, Held, Ghosts
<1> QED
  BY <1>1, <1>2, <1>3, <1>4, <1>5

\* The copy is made.
LEMMA BackUpKeepsIInv ==
    ASSUME IInv, BackUp
    PROVE  IInv'
<1> USE DEF IInv, At, BackUp, Goto
<1>1. TypeOK'
  BY EmptyIsAList, StoreAssumption DEF TypeOK, Steps, Kinds, Ghosts
<1>2. ReadIsFresh'
  BY DEF TypeOK, ReadIsFresh, Ghosts
<1>3. MemoryIsFresh'
  BY DEF TypeOK, ReadIsFresh, MemoryIsFresh, Ghosts
<1>4. NoCopyIsNeeded'
  BY DEF TypeOK, ReadIsFresh, NoCopyIsNeeded, Held, Ghosts
<1>5. EditLosesNothing'
  BY DEF TypeOK, NoCopyIsNeeded, EditLosesNothing, Held, Ghosts
<1> QED
  BY <1>1, <1>2, <1>3, <1>4, <1>5

\* The temporary file is written.
LEMMA WriteTemporaryKeepsIInv ==
    ASSUME IInv, WriteTemporary
    PROVE  IInv'
<1> USE DEF IInv, At, WriteTemporary, Goto
<1>1. TypeOK'
  BY EmptyIsAList, StoreAssumption DEF TypeOK, Steps, Kinds, Ghosts
<1>2. ReadIsFresh'
  BY DEF TypeOK, ReadIsFresh, Ghosts
<1>3. MemoryIsFresh'
  BY DEF TypeOK, ReadIsFresh, MemoryIsFresh, Ghosts
<1>4. NoCopyIsNeeded'
  BY DEF TypeOK, ReadIsFresh, NoCopyIsNeeded, Held, Ghosts
<1>5. EditLosesNothing'
  BY DEF TypeOK, NoCopyIsNeeded, EditLosesNothing, Held, Ghosts
<1> QED
  BY <1>1, <1>2, <1>3, <1>4, <1>5

\* The file is replaced and the list published.
LEMMA ReplaceKeepsIInv ==
    ASSUME IInv, Replace
    PROVE  IInv'
<1> USE DEF IInv, At, Replace, Goto
<1>1. TypeOK'
  BY EmptyIsAList, StoreAssumption DEF TypeOK, Steps, Kinds, Ghosts
<1>2. ReadIsFresh'
  BY DEF TypeOK, ReadIsFresh, Ghosts
<1>3. MemoryIsFresh'
  BY DEF TypeOK, ReadIsFresh, MemoryIsFresh, Ghosts
<1>4. NoCopyIsNeeded'
  BY DEF TypeOK, ReadIsFresh, NoCopyIsNeeded, Held, Ghosts
<1>5. EditLosesNothing'
  BY DEF TypeOK, NoCopyIsNeeded, EditLosesNothing, Held, Ghosts
<1> QED
  BY <1>1, <1>2, <1>3, <1>4, <1>5

\* The game dies.
LEMMA CrashKeepsIInv ==
    ASSUME IInv, Crash
    PROVE  IInv'
<1> USE DEF IInv, At, Crash, Started, Blank
<1>1. TypeOK'
  <2>1. spent' \in [outside : 0 .. MaxOutside, failures : 0 .. MaxFailures,
                    crashes : 0 .. MaxCrashes]
    BY StoreAssumption DEF TypeOK
  <2>2. repo' \in [list : Lists, loaded : BOOLEAN, backup : BOOLEAN]
    BY EmptyIsAList DEF TypeOK
  <2>3. op' \in [kind : Kinds, step : Steps, list : Lists] /\ known' \in Ghosts
    BY EmptyIsAList DEF TypeOK, Steps, Kinds, Ghosts
  <2> QED
    BY <2>1, <2>2, <2>3 DEF TypeOK
<1>2. ReadIsFresh'
  BY DEF TypeOK, ReadIsFresh, Ghosts
<1>3. MemoryIsFresh'
  BY DEF TypeOK, ReadIsFresh, MemoryIsFresh, Ghosts
<1>4. NoCopyIsNeeded'
  BY DEF TypeOK, ReadIsFresh, NoCopyIsNeeded, Held, Ghosts
<1>5. EditLosesNothing'
  BY DEF TypeOK, NoCopyIsNeeded, EditLosesNothing, Held, Ghosts
<1> QED
  BY <1>1, <1>2, <1>3, <1>4, <1>5

\* Others write the file.
LEMMA OutsideKeepsIInv ==
    ASSUME IInv, NEW c \in Contents, Outside(c)
    PROVE  IInv'
<1> USE DEF IInv, At, Outside
<1>1. TypeOK'
  BY EmptyIsAList, StoreAssumption DEF TypeOK, Steps, Kinds, Ghosts
<1>2. ReadIsFresh'
  BY DEF TypeOK, ReadIsFresh, Ghosts
<1>3. MemoryIsFresh'
  BY DEF TypeOK, ReadIsFresh, MemoryIsFresh, Ghosts
<1>4. NoCopyIsNeeded'
  BY DEF TypeOK, ReadIsFresh, NoCopyIsNeeded, Held, Ghosts
<1>5. EditLosesNothing'
  BY DEF TypeOK, NoCopyIsNeeded, EditLosesNothing, Held, Ghosts
<1> QED
  BY <1>1, <1>2, <1>3, <1>4, <1>5

\* Create, Update and Delete begin an edit that changes at most one preset.
LEMMA EditKeepsIInv ==
    ASSUME IInv, Edit
    PROVE  IInv'
<1> USE DEF IInv, At
<1>1. PICK i \in IDs, v \in Values \cup {NoPreset} :
          At("idle") /\ BeginEdit([repo.list EXCEPT ![i] = v])
  BY DEF Edit, Create, Update, Delete
<1> DEFINE new == [repo.list EXCEPT ![i] = v]
<1>2. new \in Lists /\ OneChange(repo.list, new)
  BY OneEdit DEF TypeOK
<1> HIDE DEF new
<1>3. /\ op.step = "idle"
      /\ op' = [kind |-> "edit", list |-> new,
                step |-> IF repo.backup THEN "backup" ELSE "write"]
      /\ UNCHANGED <<file, backups, repo, known, spent>>
  BY <1>1 DEF BeginEdit, new
<1>4. TypeOK'
  BY <1>2, <1>3 DEF TypeOK, Steps, Kinds
<1>5. ReadIsFresh' /\ MemoryIsFresh'
  BY <1>3 DEF ReadIsFresh, MemoryIsFresh
<1>6. NoCopyIsNeeded'
  BY <1>3 DEF NoCopyIsNeeded, Held
<1>7. EditLosesNothing'
  BY <1>2, <1>3 DEF NoCopyIsNeeded, EditLosesNothing, Held, TypeOK
<1> QED
  BY <1>4, <1>5, <1>6, <1>7

\* What cannot change IInv: nothing changes.
LEMMA StutteringKeepsIInv ==
    ASSUME IInv, UNCHANGED vars
    PROVE  IInv'
BY DEF IInv, vars, At, TypeOK, ReadIsFresh, MemoryIsFresh, NoCopyIsNeeded,
       EditLosesNothing, Held

LEMMA NextKeepsIInv == IInv /\ [Next]_vars => IInv'
<1> SUFFICES ASSUME IInv, [Next]_vars PROVE IInv'
  OBVIOUS
<1>1. CASE Load
  BY <1>1, LoadFindsNothingKeepsIInv, LoadFindsFileKeepsIInv, LoadCannotTellKeepsIInv
     DEF Load
<1>2. CASE BeginReload
  BY <1>2, BeginReloadKeepsIInv
<1>3. CASE Read
  BY <1>3, ReadFileKeepsIInv, ReadFailsKeepsIInv, TakeListKeepsIInv,
     HandleFailureKeepsIInv, HandleBlindlyKeepsIInv DEF Read
<1>4. CASE Edit
  BY <1>4, EditKeepsIInv
<1>5. CASE Persist
  BY <1>5, EditFailsKeepsIInv, BackUpKeepsIInv, WriteTemporaryKeepsIInv,
     ReplaceKeepsIInv DEF Persist
<1>6. CASE \E c \in Contents : Outside(c)
  BY <1>6, OutsideKeepsIInv
<1>7. CASE Crash
  BY <1>7, CrashKeepsIInv
<1>8. CASE UNCHANGED vars
  BY <1>8, StutteringKeepsIInv
<1> QED
  BY <1>1, <1>2, <1>3, <1>4, <1>5, <1>6, <1>7, <1>8 DEF Next

-----------------------------------------------------------------------------
(* The theorems.                                                            *)

\* The invariant holds however often calls fail, others write and the game dies.
THEOREM StoreIsInductive == Spec => []IInv
<1> QED
  BY InitIsInductive, NextKeepsIInv, PTL DEF Spec

\* Type correctness of the store.
THEOREM StoreTypeIsCorrect == Spec => []TypeOK
<1>1. IInv => TypeOK
  BY DEF IInv
<1> QED
  BY <1>1, StoreIsInductive, PTL

\* Between operations a loaded list is what the file holds, unless somebody else
\* wrote it (PersistAndPublishLocked, Reload and LoadFromFile, whatever fails).
THEOREM LoadedListIsTheFiles == Spec => []MemoryFollowsFile
<1>1. IInv => MemoryFollowsFile
  BY DEF IInv, MemoryIsFresh, MemoryFollowsFile, At
<1> QED
  BY <1>1, StoreIsInductive, PTL

\* Only Replace changes the file; BackUp and the flag it answers make that safe.
THEOREM EditsLoseNoPreset == Spec => NoPresetIsLost
<1> DEFINE Loses == ~(op' # op /\ known.care /\ file' # file =>
                        file = Missing \/ file \in backups \/ OneChange(file, file'))
<1>1. IInv /\ [Next]_vars => [~Loses]_vars
  <2> SUFFICES ASSUME IInv, Next PROVE ~Loses
    BY DEF vars
  <2>1. CASE Replace
    BY <2>1 DEF Replace, At, IInv, EditLosesNothing
  <2>2. CASE \E c \in Contents : Outside(c)
    BY <2>2 DEF Outside
  <2>3. CASE Load \/ BeginReload \/ Read
    BY <2>3 DEF Load, LoadFindsNothing, LoadFindsFile, LoadCannotTell, BeginReload, Read,
                ReadFile, ReadFails, TakeList, HandleFailure, HandleBlindly
  <2>4. CASE Edit \/ Crash \/ EditFails \/ BackUp \/ WriteTemporary
    BY <2>4 DEF Edit, Create, Update, Delete, BeginEdit, Crash, EditFails, BackUp,
                WriteTemporary
  <2> QED
    BY <2>1, <2>2, <2>3, <2>4 DEF Next, Persist
<1> QED
  BY <1>1, StoreIsInductive, PTL DEF Spec, NoPresetIsLost

-----------------------------------------------------------------------------
(* PresetStore implements PresetDocument.                                   *)

\* What an edit under way is about to save: the list with one preset changed, as
\* Create, Update or Delete may change it.
EditOf(list) ==
    \E i \in IDs :
        \/ /\ repo.loaded /\ repo.list[i] # NoPreset
           /\ list = [repo.list EXCEPT ![i] = NoPreset]
        \/ \E v \in Values :
              /\ repo.loaded \/ repo.list[i] = NoPreset
              /\ list = [repo.list EXCEPT ![i] = v]

EditIsOne == op.step \in {"backup", "write", "replace"} => EditOf(op.list)

\* No step of an edit in between changes the list it started from.
LEMMA EditStaysOne ==
    ASSUME TypeOK, EditIsOne, [Next]_vars
    PROVE  EditIsOne'
<1> SUFFICES ASSUME op'.step \in {"backup", "write", "replace"}
             PROVE  EditOf(op.list)'
  BY DEF EditIsOne
<1>1. CASE Edit
  <2>1. repo' = repo
    BY <1>1 DEF Edit, Create, Update, Delete, BeginEdit
  <2>2. PICK i \in IDs :
            \/ Delete(i)
            \/ \E v \in Values : Create(i, v) \/ Update(i, v)
    BY <1>1 DEF Edit
  <2>3. CASE Delete(i)
    <3>1. /\ repo.loaded /\ repo.list[i] # NoPreset
          /\ op'.list = [repo.list EXCEPT ![i] = NoPreset]
      BY <2>3 DEF Delete, BeginEdit
    <3> QED
      BY <2>1, <3>1 DEF EditOf
  <2>4. CASE \E v \in Values : Create(i, v) \/ Update(i, v)
    <3>1. PICK v \in Values :
              /\ repo.loaded \/ repo.list[i] = NoPreset
              /\ op'.list = [repo.list EXCEPT ![i] = v]
      BY <2>4 DEF Create, Update, BeginEdit
    <3> QED
      BY <2>1, <3>1 DEF EditOf
  <2> QED
    BY <2>2, <2>3, <2>4
<1>2. CASE BackUp \/ WriteTemporary
  <2>1. op.step \in {"backup", "write"} /\ op'.list = op.list
    BY <1>2 DEF BackUp, WriteTemporary, Goto, At, TypeOK
  <2>2. repo'.list = repo.list /\ repo'.loaded = repo.loaded
    BY <1>2 DEF BackUp, WriteTemporary, TypeOK
  <2> QED
    BY <2>1, <2>2 DEF EditIsOne, EditOf
<1>3. CASE (\E c \in Contents : Outside(c)) \/ UNCHANGED vars
  <2>1. op' = op /\ repo' = repo
    BY <1>3 DEF Outside, vars
  <2> QED
    BY <2>1 DEF EditIsOne, EditOf
<1>4. CASE Load \/ BeginReload \/ Read \/ EditFails \/ Replace \/ Crash
  <2>1. CASE Load
    BY <2>1 DEF TypeOK, Load, LoadFindsNothing, LoadFindsFile, LoadCannotTell, Goto
  <2>4. CASE BeginReload
    <3>1. op'.step = "read"
      BY <2>4 DEF TypeOK, BeginReload
    <3> QED
      BY <3>1
  <2>5. CASE Crash
    BY <2>5 DEF Crash, Started
  <2>2. CASE Read
    BY <2>2 DEF TypeOK, Read, ReadFile, ReadFails, TakeList, HandleFailure, HandleBlindly,
                Goto
  <2>3. CASE EditFails \/ Replace
    BY <2>3 DEF TypeOK, EditFails, Replace, Goto
  <2> QED
    BY <1>4, <2>1, <2>2, <2>3, <2>4, <2>5
<1> QED
  BY <1>1, <1>2, <1>3, <1>4 DEF Next, Persist

\* A step that reads nothing and keeps list and file.
LEMMA NothingHappens ==
    ASSUME op.step # "take", op'.step # "take", file' = file,
           repo'.list = repo.list, repo'.loaded = repo.loaded
    PROVE  UNCHANGED Document!vars
BY DEF Document!vars, At

\* The load forgets the list when it fails.
LEMMA FailureIsNothing ==
    ASSUME TypeOK, HandleFailure \/ HandleBlindly
    PROVE  Document!Forget \/ UNCHANGED Document!vars
<1>1. op.step # "take" /\ op'.step # "take" /\ file' = file
  BY DEF HandleFailure, HandleBlindly, At, Goto, TypeOK
<1>2. PICK exists \in BOOLEAN : repo' = LoadHandled(exists)
  BY DEF HandleFailure, HandleBlindly
<1>3. CASE op.kind = "load"
  <2>1. repo'.list = Empty /\ repo'.loaded = FALSE
    BY <1>2, <1>3 DEF LoadHandled, Blank
  <2> QED
    BY <1>1, <2>1 DEF Document!Forget, Document!Empty, Empty, At
<1>4. CASE op.kind # "load"
  <2>1. repo'.list = repo.list /\ repo'.loaded = repo.loaded
    BY <1>2, <1>4 DEF LoadHandled, TypeOK
  <2> QED
    BY <1>1, <2>1, NothingHappens
<1> QED
  BY <1>3, <1>4

\* Reading and taking.
LEMMA ReadingIsReading ==
    ASSUME TypeOK, Load \/ BeginReload \/ Read
    PROVE  Document!Next \/ UNCHANGED Document!vars
<1>1. CASE LoadFindsNothing
  <2>1. /\ op.step = "exists" /\ op'.step = "idle" /\ file = Missing /\ file' = file
        /\ repo'.list = Empty /\ repo'.loaded = TRUE
    BY <1>1 DEF LoadFindsNothing, At, Goto, TypeOK
  <2>2. Document!Begin
    BY <2>1 DEF Document!Begin, Document!Empty, Empty, At
  <2> QED
    BY <2>2 DEF Document!Next
<1>2. CASE LoadFindsFile \/ LoadCannotTell \/ BeginReload \/ ReadFails
  <2>1. op.step # "take" /\ op'.step # "take" /\ file' = file /\ repo' = repo
    BY <1>2 DEF LoadFindsFile, LoadCannotTell, BeginReload, ReadFails, At, Goto, TypeOK
  <2> QED
    BY <2>1, NothingHappens
<1>3. CASE ReadFile
  <2>1. /\ op.step = "read" /\ op'.step = "take" /\ op'.list = file
        /\ file \in Lists /\ file' = file /\ repo' = repo
    BY <1>3 DEF ReadFile, At, TypeOK
  <2>2. Document!Read
    BY <2>1 DEF Document!Read, Document!Lists, Lists, At
  <2> QED
    BY <2>2 DEF Document!Next
<1>4. CASE TakeList
  <2>1. /\ op.step = "take" /\ op'.step = "idle" /\ file' = file
        /\ repo'.list = op.list /\ repo'.loaded = TRUE
    BY <1>4 DEF TakeList, At, Goto, TypeOK
  <2>2. op.list # Missing
    BY StoreAssumption DEF TypeOK, Lists
  <2>3. Document!Take
    BY <2>1, <2>2 DEF Document!Take, At
  <2> QED
    BY <2>3 DEF Document!Next
<1>5. CASE HandleFailure \/ HandleBlindly
  BY <1>5, FailureIsNothing DEF Document!Next
<1> QED
  BY <1>1, <1>2, <1>3, <1>4, <1>5 DEF Load, Read

\* The edit happens when the file is replaced.
LEMMA ReplacingIsChanging ==
    ASSUME TypeOK, EditIsOne, Replace
    PROVE  \E i \in IDs : Document!Remove(i) \/ \E v \in Values : Document!Put(i, v)
<1>1. /\ op.step = "replace" /\ op'.step = "idle" /\ file' = op.list
      /\ repo'.list = op.list /\ repo'.loaded = TRUE
  BY DEF Replace, At, Goto, TypeOK
<1>2. EditOf(op.list)
  BY <1>1 DEF EditIsOne
<1>3. PICK i \in IDs :
          \/ /\ repo.loaded /\ repo.list[i] # NoPreset
             /\ op.list = [repo.list EXCEPT ![i] = NoPreset]
          \/ \E v \in Values :
                /\ repo.loaded \/ repo.list[i] = NoPreset
                /\ op.list = [repo.list EXCEPT ![i] = v]
  BY <1>2 DEF EditOf
<1>4. CASE /\ repo.loaded /\ repo.list[i] # NoPreset
           /\ op.list = [repo.list EXCEPT ![i] = NoPreset]
  <2>1. Document!Remove(i)
    BY <1>1, <1>4 DEF Document!Remove, Document!Change, At
  <2> QED
    BY <2>1
<1>5. CASE \E v \in Values :
              /\ repo.loaded \/ repo.list[i] = NoPreset
              /\ op.list = [repo.list EXCEPT ![i] = v]
  <2>1. PICK v \in Values :
            /\ repo.loaded \/ repo.list[i] = NoPreset
            /\ op.list = [repo.list EXCEPT ![i] = v]
    BY <1>5
  <2>2. Document!Put(i, v)
    BY <1>1, <2>1 DEF Document!Put, Document!Change, At
  <2> QED
    BY <2>2
<1> QED
  BY <1>3, <1>4, <1>5

\* Every step is a step of the document, or none.
LEMMA StepIsADocuments ==
    ASSUME TypeOK, EditIsOne, [Next]_vars
    PROVE  [Document!Next]_(Document!vars)
<1>1. CASE Load \/ BeginReload \/ Read
  BY <1>1, ReadingIsReading
<1>2. CASE Edit \/ EditFails \/ BackUp \/ WriteTemporary
  <2>1. op.step # "take" /\ op'.step # "take" /\ file' = file
    BY <1>2 DEF Edit, Create, Update, Delete, BeginEdit, EditFails, BackUp, WriteTemporary,
                At, Goto, TypeOK
  <2>2. repo'.list = repo.list /\ repo'.loaded = repo.loaded
    BY <1>2 DEF Edit, Create, Update, Delete, BeginEdit, EditFails, BackUp, WriteTemporary,
                TypeOK
  <2> QED
    BY <2>1, <2>2, NothingHappens
<1>3. CASE Replace
  BY <1>3, ReplacingIsChanging DEF Document!Next
<1>4. CASE \E c \in Contents : Outside(c)
  <2>1. file' \in Contents /\ op' = op /\ repo' = repo
    BY <1>4 DEF Outside
  <2>2. Document!OthersWrite
    BY <2>1 DEF Document!OthersWrite, At
  <2> QED
    BY <2>2 DEF Document!Next
<1>5. CASE Crash
  <2>1. op'.step = "exists" /\ file' = file /\ repo'.list = Empty /\ repo'.loaded = FALSE
    BY <1>5 DEF Crash, Started, Blank
  <2>2. Document!Forget
    BY <2>1 DEF Document!Forget, Document!Empty, Empty, At
  <2> QED
    BY <2>2 DEF Document!Next
<1>6. CASE UNCHANGED vars
  BY <1>6 DEF vars, Document!vars, At
<1> QED
  BY <1>1, <1>2, <1>3, <1>4, <1>5, <1>6 DEF Next, Persist

\* Whatever fails, whoever else writes and whenever the game dies: an edit changes
\* one preset in the file and in memory at the same moment or nowhere, and the list
\* changes otherwise only to what one reading found (PersistAndPublishLocked,
\* LoadFromFile, Reload).
THEOREM StoreImplementsDocument == Spec => IsADocument
<1>1. Init => Document!Init
  BY DEF Init, Started, Blank, Document!Init, Document!Empty, Empty, At
<1>2. Init => EditIsOne
  BY DEF Init, Started, EditIsOne
<1>3. TypeOK /\ EditIsOne /\ [Next]_vars => EditIsOne' /\ [Document!Next]_(Document!vars)
  BY EditStaysOne, StepIsADocuments
<1> QED
  BY <1>1, <1>2, <1>3, StoreTypeIsCorrect, PTL DEF Spec, IsADocument, Document!Spec
=============================================================================
