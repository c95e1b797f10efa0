------------------------------ MODULE HookInstall ------------------------------
(****************************************************************************)
(* The camera hook (CameraHook.cpp: InstallOnce, Thunk): the first scene of *)
(* the player replaces the Update pointer in the virtual tables of two      *)
(* camera states by thunks that call what stood there before.  Each write   *)
(* is verified against the value read, a failed one rolls the others back,  *)
(* and other mods hook the same slots meanwhile.                            *)
(*                                                                          *)
(* The game calls what the slots hold.  A camera update is a stack of calls,*)
(* as the engine's Update of one state may call that of another; mods       *)
(* change slots between updates only.  Where the game updates its camera on *)
(* the main thread, the installation is never seen half done; on another    *)
(* thread it may be, at every step.                                         *)
(*                                                                          *)
(* safe_write is not part of this repository: it compares and writes in one *)
(* step here, and fails when the value differs or the page cannot be        *)
(* written.                                                                 *)
(****************************************************************************)
EXTENDS Naturals, Sequences, FiniteSets

CONSTANTS
    Vtables,     \* virtual tables of camera states
    NoTable,
    Mods,        \* other mods that hook camera states
    Threads,     \* where the camera may be updated: "main", "other"
    MaxNested,   \* bound: calls of Update within each other
    MaxFaults    \* bound: writes that fail although nothing changed, exceptions

ASSUME HookAssumption ==
    /\ NoTable \notin Vtables /\ IsFiniteSet(Mods)
    /\ Threads \subseteq {"main", "other"}
    /\ {MaxNested, MaxFaults} \subseteq Nat

\* kMaxHookedVtables, one for each of the states Animated and ThirdPerson.
Indices == 1 .. 2

VARIABLES
    where,      \* the thread of the camera updates
    tables,     \* the vtable of each target state, NoTable where it has none
    slot,       \* the Update pointer of each vtable
    captured,   \* per mod and vtable: what it found in the slot, while hooked
    hook,       \* installState_
    originals,  \* originals_
    install,    \* where InstallOnce is
    stack,      \* the calls of Update under way, innermost last
    depth,      \* thunkDepth_ of the thread of the camera updates
    served,     \* history: client updates since the outermost thunk was entered
    missed,     \* history: a thunk has found no original
    faults      \* how much of its bound is used up

vars == <<where, tables, slot, captured, hook, originals, install,
          stack, depth, served, missed, faults>>

patching == <<hook, originals, install>>
updating == <<stack, depth, served, missed>>

Engine(v) == [kind |-> "engine", of |-> v]
Thunk(i) == [kind |-> "thunk", of |-> i]
Mod(m) == [kind |-> "mod", of |-> m]
Nothing == [kind |-> "none", of |-> NoTable]

Targets == {Engine(v) : v \in Vtables} \cup {Thunk(i) : i \in Indices}
           \cup {Mod(m) : m \in Mods}

\* entered: whether one of our thunks is on the way of this call, and whether
\* it was the outermost.
Frame == [table : Vtables, at : Targets, entered : {"no", "outer", "inner"}]

\* A candidate of InstallOnce; its slot is that of its vtable.
Candidate == [table : Vtables, original : Targets]

Steps == {"idle", "collect", "publish", "patch", "rollback", "clear"}
AtRest == [pc |-> "idle", candidates |-> <<>>, at |-> 0, patched |-> 0]

\* Both states may share a vtable, or be absent.
Init ==
    /\ where \in Threads
    /\ tables \in [Indices -> Vtables \cup {NoTable}]
    /\ slot = [v \in Vtables |-> Engine(v)]
    /\ captured = [m \in Mods |-> [v \in Vtables |-> Nothing]]
    /\ hook = "notInstalled"
    /\ originals = [i \in Indices |-> Nothing]
    /\ install = AtRest
    /\ stack = <<>> /\ depth = 0 /\ served = 0 /\ missed = FALSE
    /\ faults = 0

Fault == faults < MaxFaults /\ faults' = faults + 1

-----------------------------------------------------------------------------
(* InstallOnce, on the main thread.                                         *)

Installs(pc) == install.pc = pc

Fails == hook' = "failed" /\ install' = AtRest

\* The first start of a scene of the player; never again after that.
BeginInstall ==
    /\ Installs("idle") /\ hook = "notInstalled"
    /\ where = "main" => stack = <<>>
    /\ install' = [AtRest EXCEPT !.pc = "collect"]
    /\ UNCHANGED <<where, tables, slot, captured, hook, originals, updating, faults>>

Found(i) == [table |-> tables[i], original |-> slot[tables[i]]]

\* A state without a vtable is skipped, and one that shares it is.
Candidates ==
    LET first == tables[1] # NoTable
        second == tables[2] \notin {NoTable, tables[1]}
    IN CASE first /\ second -> <<Found(1), Found(2)>>
         [] first /\ ~second -> <<Found(1)>>
         [] ~first /\ second -> <<Found(2)>>
         [] OTHER -> <<>>

Collect ==
    /\ Installs("collect")
    /\ IF Candidates = <<>>
       THEN Fails
       ELSE /\ install' = [install EXCEPT !.pc = "publish", !.candidates = Candidates]
            /\ UNCHANGED hook
    /\ UNCHANGED <<where, tables, slot, captured, originals, updating, faults>>

\* All originals are known before any slot is patched.
Publish ==
    /\ Installs("publish")
    /\ originals' = [i \in Indices |->
          IF i <= Len(install.candidates) THEN install.candidates[i].original
          ELSE originals[i]]
    /\ install' = [install EXCEPT !.pc = "patch", !.at = 1]
    /\ UNCHANGED <<where, tables, slot, captured, hook, updating, faults>>

At == install.candidates[install.at]

\* Mutant: the slot is written unverified.
PatchBlindly ==
    /\ Installs("patch") /\ install.at <= Len(install.candidates)
    /\ slot' = [slot EXCEPT ![At.table] = Thunk(install.at)]
    /\ install' = [install EXCEPT !.at = @ + 1, !.patched = @ + 1]
    /\ UNCHANGED <<where, tables, captured, hook, originals, updating, faults>>

\* safe_write, which verifies that the slot still holds the original.
Patch ==
    /\ Installs("patch") /\ install.at <= Len(install.candidates)
    /\ slot[At.table] = At.original
    /\ slot' = [slot EXCEPT ![At.table] = Thunk(install.at)]
    /\ install' = [install EXCEPT !.at = @ + 1, !.patched = @ + 1]
    /\ UNCHANGED <<where, tables, captured, hook, originals, updating, faults>>

PatchFails ==
    /\ Installs("patch") /\ install.at <= Len(install.candidates)
    /\ IF slot[At.table] = At.original THEN Fault ELSE UNCHANGED faults
    /\ install' = [install EXCEPT !.pc = "rollback", !.at = install.patched]
    /\ UNCHANGED <<where, tables, slot, captured, hook, originals, updating>>

Installed ==
    /\ Installs("patch") /\ install.at > Len(install.candidates)
    /\ hook' = "installed"
    /\ install' = AtRest
    /\ UNCHANGED <<where, tables, slot, captured, originals, updating, faults>>

\* The reverse of Patch, again verified.
RollBack ==
    /\ Installs("rollback") /\ install.at > 0
    /\ slot[At.table] = Thunk(install.at)
    /\ slot' = [slot EXCEPT ![At.table] = originals[install.at]]
    /\ install' = [install EXCEPT !.pc = "clear"]
    /\ UNCHANGED <<where, tables, captured, hook, originals, updating, faults>>

\* The original goes only after the slot has it back.
ClearOriginal ==
    /\ Installs("clear")
    /\ originals' = [originals EXCEPT ![install.at] = Nothing]
    /\ install' = [install EXCEPT !.pc = "rollback", !.at = @ - 1]
    /\ UNCHANGED <<where, tables, slot, captured, hook, updating, faults>>

\* Mutant: the original is cleared whether or not the slot was restored.
RollBackFailsForgetful ==
    /\ Installs("rollback") /\ install.at > 0
    /\ IF slot[At.table] = Thunk(install.at) THEN Fault ELSE UNCHANGED faults
    /\ originals' = [originals EXCEPT ![install.at] = Nothing]
    /\ install' = [install EXCEPT !.at = @ - 1]
    /\ UNCHANGED <<where, tables, slot, captured, hook, updating>>

\* What cannot be restored keeps its original: the thunk only passes on.
RollBackFails ==
    /\ Installs("rollback") /\ install.at > 0
    /\ IF slot[At.table] = Thunk(install.at) THEN Fault ELSE UNCHANGED faults
    /\ install' = [install EXCEPT !.at = @ - 1]
    /\ UNCHANGED <<where, tables, slot, captured, hook, originals, updating>>

\* The entries that were never patched are cleared.
RolledBack ==
    /\ Installs("rollback") /\ install.at = 0
    /\ originals' = [i \in Indices |->
          IF i > install.patched THEN Nothing ELSE originals[i]]
    /\ Fails
    /\ UNCHANGED <<where, tables, slot, captured, updating, faults>>

\* A null pointer among the states, a missing client, or an exception on the
\* way: the scope guard marks the installation as failed and nothing else.  The
\* last message is logged after the installation is complete.
Interrupted ==
    /\ \/ Installs("collect") \/ Installs("publish")
       \/ Installs("rollback") /\ install.at = install.patched
       \/ Installs("idle") /\ hook = "installed" /\ where = "main" /\ stack = <<>>
    /\ Fault
    /\ Fails
    /\ UNCHANGED <<where, tables, slot, captured, originals, updating>>

-----------------------------------------------------------------------------
(* A camera update.                                                         *)

Top == stack[Len(stack)]
Outer == SubSeq(stack, 1, Len(stack) - 1)
InTop(kind) == stack # <<>> /\ Top.at.kind = kind

\* The game calls the Update of a state, or the engine's function of one calls
\* that of another.
Call(v) ==
    /\ v \in {tables[i] : i \in Indices} \ {NoTable}
    /\ \/ stack = <<>> /\ (where = "main" => Installs("idle"))
       \/ InTop("engine") /\ Len(stack) < MaxNested
    /\ stack' = Append(stack, [table |-> v, at |-> slot[v], entered |-> "no"])
    /\ UNCHANGED <<where, tables, slot, captured, patching, depth, served, missed, faults>>

ModPassesOn ==
    /\ InTop("mod")
    /\ stack' = [stack EXCEPT ![Len(stack)].at = captured[Top.at.of][Top.table]]
    /\ UNCHANGED <<where, tables, slot, captured, patching, depth, served, missed, faults>>

\* Mutant: the original is called without a look at it.
EnterThunkUnchecked ==
    /\ InTop("thunk")
    /\ stack' = [stack EXCEPT
           ![Len(stack)].at = originals[Top.at.of],
           ![Len(stack)].entered = IF depth = 0 THEN "outer" ELSE "inner"]
    /\ depth' = depth + 1
    /\ served' = IF depth = 0 THEN 0 ELSE served
    /\ UNCHANGED <<where, tables, slot, captured, patching, missed, faults>>

\* Without an original the thunk resets the scene and calls nothing.
EnterThunk ==
    /\ InTop("thunk")
    /\ IF originals[Top.at.of] = Nothing
       THEN /\ stack' = Outer /\ missed' = TRUE
            /\ UNCHANGED <<depth, served>>
       ELSE /\ stack' = [stack EXCEPT
                ![Len(stack)].at = originals[Top.at.of],
                ![Len(stack)].entered = IF depth = 0 THEN "outer" ELSE "inner"]
            /\ depth' = depth + 1
            /\ served' = IF depth = 0 THEN 0 ELSE served
            /\ UNCHANGED missed
    /\ UNCHANGED <<where, tables, slot, captured, patching, faults>>

\* Mutant: a nested update is served as well.
ServesNested == Top.entered # "no" /\ hook = "installed"

Serves == Top.entered = "outer" /\ hook = "installed"

Left == depth' = IF Top.entered = "no" THEN depth ELSE depth - 1

\* The client may have no need of the update, or the game be paused.
EngineReturns ==
    /\ InTop("engine")
    /\ Left
    /\ \/ served' = served
       \/ Serves /\ served' = served + 1
    /\ stack' = Outer
    /\ UNCHANGED <<where, tables, slot, captured, patching, missed, faults>>

\* An exception of the engine or of another mod passes through the thunk; what
\* called this Update may catch it.
EngineThrows ==
    /\ InTop("engine") /\ Fault
    /\ Left
    /\ stack' = Outer
    /\ UNCHANGED <<where, tables, slot, captured, patching, served, missed>>

-----------------------------------------------------------------------------
(* Other mods, between updates.                                             *)

Hooked(m, v) == captured[m][v] # Nothing

\* Each mod hooks a slot once.
ModHooks(m, v) ==
    /\ stack = <<>> /\ ~Hooked(m, v)
    /\ captured' = [captured EXCEPT ![m][v] = slot[v]]
    /\ slot' = [slot EXCEPT ![v] = Mod(m)]
    /\ UNCHANGED <<where, tables, patching, updating, faults>>

\* It takes back only a hook that is still the last one of the slot.
ModUnhooks(m, v) ==
    /\ stack = <<>> /\ Hooked(m, v) /\ slot[v] = Mod(m)
    /\ slot' = [slot EXCEPT ![v] = captured[m][v]]
    /\ captured' = [captured EXCEPT ![m][v] = Nothing]
    /\ UNCHANGED <<where, tables, patching, updating, faults>>

InstallOnce ==
    \/ BeginInstall \/ Collect \/ Publish \/ Patch \/ PatchFails \/ Installed
    \/ RollBack \/ ClearOriginal \/ RollBackFails \/ RolledBack \/ Interrupted

CameraUpdate ==
    \/ \E v \in Vtables : Call(v)
    \/ ModPassesOn \/ EnterThunk \/ EngineReturns \/ EngineThrows

Next ==
    \/ InstallOnce
    \/ CameraUpdate
    \/ \E m \in Mods, v \in Vtables : ModHooks(m, v) \/ ModUnhooks(m, v)

Spec == Init /\ [][Next]_vars

-----------------------------------------------------------------------------
TypeOK ==
    /\ where \in {"main", "other"}
    /\ tables \in [Indices -> Vtables \cup {NoTable}]
    /\ slot \in [Vtables -> Targets]
    /\ captured \in [Mods -> [Vtables -> Targets \cup {Nothing}]]
    /\ hook \in {"notInstalled", "installed", "failed"}
    /\ originals \in [Indices -> Targets \cup {Nothing}]
    /\ install \in [pc : Steps, candidates : Seq(Candidate), at : 0 .. 3, patched : 0 .. 2]
    /\ Len(install.candidates) <= 2
    /\ stack \in Seq(Frame)
    /\ depth \in Nat /\ served \in Nat
    /\ missed \in BOOLEAN /\ faults \in 0 .. MaxFaults

\* What a call passes after t on the way from the slot of v.
Passes(v, t) ==
    CASE t.kind = "thunk" -> originals[t.of]
      [] t.kind = "mod" -> captured[t.of][v]
      [] OTHER -> t

\* The functions a call of the Update of v goes through, in order; the last ones
\* are equal.
Chain(v) ==
    LET way[n \in 0 .. Cardinality(Mods) + 2] ==
            IF n = 0 THEN slot[v] ELSE Passes(v, way[n - 1])
    IN way

\* Whatever other mods do to the slots while the hook is installed or rolled
\* back, and whichever write fails, a call through a slot reaches the engine's
\* function of that very vtable, by way of every mod that hooked it: nobody's
\* hook is lost or called in a circle.
ChainIsWhole ==
    \A v \in Vtables :
        LET way == Chain(v)
        IN /\ way[Cardinality(Mods) + 2] = Engine(v)
           /\ \A m \in Mods :
                  Hooked(m, v) => \E n \in DOMAIN way : way[n] = Mod(m)

\* Where the game updates its camera on the main thread, no thunk is ever called
\* without an original to pass the call on to: not one of a failed
\* installation, and not one that a mod has kept and calls later.
EngineIsReached == where = "main" => ~missed

\* However updates are nested and wherever they throw, one outermost update is
\* followed by at most one update of the client, and none is lost because an
\* earlier one never left its thunk.
OneUpdatePerFrame ==
    /\ served <= 1
    /\ depth = Cardinality({n \in DOMAIN stack : stack[n].entered # "no"})
    /\ \A n \in DOMAIN stack :
           stack[n].entered = "outer"
           <=> /\ stack[n].entered # "no"
               /\ \A k \in 1 .. n - 1 : stack[k].entered = "no"
=============================================================================
