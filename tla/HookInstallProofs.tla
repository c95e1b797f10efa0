--------------------------- MODULE HookInstallProofs ---------------------------
(***************************************************************************)
(* Proofs about HookInstall, for any number of virtual tables, other mods, *)
(* nested updates and failed writes.                                       *)
(***************************************************************************)
EXTENDS HookInstall, FiniteSetTheorems, SequenceTheorems, WellFoundedInduction, TLAPS

-----------------------------------------------------------------------------
(* The inductive invariant.                                                 *)

\* Something may come to t through the slot of v: it is in the slot, or a mod
\* found it there.
Held(v, t) == slot[v] = t \/ \E m \in Mods : captured[m][v] = t
\* No thunk is in a slot or known to a mod, and none is being called.
NoThunk == \A v \in Vtables, i \in Indices : ~Held(v, Thunk(i))
NoThunkCalled == \A n \in DOMAIN stack : stack[n].at.kind # "thunk"

\* What InstallOnce knows at each of its steps.  Candidates are of different
\* tables and were never thunks, which needs that nothing was hooked before.
InstallIsOnTrack ==
    /\ install.pc # "idle" => hook = "notInstalled"
    /\ install.pc \in {"idle", "collect", "publish"} => install.patched = 0
    /\ install.pc = "patch" => install.at = install.patched + 1
    /\ install.pc \in {"rollback", "clear"} => install.at <= install.patched
    /\ install.pc = "clear" => install.at > 0
    /\ install.patched <= Len(install.candidates)
    /\ \A i, j \in DOMAIN install.candidates :
          install.candidates[i].table = install.candidates[j].table => i = j
    /\ \A i \in DOMAIN install.candidates : install.candidates[i].original.kind # "thunk"
    /\ install.pc = "patch" => \A i \in DOMAIN install.candidates :
                                   originals[i] = install.candidates[i].original

\* Nothing is reached twice on the way through a table, and what leads to a mod
\* finds it hooked.
HooksAreDistinct ==
    /\ \A v \in Vtables, m \in Mods : captured[m][v] # slot[v]
    /\ \A v \in Vtables, m, k \in Mods :
          captured[m][v] = captured[k][v] /\ Hooked(m, v) => m = k
    /\ \A v \in Vtables, m \in Mods : Held(v, Mod(m)) => Hooked(m, v)

\* A thunk that a slot or a mod leads to has its original, which only it leads
\* to, and belongs to one table: while InstallOnce runs, to that of a candidate
\* that was patched and is not being cleared.
ThunksAreServed ==
    /\ \A i \in Indices : originals[i].kind # "thunk"
    /\ \A v \in Vtables, i \in Indices : Held(v, Thunk(i)) =>
          /\ originals[i] # Nothing /\ ~Held(v, originals[i])
          /\ \A w \in Vtables : Held(w, Thunk(i)) => w = v
          /\ \A j \in Indices : Held(v, Thunk(j)) => j = i
          /\ install.pc # "idle" =>
                /\ i <= install.patched /\ v = install.candidates[i].table
                /\ install.pc = "clear" => i # install.at
    /\ hook = "notInstalled" /\ install.pc \in {"idle", "collect", "publish"} =>
          NoThunk /\ NoThunkCalled

\* early[v]: the mods that hooked v before the thunk did.  They never lead back to
\* a thunk, so a call that has entered one never meets another.
EarlyMods(early) ==
    /\ \A v \in Vtables : \A m \in early[v] :
          /\ Hooked(m, v) /\ captured[m][v].kind # "thunk"
          /\ \A k \in Mods : captured[m][v] = Mod(k) => k \in early[v]
    /\ \A v \in Vtables, i \in Indices, m \in Mods :
          Held(v, Thunk(i)) /\ originals[i] = Mod(m) => m \in early[v]
    /\ \A n \in DOMAIN stack :
          /\ \A i \in Indices, m \in Mods :
                stack[n].at = Thunk(i) /\ originals[i] = Mod(m)
                => m \in early[stack[n].table]
          /\ stack[n].entered # "no" =>
                /\ stack[n].at.kind # "thunk"
                /\ \A m \in Mods : stack[n].at = Mod(m) => m \in early[stack[n].table]

\* There is such an order, which mods that hook later do not change.
OrderIsKept == \E early \in [Vtables -> SUBSET Mods] : EarlyMods(early)

\* A call is at a mod that is still hooked and, on the main thread, at a thunk
\* that still has its original, as installation and updates exclude each other.
CallsReachHooks ==
    /\ \A n \in DOMAIN stack, m \in Mods :
          stack[n].at = Mod(m) => Hooked(m, stack[n].table)
    /\ where = "main" =>
          /\ stack # <<>> => install.pc = "idle"
          /\ ~missed
          /\ \A n \in DOMAIN stack, i \in Indices :
                stack[n].at = Thunk(i) => originals[i] # Nothing

\* Under an outermost update the client was not updated yet.
OutermostIsUnserved ==
    \A n \in DOMAIN stack : stack[n].entered = "outer" => served = 0

IInv ==
    /\ TypeOK
    /\ InstallIsOnTrack
    /\ HooksAreDistinct
    /\ ThunksAreServed
    /\ OrderIsKept
    /\ CallsReachHooks
    /\ OneUpdatePerFrame
    /\ OutermostIsUnserved

-----------------------------------------------------------------------------
(* Lemmas about the data.                                                   *)

\* Targets are told apart by their kind and by what they are of.
LEMMA TargetFacts ==
    /\ \A i, j \in Indices : Thunk(i) = Thunk(j) => i = j
    /\ \A m, k \in Mods : Mod(m) = Mod(k) => m = k
    /\ \A i \in Indices, m \in Mods : Thunk(i) # Mod(m)
    /\ \A i \in Indices : Thunk(i) \in Targets /\ Thunk(i).kind = "thunk"
    /\ \A m \in Mods : Mod(m) \in Targets /\ Mod(m).kind = "mod"
    /\ Nothing \notin Targets /\ Nothing.kind = "none"
    /\ \A t \in Targets : t.kind = "thunk" => t.of \in Indices /\ t = Thunk(t.of)
    /\ \A t \in Targets : t.kind = "mod" => t.of \in Mods /\ t = Mod(t.of)
    /\ \A v \in Vtables : Engine(v) \in Targets /\ Engine(v).kind = "engine"
<1>1. \A t \in Targets :
         \/ \E v \in Vtables : t = Engine(v)
         \/ \E i \in Indices : t = Thunk(i)
         \/ \E m \in Mods : t = Mod(m)
  BY Zenon DEF Targets
<1> USE DEF Thunk, Mod, Engine, Nothing
<1>2. \A i, j \in Indices : Thunk(i) = Thunk(j) => i = j
  OBVIOUS
<1>3. \A m, k \in Mods : Mod(m) = Mod(k) => m = k
  OBVIOUS
<1>4. \A i \in Indices, m \in Mods : Thunk(i) # Mod(m)
  OBVIOUS
<1>5. \A i \in Indices : Thunk(i) \in Targets /\ Thunk(i).kind = "thunk"
  BY DEF Targets
<1>6. \A m \in Mods : Mod(m) \in Targets /\ Mod(m).kind = "mod"
  BY DEF Targets
<1>7. \A v \in Vtables : Engine(v) \in Targets /\ Engine(v).kind = "engine"
  BY DEF Targets
<1>8. Nothing \notin Targets /\ Nothing.kind = "none"
  BY <1>1
<1>9. ASSUME NEW t \in Targets
      PROVE  /\ t.kind = "thunk" => t.of \in Indices /\ t = Thunk(t.of)
             /\ t.kind = "mod" => t.of \in Mods /\ t = Mod(t.of)
  BY <1>1
<1> QED
  BY <1>2, <1>3, <1>4, <1>5, <1>6, <1>7, <1>8, <1>9

\* kMaxHookedVtables is two.
LEMMA IndicesAreTwo == Indices = {1, 2} /\ Indices \subseteq Nat
BY DEF Indices

\* The type of install.
Installing == [pc : Steps, candidates : Seq(Candidate), at : 0 .. 3, patched : 0 .. 2]

\* InstallOnce before its first step, or after its last.
LEMMA RestIsTyped == AtRest \in Installing /\ Len(AtRest.candidates) <= 2
BY DEF AtRest, Installing, Steps

\* A number up to two.
LEMMA AtMostTwo == ASSUME NEW n \in Nat, n <= 2 PROVE n \in 0 .. 2
OBVIOUS

\* The fields of install, and the candidates one by one.
LEMMA InstallIsTyped ==
    ASSUME TypeOK
    PROVE  /\ install \in Installing /\ Len(install.candidates) \in 0 .. 2
           /\ \A i \in 1 .. Len(install.candidates) :
                 /\ i \in Indices
                 /\ install.candidates[i].table \in Vtables
                 /\ install.candidates[i].original \in Targets
<1>0. install \in Installing /\ Len(install.candidates) <= 2
  BY DEF TypeOK, Installing
<1>3. install.candidates \in Seq(Candidate)
  BY <1>0 DEF Installing
<1>4. Len(install.candidates) \in Nat
  BY <1>3, LenProperties
<1>5. Len(install.candidates) <= 2
  BY <1>0
<1>1. Len(install.candidates) \in 0 .. 2
  BY <1>4, <1>5, AtMostTwo
<1>2. \A i \in 1 .. Len(install.candidates) : install.candidates[i] \in Candidate
  BY <1>3
<1> QED
  BY <1>0, <1>1, <1>2 DEF Candidate, Indices

\* Candidates yields what stands in the slots of different tables.
LEMMA CandidatesAreTyped ==
    ASSUME TypeOK
    PROVE  /\ Candidates \in Seq(Candidate) /\ Len(Candidates) \in 0 .. 2
           /\ \A i \in DOMAIN Candidates :
                 /\ Candidates[i].table \in Vtables
                 /\ Candidates[i].original = slot[Candidates[i].table]
           /\ \A i, j \in DOMAIN Candidates :
                 Candidates[i].table = Candidates[j].table => i = j
<1>1. \A i \in Indices : tables[i] # NoTable =>
          /\ Found(i) \in Candidate /\ Found(i).table = tables[i]
          /\ tables[i] \in Vtables /\ Found(i).original = slot[tables[i]]
  BY IndicesAreTwo DEF TypeOK, Found, Candidate
<1>2. CASE tables[1] = NoTable /\ tables[2] = NoTable
  <2>1. Candidates = <<>>
    BY <1>2 DEF Candidates
  <2> QED
    BY <2>1
<1>3. CASE tables[1] = NoTable /\ tables[2] # NoTable
  <2>2. Candidates = <<Found(2)>>
    BY <1>3 DEF Candidates
  <2> QED
    BY <1>1, <1>3, <2>2, IndicesAreTwo
<1>4. CASE tables[1] # NoTable /\ tables[2] \in {NoTable, tables[1]}
  <2>1. Candidates = <<Found(1)>>
    BY <1>4 DEF Candidates
  <2> QED
    BY <1>1, <1>4, <2>1, IndicesAreTwo
<1>5. CASE tables[1] # NoTable /\ tables[2] \notin {NoTable, tables[1]}
  <2>2. Candidates = <<Found(1), Found(2)>>
    BY <1>5 DEF Candidates
  <2> QED
    BY <1>1, <1>5, <2>2, IndicesAreTwo
<1> QED
  BY <1>2, <1>3, <1>4, <1>5

\* Forgetting originals does not disturb the order of the hooks.
LEMMA OrderFollows ==
    ASSUME OrderIsKept, UNCHANGED <<slot, captured, stack>>,
           \A i \in Indices : originals'[i].kind = "mod" => originals'[i] = originals[i]
    PROVE  OrderIsKept'
<1>1. PICK early \in [Vtables -> SUBSET Mods] : EarlyMods(early)
  BY DEF OrderIsKept
<1>2. EarlyMods(early)'
  BY <1>1, TargetFacts DEF EarlyMods, Hooked, Held
<1> QED
  BY <1>2 DEF OrderIsKept

\* The calls that have entered a thunk.
Entered(calls) == {n \in DOMAIN calls : calls[n].entered # "no"}

\* The calls under way, one by one.
LEMMA CallsAreTyped ==
    ASSUME TypeOK
    PROVE  /\ stack \in Seq(Frame) /\ Len(stack) \in Nat /\ DOMAIN stack = 1 .. Len(stack)
           /\ IsFiniteSet(Entered(stack))
           /\ \A n \in DOMAIN stack :
                 /\ stack[n].table \in Vtables /\ stack[n].at \in Targets
                 /\ stack[n].entered \in {"no", "outer", "inner"}
<1>1. stack \in Seq(Frame)
  BY DEF TypeOK
<1>2. Len(stack) \in Nat /\ DOMAIN stack = 1 .. Len(stack)
  BY <1>1, LenProperties
<1>3. IsFiniteSet(1 .. Len(stack))
  BY <1>2, FS_Interval
<1>4. IsFiniteSet(Entered(stack))
  BY <1>2, <1>3, FS_Subset DEF Entered
<1>5. \A n \in DOMAIN stack : stack[n] \in Frame
  BY <1>1
<1> QED
  BY <1>1, <1>2, <1>4, <1>5 DEF Frame

\* The innermost call.
LEMMA TopIsTyped ==
    ASSUME TypeOK, stack # <<>>
    PROVE  /\ Len(stack) \in DOMAIN stack /\ Top = stack[Len(stack)] /\ Top \in Frame
           /\ Top.table \in Vtables /\ Top.at \in Targets
           /\ Top.entered \in {"no", "outer", "inner"}
<1>1. Len(stack) \in DOMAIN stack
  BY CallsAreTyped
<1> QED
  BY <1>1, CallsAreTyped DEF Top

-----------------------------------------------------------------------------
(* Init and each action.                                                    *)

\* The first start of a scene of the player.
LEMMA BeginInstallKeepsIInv ==
    ASSUME IInv, BeginInstall
    PROVE  IInv'
<1> USE TargetFacts, IndicesAreTwo
       DEF IInv, Installs, patching, updating, AtRest, Steps, BeginInstall
<1>1. TypeOK'
  <2>1. install' \in Installing /\ Len(install'.candidates) <= 2
    BY RestIsTyped, InstallIsTyped DEF InstallIsOnTrack, Installing
  <2> QED
    BY <2>1, HookAssumption DEF TypeOK, Installing
<1>2. InstallIsOnTrack'
  BY DEF TypeOK, InstallIsOnTrack
<1>3. HooksAreDistinct'
  BY DEF TypeOK, HooksAreDistinct, Hooked, Held
<1>4. ThunksAreServed'
  BY DEF TypeOK, InstallIsOnTrack, ThunksAreServed, Held, NoThunk, NoThunkCalled
<1>5. OrderIsKept'
  BY OrderFollows DEF TypeOK
<1>6. CallsReachHooks'
  BY DEF TypeOK, CallsReachHooks, Hooked
<1>7. OneUpdatePerFrame'
  BY DEF OneUpdatePerFrame
<1>8. OutermostIsUnserved'
  BY DEF OutermostIsUnserved
<1> QED
  BY <1>1, <1>2, <1>3, <1>4, <1>5, <1>6, <1>7, <1>8

\* The slots are read; no thunk is among what they hold.
LEMMA CollectKeepsIInv ==
    ASSUME IInv, Collect
    PROVE  IInv'
<1> USE TargetFacts, IndicesAreTwo
       DEF IInv, Installs, patching, updating, AtRest, Steps, Fails, Collect
<1>1. TypeOK'
  <2>1. install' \in Installing
    BY RestIsTyped, InstallIsTyped, CandidatesAreTyped DEF Installing
  <2>2. Len(install'.candidates) <= 2
    <3>1. install'.candidates \in {AtRest.candidates, Candidates}
      BY InstallIsTyped DEF Installing
    <3> QED
      BY <3>1, RestIsTyped, CandidatesAreTyped
  <2> QED
    BY <2>1, <2>2, HookAssumption DEF TypeOK, Installing
<1>2. InstallIsOnTrack'
  <2>1. CASE Candidates = <<>>
    BY <2>1 DEF InstallIsOnTrack
  <2>2. CASE Candidates # <<>>
    <3>1. \A v \in Vtables : slot[v].kind # "thunk"
      <4>1. NoThunk
        BY DEF InstallIsOnTrack, ThunksAreServed
      <4>2. \A v \in Vtables : slot[v] \in Targets
        BY DEF TypeOK
      <4> QED
        BY <4>1, <4>2 DEF NoThunk, Held
    <3>2. install'.pc = "publish" /\ install'.candidates = Candidates
          /\ install'.patched = 0 /\ hook' = "notInstalled"
      BY <2>2, InstallIsTyped DEF InstallIsOnTrack, Installing
    <3>3. \A c \in DOMAIN Candidates : Candidates[c].original.kind # "thunk"
      BY <3>1, CandidatesAreTyped
    <3> QED
      BY <3>2, <3>3, CandidatesAreTyped DEF InstallIsOnTrack
  <2> QED
    BY <2>1, <2>2
<1>3. HooksAreDistinct'
  BY DEF TypeOK, HooksAreDistinct, Hooked, Held
<1>4. ThunksAreServed'
  BY DEF TypeOK, InstallIsOnTrack, ThunksAreServed, Held, NoThunk, NoThunkCalled
<1>5. OrderIsKept'
  BY OrderFollows DEF TypeOK
<1>6. CallsReachHooks'
  BY DEF TypeOK, CallsReachHooks, Hooked
<1>7. OneUpdatePerFrame'
  BY DEF OneUpdatePerFrame
<1>8. OutermostIsUnserved'
  BY DEF OutermostIsUnserved
<1> QED
  BY <1>1, <1>2, <1>3, <1>4, <1>5, <1>6, <1>7, <1>8

\* The originals are stored before any thunk can be called.
LEMMA PublishKeepsIInv ==
    ASSUME IInv, Publish
    PROVE  IInv'
<1> USE TargetFacts, IndicesAreTwo
       DEF IInv, Installs, patching, updating, Steps, Publish
<1>1. TypeOK'
  <2>0. install \in Installing /\ 1 \in 0 .. 3
    BY InstallIsTyped
  <2>1. install' \in Installing
    BY <2>0 DEF Installing
  <2>2. Len(install'.candidates) <= 2
    BY InstallIsTyped, SMTT(30) DEF Installing
  <2>3. originals' \in [Indices -> Targets \cup {Nothing}]
    <3>1. \A i \in Indices : i <= Len(install.candidates) =>
              install.candidates[i].original \in Targets
      BY InstallIsTyped
    <3> QED
      BY <3>1 DEF TypeOK
  <2> QED
    BY <2>1, <2>2, <2>3, HookAssumption DEF TypeOK, Installing
<1>2. InstallIsOnTrack'
  <2>1. install'.pc = "patch" /\ install'.candidates = install.candidates
        /\ install'.patched = 0 /\ install'.at = 1 /\ install.patched = 0
    BY InstallIsTyped DEF InstallIsOnTrack, Installing
  <2>2. \A i \in DOMAIN install.candidates :
            originals'[i] = install.candidates[i].original
    <3>1. DOMAIN install.candidates = 1 .. Len(install.candidates)
      BY InstallIsTyped DEF Installing
    <3> QED
      BY <3>1, InstallIsTyped
  <2> QED
    BY <2>1, <2>2 DEF InstallIsOnTrack
<1>3. HooksAreDistinct'
  BY DEF TypeOK, HooksAreDistinct, Hooked, Held
<1>4. ThunksAreServed'
  BY DEF TypeOK, InstallIsOnTrack, ThunksAreServed, Held, NoThunk, NoThunkCalled
<1>5. OrderIsKept'
  <2>1. PICK early \in [Vtables -> SUBSET Mods] : EarlyMods(early)
    BY DEF OrderIsKept
  <2>2. NoThunk /\ NoThunkCalled
    BY DEF ThunksAreServed, InstallIsOnTrack
  <2>3. NoThunk'
    BY <2>2 DEF NoThunk, Held
  <2>4. EarlyMods(early)'
    BY <2>1, <2>2, <2>3 DEF EarlyMods, Hooked, NoThunk, NoThunkCalled, TypeOK
  <2> QED
    BY <2>4 DEF OrderIsKept
<1>6. CallsReachHooks'
  BY DEF TypeOK, CallsReachHooks, Hooked
<1>7. OneUpdatePerFrame'
  BY DEF OneUpdatePerFrame
<1>8. OutermostIsUnserved'
  BY DEF OutermostIsUnserved
<1> QED
  BY <1>1, <1>2, <1>3, <1>4, <1>5, <1>6, <1>7, <1>8

\* A thunk replaces what was found; the mods hooked so far are the early ones.
LEMMA PatchKeepsIInv ==
    ASSUME IInv, Patch
    PROVE  IInv'
<1> USE TargetFacts, IndicesAreTwo
       DEF IInv, Installs, patching, updating, Steps, At, Patch
<1>0. /\ install.at \in Indices /\ install.at = install.patched + 1
      /\ install.at \in DOMAIN install.candidates
      /\ At.table \in Vtables /\ At.original \in Targets /\ At.original.kind # "thunk"
      /\ originals[install.at] = At.original /\ slot[At.table] = At.original
  <2>1. install.at \in 1 .. Len(install.candidates) /\ install.candidates \in Seq(Candidate)
    BY InstallIsTyped DEF InstallIsOnTrack, Installing
  <2> QED
    BY <2>1, InstallIsTyped DEF InstallIsOnTrack
<1>9. \A w \in Vtables, i \in Indices : Held(w, Thunk(i)) =>
          i <= install.patched /\ w = install.candidates[i].table /\ w # At.table
  <2> TAKE w \in Vtables, i \in Indices
  <2> HAVE Held(w, Thunk(i))
  <2>1. i <= install.patched /\ w = install.candidates[i].table
    BY DEF ThunksAreServed
  <2>2. i \in DOMAIN install.candidates /\ i # install.at
    <3>1. DOMAIN install.candidates = 1 .. Len(install.candidates)
      BY InstallIsTyped DEF Installing
    <3>2. install.patched \in 0 .. 2 /\ Len(install.candidates) \in 0 .. 2
      BY InstallIsTyped DEF Installing
    <3>3. install.patched <= Len(install.candidates)
      BY DEF InstallIsOnTrack
    <3> QED
      BY <1>0, <2>1, <3>1, <3>2, <3>3
  <2> QED
    BY <1>0, <2>1, <2>2 DEF InstallIsOnTrack
<1>1. TypeOK'
  <2>0. install \in Installing /\ install.at + 1 \in 0 .. 3 /\ install.patched + 1 \in 0 .. 2
    BY InstallIsTyped DEF InstallIsOnTrack, Installing
  <2>1. install' \in Installing
    BY <2>0 DEF Installing
  <2>2. Len(install'.candidates) <= 2
    BY InstallIsTyped DEF Installing
  <2> QED
    BY <1>0, <2>1, <2>2, HookAssumption DEF TypeOK, Installing
<1>2. InstallIsOnTrack'
  BY DEF TypeOK, InstallIsOnTrack
<1>10. \A w \in Vtables : slot'[w] = IF w = At.table THEN Thunk(install.at) ELSE slot[w]
  BY <1>0 DEF TypeOK
<1>3. HooksAreDistinct'
  <2>3. captured' = captured
    OBVIOUS
  <2>1. ASSUME NEW w \in Vtables, NEW m \in Mods
        PROVE  captured[m][w] # slot'[w]
    <3>1. CASE w = At.table
      <4>1. ~Held(w, Thunk(install.at))
        BY <1>0, <1>9, <3>1
      <4> QED
        BY <1>10, <3>1, <4>1 DEF Held
    <3>2. CASE w # At.table
      BY <1>10, <3>2 DEF HooksAreDistinct
    <3> QED
      BY <3>1, <3>2
  <2>2. ASSUME NEW w \in Vtables, NEW m \in Mods, Held(w, Mod(m))'
        PROVE  Held(w, Mod(m))
    <3>1. slot'[w] = Mod(m) => slot[w] = Mod(m)
      BY <1>0, <1>10
    <3> QED
      BY <2>2, <2>3, <3>1 DEF Held
  <2> QED
    BY <2>1, <2>2, <2>3 DEF HooksAreDistinct, Hooked
<1>4. ThunksAreServed'
  <2>1. captured' = captured
    OBVIOUS
  <2>2. \A w \in Vtables, i \in Indices : Held(w, Thunk(i))' =>
            Held(w, Thunk(i)) \/ (w = At.table /\ i = install.at)
    BY <1>0, <1>10, <2>1 DEF Held
  <2>3. /\ install'.pc = "patch" /\ install'.patched = install.at
        /\ install'.candidates = install.candidates
        /\ originals' = originals
    BY <1>0, InstallIsTyped DEF Installing
  <2>4. ASSUME NEW w \in Vtables, NEW i \in Indices, Held(w, Thunk(i))'
        PROVE  \/ i <= install.patched /\ Held(w, Thunk(i)) /\ w # At.table
               \/ i = install.at /\ w = At.table
    BY <1>9, <2>2, <2>4
  <2>5. ASSUME NEW w \in Vtables, NEW i \in Indices, Held(w, Thunk(i))'
        PROVE  /\ i <= install'.patched /\ w = install'.candidates[i].table
               /\ install'.pc # "clear"
    <3>1. install.patched \in 0 .. 2
      BY InstallIsTyped DEF Installing
    <3>2. CASE i <= install.patched /\ Held(w, Thunk(i))
      BY <1>0, <1>9, <2>3, <3>1, <3>2
    <3>3. CASE i = install.at /\ w = At.table
      BY <1>0, <2>3, <3>3
    <3> QED
      BY <2>4, <2>5, <3>2, <3>3
  <2>6. ASSUME NEW w \in Vtables, NEW i \in Indices, Held(w, Thunk(i))'
        PROVE  originals[i] # Nothing /\ ~Held(w, originals[i])'
    <3>1. CASE Held(w, Thunk(i)) /\ w # At.table
      <4>1. originals[i] # Nothing /\ ~Held(w, originals[i])
        BY <3>1 DEF ThunksAreServed
      <4> QED
        BY <1>10, <2>1, <2>3, <3>1, <4>1 DEF Held
    <3>2. CASE i = install.at /\ w = At.table
      <4>1. /\ originals[i] = slot[w] /\ slot[w] \in Targets
            /\ slot[w] # Thunk(install.at)
        BY <1>0, <3>2
      <4>2. \A m \in Mods : captured[m][w] # slot[w]
        BY DEF HooksAreDistinct
      <4>3. slot'[w] = Thunk(install.at)
        BY <1>10, <3>2
      <4> QED
        BY <2>1, <2>3, <4>1, <4>2, <4>3 DEF Held
    <3> QED
      BY <2>4, <2>6, <3>1, <3>2
  <2>7. ASSUME NEW w \in Vtables, NEW i \in Indices, Held(w, Thunk(i))',
               NEW v \in Vtables, Held(v, Thunk(i))'
        PROVE  v = w
    BY <2>5, <2>7
  <2>8. ASSUME NEW w \in Vtables, NEW i \in Indices, Held(w, Thunk(i))',
               NEW j \in Indices, Held(w, Thunk(j))'
        PROVE  j = i
    <3>1. CASE w = At.table
      BY <2>4, <2>8, <3>1
    <3>2. CASE w # At.table
      BY <2>4, <2>8, <3>2 DEF ThunksAreServed
    <3> QED
      BY <3>1, <3>2
  <2>9. \A i \in Indices : originals'[i].kind # "thunk"
    BY <2>3 DEF ThunksAreServed
  <2> QED
    BY <2>3, <2>5, <2>6, <2>7, <2>8, <2>9 DEF ThunksAreServed
<1>5. OrderIsKept'
  <2>1. PICK early \in [Vtables -> SUBSET Mods] : EarlyMods(early)
    BY DEF OrderIsKept
  <2>2. PICK v \in Vtables : v = At.table
    BY <1>0
  <2>a. \A i \in Indices : ~Held(v, Thunk(i))
    BY <1>9, <2>2
  <2>3. PICK now \in [Vtables -> SUBSET Mods] :
            now = [early EXCEPT ![v] = {m \in Mods : Hooked(m, v)}]
    OBVIOUS
  <2>4. \A w \in Vtables : early[w] \subseteq now[w]
    BY <2>1, <2>3 DEF EarlyMods
  <2>5. /\ \A w \in Vtables, m \in Mods : Hooked(m, w)' <=> Hooked(m, w)
        /\ \A w \in Vtables, m \in Mods : captured'[m][w].kind # "thunk" \/ w # v
        /\ \A w \in Vtables, i \in Indices :
              Held(w, Thunk(i))' => Held(w, Thunk(i)) \/ (w = v /\ i = install.at)
    <3>1. captured' = captured
      OBVIOUS
    <3>2. \A m \in Mods : captured[m][v].kind # "thunk"
      BY <2>a DEF TypeOK, Held
    <3>3. ASSUME NEW w \in Vtables, NEW i \in Indices, Held(w, Thunk(i))'
          PROVE  Held(w, Thunk(i)) \/ (w = v /\ i = install.at)
      <4>1. slot'[w] = Thunk(i) => slot[w] = Thunk(i) \/ (w = v /\ i = install.at)
        BY <1>0, <1>10, <2>2
      <4> QED
        BY <3>1, <3>3, <4>1 DEF Held
    <3> QED
      BY <3>1, <3>2, <3>3 DEF Hooked
  <2>6. EarlyMods(now)'
    <3>1. ASSUME NEW w \in Vtables, NEW m \in now[w]
          PROVE  /\ Hooked(m, w)' /\ captured'[m][w].kind # "thunk"
                 /\ \A k \in Mods : captured'[m][w] = Mod(k) => k \in now[w]
      <4>1. CASE w = v
        BY <2>3, <2>5, <3>1, <4>1 DEF HooksAreDistinct, Held
      <4>2. CASE w # v
        BY <2>1, <2>3, <2>5, <3>1, <4>2 DEF EarlyMods
      <4> QED
        BY <4>1, <4>2
    <3>2. ASSUME NEW w \in Vtables, NEW i \in Indices, NEW m \in Mods,
                 Held(w, Thunk(i))', originals'[i] = Mod(m)
          PROVE  m \in now[w]
      <4>1. CASE Held(w, Thunk(i))
        BY <2>1, <2>4, <3>2, <4>1 DEF EarlyMods
      <4>2. CASE w = v /\ i = install.at
        BY <1>0, <2>2, <2>3, <3>2, <4>2 DEF HooksAreDistinct, Held
      <4> QED
        BY <2>5, <3>2, <4>1, <4>2
    <3>3. \A n \in DOMAIN stack : early[stack[n].table] \subseteq now[stack[n].table]
      BY <2>4, CallsAreTyped
    <3>4. \A n \in DOMAIN stack :
              /\ \A i \in Indices, m \in Mods :
                    stack[n].at = Thunk(i) /\ originals[i] = Mod(m)
                    => m \in now[stack[n].table]
              /\ stack[n].entered # "no" =>
                    /\ stack[n].at.kind # "thunk"
                    /\ \A m \in Mods : stack[n].at = Mod(m) => m \in now[stack[n].table]
      BY <2>1, <3>3 DEF EarlyMods
    <3>5. stack' = stack /\ originals' = originals
      OBVIOUS
    <3> QED
      BY <3>1, <3>2, <3>4, <3>5 DEF EarlyMods
  <2> QED
    BY <2>3, <2>6 DEF OrderIsKept
<1>6. CallsReachHooks'
  BY DEF TypeOK, CallsReachHooks, Hooked
<1>7. OneUpdatePerFrame'
  BY DEF OneUpdatePerFrame
<1>8. OutermostIsUnserved'
  BY DEF OutermostIsUnserved
<1> QED
  BY <1>1, <1>2, <1>3, <1>4, <1>5, <1>6, <1>7, <1>8

\* A write fails.
LEMMA PatchFailsKeepsIInv ==
    ASSUME IInv, PatchFails
    PROVE  IInv'
<1> USE TargetFacts, IndicesAreTwo
       DEF IInv, Installs, patching, updating, Steps, At, Fault, PatchFails
<1>1. TypeOK'
  <2>0. install \in Installing /\ install.patched \in 0 .. 3
    BY InstallIsTyped DEF InstallIsOnTrack, Installing
  <2>1. install' \in Installing
    BY <2>0 DEF Installing
  <2>2. Len(install'.candidates) <= 2
    BY InstallIsTyped DEF Installing
  <2> QED
    BY <2>1, <2>2, HookAssumption DEF TypeOK, Installing
<1>2. InstallIsOnTrack'
  BY DEF TypeOK, InstallIsOnTrack
<1>3. HooksAreDistinct'
  BY DEF TypeOK, HooksAreDistinct, Hooked, Held
<1>4. ThunksAreServed'
  BY DEF TypeOK, InstallIsOnTrack, ThunksAreServed, Held, NoThunk, NoThunkCalled
<1>5. OrderIsKept'
  BY OrderFollows DEF TypeOK
<1>6. CallsReachHooks'
  BY DEF TypeOK, CallsReachHooks, Hooked
<1>7. OneUpdatePerFrame'
  BY DEF OneUpdatePerFrame
<1>8. OutermostIsUnserved'
  BY DEF OutermostIsUnserved
<1> QED
  BY <1>1, <1>2, <1>3, <1>4, <1>5, <1>6, <1>7, <1>8

\* Every write succeeded.
LEMMA InstalledKeepsIInv ==
    ASSUME IInv, Installed
    PROVE  IInv'
<1> USE TargetFacts, IndicesAreTwo
       DEF IInv, Installs, patching, updating, Steps, AtRest, Installed
<1>1. TypeOK'
  <2>1. install' \in Installing /\ Len(install'.candidates) <= 2
    BY RestIsTyped, InstallIsTyped DEF InstallIsOnTrack, Installing
  <2> QED
    BY <2>1, HookAssumption DEF TypeOK, Installing
<1>2. InstallIsOnTrack'
  BY DEF TypeOK, InstallIsOnTrack
<1>3. HooksAreDistinct'
  BY DEF TypeOK, HooksAreDistinct, Hooked, Held
<1>4. ThunksAreServed'
  BY DEF TypeOK, InstallIsOnTrack, ThunksAreServed, Held, NoThunk, NoThunkCalled
<1>5. OrderIsKept'
  BY OrderFollows DEF TypeOK
<1>6. CallsReachHooks'
  BY DEF TypeOK, CallsReachHooks, Hooked
<1>7. OneUpdatePerFrame'
  BY DEF OneUpdatePerFrame
<1>8. OutermostIsUnserved'
  BY DEF OutermostIsUnserved
<1> QED
  BY <1>1, <1>2, <1>3, <1>4, <1>5, <1>6, <1>7, <1>8

\* A slot gets its original back, so nothing leads to the thunk any more.
LEMMA RollBackKeepsIInv ==
    ASSUME IInv, RollBack
    PROVE  IInv'
<1> USE TargetFacts, IndicesAreTwo
       DEF IInv, Installs, patching, updating, Steps, At, RollBack
<1>0. /\ install.at \in Indices /\ At.table \in Vtables
      /\ slot[At.table] = Thunk(install.at) /\ Held(At.table, Thunk(install.at))
  BY InstallIsTyped DEF InstallIsOnTrack, Installing, Held
<1>9. /\ originals[install.at] \in Targets /\ originals[install.at].kind # "thunk"
      /\ ~Held(At.table, originals[install.at])
  BY <1>0 DEF TypeOK, ThunksAreServed
<1>1. TypeOK'
  <2>1. install' \in Installing
    BY InstallIsTyped DEF InstallIsOnTrack, Installing
  <2>2. Len(install'.candidates) <= 2
    BY InstallIsTyped DEF Installing
  <2> QED
    BY <1>0, <1>9, <2>1, <2>2, HookAssumption DEF TypeOK, Installing
<1>2. InstallIsOnTrack'
  BY DEF TypeOK, InstallIsOnTrack
<1>10. /\ \A w \in Vtables :
             slot'[w] = IF w = At.table THEN originals[install.at] ELSE slot[w]
       /\ captured' = captured /\ originals' = originals
  BY <1>0 DEF TypeOK
<1>11. \A w \in Vtables : \A t : Held(w, t)' =>
           Held(w, t) \/ (w = At.table /\ t = originals[install.at])
  BY <1>10 DEF Held
<1>12. ASSUME NEW w \in Vtables, NEW i \in Indices, Held(w, Thunk(i))'
       PROVE  Held(w, Thunk(i)) /\ i # install.at
  <2>1. Held(w, Thunk(i))
    BY <1>9, <1>11, <1>12
  <2>2. CASE i = install.at
    <3>1. w = At.table
      BY <1>0, <2>1, <2>2 DEF ThunksAreServed
    <3>2. \A m \in Mods : captured[m][w] # Thunk(i)
      BY <1>0, <2>2, <3>1 DEF HooksAreDistinct
    <3>3. slot'[w] # Thunk(i)
      BY <1>9, <1>10, <3>1
    <3> QED
      BY <1>10, <1>12, <3>2, <3>3 DEF Held
  <2> QED
    BY <2>1, <2>2
<1>3. HooksAreDistinct'
  <2>1. ASSUME NEW w \in Vtables, NEW m \in Mods
        PROVE  captured[m][w] # slot'[w]
    <3>1. CASE w = At.table
      <4>1. slot'[w] = originals[install.at] /\ ~Held(w, originals[install.at])
        BY <1>9, <1>10, <3>1
      <4> QED
        BY <4>1 DEF Held
    <3>2. CASE w # At.table
      BY <1>10, <3>2 DEF HooksAreDistinct
    <3> QED
      BY <3>1, <3>2
  <2>2. ASSUME NEW w \in Vtables, NEW m \in Mods, Held(w, Mod(m))'
        PROVE  Hooked(m, w)
    <3>1. CASE Held(w, Mod(m))
      BY <3>1 DEF HooksAreDistinct
    <3>2. CASE w = At.table /\ Mod(m) = originals[install.at]
      BY <1>0, <3>2 DEF OrderIsKept, EarlyMods
    <3> QED
      BY <1>11, <2>2, <3>1, <3>2
  <2> QED
    BY <1>10, <2>1, <2>2 DEF HooksAreDistinct, Hooked
<1>4. ThunksAreServed'
  <2>1. install'.pc = "clear" /\ install' = [install EXCEPT !.pc = "clear"]
    BY InstallIsTyped DEF Installing
  <2>2. /\ install'.at = install.at /\ install'.patched = install.patched
        /\ install'.candidates = install.candidates
    BY <2>1, InstallIsTyped DEF Installing
  <2>3. ASSUME NEW w \in Vtables, NEW i \in Indices, Held(w, Thunk(i))'
        PROVE  originals[i] # Nothing /\ ~Held(w, originals[i])'
    <3>1. Held(w, Thunk(i)) /\ i # install.at
      BY <1>12, <2>3
    <3>2. originals[i] # Nothing /\ ~Held(w, originals[i])
      BY <3>1 DEF ThunksAreServed
    <3>3. w # At.table
      BY <1>0, <3>1 DEF ThunksAreServed
    <3> QED
      BY <1>10, <3>2, <3>3 DEF Held
  <2>4. ASSUME NEW w \in Vtables, NEW i \in Indices, Held(w, Thunk(i))'
        PROVE  /\ \A v \in Vtables : Held(v, Thunk(i))' => v = w
               /\ \A k \in Indices : Held(w, Thunk(k))' => k = i
               /\ i <= install.patched /\ w = install.candidates[i].table /\ i # install.at
    BY <1>12, <2>4 DEF ThunksAreServed
  <2>5. \A i \in Indices : originals'[i].kind # "thunk"
    BY <1>10 DEF ThunksAreServed
  <2> QED
    BY <1>10, <2>1, <2>2, <2>3, <2>4, <2>5 DEF ThunksAreServed
<1>5. OrderIsKept'
  <2>1. PICK early \in [Vtables -> SUBSET Mods] : EarlyMods(early)
    BY DEF OrderIsKept
  <2>2. EarlyMods(early)'
    <3>1. \A w \in Vtables, i \in Indices : Held(w, Thunk(i))' => Held(w, Thunk(i))
      BY <1>12
    <3> QED
      BY <1>10, <2>1, <3>1 DEF EarlyMods, Hooked
  <2> QED
    BY <2>2 DEF OrderIsKept
<1>6. CallsReachHooks'
  BY DEF TypeOK, CallsReachHooks, Hooked
<1>7. OneUpdatePerFrame'
  BY DEF OneUpdatePerFrame
<1>8. OutermostIsUnserved'
  BY DEF OutermostIsUnserved
<1> QED
  BY <1>1, <1>2, <1>3, <1>4, <1>5, <1>6, <1>7, <1>8

\* The original of a thunk nothing leads to is cleared.
LEMMA ClearOriginalKeepsIInv ==
    ASSUME IInv, ClearOriginal
    PROVE  IInv'
<1> USE TargetFacts, IndicesAreTwo
       DEF IInv, Installs, patching, updating, Steps, ClearOriginal
<1>1. TypeOK'
  <2>0. install \in Installing /\ install.at - 1 \in 0 .. 3
    BY InstallIsTyped DEF InstallIsOnTrack, Installing
  <2>1. install' \in Installing
    BY <2>0 DEF Installing
  <2>2. Len(install'.candidates) <= 2
    BY InstallIsTyped DEF Installing
  <2> QED
    BY <2>1, <2>2, HookAssumption DEF TypeOK, Installing
<1>2. InstallIsOnTrack'
  BY DEF TypeOK, InstallIsOnTrack
<1>3. HooksAreDistinct'
  BY DEF TypeOK, HooksAreDistinct, Hooked, Held
<1>4. ThunksAreServed'
  BY DEF TypeOK, InstallIsOnTrack, ThunksAreServed, Held, NoThunk, NoThunkCalled
<1>5. OrderIsKept'
  BY OrderFollows DEF TypeOK
<1>6. CallsReachHooks'
  BY DEF TypeOK, CallsReachHooks, Hooked
<1>7. OneUpdatePerFrame'
  BY DEF OneUpdatePerFrame
<1>8. OutermostIsUnserved'
  BY DEF OutermostIsUnserved
<1> QED
  BY <1>1, <1>2, <1>3, <1>4, <1>5, <1>6, <1>7, <1>8

\* A slot cannot be restored; the thunk keeps its original.
LEMMA RollBackFailsKeepsIInv ==
    ASSUME IInv, RollBackFails
    PROVE  IInv'
<1> USE TargetFacts, IndicesAreTwo
       DEF IInv, Installs, patching, updating, Steps, At, Fault, RollBackFails
<1>1. TypeOK'
  <2>1. install' \in Installing
    BY InstallIsTyped DEF InstallIsOnTrack, Installing
  <2>2. Len(install'.candidates) <= 2
    BY InstallIsTyped DEF Installing
  <2> QED
    BY <2>1, <2>2, HookAssumption DEF TypeOK, Installing
<1>2. InstallIsOnTrack'
  BY DEF TypeOK, InstallIsOnTrack
<1>3. HooksAreDistinct'
  BY DEF TypeOK, HooksAreDistinct, Hooked, Held
<1>4. ThunksAreServed'
  BY SMTT(30) DEF TypeOK, InstallIsOnTrack, ThunksAreServed, Held, NoThunk, NoThunkCalled
<1>5. OrderIsKept'
  BY OrderFollows DEF TypeOK
<1>6. CallsReachHooks'
  BY DEF TypeOK, CallsReachHooks, Hooked
<1>7. OneUpdatePerFrame'
  BY DEF OneUpdatePerFrame
<1>8. OutermostIsUnserved'
  BY DEF OutermostIsUnserved
<1> QED
  BY <1>1, <1>2, <1>3, <1>4, <1>5, <1>6, <1>7, <1>8

\* The originals that were never used are cleared.
LEMMA RolledBackKeepsIInv ==
    ASSUME IInv, RolledBack
    PROVE  IInv'
<1> USE TargetFacts, IndicesAreTwo
       DEF IInv, Installs, patching, updating, Steps, AtRest, Fails, RolledBack
<1>1. TypeOK'
  <2>1. install' \in Installing /\ Len(install'.candidates) <= 2
    BY RestIsTyped, InstallIsTyped DEF InstallIsOnTrack, Installing
  <2> QED
    BY <2>1, HookAssumption DEF TypeOK, Installing
<1>2. InstallIsOnTrack'
  BY DEF TypeOK, InstallIsOnTrack
<1>3. HooksAreDistinct'
  BY DEF TypeOK, HooksAreDistinct, Hooked, Held
<1>4. ThunksAreServed'
  BY DEF TypeOK, InstallIsOnTrack, ThunksAreServed, Held, NoThunk, NoThunkCalled
<1>5. OrderIsKept'
  BY OrderFollows DEF TypeOK
<1>6. CallsReachHooks'
  BY DEF TypeOK, CallsReachHooks, Hooked
<1>7. OneUpdatePerFrame'
  BY DEF OneUpdatePerFrame
<1>8. OutermostIsUnserved'
  BY DEF OutermostIsUnserved
<1> QED
  BY <1>1, <1>2, <1>3, <1>4, <1>5, <1>6, <1>7, <1>8

\* The installation is marked as failed and nothing else.
LEMMA InterruptedKeepsIInv ==
    ASSUME IInv, Interrupted
    PROVE  IInv'
<1> USE TargetFacts, IndicesAreTwo
       DEF IInv, Installs, patching, updating, Steps, AtRest, Fails, Fault, Interrupted
<1>1. TypeOK'
  <2>1. install' \in Installing /\ Len(install'.candidates) <= 2
    BY RestIsTyped, InstallIsTyped DEF InstallIsOnTrack, Installing
  <2> QED
    BY <2>1, HookAssumption DEF TypeOK, Installing
<1>2. InstallIsOnTrack'
  BY DEF TypeOK, InstallIsOnTrack
<1>3. HooksAreDistinct'
  BY DEF TypeOK, HooksAreDistinct, Hooked, Held
<1>4. ThunksAreServed'
  BY DEF TypeOK, InstallIsOnTrack, ThunksAreServed, Held, NoThunk, NoThunkCalled
<1>5. OrderIsKept'
  BY OrderFollows DEF TypeOK
<1>6. CallsReachHooks'
  BY DEF TypeOK, CallsReachHooks, Hooked
<1>7. OneUpdatePerFrame'
  BY DEF OneUpdatePerFrame
<1>8. OutermostIsUnserved'
  BY DEF OutermostIsUnserved
<1> QED
  BY <1>1, <1>2, <1>3, <1>4, <1>5, <1>6, <1>7, <1>8

\* Another mod hooks a slot.
LEMMA ModHooksKeepsIInv ==
    ASSUME IInv, NEW m \in Mods, NEW v \in Vtables, ModHooks(m, v)
    PROVE  IInv'
<1> USE TargetFacts, IndicesAreTwo DEF IInv, patching, updating, ModHooks, Hooked
<1>9. /\ \A w \in Vtables : slot'[w] = IF w = v THEN Mod(m) ELSE slot[w]
      /\ \A k \in Mods, w \in Vtables :
            captured'[k][w] = IF k = m /\ w = v THEN slot[v] ELSE captured[k][w]
  BY DEF TypeOK
<1>0. /\ \A w \in Vtables : \A t : Held(w, t)' => Held(w, t) \/ (w = v /\ t = Mod(m))
      /\ stack = <<>>
  <2> SUFFICES ASSUME NEW w \in Vtables, NEW t, Held(w, t)'
               PROVE  Held(w, t) \/ (w = v /\ t = Mod(m))
    OBVIOUS
  <2>1. CASE slot'[w] = t
    BY <1>9, <2>1 DEF Held
  <2>2. ASSUME NEW k \in Mods, captured'[k][w] = t
        PROVE  Held(w, t)
    BY <1>9, <2>2 DEF Held
  <2> QED
    BY <2>1, <2>2 DEF Held
<1>1. TypeOK'
  BY HookAssumption DEF TypeOK
<1>2. InstallIsOnTrack'
  BY DEF TypeOK, InstallIsOnTrack
<1>3. HooksAreDistinct'
  BY <1>0 DEF TypeOK, HooksAreDistinct, Held
<1>4. ThunksAreServed'
  <2>1. \A w \in Vtables, i \in Indices : Held(w, Thunk(i))' => Held(w, Thunk(i))
    BY <1>0
  <2>2. \A i \in Indices : Held(v, Thunk(i)) => originals[i] # Mod(m)
    BY DEF OrderIsKept, EarlyMods
  <2>3. \A w \in Vtables, i \in Indices :
            Held(w, Thunk(i))' => ~Held(w, originals[i])'
    BY <1>0, <2>1, <2>2 DEF ThunksAreServed
  <2> QED
    BY <1>0, <2>1, <2>3 DEF ThunksAreServed, NoThunk, NoThunkCalled
<1>5. OrderIsKept'
  <2>1. PICK early \in [Vtables -> SUBSET Mods] : EarlyMods(early)
    BY DEF OrderIsKept
  <2>2. EarlyMods(early)'
    BY <1>0, <2>1 DEF EarlyMods, TypeOK, ThunksAreServed
  <2> QED
    BY <2>2 DEF OrderIsKept
<1>6. CallsReachHooks'
  BY <1>0 DEF TypeOK, CallsReachHooks
<1>7. OneUpdatePerFrame'
  BY DEF OneUpdatePerFrame
<1>8. OutermostIsUnserved'
  BY DEF OutermostIsUnserved
<1> QED
  BY <1>1, <1>2, <1>3, <1>4, <1>5, <1>6, <1>7, <1>8

\* Another mod takes its hook back.
LEMMA ModUnhooksKeepsIInv ==
    ASSUME IInv, NEW m \in Mods, NEW v \in Vtables, ModUnhooks(m, v)
    PROVE  IInv'
<1> USE TargetFacts, IndicesAreTwo DEF IInv, patching, updating, ModUnhooks, Hooked
<1>9. /\ \A w \in Vtables : slot'[w] = IF w = v THEN captured[m][v] ELSE slot[w]
      /\ \A k \in Mods, w \in Vtables :
            captured'[k][w] = IF k = m /\ w = v THEN Nothing ELSE captured[k][w]
  BY DEF TypeOK
<1>0. /\ \A w \in Vtables : \A t : Held(w, t)' => Held(w, t) \/ t = Nothing
      /\ stack = <<>>
  BY <1>9 DEF Held
<1>1. TypeOK'
  BY HookAssumption DEF TypeOK
<1>2. InstallIsOnTrack'
  BY DEF TypeOK, InstallIsOnTrack
<1>3. HooksAreDistinct'
  BY <1>0 DEF TypeOK, HooksAreDistinct, Held
<1>4. ThunksAreServed'
  BY <1>0 DEF TypeOK, HooksAreDistinct, ThunksAreServed, NoThunk, NoThunkCalled
<1>5. OrderIsKept'
  <2>1. PICK early \in [Vtables -> SUBSET Mods] : EarlyMods(early)
    BY DEF OrderIsKept
  <2> DEFINE now == [early EXCEPT ![v] = @ \ {m}]
  <2>2. now \in [Vtables -> SUBSET Mods]
    OBVIOUS
  <2>3. EarlyMods(now)'
    <3>1. \A w \in Vtables : \A k \in now[w] :
              /\ k \in early[w] /\ captured'[k][w] = captured[k][w]
              /\ captured[k][w] # Mod(m) \/ w # v
      BY <1>9, <2>1 DEF EarlyMods, HooksAreDistinct
    <3>2. \A w \in Vtables, k \in Mods : k \in early[w] /\ (k # m \/ w # v) => k \in now[w]
      BY <2>1
    <3>3. \A w \in Vtables, i \in Indices :
              Held(w, Thunk(i))' => Held(w, Thunk(i)) /\ (w = v => originals[i] # Mod(m))
      BY <1>0, <1>9 DEF ThunksAreServed, Held
    <3> QED
      BY <1>0, <2>1, <3>1, <3>2, <3>3 DEF EarlyMods
  <2> QED
    BY <2>2, <2>3 DEF OrderIsKept
<1>6. CallsReachHooks'
  BY <1>0 DEF TypeOK, CallsReachHooks
<1>7. OneUpdatePerFrame'
  BY DEF OneUpdatePerFrame
<1>8. OutermostIsUnserved'
  BY DEF OutermostIsUnserved
<1> QED
  BY <1>1, <1>2, <1>3, <1>4, <1>5, <1>6, <1>7, <1>8

\* A call that goes deeper.
LEMMA CallsGrow ==
    ASSUME TypeOK, NEW f \in Frame, stack' = Append(stack, f)
    PROVE  /\ stack' \in Seq(Frame) /\ DOMAIN stack' = 1 .. Len(stack) + 1
           /\ \A n \in 1 .. Len(stack) : stack'[n] = stack[n]
           /\ stack'[Len(stack) + 1] = f
  BY CallsAreTyped, AppendProperties

\* A call that returns.
LEMMA CallsShrink ==
    ASSUME TypeOK, stack # <<>>, stack' = Outer
    PROVE  /\ stack' \in Seq(Frame) /\ DOMAIN stack' = 1 .. Len(stack) - 1
           /\ \A n \in 1 .. Len(stack) - 1 : stack'[n] = stack[n]
           /\ Len(stack) \in DOMAIN stack /\ Top \in Frame
  BY CallsAreTyped DEF Outer, Top

\* A call that goes on to another function.
LEMMA CallsChange ==
    ASSUME TypeOK, NEW e \in DOMAIN stack, NEW f \in Frame, stack' = [stack EXCEPT ![e] = f]
    PROVE  /\ stack' \in Seq(Frame) /\ DOMAIN stack' = DOMAIN stack
           /\ \A n \in DOMAIN stack : stack'[n] = IF n = e THEN f ELSE stack[n]
<1>1. stack' \in Seq(Frame)
  BY CallsAreTyped, ExceptSeq
<1> QED
  BY <1>1

\* A call of a thunk becomes a call of its original.
LEMMA FrameChanges ==
    ASSUME NEW r \in Frame, NEW t, NEW h
    PROVE  [r EXCEPT !.at = t, !.entered = h] = [table |-> r.table, at |-> t, entered |-> h]
<1>1. PICK a \in Vtables, b \in Targets, c \in {"no", "outer", "inner"} :
          r = [table |-> a, at |-> b, entered |-> c]
  BY Zenon DEF Frame
<1>2. [r EXCEPT !.at = t] = [table |-> a, at |-> t, entered |-> c]
  BY <1>1
<1>3. [[r EXCEPT !.at = t] EXCEPT !.entered = h] = [table |-> a, at |-> t, entered |-> h]
  <2>1. [[table |-> a, at |-> t, entered |-> c] EXCEPT !.entered = h]
        = [table |-> a, at |-> t, entered |-> h]
    OBVIOUS
  <2> QED
    BY <1>2, <2>1, Zenon
<1>4. r.table = a
  BY <1>1
<1>5. [r EXCEPT !.at = t, !.entered = h] = [[r EXCEPT !.at = t] EXCEPT !.entered = h]
  OBVIOUS
<1> QED
  BY <1>3, <1>4, <1>5

\* An update begins, or the engine updates another state within one.
LEMMA CallKeepsIInv ==
    ASSUME IInv, NEW v \in Vtables, Call(v)
    PROVE  IInv'
<1> USE TargetFacts, IndicesAreTwo DEF IInv, patching, Call
<1> DEFINE f == [table |-> v, at |-> slot[v], entered |-> "no"]
<1>0. f \in Frame /\ f.table = v /\ f.at = slot[v] /\ f.entered = "no"
  BY DEF TypeOK, Frame
<1> HIDE DEF f
<1>9. stack' = Append(stack, f)
  BY DEF f
<1>10. /\ stack' \in Seq(Frame) /\ DOMAIN stack' = 1 .. Len(stack) + 1
       /\ \A n \in 1 .. Len(stack) : stack'[n] = stack[n]
       /\ stack'[Len(stack) + 1] = f
  BY <1>0, <1>9, CallsGrow
<1>11. \A n \in DOMAIN stack' : (n \in DOMAIN stack /\ stack'[n] = stack[n]) \/ stack'[n] = f
  BY <1>10, CallsAreTyped
<1>1. TypeOK'
  BY <1>10, HookAssumption DEF TypeOK
<1>2. InstallIsOnTrack'
  BY DEF InstallIsOnTrack
<1>3. HooksAreDistinct'
  BY DEF HooksAreDistinct, Hooked, Held
<1>4. ThunksAreServed'
  <2>1. hook = "notInstalled" /\ install.pc \in {"idle", "collect", "publish"} =>
            NoThunk /\ NoThunkCalled
    BY DEF ThunksAreServed
  <2>2. NoThunk /\ NoThunkCalled => NoThunkCalled'
    <3>1. ASSUME NoThunk
          PROVE  f.at.kind # "thunk"
      <4>1. slot[v] \in Targets /\ \A i \in Indices : slot[v] # Thunk(i)
        BY <3>1 DEF NoThunk, Held, TypeOK
      <4> QED
        BY <1>0, <4>1
    <3> QED
      BY <1>11, <3>1 DEF NoThunkCalled
  <2> QED
    BY <2>1, <2>2 DEF ThunksAreServed, NoThunk, Held
<1>5. OrderIsKept'
  <2>1. PICK early \in [Vtables -> SUBSET Mods] : EarlyMods(early)
    BY DEF OrderIsKept
  <2>2. EarlyMods(early)'
    BY <1>0, <1>11, <2>1 DEF EarlyMods, Hooked, Held
  <2> QED
    BY <2>2 DEF OrderIsKept
<1>6. CallsReachHooks'
  <2>1. /\ \A m \in Mods : f.at = Mod(m) => Hooked(m, v)
        /\ \A i \in Indices : f.at = Thunk(i) => originals[i] # Nothing
    BY <1>0 DEF HooksAreDistinct, ThunksAreServed, Held
  <2>2. \A n \in DOMAIN stack', m \in Mods :
            stack'[n].at = Mod(m) => Hooked(m, stack'[n].table)
    BY <1>0, <1>11, <2>1 DEF CallsReachHooks
  <2>3. ASSUME where = "main"
        PROVE  /\ install.pc = "idle" /\ ~missed
               /\ \A n \in DOMAIN stack', i \in Indices :
                     stack'[n].at = Thunk(i) => originals[i] # Nothing
    <3>1. install.pc = "idle"
      BY <2>3 DEF CallsReachHooks, Installs, InTop
    <3> QED
      BY <1>11, <2>1, <2>3, <3>1 DEF CallsReachHooks
  <2> QED
    BY <2>2, <2>3 DEF CallsReachHooks, Hooked
<1>7. OneUpdatePerFrame'
  <2>1. Entered(stack)' = Entered(stack)
    BY <1>0, <1>10, CallsAreTyped DEF Entered
  <2>2. \A n \in DOMAIN stack' :
            stack'[n].entered = "outer"
            <=> /\ stack'[n].entered # "no"
                /\ \A k \in 1 .. n - 1 : stack'[k].entered = "no"
    BY <1>0, <1>10, CallsAreTyped DEF OneUpdatePerFrame
  <2> QED
    BY <2>1, <2>2 DEF OneUpdatePerFrame, Entered
<1>8. OutermostIsUnserved'
  BY <1>0, <1>11 DEF OutermostIsUnserved
<1> QED
  BY <1>1, <1>2, <1>3, <1>4, <1>5, <1>6, <1>7, <1>8

\* A mod calls what it found.
LEMMA ModPassesOnKeepsIInv ==
    ASSUME IInv, ModPassesOn
    PROVE  IInv'
<1> USE TargetFacts, IndicesAreTwo DEF IInv, patching, ModPassesOn
<1> DEFINE e == Len(stack)
           f == [Top EXCEPT !.at = captured[Top.at.of][Top.table]]
<1>0. stack # <<>> /\ Top.at.kind = "mod"
  BY DEF InTop
<1>a. PICK m \in Mods : Top.at = Mod(m) /\ m = Top.at.of
  BY <1>0, TopIsTyped
<1>b. Hooked(m, Top.table) /\ captured[m][Top.table] \in Targets
  BY <1>0, <1>a, TopIsTyped DEF CallsReachHooks, Hooked, TypeOK
<1>9. f \in Frame /\ f.table = Top.table /\ f.entered = Top.entered
      /\ f.at = captured[m][Top.table]
  BY <1>0, <1>a, <1>b, TopIsTyped DEF Frame
<1>c. stack' = [stack EXCEPT ![e] = f]
  BY <1>0, TopIsTyped DEF Top
<1> HIDE DEF f
<1>d. Held(Top.table, f.at)
  BY <1>9 DEF Held
<1>10. /\ stack' \in Seq(Frame) /\ DOMAIN stack' = DOMAIN stack
       /\ \A n \in DOMAIN stack : stack'[n] = IF n = e THEN f ELSE stack[n]
  BY <1>9, <1>c, <1>0, TopIsTyped, CallsChange
<1>e. e \in DOMAIN stack /\ stack[e] = Top /\ Top.table \in Vtables
  BY <1>0, TopIsTyped
<1>1. TypeOK'
  BY <1>10, HookAssumption DEF TypeOK
<1>2. InstallIsOnTrack'
  BY DEF InstallIsOnTrack
<1>3. HooksAreDistinct'
  BY DEF HooksAreDistinct, Hooked, Held
<1>4. ThunksAreServed'
  <2>1. hook = "notInstalled" /\ install.pc \in {"idle", "collect", "publish"} =>
            NoThunk /\ NoThunkCalled
    BY DEF ThunksAreServed
  <2>2. ASSUME NoThunk, NoThunkCalled
        PROVE  NoThunkCalled'
    <3>1. f.at.kind # "thunk"
      BY <1>9, <1>b, <1>d, <1>e, <2>2 DEF NoThunk
    <3> QED
      BY <1>10, <2>2, <3>1 DEF NoThunkCalled
  <2> QED
    BY <2>1, <2>2 DEF ThunksAreServed, NoThunk, Held
<1>5. OrderIsKept'
  <2>1. PICK early \in [Vtables -> SUBSET Mods] : EarlyMods(early)
    BY DEF OrderIsKept
  <2>2. \A i \in Indices, k \in Mods :
            f.at = Thunk(i) /\ originals[i] = Mod(k) => k \in early[f.table]
    BY <1>9, <1>d, <1>e, <2>1 DEF EarlyMods
  <2>3. ASSUME f.entered # "no"
        PROVE  /\ f.at.kind # "thunk"
               /\ \A k \in Mods : f.at = Mod(k) => k \in early[f.table]
    <3>1. m \in early[Top.table]
      BY <1>a, <1>9, <1>e, <2>1, <2>3 DEF EarlyMods
    <3> QED
      BY <1>9, <1>e, <2>1, <3>1 DEF EarlyMods
  <2>4. \A n \in DOMAIN stack' :
            /\ \A i \in Indices, k \in Mods :
                  stack'[n].at = Thunk(i) /\ originals[i] = Mod(k)
                  => k \in early[stack'[n].table]
            /\ stack'[n].entered # "no" =>
                  /\ stack'[n].at.kind # "thunk"
                  /\ \A k \in Mods : stack'[n].at = Mod(k) => k \in early[stack'[n].table]
    <3> TAKE n \in DOMAIN stack'
    <3>1. CASE n = e
      BY <1>10, <2>2, <2>3, <3>1
    <3>2. CASE n # e
      <4>1. n \in DOMAIN stack /\ stack'[n] = stack[n]
        BY <1>10, <3>2
      <4>2. /\ \A i \in Indices, k \in Mods :
                  stack[n].at = Thunk(i) /\ originals[i] = Mod(k) => k \in early[stack[n].table]
            /\ stack[n].entered # "no" =>
                  /\ stack[n].at.kind # "thunk"
                  /\ \A k \in Mods : stack[n].at = Mod(k) => k \in early[stack[n].table]
        BY <2>1, <4>1, Zenon DEF EarlyMods
      <4> QED
        BY <4>1, <4>2
    <3> QED
      BY <3>1, <3>2
  <2>5. EarlyMods(early)'
    BY <2>1, <2>4, SMTT(30) DEF EarlyMods, Hooked, Held
  <2> QED
    BY <2>5 DEF OrderIsKept
<1>6. CallsReachHooks'
  <2>1. /\ \A k \in Mods : f.at = Mod(k) => Hooked(k, f.table)
        /\ \A i \in Indices : f.at = Thunk(i) => originals[i] # Nothing
    BY <1>9, <1>d, <1>e DEF HooksAreDistinct, ThunksAreServed
  <2>2. \A n \in DOMAIN stack', k \in Mods :
            stack'[n].at = Mod(k) => Hooked(k, stack'[n].table)
    BY <1>10, <2>1 DEF CallsReachHooks
  <2>3. where = "main" => \A n \in DOMAIN stack', i \in Indices :
            stack'[n].at = Thunk(i) => originals[i] # Nothing
    BY <1>10, <2>1 DEF CallsReachHooks
  <2> QED
    BY <1>0, <2>2, <2>3 DEF CallsReachHooks, Hooked
<1>7. OneUpdatePerFrame'
  <2>0. \A n \in DOMAIN stack : stack'[n].entered = stack[n].entered
    BY <1>9, <1>10, <1>e
  <2>1. Entered(stack)' = Entered(stack)
    BY <1>10, <2>0 DEF Entered
  <2>2. \A n \in DOMAIN stack : \A k \in 1 .. n - 1 : k \in DOMAIN stack
    BY CallsAreTyped
  <2>3. \A n \in DOMAIN stack' :
            stack'[n].entered = "outer"
            <=> /\ stack'[n].entered # "no"
                /\ \A k \in 1 .. n - 1 : stack'[k].entered = "no"
    BY <1>10, <2>0, <2>2 DEF OneUpdatePerFrame
  <2> QED
    BY <2>1, <2>3 DEF OneUpdatePerFrame, Entered
<1>8. OutermostIsUnserved'
  BY <1>9, <1>10, <1>e DEF OutermostIsUnserved
<1> QED
  BY <1>1, <1>2, <1>3, <1>4, <1>5, <1>6, <1>7, <1>8

\* A call that returns, or throws, or finds no original.
LEMMA ReturnKeepsIInv ==
    ASSUME IInv, stack # <<>>, stack' = Outer,
           UNCHANGED <<where, tables, slot, captured, patching>>, faults' \in 0 .. MaxFaults,
           missed' \in BOOLEAN, missed' => missed \/ where # "main",
           depth' = IF Top.entered = "no" THEN depth ELSE depth - 1,
           \/ served' = served
           \/ Top.entered = "outer" /\ served' = served + 1
    PROVE  IInv'
<1> USE TargetFacts, IndicesAreTwo DEF IInv, patching
<1>0. /\ stack' \in Seq(Frame) /\ DOMAIN stack' = 1 .. Len(stack) - 1
      /\ \A n \in 1 .. Len(stack) - 1 : stack'[n] = stack[n]
      /\ Len(stack) \in DOMAIN stack /\ Top \in Frame /\ Top = stack[Len(stack)]
  BY CallsShrink DEF Top
<1>9. \A n \in DOMAIN stack' : n \in DOMAIN stack /\ n # Len(stack) /\ stack'[n] = stack[n]
  BY <1>0, CallsAreTyped
<1>10. Entered(stack)' = Entered(stack) \ {Len(stack)}
  BY <1>0, <1>9, CallsAreTyped DEF Entered
<1>11. depth' \in Nat /\ depth' = Cardinality(Entered(stack)')
  <2>1. depth = Cardinality(Entered(stack)) /\ depth \in Nat
    BY DEF OneUpdatePerFrame, Entered, TypeOK
  <2>2. CASE Top.entered = "no"
    <3>1. Entered(stack)' = Entered(stack)
      BY <1>0, <1>10, <2>2 DEF Entered
    <3> QED
      BY <2>1, <2>2, <3>1
  <2>3. CASE Top.entered # "no"
    <3>1. Len(stack) \in Entered(stack)
      BY <1>0, <2>3 DEF Entered
    <3>2. /\ Cardinality(Entered(stack) \ {Len(stack)}) = Cardinality(Entered(stack)) - 1
          /\ Cardinality(Entered(stack) \ {Len(stack)}) \in Nat
      BY <3>1, CallsAreTyped, FS_RemoveElement, FS_CardinalityType
    <3> QED
      BY <1>10, <2>1, <2>3, <3>2
  <2> QED
    BY <2>2, <2>3
<1>12. /\ served' \in Nat /\ served' <= 1
       /\ \A n \in DOMAIN stack' : stack'[n].entered = "outer" => served' = 0
  <2>1. served \in Nat /\ served <= 1
    BY DEF TypeOK, OneUpdatePerFrame
  <2>2. CASE served' = served
    BY <1>9, <2>1, <2>2 DEF OutermostIsUnserved
  <2>3. CASE Top.entered = "outer" /\ served' = served + 1
    <3>1. served = 0
      BY <1>0, <2>3 DEF OutermostIsUnserved
    <3>2. \A n \in DOMAIN stack' : stack'[n].entered = "no"
      BY <1>0, <1>9, <2>3, CallsAreTyped DEF OneUpdatePerFrame
    <3> QED
      BY <2>3, <3>1, <3>2
  <2> QED
    BY <2>2, <2>3
<1>1. TypeOK'
  BY <1>0, <1>11, <1>12 DEF TypeOK
<1>2. InstallIsOnTrack'
  BY DEF InstallIsOnTrack
<1>3. HooksAreDistinct'
  BY DEF HooksAreDistinct, Hooked, Held
<1>4. ThunksAreServed'
  <2>1. hook = "notInstalled" /\ install.pc \in {"idle", "collect", "publish"} =>
            NoThunk /\ NoThunkCalled
    BY DEF ThunksAreServed
  <2>2. NoThunk /\ NoThunkCalled => NoThunkCalled'
    BY <1>9 DEF NoThunkCalled
  <2> QED
    BY <2>1, <2>2 DEF ThunksAreServed, NoThunk, Held
<1>5. OrderIsKept'
  <2>1. PICK early \in [Vtables -> SUBSET Mods] : EarlyMods(early)
    BY DEF OrderIsKept
  <2>2. EarlyMods(early)'
    BY <1>9, <2>1 DEF EarlyMods, Hooked, Held
  <2> QED
    BY <2>2 DEF OrderIsKept
<1>6. CallsReachHooks'
  BY <1>9, <1>0 DEF CallsReachHooks, Hooked, TypeOK
<1>7. OneUpdatePerFrame'
  <2>1. \A n \in DOMAIN stack' :
            stack'[n].entered = "outer"
            <=> /\ stack'[n].entered # "no"
                /\ \A k \in 1 .. n - 1 : stack'[k].entered = "no"
    <3>1. \A n \in DOMAIN stack' : \A k \in 1 .. n - 1 : stack'[k] = stack[k]
      BY <1>0, CallsAreTyped
    <3> QED
      BY <1>9, <3>1 DEF OneUpdatePerFrame
  <2> QED
    BY <1>11, <1>12, <2>1 DEF OneUpdatePerFrame, Entered
<1>8. OutermostIsUnserved'
  BY <1>12 DEF OutermostIsUnserved
<1> QED
  BY <1>1, <1>2, <1>3, <1>4, <1>5, <1>6, <1>7, <1>8

\* The engine function returns.
LEMMA EngineReturnsKeepsIInv ==
    ASSUME IInv, EngineReturns
    PROVE  IInv'
<1> USE DEF IInv, EngineReturns, InTop, Left, Serves, Top
<1>1. stack # <<>> /\ missed' = missed /\ missed \in BOOLEAN /\ faults' \in 0 .. MaxFaults
  BY DEF TypeOK
<1> QED
  BY <1>1, ReturnKeepsIInv

\* The engine function throws.
LEMMA EngineThrowsKeepsIInv ==
    ASSUME IInv, EngineThrows
    PROVE  IInv'
<1> USE DEF IInv, EngineThrows, InTop, Left, Top
<1>1. stack # <<>> /\ missed' = missed /\ missed \in BOOLEAN /\ faults' \in 0 .. MaxFaults
  BY HookAssumption DEF TypeOK, Fault
<1> QED
  BY <1>1, ReturnKeepsIInv

\* A thunk finds its original, or does not.
LEMMA EnterThunkKeepsIInv ==
    ASSUME IInv, EnterThunk
    PROVE  IInv'
<1> USE TargetFacts, IndicesAreTwo DEF IInv, patching, InTop
<1> DEFINE e == Len(stack)
<1>0. /\ stack # <<>> /\ e \in DOMAIN stack /\ Top \in Frame
      /\ Top.at.of \in Indices /\ Top.at = Thunk(Top.at.of)
      /\ Top.entered = "no"
  <2>1. stack # <<>> /\ Top.at.kind = "thunk"
    BY DEF EnterThunk
  <2>2. e \in DOMAIN stack /\ Top \in Frame /\ Top.at \in Targets
    BY <2>1, TopIsTyped
  <2>3. Top.entered = "no"
    BY <2>1, <2>2, TopIsTyped DEF OrderIsKept, EarlyMods
  <2> QED
    BY <2>1, <2>2, <2>3
<1>a. CASE originals[Top.at.of] = Nothing
  <2>1. where # "main"
    BY <1>0, <1>a, TopIsTyped DEF CallsReachHooks
  <2>2. stack' = Outer /\ missed' = TRUE /\ depth' = depth /\ served' = served
        /\ UNCHANGED <<where, tables, slot, captured, patching>> /\ faults' \in 0 .. MaxFaults
    BY <1>a DEF EnterThunk, TypeOK
  <2> QED
    BY <1>0, <2>1, <2>2, ReturnKeepsIInv
<1>b. CASE originals[Top.at.of] # Nothing
  <2> DEFINE o == originals[Top.at.of]
             how == IF depth = 0 THEN "outer" ELSE "inner"
             f == [table |-> Top.table, at |-> o, entered |-> how]
  <2>1. /\ stack' = [stack EXCEPT ![e].at = o, ![e].entered = how]
        /\ depth' = depth + 1 /\ served' = IF depth = 0 THEN 0 ELSE served
        /\ UNCHANGED <<where, tables, slot, captured, patching, missed, faults>>
    BY <1>b DEF EnterThunk
  <2>2. o \in Targets /\ o.kind # "thunk"
    BY <1>0, <1>b DEF TypeOK, ThunksAreServed
  <2>3. /\ e \in DOMAIN stack /\ stack[e] = Top /\ Top.table \in Vtables
        /\ Top.at = Thunk(Top.at.of) /\ Top.entered = "no"
    BY <1>0, TopIsTyped
  <2>4. [stack[e] EXCEPT !.at = o, !.entered = how] = f
    <3>1. \A t, h : [Top EXCEPT !.at = t, !.entered = h]
                     = [table |-> Top.table, at |-> t, entered |-> h]
      BY <1>0, FrameChanges, Zenon
    <3>2. [Top EXCEPT !.at = o, !.entered = how] = [table |-> Top.table, at |-> o, entered |-> how]
      BY <3>1, ZenonT(30)
    <3> QED
      BY <2>3, <3>2
  <2>5. f \in Frame /\ f.table = Top.table /\ f.at = o /\ f.entered = how /\ how # "no"
    BY <2>2, <2>3 DEF Frame
  <2>6. stack' = [stack EXCEPT ![e] = f]
    BY <2>1, <2>4
  <2> HIDE DEF f
  <2>7. /\ stack' \in Seq(Frame) /\ DOMAIN stack' = DOMAIN stack
        /\ \A n \in DOMAIN stack : stack'[n] = IF n = e THEN f ELSE stack[n]
    BY <2>3, <2>5, <2>6, CallsChange
  <2>8. depth \in Nat /\ served \in Nat /\ served <= 1
    BY DEF TypeOK, OneUpdatePerFrame
  <2>9. PICK own \in Indices : stack[e].at = Thunk(own) /\ originals[own] = o
    BY <1>0, <2>3
  <2> HIDE DEF o
  <2>11. TypeOK'
    BY <2>1, <2>7, <2>8 DEF TypeOK
  <2>12. InstallIsOnTrack'
    BY <2>1 DEF InstallIsOnTrack
  <2>13. HooksAreDistinct'
    BY <2>1 DEF HooksAreDistinct, Hooked, Held
  <2>14. ThunksAreServed'
    <3>1. ~NoThunkCalled
      BY <1>0, <2>3 DEF NoThunkCalled
    <3> QED
      BY <2>1, <3>1 DEF ThunksAreServed, NoThunk, Held
  <2>15. OrderIsKept'
    <3>1. PICK early \in [Vtables -> SUBSET Mods] : EarlyMods(early)
      BY DEF OrderIsKept
    <3>2. \A m \in Mods : f.at = Mod(m) => m \in early[f.table]
      BY <2>3, <2>5, <2>9, <3>1 DEF EarlyMods
    <3>3. \A i \in Indices : f.at # Thunk(i)
      BY <2>2, <2>5
    <3>4. \A n \in DOMAIN stack' :
              /\ \A i \in Indices, m \in Mods :
                    stack'[n].at = Thunk(i) /\ originals[i] = Mod(m)
                    => m \in early[stack'[n].table]
              /\ stack'[n].entered # "no" =>
                    /\ stack'[n].at.kind # "thunk"
                    /\ \A m \in Mods : stack'[n].at = Mod(m) => m \in early[stack'[n].table]
      <4> TAKE n \in DOMAIN stack'
      <4>1. CASE n = e
        BY <2>2, <2>5, <2>7, <3>2, <3>3, <4>1
      <4>2. CASE n # e
        BY <2>7, <3>1, <4>2 DEF EarlyMods
      <4> QED
        BY <4>1, <4>2
    <3>5. EarlyMods(early)'
      BY <2>1, <3>1, <3>4 DEF EarlyMods, Hooked, Held
    <3> QED
      BY <3>5 DEF OrderIsKept
  <2>16. CallsReachHooks'
    <3>1. \A m \in Mods : f.at = Mod(m) => Hooked(m, f.table)
      <4>1. PICK early \in [Vtables -> SUBSET Mods] : EarlyMods(early)
        BY DEF OrderIsKept
      <4> QED
        BY <2>3, <2>5, <2>9, <4>1 DEF EarlyMods
    <3>2. \A i \in Indices : f.at # Thunk(i)
      BY <2>2, <2>5
    <3>3. \A n \in DOMAIN stack', m \in Mods :
              stack'[n].at = Mod(m) => Hooked(m, stack'[n].table)
      BY <2>7, <3>1 DEF CallsReachHooks
    <3>4. where = "main" => \A n \in DOMAIN stack', i \in Indices :
              stack'[n].at = Thunk(i) => originals[i] # Nothing
      BY <2>7, <3>2 DEF CallsReachHooks
    <3> QED
      BY <1>0, <2>1, <3>3, <3>4 DEF CallsReachHooks, Hooked
  <2>17. OneUpdatePerFrame'
    <3>1. Entered(stack)' = Entered(stack) \cup {e} /\ e \notin Entered(stack)
      BY <2>3, <2>5, <2>7 DEF Entered
    <3>2. depth' = Cardinality(Entered(stack)')
      <4>1. depth = Cardinality(Entered(stack)) /\ IsFiniteSet(Entered(stack))
        BY CallsAreTyped DEF OneUpdatePerFrame, Entered
      <4>2. Cardinality(Entered(stack) \cup {e}) = Cardinality(Entered(stack)) + 1
        BY <3>1, <4>1, FS_AddElement
      <4> QED
        BY <2>1, <3>1, <4>1, <4>2
    <3>3. depth = 0 <=> Entered(stack) = {}
      BY CallsAreTyped, FS_EmptySet DEF OneUpdatePerFrame, Entered
    <3>4. depth = 0 <=> \A n \in DOMAIN stack : stack[n].entered = "no"
      BY <3>3 DEF Entered
    <3>5. e \in Nat /\ DOMAIN stack = 1 .. e
      BY CallsAreTyped
    <3>6. f.entered = "outer" <=> \A k \in 1 .. e - 1 : stack'[k].entered = "no"
      <4>1. \A k \in 1 .. e - 1 : k \in DOMAIN stack /\ stack'[k] = stack[k]
        BY <2>7, <3>5
      <4>2. \A k \in DOMAIN stack : k = e \/ k \in 1 .. e - 1
        BY <3>5
      <4> QED
        BY <2>3, <2>5, <3>4, <4>1, <4>2
    <3>7. \A n \in DOMAIN stack' :
              stack'[n].entered = "outer"
              <=> /\ stack'[n].entered # "no"
                  /\ \A k \in 1 .. n - 1 : stack'[k].entered = "no"
      <4> TAKE n \in DOMAIN stack'
      <4>1. CASE n = e
        BY <2>5, <2>7, <3>6, <4>1
      <4>2. CASE n # e
        <5>1. \A k \in 1 .. n - 1 : k \in DOMAIN stack /\ k # e
          <6>1. e \in Nat /\ n \in 1 .. e /\ n # e
            BY <2>7, <3>5, <4>2
          <6> HIDE DEF e
          <6>2. \A k \in 1 .. n - 1 : k \in 1 .. e /\ k # e
            BY <6>1
          <6> QED
            BY <3>5, <6>2
        <5>2. stack'[n] = stack[n] /\ \A k \in 1 .. n - 1 : stack'[k] = stack[k]
          BY <2>7, <4>2, <5>1
        <5> QED
          BY <2>7, <5>2 DEF OneUpdatePerFrame
      <4> QED
        BY <4>1, <4>2
    <3> QED
      <4>1. served' <= 1
        BY <2>1, <2>8
      <4> QED
        BY <3>2, <3>7, <4>1 DEF OneUpdatePerFrame, Entered
  <2>18. OutermostIsUnserved'
    <3>1. CASE depth = 0
      BY <2>1, <3>1 DEF OutermostIsUnserved
    <3>2. CASE depth # 0
      BY <2>1, <2>5, <2>7, <3>2 DEF OutermostIsUnserved
    <3> QED
      BY <3>1, <3>2
  <2> QED
    BY <2>11, <2>12, <2>13, <2>14, <2>15, <2>16, <2>17, <2>18
<1> QED
  BY <1>a, <1>b

\* The slots hold what the engine put there.
LEMMA InitHolds == Init => IInv
<1> SUFFICES ASSUME Init PROVE IInv
  OBVIOUS
<1> USE TargetFacts, IndicesAreTwo DEF Init
<1>0. /\ stack = <<>> /\ DOMAIN stack = {}
      /\ \A v \in Vtables : slot[v] = Engine(v)
      /\ \A m \in Mods, v \in Vtables : captured[m][v] = Nothing
      /\ \A i \in Indices : originals[i] = Nothing
      /\ install.pc = "idle" /\ install.patched = 0 /\ install.candidates = <<>>
  BY DEF AtRest
<1>1. TypeOK
  <2>1. install \in Installing /\ Len(install.candidates) <= 2
    BY RestIsTyped
  <2>2. /\ slot \in [Vtables -> Targets]
        /\ captured \in [Mods -> [Vtables -> Targets \cup {Nothing}]]
        /\ originals \in [Indices -> Targets \cup {Nothing}]
    OBVIOUS
  <2> QED
    <3>1. where \in {"main", "other"} /\ faults \in 0 .. MaxFaults
      BY HookAssumption
    <3>2. /\ tables \in [Indices -> Vtables \cup {NoTable}]
          /\ hook \in {"notInstalled", "installed", "failed"}
          /\ depth \in Nat /\ served \in Nat /\ missed \in BOOLEAN
      OBVIOUS
    <3>3. stack \in Seq(Frame)
      BY <1>0
    <3> QED
      BY <2>1, <2>2, <3>1, <3>2, <3>3 DEF TypeOK, Installing
<1>2. InstallIsOnTrack
  BY <1>0 DEF InstallIsOnTrack
<1>3. HooksAreDistinct
  <2>1. \A v \in Vtables, m \in Mods : Engine(v) # Nothing /\ Engine(v) # Mod(m) /\ Nothing # Mod(m)
    OBVIOUS
  <2> QED
    BY <1>0, <2>1 DEF HooksAreDistinct, Hooked, Held
<1>4. NoThunk /\ NoThunkCalled
  <2>1. \A v \in Vtables, i \in Indices : Engine(v) # Thunk(i) /\ Nothing # Thunk(i)
    OBVIOUS
  <2> QED
    BY <1>0, <2>1 DEF NoThunk, NoThunkCalled, Held
<1>5. ThunksAreServed
  BY <1>0, <1>4 DEF ThunksAreServed, NoThunk
<1>6. OrderIsKept
  <2> DEFINE early == [v \in Vtables |-> {}]
  <2>1. EarlyMods(early) /\ early \in [Vtables -> SUBSET Mods]
    BY <1>0, <1>4 DEF EarlyMods, NoThunk
  <2> QED
    BY <2>1 DEF OrderIsKept
<1>7. CallsReachHooks
  BY <1>0 DEF CallsReachHooks
<1>8. OneUpdatePerFrame
  <2>1. {n \in DOMAIN stack : stack[n].entered # "no"} = {}
    BY <1>0
  <2> QED
    BY <1>0, <2>1, FS_EmptySet DEF OneUpdatePerFrame
<1>9. OutermostIsUnserved
  BY <1>0 DEF OutermostIsUnserved
<1> QED
  BY <1>1, <1>2, <1>3, <1>5, <1>6, <1>7, <1>8, <1>9 DEF IInv

\* Every step keeps the invariant.
LEMMA StepKeepsIInv == IInv /\ [Next]_vars => IInv'
<1> SUFFICES ASSUME IInv, [Next]_vars PROVE IInv'
  OBVIOUS
<1>1. CASE BeginInstall
  BY <1>1, BeginInstallKeepsIInv
<1>2. CASE Collect
  BY <1>2, CollectKeepsIInv
<1>3. CASE Publish
  BY <1>3, PublishKeepsIInv
<1>4. CASE Patch
  BY <1>4, PatchKeepsIInv
<1>5. CASE PatchFails
  BY <1>5, PatchFailsKeepsIInv
<1>6. CASE Installed
  BY <1>6, InstalledKeepsIInv
<1>7. CASE RollBack
  BY <1>7, RollBackKeepsIInv
<1>8. CASE ClearOriginal
  BY <1>8, ClearOriginalKeepsIInv
<1>9. CASE RollBackFails
  BY <1>9, RollBackFailsKeepsIInv
<1>10. CASE RolledBack
  BY <1>10, RolledBackKeepsIInv
<1>11. CASE Interrupted
  BY <1>11, InterruptedKeepsIInv
<1>12. CASE \E v \in Vtables : Call(v)
  BY <1>12, CallKeepsIInv
<1>13. CASE ModPassesOn
  BY <1>13, ModPassesOnKeepsIInv
<1>14. CASE EnterThunk
  BY <1>14, EnterThunkKeepsIInv
<1>15. CASE EngineReturns
  BY <1>15, EngineReturnsKeepsIInv
<1>16. CASE EngineThrows
  BY <1>16, EngineThrowsKeepsIInv
<1>17. CASE \E m \in Mods, v \in Vtables : ModHooks(m, v) \/ ModUnhooks(m, v)
  BY <1>17, ModHooksKeepsIInv, ModUnhooksKeepsIInv
<1>18. CASE UNCHANGED vars
  <2> USE <1>18 DEF vars
  <2>1. TypeOK'
    BY DEF IInv, TypeOK
  <2>2. InstallIsOnTrack' /\ HooksAreDistinct' /\ ThunksAreServed'
    BY DEF IInv, InstallIsOnTrack, HooksAreDistinct, ThunksAreServed, Held, Hooked,
           NoThunk, NoThunkCalled
  <2>3. OrderIsKept'
    BY DEF IInv, OrderIsKept, EarlyMods, Held, Hooked
  <2>4. CallsReachHooks' /\ OneUpdatePerFrame' /\ OutermostIsUnserved'
    BY DEF IInv, CallsReachHooks, OneUpdatePerFrame, OutermostIsUnserved, Hooked
  <2> QED
    BY <2>1, <2>2, <2>3, <2>4 DEF IInv
<1> QED
  BY <1>1, <1>2, <1>3, <1>4, <1>5, <1>6, <1>7, <1>8, <1>9, <1>10, <1>11, <1>12,
     <1>13, <1>14, <1>15, <1>16, <1>17, <1>18 DEF Next, InstallOnce, CameraUpdate

-----------------------------------------------------------------------------
(* Theorems.                                                                *)

\* The invariant holds in every reachable state.
THEOREM HookIsInductive == Spec => []IInv
<1> QED
  BY InitHolds, StepKeepsIInv, PTL DEF Spec

\* Every variable keeps its type: InstallOnce never handles more candidates than
\* there are originals, and depth never becomes negative.
THEOREM HookTypeIsCorrect == Spec => []TypeOK
<1>1. IInv => TypeOK
  BY DEF IInv
<1> QED
  BY <1>1, HookIsInductive, PTL

\* On the main thread no thunk is called without an original, whatever other mods
\* hook, unhook or keep, and whichever writes fail.
THEOREM EngineIsAlwaysReached == Spec => []EngineIsReached
<1>1. IInv => EngineIsReached
  BY DEF IInv, CallsReachHooks, EngineIsReached
<1> QED
  BY <1>1, HookIsInductive, PTL

\* However updates nest and throw, an outermost one is followed by at most one
\* update of the client, and the depth counts the thunks under way.
THEOREM UpdatesAreServedOnce == Spec => []OneUpdatePerFrame
<1>1. IInv => OneUpdatePerFrame
  BY DEF IInv
<1> QED
  BY <1>1, HookIsInductive, PTL

-----------------------------------------------------------------------------
(* The chains.  ChainIsWhole follows the chain of a slot for as many steps  *)
(* as there could be hooks, by a recursive function.  What is inductive is  *)
(* that a chain without repetition exists: each action adds a target in     *)
(* front of it, takes the first one away, or leaves it as it is.  The       *)
(* function is then shown to follow that chain, from its first difference   *)
(* with it (LeastOfNat), and to be long enough for it, by counting.         *)

\* p is what a call of the Update of v goes through: from the slot to the engine's
\* function of v, by way of every mod that hooked v, and of nothing twice.
Way(v, p) ==
    /\ p # <<>> /\ p[1] = slot[v] /\ p[Len(p)] = Engine(v)
    /\ \A n \in 1 .. Len(p) - 1 : p[n + 1] = Passes(v, p[n])
    /\ \A n, k \in 1 .. Len(p) : p[n] = p[k] => n = k
    /\ \A m \in Mods : Hooked(m, v) => \E n \in 1 .. Len(p) : p[n] = Mod(m)

WaysAreWhole == \A v \in Vtables : \E p \in Seq(Targets) : Way(v, p)

-----------------------------------------------------------------------------
(* Numbers, targets and ways.                                               *)

\* A set of natural numbers that is not empty has a least one.
LEMMA LeastOfNat ==
    ASSUME NEW T \in SUBSET Nat, T # {}
    PROVE  \E n \in T : \A k \in T : n <= k
<1> DEFINE R == {ss \in Nat \X Nat : ss[1] < ss[2]}
<1>1. IsWellFoundedOn(R, Nat)
  BY NatLessThanWellFounded DEF OpToRel
<1>2. PICK n \in T : \A k \in T : ~ (<<k, n>> \in R)
  BY <1>1, WFMin
<1>3. \A k \in T : n <= k
  <2> TAKE k \in T
  <2>1. ~ (k < n)
    BY <1>2
  <2> QED
    BY <2>1
<1> QED
  BY <1>3

\* Functions that start alike and go on alike are alike.
LEMMA AlikeFromTheStart ==
    ASSUME NEW c \in Nat, NEW f, NEW g, f[0] = g[0],
           \A n \in 1 .. c : f[n - 1] = g[n - 1] => f[n] = g[n]
    PROVE  \A n \in 0 .. c : f[n] = g[n]
<1> DEFINE T == {n \in 0 .. c : f[n] # g[n]}
<1> SUFFICES ASSUME T # {}
             PROVE  FALSE
  OBVIOUS
<1>1. T \in SUBSET Nat
  OBVIOUS
<1>2. PICK n \in T : \A k \in T : n <= k
  BY <1>1, LeastOfNat
<1>3. n \in 1 .. c /\ n - 1 \in 0 .. c /\ n - 1 \notin T
  BY <1>2
<1> QED
  BY <1>2, <1>3

\* The engine's function of a table is passed on to by itself only.
LEMMA EndIsPassedOn ==
    ASSUME NEW v \in Vtables
    PROVE  /\ Passes(v, Engine(v)) = Engine(v)
           /\ \A t \in Targets : t.kind = "engine" => Passes(v, t) = t
           /\ \A i \in Indices : Passes(v, Thunk(i)) = originals[i]
           /\ \A m \in Mods : Passes(v, Mod(m)) = captured[m][v]
BY TargetFacts DEF Passes, Engine, Thunk, Mod

\* What is on the way is held or hooked, and an engine's function is at its end.
LEMMA OnTheWay ==
    ASSUME IInv, NEW v \in Vtables, NEW p \in Seq(Targets), Way(v, p),
           NEW n \in 1 .. Len(p)
    PROVE  /\ \A i \in Indices : p[n] = Thunk(i) => Held(v, Thunk(i))
           /\ \A m \in Mods : p[n] = Mod(m) => Hooked(m, v)
           /\ p[n].kind = "engine" => n = Len(p)
<1> USE TargetFacts, EndIsPassedOn
<1>a. Len(p) \in Nat /\ \A k \in 1 .. Len(p) : p[k] \in Targets
  OBVIOUS
<1>b. ASSUME NEW k \in 1 .. Len(p), p[k].kind = "engine"
      PROVE  k = Len(p)
  <2> SUFFICES ASSUME k # Len(p)
               PROVE  FALSE
    OBVIOUS
  <2>1. k \in 1 .. Len(p) - 1 /\ k + 1 \in 1 .. Len(p)
    BY <1>a
  <2>2. p[k + 1] = p[k]
    BY <1>a, <1>b, <2>1 DEF Way
  <2>3. k + 1 = k
    BY <2>1, <2>2 DEF Way
  <2> QED
    BY <2>3
<1>c. ASSUME NEW k \in 1 .. Len(p)
      PROVE  \/ p[k] = slot[v]
             \/ \E j \in 1 .. Len(p), i \in Indices : p[j] = Thunk(i) /\ p[k] = originals[i]
             \/ \E m \in Mods : p[k] = captured[m][v]
  <2>1. CASE k = 1
    BY <2>1 DEF Way
  <2>2. CASE k # 1
    <3>1. PICK j \in 1 .. Len(p) - 1 : k = j + 1
      <4>1. k - 1 \in 1 .. Len(p) - 1 /\ k = (k - 1) + 1
        BY <2>2, <1>a
      <4> QED
        BY <4>1
    <3>2. p[k] = Passes(v, p[j]) /\ j \in 1 .. Len(p) /\ j # Len(p) /\ p[j] \in Targets
      BY <3>1, <1>a DEF Way
    <3>3. p[j].kind # "engine"
      BY <3>2, <1>b
    <3>4. \/ \E i \in Indices : p[j] = Thunk(i)
          \/ \E m \in Mods : p[j] = Mod(m)
      BY <3>2, <3>3 DEF Targets
    <3> QED
      BY <3>2, <3>4
  <2> QED
    BY <2>1, <2>2
<1>1. ASSUME NEW k \in 1 .. Len(p), NEW i \in Indices, p[k] = Thunk(i)
      PROVE  Held(v, Thunk(i))
  <2>1. \A j \in Indices : originals[j] # Thunk(i)
    BY DEF IInv, ThunksAreServed
  <2> QED
    BY <1>c, <1>1, <2>1 DEF Held
<1>2. ASSUME NEW m \in Mods, p[n] = Mod(m)
      PROVE  Hooked(m, v)
  <2>1. Held(v, Mod(m)) => Hooked(m, v)
    BY DEF IInv, HooksAreDistinct
  <2>2. \A i \in Indices : Held(v, Thunk(i)) /\ originals[i] = Mod(m) => Hooked(m, v)
    BY DEF IInv, OrderIsKept, EarlyMods
  <2> QED
    BY <1>1, <1>2, <1>c, <2>1, <2>2 DEF Held
<1> QED
  BY <1>1, <1>2, <1>b

\* One element more.
LEMMA OneMore ==
    ASSUME NEW S, NEW x, IsFiniteSet(S)
    PROVE  /\ IsFiniteSet(S \cup {x})
           /\ Cardinality(S \cup {x}) \in Nat
           /\ Cardinality(S \cup {x}) <= Cardinality(S) + 1
<1>1. /\ Cardinality(S) \in Nat
      /\ IsFiniteSet(S \cup {x})
  BY FS_CardinalityType, FS_AddElement
<1>2. Cardinality(S \cup {x}) = IF x \in S THEN Cardinality(S) ELSE Cardinality(S) + 1
  BY FS_AddElement
<1> QED
  BY <1>1, <1>2

\* A chain is never longer than there are mods, thunks and engine's functions.
LEMMA WayIsShort ==
    ASSUME IInv, NEW v \in Vtables, NEW p \in Seq(Targets), Way(v, p)
    PROVE  /\ Cardinality(Mods) \in Nat
           /\ Len(p) \in 1 .. Cardinality(Mods) + 3
<1> USE TargetFacts
<1> DEFINE M == {Mod(m) : m \in Mods}
           T1 == M \cup {Thunk(1)}
           T2 == T1 \cup {Thunk(2)}
           T == T2 \cup {Engine(v)}
<1>1. IsFiniteSet(M) /\ Cardinality(M) <= Cardinality(Mods)
  <2> DEFINE f == [m \in Mods |-> Mod(m)]
  <2>1. f \in Surjection(Mods, M)
    BY DEF Surjection
  <2> HIDE DEF f
  <2> QED
    BY <2>1, FS_Surjection, HookAssumption DEF HookAssumption
<1>2. Cardinality(Mods) \in Nat /\ Cardinality(M) \in Nat
  BY <1>1, FS_CardinalityType, HookAssumption DEF HookAssumption
<1> HIDE DEF M
<1>3. IsFiniteSet(T1) /\ Cardinality(T1) \in Nat /\ Cardinality(T1) <= Cardinality(M) + 1
  BY <1>1, OneMore
<1> HIDE DEF T1
<1>4. IsFiniteSet(T2) /\ Cardinality(T2) \in Nat /\ Cardinality(T2) <= Cardinality(T1) + 1
  BY <1>3, OneMore
<1> HIDE DEF T2
<1>5. IsFiniteSet(T) /\ Cardinality(T) \in Nat /\ Cardinality(T) <= Cardinality(T2) + 1
  BY <1>4, OneMore
<1>6. ASSUME NEW n \in 1 .. Len(p)
      PROVE  p[n] \in T
  <2>1. p[n] \in Targets
    OBVIOUS
  <2>2. p[n].kind = "engine" => p[n] = Engine(v)
    BY OnTheWay DEF Way
  <2>3. \/ p[n].kind = "engine"
        \/ p[n] = Thunk(1) \/ p[n] = Thunk(2)
        \/ \E m \in Mods : p[n] = Mod(m)
    BY <2>1, IndicesAreTwo DEF Targets
  <2> QED
    BY <2>2, <2>3 DEF M, T1, T2
<1> HIDE DEF T
<1>7. p \in Injection(1 .. Len(p), T) /\ Len(p) \in Nat /\ Len(p) >= 1
  <2>1. p \in [1 .. Len(p) -> T] /\ Len(p) \in Nat
    BY <1>6
  <2>2. Len(p) # 0
    BY DEF Way
  <2> QED
    BY <2>1, <2>2 DEF Way, Injection, IsInjective
<1>8. Cardinality(1 .. Len(p)) <= Cardinality(T) /\ Cardinality(1 .. Len(p)) = Len(p)
  <2>1. Cardinality(1 .. Len(p)) <= Cardinality(T)
    BY <1>5, <1>7, FS_Injection
  <2>2. Cardinality(1 .. Len(p)) = Len(p)
    BY <1>7, FS_Interval
  <2> QED
    BY <2>1, <2>2
<1> QED
  BY <1>1, <1>2, <1>3, <1>4, <1>5, <1>7, <1>8

\* The function that follows the chain of a slot follows its way.
LEMMA ChainFollowsWay ==
    ASSUME IInv, NEW v \in Vtables, NEW p \in Seq(Targets), Way(v, p)
    PROVE  /\ DOMAIN Chain(v) = 0 .. Cardinality(Mods) + 2
           /\ \A n \in 0 .. Cardinality(Mods) + 2 :
                 Chain(v)[n] = IF n < Len(p) THEN p[n + 1] ELSE Engine(v)
<1> DEFINE c == Cardinality(Mods) + 2
           W == [n \in 0 .. c |-> IF n < Len(p) THEN p[n + 1] ELSE Engine(v)]
<1>1. c \in Nat /\ Len(p) \in Nat /\ Len(p) >= 1
  BY WayIsShort
<1>2. W[0] = slot[v]
  BY <1>1 DEF Way
<1>3. \A n \in 1 .. c : W[n] = Passes(v, W[n - 1])
  <2> TAKE n \in 1 .. c
  <2>1. n \in 0 .. c /\ n - 1 \in 0 .. c
    BY <1>1
  <2>2. CASE n < Len(p)
    <3>1. n \in 1 .. Len(p) - 1 /\ n - 1 < Len(p) /\ (n - 1) + 1 = n
      BY <1>1, <2>1, <2>2
    <3>2. W[n] = p[n + 1] /\ W[n - 1] = p[n]
      BY <2>1, <2>2, <3>1
    <3> QED
      BY <3>1, <3>2 DEF Way
  <2>3. CASE n = Len(p)
    <3>1. n - 1 < Len(p) /\ (n - 1) + 1 = n
      BY <1>1, <2>3
    <3>2. W[n] = Engine(v) /\ W[n - 1] = Engine(v)
      BY <2>1, <2>3, <3>1 DEF Way
    <3> QED
      BY <3>2, EndIsPassedOn
  <2>4. CASE n > Len(p)
    <3>1. ~ (n - 1 < Len(p)) /\ ~ (n < Len(p))
      BY <1>1, <2>1, <2>4
    <3>2. W[n] = Engine(v) /\ W[n - 1] = Engine(v)
      BY <2>1, <3>1
    <3> QED
      BY <3>2, EndIsPassedOn
  <2> QED
    BY <1>1, <2>2, <2>3, <2>4
<1> HIDE DEF W
<1>4. W = [n \in 0 .. c |-> IF n = 0 THEN slot[v] ELSE Passes(v, W[n - 1])]
  <2>1. W = [n \in 0 .. c |-> W[n]]
    BY DEF W
  <2>2. \A n \in 0 .. c : W[n] = IF n = 0 THEN slot[v] ELSE Passes(v, W[n - 1])
    BY <1>1, <1>2, <1>3
  <2> QED
    BY <2>1, <2>2
<1>5. Chain(v) = [n \in 0 .. c |-> IF n = 0 THEN slot[v] ELSE Passes(v, Chain(v)[n - 1])]
  BY <1>4, Zenon DEF Chain
<1>6. Chain(v)[0] = slot[v] /\ \A n \in 1 .. c : Chain(v)[n] = Passes(v, Chain(v)[n - 1])
  BY <1>1, <1>5
<1>7. \A n \in 0 .. c : Chain(v)[n] = W[n]
  <2> HIDE DEF c
  <2>1. \A n \in 1 .. c : Chain(v)[n - 1] = W[n - 1] => Chain(v)[n] = W[n]
    BY <1>3, <1>6
  <2>2. Chain(v)[0] = W[0]
    BY <1>2, <1>6
  <2>3. PICK f : f = Chain(v)
    OBVIOUS
  <2>4. PICK g : g = W
    OBVIOUS
  <2>5. f[0] = g[0] /\ \A n \in 1 .. c : f[n - 1] = g[n - 1] => f[n] = g[n]
    BY <2>1, <2>2, <2>3, <2>4
  <2>6. \A n \in 0 .. c : f[n] = g[n]
    BY <1>1, <2>5, AlikeFromTheStart
  <2> QED
    BY <2>3, <2>4, <2>6
<1>8. DOMAIN Chain(v) = 0 .. c
  BY <1>5
<1> QED
  BY <1>7, <1>8 DEF W

\* So a chain that has a way is whole.
LEMMA WaysMakeChainsWhole ==
    ASSUME IInv, WaysAreWhole
    PROVE  ChainIsWhole
<1> SUFFICES ASSUME NEW v \in Vtables
             PROVE  /\ Chain(v)[Cardinality(Mods) + 2] = Engine(v)
                    /\ \A m \in Mods :
                          Hooked(m, v) => \E n \in DOMAIN Chain(v) : Chain(v)[n] = Mod(m)
  BY DEF ChainIsWhole
<1>1. PICK p \in Seq(Targets) : Way(v, p)
  BY DEF WaysAreWhole
<1> DEFINE c == Cardinality(Mods) + 2
<1>2. c \in Nat /\ Len(p) \in 1 .. c + 1
  BY <1>1, WayIsShort
<1>3. \A n \in 0 .. c : Chain(v)[n] = IF n < Len(p) THEN p[n + 1] ELSE Engine(v)
  BY <1>1, ChainFollowsWay
<1>4. Chain(v)[c] = Engine(v)
  <2>1. CASE c < Len(p)
    <3>1. c + 1 = Len(p)
      BY <1>2, <2>1
    <3> QED
      BY <1>1, <1>2, <1>3, <2>1, <3>1 DEF Way
  <2>2. CASE ~ (c < Len(p))
    <3>1. c \in 0 .. c
      BY <1>2
    <3> HIDE DEF c
    <3> QED
      BY <1>3, <2>2, <3>1
  <2> QED
    BY <2>1, <2>2
<1>5. ASSUME NEW m \in Mods, Hooked(m, v)
      PROVE  \E n \in 0 .. c : Chain(v)[n] = Mod(m)
  <2>1. PICK k \in 1 .. Len(p) : p[k] = Mod(m)
    BY <1>1, <1>5 DEF Way
  <2>2. k - 1 \in 0 .. c /\ k - 1 < Len(p) /\ (k - 1) + 1 = k
    BY <1>2
  <2> QED
    BY <1>3, <2>1, <2>2
<1>6. DOMAIN Chain(v) = 0 .. c
  BY <1>1, ChainFollowsWay
<1> QED
  BY <1>4, <1>5, <1>6
-----------------------------------------------------------------------------
(* How the actions change a way.                                            *)

\* A target in front of a way.
LEMMA WayGrows ==
    ASSUME NEW v \in Vtables, NEW p \in Seq(Targets), Way(v, p),
           NEW t \in Targets, \A n \in 1 .. Len(p) : p[n] # t,
           slot'[v] = t, Passes(v, t)' = slot[v],
           \A n \in 1 .. Len(p) : Passes(v, p[n])' = Passes(v, p[n]),
           \A m \in Mods : Hooked(m, v)' => Hooked(m, v) \/ t = Mod(m)
    PROVE  \E q \in Seq(Targets) : Way(v, q)'
<1> DEFINE q == <<t>> \o p
<1>1. /\ q \in Seq(Targets) /\ Len(q) = Len(p) + 1 /\ q[1] = t /\ q # <<>>
      /\ \A n \in 1 .. Len(p) : q[n + 1] = p[n]
      /\ Len(p) \in Nat /\ Len(p) # 0
  BY DEF Way
<1> HIDE DEF q
<1>2. \A n \in 1 .. Len(q) : n = 1 \/ (n - 1 \in 1 .. Len(p) /\ q[n] = p[n - 1])
  <2> TAKE n \in 1 .. Len(q)
  <2>1. n # 1 => n - 1 \in 1 .. Len(p) /\ (n - 1) + 1 = n
    BY <1>1
  <2> QED
    BY <1>1, <2>1
<1>3. q[Len(q)] = Engine(v)
  <2>1. Len(p) \in 1 .. Len(p)
    BY <1>1
  <2> QED
    BY <1>1, <2>1 DEF Way
<1>4. ASSUME NEW n \in 1 .. Len(q) - 1
      PROVE  q[n + 1] = Passes(v, q[n])'
  <2>1. n \in 1 .. Len(q) /\ n \in 1 .. Len(p)
    BY <1>1
  <2>2. q[n + 1] = p[n]
    BY <1>1, <2>1
  <2>3. CASE n = 1
    BY <1>1, <2>2, <2>3 DEF Way
  <2>4. CASE n # 1
    <3>1. n - 1 \in 1 .. Len(p) - 1 /\ n - 1 \in 1 .. Len(p) /\ q[n] = p[n - 1]
      BY <1>1, <1>2, <2>1, <2>4
    <3>2. p[(n - 1) + 1] = Passes(v, p[n - 1]) /\ (n - 1) + 1 = n
      BY <3>1 DEF Way
    <3> QED
      BY <2>2, <3>1, <3>2
  <2> QED
    BY <2>3, <2>4
<1>5. \A n, k \in 1 .. Len(q) : q[n] = q[k] => n = k
  <2> SUFFICES ASSUME NEW n \in 1 .. Len(q), NEW k \in 1 .. Len(q), q[n] = q[k]
               PROVE  n = k
    OBVIOUS
  <2>1. CASE n = 1 \/ k = 1
    <3>1. \A j \in 1 .. Len(q) : j # 1 => q[j] # t
      BY <1>2
    <3> QED
      BY <1>1, <2>1, <3>1
  <2>2. CASE n # 1 /\ k # 1
    <3>1. n - 1 = k - 1
      BY <1>2, <2>2 DEF Way
    <3> QED
      BY <3>1, <1>1
  <2> QED
    BY <2>1, <2>2
<1>6. \A m \in Mods : Hooked(m, v)' => \E n \in 1 .. Len(q) : q[n] = Mod(m)
  <2> TAKE m \in Mods
  <2> HAVE Hooked(m, v)'
  <2>1. CASE t = Mod(m)
    <3>1. 1 \in 1 .. Len(q)
      BY <1>1
    <3> QED
      BY <1>1, <2>1, <3>1
  <2>2. CASE Hooked(m, v)
    <3>1. PICK n \in 1 .. Len(p) : p[n] = Mod(m)
      BY <2>2 DEF Way
    <3>2. n + 1 \in 1 .. Len(q)
      BY <1>1, <3>1
    <3> QED
      BY <1>1, <3>1, <3>2
  <2> QED
    BY <2>1, <2>2
<1>7. Way(v, q)'
  BY <1>1, <1>3, <1>4, <1>5, <1>6 DEF Way
<1> QED
  BY <1>1, <1>7

\* A way without what was in front.
LEMMA WayShrinks ==
    ASSUME NEW v \in Vtables, NEW p \in Seq(Targets), Way(v, p), slot[v] # Engine(v),
           slot'[v] = Passes(v, slot[v]),
           \A n \in 1 .. Len(p) : p[n] # slot[v] => Passes(v, p[n])' = Passes(v, p[n]),
           \A m \in Mods : Hooked(m, v)' => Hooked(m, v) /\ slot[v] # Mod(m)
    PROVE  \E q \in Seq(Targets) : Way(v, q)'
<1> DEFINE q == Tail(p)
<1>1. Len(p) \in Nat /\ Len(p) > 1
  <2>1. Len(p) \in Nat /\ Len(p) # 0 /\ Len(p) # 1
    BY DEF Way
  <2>2. \A k \in Nat : k # 0 /\ k # 1 => k > 1
    OBVIOUS
  <2> QED
    BY <2>1, <2>2
<1>2. /\ q \in Seq(Targets) /\ Len(q) = Len(p) - 1
      /\ \A n \in 1 .. Len(q) : q[n] = p[n + 1]
  BY <1>1
<1> HIDE DEF q
<1>3. q # <<>> /\ q[1] = slot'[v]
  <2>1. 1 \in 1 .. Len(q) /\ 1 \in 1 .. Len(p) - 1
    BY <1>1, <1>2
  <2>2. q[1] = p[1 + 1] /\ p[1 + 1] = Passes(v, p[1])
    BY <1>2, <2>1 DEF Way
  <2> QED
    BY <2>1, <2>2 DEF Way
<1>4. q[Len(q)] = Engine(v)
  <2>1. Len(q) \in 1 .. Len(q) /\ Len(q) + 1 = Len(p)
    BY <1>1, <1>2
  <2> QED
    BY <1>2, <2>1 DEF Way
<1>5. ASSUME NEW n \in 1 .. Len(q) - 1
      PROVE  q[n + 1] = Passes(v, q[n])'
  <2>1. /\ n \in 1 .. Len(q) /\ n + 1 \in 1 .. Len(q)
        /\ n + 1 \in 1 .. Len(p) - 1 /\ n + 1 \in 1 .. Len(p) /\ n + 1 # 1 /\ 1 \in 1 .. Len(p)
    BY <1>1, <1>2
  <2>2. q[n] = p[n + 1] /\ q[n + 1] = p[(n + 1) + 1]
    BY <1>2, <2>1
  <2>3. p[n + 1] # slot[v]
    BY <2>1 DEF Way
  <2>4. p[(n + 1) + 1] = Passes(v, p[n + 1])
    BY <2>1 DEF Way
  <2> QED
    BY <2>1, <2>2, <2>3, <2>4
<1>6. \A n, k \in 1 .. Len(q) : q[n] = q[k] => n = k
  <2> SUFFICES ASSUME NEW n \in 1 .. Len(q), NEW k \in 1 .. Len(q), q[n] = q[k]
               PROVE  n = k
    OBVIOUS
  <2>1. n + 1 \in 1 .. Len(p) /\ k + 1 \in 1 .. Len(p) /\ p[n + 1] = p[k + 1]
    BY <1>1, <1>2
  <2>2. n + 1 = k + 1
    BY <2>1 DEF Way
  <2> QED
    BY <2>2
<1>7. \A m \in Mods : Hooked(m, v)' => \E n \in 1 .. Len(q) : q[n] = Mod(m)
  <2> TAKE m \in Mods
  <2> HAVE Hooked(m, v)'
  <2>1. PICK k \in 1 .. Len(p) : p[k] = Mod(m)
    BY DEF Way
  <2>2. k # 1
    BY <2>1 DEF Way
  <2>3. k - 1 \in 1 .. Len(q) /\ (k - 1) + 1 = k
    BY <1>1, <1>2, <2>2
  <2> QED
    BY <1>2, <2>1, <2>3
<1>8. Way(v, q)'
  BY <1>3, <1>4, <1>5, <1>6, <1>7 DEF Way
<1> QED
  BY <1>2, <1>8

\* A way that nothing changes, as no original goes that something leads to.
LEMMA WayStays ==
    ASSUME IInv, NEW v \in Vtables, NEW p \in Seq(Targets), Way(v, p),
           slot'[v] = slot[v], \A m \in Mods : captured'[m][v] = captured[m][v],
           \A i \in Indices : Held(v, Thunk(i)) => originals'[i] = originals[i]
    PROVE  \E q \in Seq(Targets) : Way(v, q)'
<1> USE TargetFacts
<1>1. ASSUME NEW n \in 1 .. Len(p)
      PROVE  Passes(v, p[n])' = Passes(v, p[n])
  <2>1. p[n] \in Targets
    OBVIOUS
  <2>2. \A i \in Indices : p[n] = Thunk(i) => Held(v, Thunk(i))
    BY OnTheWay
  <2>3. /\ p[n].kind = "thunk" => p[n].of \in Indices /\ Held(v, Thunk(p[n].of))
        /\ p[n].kind = "mod" => p[n].of \in Mods
    BY <2>1, <2>2
  <2> QED
    BY <2>3 DEF Passes
<1>2. \A n \in 1 .. Len(p) - 1 : n \in 1 .. Len(p)
  OBVIOUS
<1>3. Way(v, p)'
  BY <1>1, <1>2 DEF Way, Hooked
<1> QED
  BY <1>3
-----------------------------------------------------------------------------
(* The actions, and the ways.                                               *)

\* What touches no slot, and no original that a slot or a mod leads to.
LEMMA OthersKeepWays ==
    ASSUME IInv, WaysAreWhole, slot' = slot, captured' = captured,
           \A v \in Vtables, i \in Indices : Held(v, Thunk(i)) => originals'[i] = originals[i]
    PROVE  WaysAreWhole'
<1> SUFFICES ASSUME NEW v \in Vtables
             PROVE  \E q \in Seq(Targets) : Way(v, q)'
  BY DEF WaysAreWhole
<1>1. PICK p \in Seq(Targets) : Way(v, p)
  BY DEF WaysAreWhole
<1> QED
  BY <1>1, WayStays

\* No thunk is held yet.
LEMMA PublishKeepsWays ==
    ASSUME IInv, WaysAreWhole, Publish
    PROVE  WaysAreWhole'
<1>1. NoThunk
  BY DEF IInv, InstallIsOnTrack, ThunksAreServed, Publish, Installs
<1> QED
  BY <1>1, OthersKeepWays DEF NoThunk, Publish

\* The thunk goes in front of what its original leads to.
LEMMA PatchKeepsWays ==
    ASSUME IInv, WaysAreWhole, Patch
    PROVE  WaysAreWhole'
<1> USE TargetFacts, IndicesAreTwo
<1>0. /\ install.at \in Indices /\ install.at = install.patched + 1
      /\ install.at \in DOMAIN install.candidates
      /\ At.table \in Vtables /\ originals[install.at] = slot[At.table]
  <2>1. install.at \in 1 .. Len(install.candidates) /\ install.candidates \in Seq(Candidate)
    BY InstallIsTyped DEF IInv, InstallIsOnTrack, Installing, Patch, Installs
  <2>2. originals[install.at] = At.original
    BY <2>1 DEF IInv, InstallIsOnTrack, Patch, Installs, At
  <2>3. install.at = install.patched + 1 /\ slot[At.table] = At.original
    BY DEF IInv, InstallIsOnTrack, Patch, Installs
  <2> QED
    BY <2>1, <2>2, <2>3, InstallIsTyped DEF IInv, InstallIsOnTrack, At
<1>1. PICK i \in Indices : i = install.at
  BY <1>0
<1>2. \A w \in Vtables : ~Held(w, Thunk(i))
  <2>1. \A w \in Vtables : Held(w, Thunk(i)) => i <= install.patched
    BY DEF IInv, ThunksAreServed, Patch, Installs
  <2>2. install.patched \in 0 .. 2
    BY InstallIsTyped DEF IInv, Installing
  <2> QED
    BY <1>0, <1>1, <2>1, <2>2
<1>3. /\ \A w \in Vtables : slot'[w] = IF w = At.table THEN Thunk(i) ELSE slot[w]
      /\ captured' = captured /\ originals' = originals
  BY <1>0, <1>1 DEF Patch, IInv, TypeOK
<1> SUFFICES ASSUME NEW v \in Vtables
             PROVE  \E q \in Seq(Targets) : Way(v, q)'
  BY DEF WaysAreWhole
<1>4. PICK p \in Seq(Targets) : Way(v, p)
  BY DEF WaysAreWhole
<1>5. CASE v # At.table
  BY <1>3, <1>4, <1>5, WayStays
<1>6. CASE v = At.table
  <2>1. \A n \in 1 .. Len(p) : p[n] # Thunk(i)
    BY <1>2, <1>4, OnTheWay
  <2>2. slot'[v] = Thunk(i) /\ Passes(v, Thunk(i))' = slot[v]
    BY <1>0, <1>1, <1>3, <1>6 DEF Passes, Thunk
  <2>3. \A n \in 1 .. Len(p) : Passes(v, p[n])' = Passes(v, p[n])
    BY <1>3 DEF Passes
  <2>4. \A m \in Mods : Hooked(m, v)' => Hooked(m, v)
    BY <1>3 DEF Hooked
  <2>5. Thunk(i) \in Targets
    OBVIOUS
  <2> QED
    BY <1>4, <2>1, <2>2, <2>3, <2>4, <2>5, WayGrows
<1> QED
  BY <1>5, <1>6

\* The slot gets back what the thunk passed on to.
LEMMA RollBackKeepsWays ==
    ASSUME IInv, WaysAreWhole, RollBack
    PROVE  WaysAreWhole'
<1> USE TargetFacts, IndicesAreTwo
<1>0. install.at \in Indices
  <2>1. install.at \in 0 .. 3 /\ install.patched \in 0 .. 2 /\ install.at <= install.patched
    BY InstallIsTyped DEF IInv, InstallIsOnTrack, Installing, RollBack, Installs
  <2> QED
    BY <2>1 DEF RollBack
<1>1. PICK i \in Indices : i = install.at
  BY <1>0
<1>2. /\ slot' = [slot EXCEPT ![At.table] = originals[i]] /\ slot[At.table] = Thunk(i)
      /\ captured' = captured /\ originals' = originals
  BY <1>1 DEF RollBack
<1>3. \A w \in Vtables : slot'[w] = IF w = At.table THEN originals[i] ELSE slot[w]
  BY <1>2 DEF IInv, TypeOK
<1> SUFFICES ASSUME NEW v \in Vtables
             PROVE  \E q \in Seq(Targets) : Way(v, q)'
  BY DEF WaysAreWhole
<1>4. PICK p \in Seq(Targets) : Way(v, p)
  BY DEF WaysAreWhole
<1>5. CASE v # At.table
  BY <1>2, <1>3, <1>4, <1>5, WayStays
<1>6. CASE v = At.table
  <2>1. slot[v] = Thunk(i) /\ slot[v] # Engine(v)
    BY <1>2, <1>6
  <2>2. slot'[v] = Passes(v, slot[v])
    BY <1>3, <1>6, <2>1, EndIsPassedOn
  <2>3. \A n \in 1 .. Len(p) : Passes(v, p[n])' = Passes(v, p[n])
    BY <1>2 DEF Passes
  <2>4. \A m \in Mods : Hooked(m, v)' => Hooked(m, v) /\ slot[v] # Mod(m)
    BY <1>2, <2>1 DEF Hooked
  <2> QED
    BY <1>4, <2>1, <2>2, <2>3, <2>4, WayShrinks
<1> QED
  BY <1>5, <1>6

\* The slot has its original back: nothing leads to the thunk.
LEMMA ClearOriginalKeepsWays ==
    ASSUME IInv, WaysAreWhole, ClearOriginal
    PROVE  WaysAreWhole'
<1>1. \A v \in Vtables, i \in Indices : Held(v, Thunk(i)) => i # install.at
  BY DEF IInv, ThunksAreServed, ClearOriginal, Installs
<1>2. \A i \in Indices : i # install.at => originals'[i] = originals[i]
  BY DEF IInv, TypeOK, ClearOriginal
<1> QED
  BY <1>1, <1>2, OthersKeepWays DEF ClearOriginal

\* Only thunks that were never patched in lose their originals.
LEMMA RolledBackKeepsWays ==
    ASSUME IInv, WaysAreWhole, RolledBack
    PROVE  WaysAreWhole'
<1>1. \A v \in Vtables, i \in Indices : Held(v, Thunk(i)) => i <= install.patched
  BY DEF IInv, ThunksAreServed, RolledBack, Installs
<1>2. \A i \in Indices : i <= install.patched => originals'[i] = originals[i]
  <2>1. \A i \in Indices : originals'[i] = IF i > install.patched THEN Nothing ELSE originals[i]
    BY DEF RolledBack
  <2>2. install.patched \in 0 .. 2
    BY InstallIsTyped DEF IInv, Installing
  <2> QED
    BY <2>1, <2>2, IndicesAreTwo
<1> QED
  BY <1>1, <1>2, OthersKeepWays DEF RolledBack

\* Another mod goes in front of what it found.
LEMMA ModHooksKeepsWays ==
    ASSUME IInv, WaysAreWhole, NEW m \in Mods, NEW u \in Vtables, ModHooks(m, u)
    PROVE  WaysAreWhole'
<1> USE TargetFacts
<1>1. /\ \A w \in Vtables : slot'[w] = IF w = u THEN Mod(m) ELSE slot[w]
      /\ \A k \in Mods, w \in Vtables :
            captured'[k][w] = IF k = m /\ w = u THEN slot[u] ELSE captured[k][w]
      /\ originals' = originals /\ ~Hooked(m, u)
  BY DEF ModHooks, IInv, TypeOK, patching
<1> SUFFICES ASSUME NEW v \in Vtables
             PROVE  \E q \in Seq(Targets) : Way(v, q)'
  BY DEF WaysAreWhole
<1>2. PICK p \in Seq(Targets) : Way(v, p)
  BY DEF WaysAreWhole
<1>3. CASE v # u
  BY <1>1, <1>2, <1>3, WayStays
<1>4. CASE v = u
  <2>1. \A n \in 1 .. Len(p) : p[n] # Mod(m)
    BY <1>1, <1>2, <1>4, OnTheWay
  <2>2. slot'[v] = Mod(m) /\ Passes(v, Mod(m))' = slot[v]
    BY <1>1, <1>4 DEF Passes, Mod
  <2>3. ASSUME NEW n \in 1 .. Len(p)
        PROVE  Passes(v, p[n])' = Passes(v, p[n])
    <3>1. p[n] \in Targets /\ p[n] # Mod(m)
      BY <2>1
    <3>2. p[n].kind = "mod" => p[n].of \in Mods /\ p[n].of # m
      BY <3>1
    <3> QED
      BY <1>1, <3>2 DEF Passes
  <2>4. \A k \in Mods : Hooked(k, v)' => Hooked(k, v) \/ Mod(m) = Mod(k)
    BY <1>1 DEF Hooked
  <2>5. Mod(m) \in Targets
    OBVIOUS
  <2> QED
    BY <1>2, <2>1, <2>2, <2>3, <2>4, <2>5, WayGrows, SMTT(30)
<1> QED
  BY <1>3, <1>4

\* It leaves from the front only.
LEMMA ModUnhooksKeepsWays ==
    ASSUME IInv, WaysAreWhole, NEW m \in Mods, NEW u \in Vtables, ModUnhooks(m, u)
    PROVE  WaysAreWhole'
<1> USE TargetFacts
<1>1. /\ \A w \in Vtables : slot'[w] = IF w = u THEN captured[m][u] ELSE slot[w]
      /\ \A k \in Mods, w \in Vtables :
            captured'[k][w] = IF k = m /\ w = u THEN Nothing ELSE captured[k][w]
      /\ originals' = originals /\ slot[u] = Mod(m)
  BY DEF ModUnhooks, IInv, TypeOK, patching
<1> SUFFICES ASSUME NEW v \in Vtables
             PROVE  \E q \in Seq(Targets) : Way(v, q)'
  BY DEF WaysAreWhole
<1>2. PICK p \in Seq(Targets) : Way(v, p)
  BY DEF WaysAreWhole
<1>3. CASE v # u
  BY <1>1, <1>2, <1>3, WayStays
<1>4. CASE v = u
  <2>1. slot[v] = Mod(m) /\ slot[v] # Engine(v)
    BY <1>1, <1>4
  <2>2. slot'[v] = Passes(v, slot[v])
    BY <1>1, <1>4, <2>1, EndIsPassedOn
  <2>3. ASSUME NEW n \in 1 .. Len(p), p[n] # slot[v]
        PROVE  Passes(v, p[n])' = Passes(v, p[n])
    <3>1. p[n] \in Targets /\ p[n] # Mod(m)
      BY <2>1, <2>3
    <3>2. p[n].kind = "mod" => p[n].of \in Mods /\ p[n].of # m
      BY <3>1
    <3> QED
      BY <1>1, <3>2 DEF Passes
  <2>4. \A k \in Mods : Hooked(k, v)' => Hooked(k, v) /\ slot[v] # Mod(k)
    BY <1>1, <1>4, <2>1 DEF Hooked
  <2> QED
    BY <1>2, <2>1, <2>2, <2>3, <2>4, WayShrinks
<1> QED
  BY <1>3, <1>4

-----------------------------------------------------------------------------
(* The theorem about chains.                                                *)

\* At first a slot leads to the engine's function at once.
LEMMA WaysBegin == Init => WaysAreWhole
<1> SUFFICES ASSUME Init, NEW v \in Vtables
             PROVE  \E p \in Seq(Targets) : Way(v, p)
  BY DEF WaysAreWhole
<1>0. \A t \in Targets : <<t>> \in Seq(Targets)
  OBVIOUS
<1>1. PICK p \in Seq(Targets) : p = <<Engine(v)>>
  BY <1>0, TargetFacts
<1>2. p # <<>> /\ Len(p) = 1 /\ p[1] = Engine(v)
  BY <1>1
<1>3. slot[v] = Engine(v) /\ \A m \in Mods : ~Hooked(m, v)
  BY DEF Init, Hooked
<1>4. Way(v, p)
  BY <1>2, <1>3 DEF Way
<1> QED
  BY <1>4

LEMMA StepKeepsWays == IInv /\ WaysAreWhole /\ [Next]_vars => WaysAreWhole'
<1> SUFFICES ASSUME IInv, WaysAreWhole, [Next]_vars
             PROVE  WaysAreWhole'
  OBVIOUS
<1>1. CASE \/ BeginInstall \/ Collect \/ PatchFails \/ Installed \/ RollBackFails \/ Interrupted
  BY <1>1, OthersKeepWays
     DEF BeginInstall, Collect, PatchFails, Installed, RollBackFails, Interrupted
<1>2. CASE CameraUpdate
  BY <1>2, OthersKeepWays
     DEF CameraUpdate, Call, ModPassesOn, EnterThunk, EngineReturns, EngineThrows, patching
<1>3. CASE UNCHANGED vars
  BY <1>3, OthersKeepWays DEF vars
<1>4. CASE \E m \in Mods, v \in Vtables : ModHooks(m, v) \/ ModUnhooks(m, v)
  BY <1>4, ModHooksKeepsWays, ModUnhooksKeepsWays
<1> QED
  BY <1>1, <1>2, <1>3, <1>4, PublishKeepsWays, PatchKeepsWays, RollBackKeepsWays,
     ClearOriginalKeepsWays, RolledBackKeepsWays DEF Next, InstallOnce

\* Whatever other mods do to the slots and whichever write fails, a call through a
\* slot reaches the engine's function of its table, by way of every mod that hooked
\* it: nobody's hook is lost or called in a circle.
THEOREM ChainsStayWhole == Spec => []ChainIsWhole
<1>1. Spec => []WaysAreWhole
  BY WaysBegin, StepKeepsWays, HookIsInductive, PTL DEF Spec
<1>2. IInv /\ WaysAreWhole => ChainIsWhole
  BY WaysMakeChainsWhole
<1> QED
  BY <1>1, <1>2, HookIsInductive, PTL
================================================================================
