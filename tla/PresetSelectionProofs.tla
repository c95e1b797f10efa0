------------------------- MODULE PresetSelectionProofs -------------------------
(***************************************************************************)
(* Proofs about PresetSelection, for all presets, filters, animations,     *)
(* views and bounds.                                                       *)
(***************************************************************************)
EXTENDS PresetSelection, FiniteSetTheorems, SequenceTheorems, WellFoundedInduction, TLAPS

-----------------------------------------------------------------------------
(* The inductive invariant.  The parts about the scene are stated of any    *)
(* record s of its fields, for an update goes through several of them.      *)

Directions == -1 .. 1

SceneRecords ==
    [number : Nat, active : IDs \cup {NoID}, chosen : BOOLEAN, anchor : BOOLEAN,
     lost : BOOLEAN, due : BOOLEAN, shown : Seq(Candidates), draft : BOOLEAN,
     current : BOOLEAN, enabled : BOOLEAN, step : Directions, posed : BOOLEAN,
     applied : Requests]

\* What has been applied was posted; a draft that has been applied is shown.
AppliedWasPosted(s) ==
    /\ s.applied.revision <= spent.requests
    /\ s.applied.live => s.posed

\* A camera given back stays so: what would pose it anew has not been rated
\* since, or the request has not been looked at.
GivenBack(s) ==
    s.chosen /\ ~s.posed /\ s.applied = preview.request /\ s.active \in PresetIDs
        => ~s.current

Unique(list) == \A i, j \in DOMAIN list : list[i].id = list[j].id => i = j

\* The list has no id twice, and follows the filters of the presets, if it is
\* not of a draft.
Follows(s) ==
    /\ Unique(s.shown)
    /\ s.current /\ ~metadata.pending /\ ~s.draft =>
          \A i \in DOMAIN s.shown :
             s.shown[i].usable => Matches(Filters[s.shown[i].id], metadata.ready)

\* What every stage of an update keeps.
Sound(s) == s \in SceneRecords /\ AppliedWasPosted(s) /\ GivenBack(s) /\ Follows(s)

Distinct == \A i, j \in DOMAIN presets : presets[i] = presets[j] => i = j

Counted ==
    /\ spent \in [requests : 0 .. MaxRequests, presses : 0 .. MaxPresses,
                  upsets : 0 .. MaxUpsets]
    /\ scene.number \in 1 .. spent.upsets + 1
    /\ preview.request.revision <= spent.requests
    /\ preview.request.live => preview.request.revision > 0

Typed ==
    /\ presets \in Seq(IDs)
    /\ metadata \in [pending : BOOLEAN,
                     ready : {Unknown} \cup {KnownAs(a) : a \in Animations}]
    /\ preview \in [session : BOOLEAN, request : Requests]
    /\ editing \in 0 .. scene.number
    /\ pressing \in -1 .. 1

IInv ==
    /\ Typed /\ Distinct /\ Counted
    /\ Sound(scene)
    /\ scene.chosen => scene.anchor

-----------------------------------------------------------------------------
(* Numbers and lists.                                                       *)

\* A set of natural numbers that is not empty has a least one, and Min is it.
LEMMA MinIsLeast ==
    ASSUME NEW T, T \subseteq Nat, T # {}
    PROVE  Min(T) \in T /\ \A n \in T : Min(T) <= n
  <1> DEFINE less == {p \in Nat \X Nat : p[1] < p[2]}
  <1>1. IsWellFoundedOn(less, Nat)
    BY NatLessThanWellFounded, Zenon DEF OpToRel
  <1>2. \E m \in T : \A n \in T : ~ (<<n, m>> \in less)
    <2> HIDE DEF less
    <2> QED
      BY <1>1, WFMin, Zenon
  <1>3. \A m, n \in Nat : <<n, m>> \in less <=> n < m
    OBVIOUS
  <1>4. \A m, n \in Nat : ~ (n < m) => m <= n
    OBVIOUS
  <1> HIDE DEF less
  <1>5. \E m \in T : \A n \in T : m <= n
    BY <1>2, <1>3, <1>4
  <1> QED
    BY <1>5, Zenon DEF Min

\* A function on 1 .. n is a sequence.
LEMMA FunctionIsSeq ==
    ASSUME NEW S, NEW n \in Nat, NEW f \in [1 .. n -> S]
    PROVE  f \in Seq(S) /\ Len(f) = n /\ DOMAIN f = 1 .. n
  <1>1. f \in Seq(S)
    BY SeqDef
  <1> QED
    BY <1>1, LenProperties

\* A list without repetitions has as many entries as ids.
LEMMA DistinctIsCounted ==
    ASSUME presets \in Seq(IDs), Distinct
    PROVE  Len(presets) = Cardinality(PresetIDs)
  <1>1. Len(presets) \in Nat /\ DOMAIN presets = 1 .. Len(presets)
    BY LenProperties
  <1>2. presets \in Bijection(1 .. Len(presets), PresetIDs)
    <2>1. presets \in [1 .. Len(presets) -> PresetIDs]
      BY <1>1, LenProperties DEF PresetIDs
    <2>2. \A x \in PresetIDs : \E i \in 1 .. Len(presets) : presets[i] = x
      BY <1>1 DEF PresetIDs
    <2>3. \A i, j \in 1 .. Len(presets) : presets[i] = presets[j] => i = j
      BY <1>1 DEF Distinct
    <2> QED
      BY <2>1, <2>2, <2>3, Zenon DEF Bijection, Injection, Surjection, IsInjective
  <1>3. IsFiniteSet(1 .. Len(presets)) /\ Cardinality(1 .. Len(presets)) = Len(presets)
    <2>1. /\ IsFiniteSet(1 .. Len(presets))
          /\ Cardinality(1 .. Len(presets)) =
                IF 1 > Len(presets) THEN 0 ELSE Len(presets) - 1 + 1
      BY <1>1, FS_Interval
    <2> QED
      BY <1>1, <2>1
  <1> QED
    BY <1>2, <1>3, FS_Bijection DEF ExistsBijection

\* Step answers with a usable candidate of the list.
LEMMA StepIsUsable ==
    ASSUME NEW list \in Seq(Candidates), NEW current, NEW direction \in Int,
           Step(list, current, direction) # NoID
    PROVE  \E i \in DOMAIN list :
              list[i].usable /\ list[i].id = Step(list, current, direction)
  <1>1. Len(list) \in Nat /\ DOMAIN list = 1 .. Len(list) /\ Len(list) > 0
    BY LenProperties, EmptySeq DEF Step
  <1>2. Start(list, current, direction) \in Int
    <2>1. CASE current \in IDsOf(list)
      <3> DEFINE at == {i \in DOMAIN list : list[i].id = current}
      <3>1. at \subseteq Nat /\ at # {}
        BY <1>1, <2>1 DEF IDsOf
      <3>2. Min(at) \in Nat
        BY <3>1, MinIsLeast
      <3> QED
        BY <2>1, <3>2 DEF Start
    <2>2. CASE current \notin IDsOf(list)
      BY <1>1, <2>2 DEF Start
    <2> QED
      BY <2>1, <2>2
  <1> DEFINE hits == {o \in 1 .. Len(list) : Around(list, current, direction, o).usable}
  <1>3. hits # {} /\ Step(list, current, direction) = Around(list, current, direction, Min(hits)).id
    BY DEF Step
  <1>4. Min(hits) \in hits
    <2>1. hits \subseteq Nat
      OBVIOUS
    <2> HIDE DEF hits
    <2> QED
      BY <1>3, <2>1, MinIsLeast
  <1>5. PICK o \in 1 .. Len(list) : o = Min(hits) /\ Around(list, current, direction, o).usable
    BY <1>4
  <1>6. PICK x \in Int : x = Start(list, current, direction) - 1 + direction * o
    BY <1>1, <1>2
  <1>7. (x % Len(list)) + 1 \in 1 .. Len(list)
    BY <1>1
  <1>8. Around(list, current, direction, o) = list[(x % Len(list)) + 1]
    BY <1>6 DEF Around
  <1> QED
    BY <1>1, <1>3, <1>5, <1>7, <1>8

-----------------------------------------------------------------------------
(* Steps round a list in which no id occurs twice.                          *)

\* The position o places after, or before, position p of n.
After(p, o, n) == IF p + o <= n THEN p + o ELSE p + o - n
Before(p, o, n) == IF p - o >= 1 THEN p - o ELSE p - o + n

\* The remainder, for numbers that wrap around once.
LEMMA Wraps ==
    ASSUME NEW n \in Nat, n > 0, NEW a \in Int
    PROVE  /\ a \in 0 .. n - 1 => a % n = a
           /\ a \in n .. 2 * n - 1 => a % n = a - n
           /\ a \in -n .. -1 => a % n = a + n
  <1>1. a \in 0 .. n - 1 => a % n = a
    OBVIOUS
  <1>2. a \in n .. 2 * n - 1 => a % n = a - n
    OBVIOUS
  <1>3. a \in -n .. -1 => a % n = a + n
    OBVIOUS
  <1> QED
    BY <1>1, <1>2, <1>3

\* Going back by o wraps around to the place Before says.
LEMMA BeforeIs ==
    ASSUME NEW n \in Nat, NEW p \in 1 .. n, NEW o \in 1 .. n
    PROVE  (p - 1 - o) % n = Before(p, o, n) - 1
  <1>1. p - 1 - o \in Int /\ n > 0
    OBVIOUS
  <1>2. CASE p - o >= 1
    <2>1. p - 1 - o \in 0 .. n - 1
      BY <1>2
    <2> QED
      BY <1>1, <1>2, <2>1, Wraps DEF Before
  <1>3. CASE p - o < 1
    <2>1. p - 1 - o \in -n .. -1
      BY <1>3
    <2> QED
      BY <1>1, <1>3, <2>1, Wraps DEF Before
  <1> QED
    BY <1>2, <1>3

\* Around, going on, is the entry After says ...
LEMMA AroundIs ==
    ASSUME NEW list, NEW n \in Nat, n = Len(list), NEW current, NEW p \in 1 .. n,
           NEW o \in 1 .. n, Start(list, current, 1) = p
    PROVE  Around(list, current, 1, o) = list[After(p, o, n)]
  <1>1. (p - 1 + 1 * o) % n = After(p, o, n) - 1
    <2>1. p - 1 + 1 * o = p - 1 + o /\ p - 1 + o \in Int /\ n > 0
      OBVIOUS
    <2>2. CASE p + o <= n
      <3>1. p - 1 + o \in 0 .. n - 1
        BY <2>2
      <3> QED
        BY <2>1, <2>2, <3>1, Wraps DEF After
    <2>3. CASE p + o > n
      <3>1. p - 1 + o \in n .. 2 * n - 1
        BY <2>3
      <3> QED
        BY <2>1, <2>3, <3>1, Wraps DEF After
    <2> QED
      BY <2>2, <2>3
  <1>2. After(p, o, n) \in Int
    BY DEF After
  <1>3. After(p, o, n) - 1 + 1 = After(p, o, n)
    BY <1>2
  <1> QED
    BY <1>1, <1>3 DEF Around

\* A step from an id of the list starts at its only place.
LEMMA StartIs ==
    ASSUME NEW list \in Seq(Candidates), Unique(list), NEW p \in DOMAIN list,
           NEW direction
    PROVE  Start(list, list[p].id, direction) = p
  <1>1. DOMAIN list = 1 .. Len(list) /\ Len(list) \in Nat
    BY LenProperties
  <1> DEFINE here == {i \in DOMAIN list : list[i].id = list[p].id}
  <1>2. here = {p}
    BY DEF Unique
  <1>3. {p} \subseteq Nat /\ {p} # {}
    BY <1>1
  <1>4. Min({p}) = p
    <2>1. Min({p}) \in {p}
      BY <1>3, MinIsLeast
    <2> QED
      BY <2>1
  <1>5. list[p].id \in IDsOf(list)
    BY DEF IDsOf
  <1> QED
    BY <1>2, <1>4, <1>5 DEF Start

\* A step on lands on the nearest usable candidate.
LEMMA StepOn ==
    ASSUME NEW list \in Seq(Candidates), NEW n \in Nat, n = Len(list), NEW current,
           NEW p \in 1 .. n, Start(list, current, 1) = p,
           NEW j \in 1 .. n, list[j].usable
    PROVE  \E o \in 1 .. n :
              /\ list[After(p, o, n)].usable
              /\ Step(list, current, 1) = list[After(p, o, n)].id
              /\ \A d \in 1 .. n : list[After(p, d, n)].usable => o <= d
  <1> DEFINE hits == {o \in 1 .. Len(list) : Around(list, current, 1, o).usable}
  <1>1. \A o \in 1 .. n : Around(list, current, 1, o) = list[After(p, o, n)]
    BY AroundIs
  <1>2. hits # {}
    <2>1. PICK o \in 1 .. n : After(p, o, n) = j
      <3>1. CASE j > p
        BY <3>1, j - p \in 1 .. n, After(p, j - p, n) = j DEF After
      <3>2. CASE j <= p
        BY <3>2, j - p + n \in 1 .. n, After(p, j - p + n, n) = j DEF After
      <3> QED
        BY <3>1, <3>2
    <2> QED
      BY <1>1, <2>1
  <1>3. Min(hits) \in hits /\ \A d \in hits : Min(hits) <= d
    <2>1. hits \subseteq Nat
      OBVIOUS
    <2> HIDE DEF hits
    <2> QED
      BY <1>2, <2>1, MinIsLeast
  <1>4. list # <<>>
    BY LenProperties, EmptySeq
  <1>5. Step(list, current, 1) = Around(list, current, 1, Min(hits)).id
    BY <1>2, <1>4 DEF Step
  <1>6. PICK o \in 1 .. n : o = Min(hits)
    BY <1>3
  <1>7. list[After(p, o, n)].usable
    BY <1>1, <1>3, <1>6
  <1>8. \A d \in 1 .. n : list[After(p, d, n)].usable => o <= d
    BY <1>1, <1>3, <1>6
  <1> QED
    BY <1>1, <1>5, <1>6, <1>7, <1>8

\* ... and going back, the entry Before says.
LEMMA AroundBack ==
    ASSUME NEW list, NEW n \in Nat, n = Len(list), NEW current, NEW p \in 1 .. n,
           NEW o \in 1 .. n, NEW d \in Int, d = -1, Start(list, current, d) = p
    PROVE  Around(list, current, d, o) = list[Before(p, o, n)]
  <1>1. (p - 1 + d * o) % n = Before(p, o, n) - 1
    <2>1. p - 1 + d * o = p - 1 - o
      OBVIOUS
    <2> QED
      BY <2>1, BeforeIs
  <1>2. Before(p, o, n) \in Int
    BY DEF Before
  <1>3. Before(p, o, n) - 1 + 1 = Before(p, o, n)
    BY <1>2
  <1> QED
    BY <1>1, <1>3 DEF Around

\* A step back on the nearest the other way.
LEMMA StepBack ==
    ASSUME NEW list \in Seq(Candidates), NEW n \in Nat, n = Len(list), NEW current,
           NEW d \in Int, d = -1, NEW p \in 1 .. n, Start(list, current, d) = p,
           NEW c \in 1 .. n, list[Before(p, c, n)].usable
    PROVE  \E o \in 1 .. n :
              /\ list[Before(p, o, n)].usable
              /\ Step(list, current, d) = list[Before(p, o, n)].id
              /\ \A e \in 1 .. n : list[Before(p, e, n)].usable => o <= e
  <1> DEFINE hits == {o \in 1 .. Len(list) : Around(list, current, d, o).usable}
  <1>1. \A o \in 1 .. n : Around(list, current, d, o) = list[Before(p, o, n)]
    BY AroundBack
  <1>2. c \in hits
    BY <1>1
  <1>3. Min(hits) \in hits /\ \A e \in hits : Min(hits) <= e
    <2>1. hits \subseteq Nat
      OBVIOUS
    <2> HIDE DEF hits
    <2> QED
      BY <1>2, <2>1, MinIsLeast
  <1>4. list # <<>>
    BY LenProperties, EmptySeq
  <1>5. Step(list, current, d) = Around(list, current, d, Min(hits)).id
    <2>1. hits # {} /\ d # 0
      BY <1>2
    <2> QED
      BY <1>4, <2>1 DEF Step
  <1>6. PICK o \in 1 .. n : o = Min(hits)
    BY <1>3
  <1>7. list[Before(p, o, n)].usable
    BY <1>1, <1>3, <1>6
  <1>8. \A e \in 1 .. n : list[Before(p, e, n)].usable => o <= e
    BY <1>1, <1>3, <1>6
  <1> QED
    BY <1>1, <1>5, <1>6, <1>7, <1>8

\* A usable id has its place.
LEMMA UsableIs ==
    ASSUME NEW list \in Seq(Candidates), NEW id \in UsableIDs(list)
    PROVE  \E p \in 1 .. Len(list) :
              p \in DOMAIN list /\ list[p].usable /\ list[p].id = id
  BY LenProperties DEF UsableIDs

\* A step finds a usable candidate if there is one.
LEMMA OnwardIsUsable ==
    ASSUME NEW list \in Seq(Candidates), Unique(list),
           NEW id \in IDsOf(list) \cup {NoID}, UsableIDs(list) # {}
    PROVE  Step(list, id, 1) \in UsableIDs(list)
  <1>1. PICK n \in Nat : n = Len(list) /\ DOMAIN list = 1 .. n
    BY LenProperties
  <1>2. PICK j \in 1 .. n : list[j].usable
    BY <1>1, UsableIs
  <1>3. PICK p \in 1 .. n : Start(list, id, 1) = p
    <2>1. CASE id \in IDsOf(list)
      <3>1. PICK p \in DOMAIN list : list[p].id = id
        BY <2>1 DEF IDsOf
      <3> QED
        BY <1>1, <3>1, StartIs
    <2>2. CASE id \notin IDsOf(list)
      BY <1>1, <1>2, <2>2 DEF Start
    <2> QED
      BY <2>1, <2>2
  <1>4. PICK o \in 1 .. n : /\ list[After(p, o, n)].usable
                            /\ Step(list, id, 1) = list[After(p, o, n)].id
    BY <1>1, <1>2, <1>3, StepOn
  <1>5. After(p, o, n) \in DOMAIN list
    BY <1>1 DEF After
  <1> QED
    BY <1>4, <1>5 DEF UsableIDs

\* A set of usable candidates that steps do not leave has all of them: of the
\* ways round from the set to one outside, the shortest would not be.
LEMMA ClosedIsAll ==
    ASSUME NEW list \in Seq(Candidates), Unique(list),
           NEW S \in SUBSET UsableIDs(list), S # {},
           \A id \in S : Step(list, id, 1) \in S
    PROVE  S = UsableIDs(list)
  <1> SUFFICES ASSUME NEW u \in UsableIDs(list), u \notin S
               PROVE  FALSE
    OBVIOUS
  <1>1. PICK n \in Nat : n = Len(list) /\ DOMAIN list = 1 .. n
    BY LenProperties
  <1>2. PICK j \in 1 .. n : list[j].usable /\ list[j].id = u
    BY <1>1, UsableIs
  <1> DEFINE Way(p, o) == /\ list[p].usable /\ list[p].id \in S
                          /\ After(p, o, n) = j
             ways == {o \in 1 .. n : \E p \in 1 .. n : Way(p, o)}
  <1>3. ways # {}
    <2>1. PICK p \in 1 .. n : list[p].usable /\ list[p].id \in S
      BY <1>1, UsableIs
    <2>2. \E o \in 1 .. n : After(p, o, n) = j
      <3>1. CASE j > p
        BY <3>1, j - p \in 1 .. n, After(p, j - p, n) = j DEF After
      <3>2. CASE j <= p
        BY <3>2, j - p + n \in 1 .. n, After(p, j - p + n, n) = j DEF After
      <3> QED
        BY <3>1, <3>2
    <2> QED
      BY <2>1, <2>2
  <1>4. PICK d \in ways : \A o \in ways : d <= o
    <2>1. ways \subseteq Nat
      OBVIOUS
    <2> HIDE DEF ways
    <2> QED
      BY <1>3, <2>1, MinIsLeast
  <1>5. PICK p \in 1 .. n : Way(p, d) /\ d \in 1 .. n
    BY <1>4
  <1>6. Start(list, list[p].id, 1) = p
    BY <1>1, <1>5, StartIs
  <1>7. PICK o \in 1 .. n :
           /\ list[After(p, o, n)].usable
           /\ Step(list, list[p].id, 1) = list[After(p, o, n)].id
           /\ \A e \in 1 .. n : list[After(p, e, n)].usable => o <= e
    BY <1>1, <1>2, <1>6, StepOn, SMTT(30)
  <1>8. o <= d
    BY <1>2, <1>5, <1>7
  <1>9. list[After(p, o, n)].id \in S
    BY <1>5, <1>7
  <1>10. CASE o = d
    BY <1>2, <1>5, <1>9, <1>10
  <1>11. CASE o < d
    <2>1. After(p, o, n) \in 1 .. n
      BY DEF After
    <2>2. d - o \in 1 .. n /\ After(After(p, o, n), d - o, n) = j
      BY <1>5, <1>11 DEF After
    <2>3. Way(After(p, o, n), d - o)
      BY <1>7, <1>9, <2>2
    <2>4. d - o \in ways
      BY <2>1, <2>2, <2>3
    <2> QED
      BY <1>4, <1>5, <1>11, <2>4
  <1> QED
    BY <1>5, <1>8, <1>10, <1>11

\* A step back undoes a step on.
LEMMA BackUndoes ==
    ASSUME NEW list \in Seq(Candidates), Unique(list), NEW id \in UsableIDs(list)
    PROVE  Step(list, Step(list, id, 1), -1) = id
  <1>1. PICK n \in Nat : n = Len(list) /\ DOMAIN list = 1 .. n
    BY LenProperties
  <1>2. PICK p \in 1 .. n : list[p].usable /\ list[p].id = id
    BY <1>1, UsableIs
  <1>3. Start(list, id, 1) = p
    BY <1>1, <1>2, StartIs
  <1>4. PICK o \in 1 .. n :
           /\ list[After(p, o, n)].usable
           /\ Step(list, id, 1) = list[After(p, o, n)].id
           /\ \A f \in 1 .. n : list[After(p, f, n)].usable => o <= f
    BY <1>1, <1>2, <1>3, StepOn
  <1>5. PICK q \in 1 .. n : q = After(p, o, n)
    <2>1. After(p, o, n) \in 1 .. n
      BY DEF After
    <2> QED
      BY <2>1
  <1> DEFINE d == -1
  <1>6. d \in Int /\ Start(list, list[q].id, d) = q
    BY <1>1, StartIs
  <1>7. Before(q, o, n) = p
    BY <1>5 DEF After, Before
  <1> HIDE DEF d
  <1>8. PICK e \in 1 .. n :
           /\ list[Before(q, e, n)].usable
           /\ Step(list, list[q].id, d) = list[Before(q, e, n)].id
           /\ \A f \in 1 .. n : list[Before(q, f, n)].usable => e <= f
    <2>1. list[Before(q, o, n)].usable
      BY <1>2, <1>7
    <2>2. d = -1
      BY DEF d
    <2> QED
      BY <1>1, <1>6, <2>1, <2>2, StepBack, SMTT(40)
  <1>9. e <= o
    BY <1>2, <1>7, <1>8
  <1>10. ~(e < o)
    <2> SUFFICES ASSUME e < o PROVE FALSE
      OBVIOUS
    <2>1. o - e \in 1 .. n /\ Before(q, e, n) = After(p, o - e, n)
      BY <1>5 DEF After, Before
    <2> QED
      BY <1>4, <1>8, <2>1
  <1>11. e = o
    BY <1>9, <1>10
  <1> QED
    BY <1>2, <1>4, <1>5, <1>7, <1>8, <1>11 DEF d

-----------------------------------------------------------------------------
(* The pieces of Update, one after the other.                               *)

\* A rating has every preset once, and follows the filters.
LEMMA RatedFollows ==
    ASSUME presets \in Seq(IDs), Distinct, NEW sights
    PROVE  /\ Rated(sights) \in Seq(Candidates) /\ Unique(Rated(sights))
           /\ IDsOf(Rated(sights)) = PresetIDs
           /\ \A i \in DOMAIN Rated(sights) : Rated(sights)[i].usable =>
                 Matches(Filters[Rated(sights)[i].id], metadata.ready)
  <1>1. Len(presets) \in Nat /\ DOMAIN presets = 1 .. Len(presets)
    BY LenProperties
  <1>2. \A i \in DOMAIN presets :
           /\ presets[i] \in IDs
           /\ Rated(sights)[i] =
                [id |-> presets[i],
                 usable |-> /\ FailureReason(sights[presets[i]]) = "none"
                            /\ Matches(Filters[presets[i]], metadata.ready)]
    BY <1>1, ElementOfSeq DEF Rated
  <1>3. \A i \in DOMAIN presets :
           /\ Rated(sights)[i] \in Candidates
           /\ Rated(sights)[i].id = presets[i]
           /\ Rated(sights)[i].usable => Matches(Filters[presets[i]], metadata.ready)
    <2> TAKE i \in DOMAIN presets
    <2> DEFINE good == /\ FailureReason(sights[presets[i]]) = "none"
                       /\ Matches(Filters[presets[i]], metadata.ready)
    <2>1. good \in BOOLEAN
      BY Zenon
    <2>2. good => Matches(Filters[presets[i]], metadata.ready)
      OBVIOUS
    <2>3. Rated(sights)[i] = [id |-> presets[i], usable |-> good]
      BY <1>2, Zenon
    <2> HIDE DEF good
    <2> QED
      BY <1>2, <2>1, <2>2, <2>3 DEF Candidates
  <1>4. DOMAIN Rated(sights) = DOMAIN presets
    BY DEF Rated
  <1>5. Rated(sights) \in [1 .. Len(presets) -> Candidates]
    BY <1>1, <1>3, <1>4 DEF Rated
  <1>6. IDsOf(Rated(sights)) = PresetIDs
    BY <1>3, <1>4 DEF IDsOf, PresetIDs
  <1>7. Unique(Rated(sights))
    BY <1>3, <1>4 DEF Unique, Distinct
  <1> QED
    BY <1>1, <1>3, <1>4, <1>5, <1>6, <1>7, FunctionIsSeq

\* What MeasureAnchorLOS makes of a record.
LEMMA MeasuredIs ==
    ASSUME presets \in Seq(IDs), Distinct, NEW s \in SceneRecords, NEW sights,
           NEW t, t = Measured(s, sights)
    PROVE  /\ t \in SceneRecords /\ Follows(t)
           /\ IDsOf(t.shown) = PresetIDs /\ t.current /\ ~t.draft
           /\ t.number = s.number /\ t.active = s.active /\ t.chosen = s.chosen
           /\ (s.anchor => t.anchor) /\ t.lost = s.lost /\ t.due = s.due
           /\ t.enabled = s.enabled /\ t.step = s.step /\ t.posed = s.posed
           /\ t.applied = s.applied
  <1>1. Rated(sights) \in Seq(Candidates)
    BY RatedFollows
  <1>2. t = [s EXCEPT !.shown = Rated(sights), !.draft = FALSE, !.current = TRUE]
    BY DEF Measured
  <1>3. t \in SceneRecords /\ t.shown = Rated(sights) /\ t.current /\ ~t.draft
    BY <1>1, <1>2 DEF SceneRecords
  <1>4. Follows(t) /\ IDsOf(t.shown) = PresetIDs
    BY <1>3, RatedFollows DEF Follows
  <1> QED
    BY <1>2, <1>3, <1>4 DEF SceneRecords

\* What EvaluateVisibility makes of a record.
LEMMA EvaluatedIs ==
    ASSUME presets \in Seq(IDs), Distinct, NEW s \in SceneRecords, NEW sights, NEW preferred,
           NEW t, t = Evaluated(s, preferred, sights)
    PROVE  /\ t \in SceneRecords /\ Follows(t)
           /\ t.current /\ ~t.draft /\ t.chosen
           /\ t.active \in PresetIDs \cup {NoID}
           /\ s.chosen => \/ t.active = s.active
                          \/ preferred \in PresetIDs /\ t.active = preferred
                          \/ s.active \notin PresetIDs /\ t.active = NoID
           /\ t.number = s.number
           /\ (s.anchor => t.anchor) /\ t.lost = s.lost /\ t.due = s.due
           /\ t.enabled = s.enabled /\ t.step = s.step /\ t.posed = s.posed
           /\ t.applied = s.applied
  <1>1. PICK m : m = Measured(s, sights)
    OBVIOUS
  <1>2. /\ m \in SceneRecords /\ Follows(m)
        /\ IDsOf(m.shown) = PresetIDs /\ m.current /\ ~m.draft
        /\ m.number = s.number /\ m.active = s.active /\ m.chosen = s.chosen
        /\ (s.anchor => m.anchor) /\ m.lost = s.lost /\ m.due = s.due
        /\ m.enabled = s.enabled /\ m.step = s.step /\ m.posed = s.posed
        /\ m.applied = s.applied
    BY <1>1, MeasuredIs
  <1>3. PICK first : first = IF m.chosen THEN m.active ELSE SelectInitial(m.shown)
    OBVIOUS
  <1>4. PICK a : a = IF preferred \in PresetIDs THEN preferred
                     ELSE IF first \in PresetIDs THEN first ELSE NoID
    OBVIOUS
  <1>5. t = [m EXCEPT !.chosen = TRUE, !.active = a]
    BY <1>1, <1>2, <1>3, <1>4 DEF Evaluated, Chosen, Choose
  <1>6. PresetIDs \subseteq IDs
    BY LenProperties, ElementOfSeq DEF PresetIDs
  <1>7. a \in PresetIDs \cup {NoID} /\ a \in IDs \cup {NoID}
    BY <1>4, <1>6
  <1>8. /\ t \in SceneRecords /\ t.chosen /\ t.active = a
        /\ t.shown = m.shown /\ t.current = m.current /\ t.draft = m.draft
        /\ t.number = m.number
        /\ (m.anchor => t.anchor) /\ t.lost = m.lost /\ t.due = m.due
        /\ t.enabled = m.enabled /\ t.step = m.step /\ t.posed = m.posed
        /\ t.applied = m.applied
    BY <1>2, <1>5, <1>7, ZenonT(40) DEF SceneRecords
  <1>9. Follows(t)
    BY <1>2, <1>8, Zenon DEF Follows
  <1>10. s.chosen => \/ a = s.active
                     \/ preferred \in PresetIDs /\ a = preferred
                     \/ s.active \notin PresetIDs /\ a = NoID
    <2>1. s.chosen => first = s.active
      BY <1>2, <1>3
    <2> QED
      BY <1>4, <2>1
  <1> QED
    BY <1>2, <1>7, <1>8, <1>9, <1>10

\* What ReleaseCamera makes of a record.
LEMMA ReleasedIs ==
    ASSUME NEW s \in SceneRecords, NEW t, t = Released(s)
    PROVE  /\ t \in SceneRecords
           /\ ~t.posed /\ ~t.enabled /\ t.step = 0 /\ t.applied = NoRequest
           /\ t.number = s.number /\ t.active = s.active /\ t.chosen = s.chosen
           /\ (s.anchor => t.anchor) /\ t.lost = s.lost /\ t.due = s.due
           /\ t.shown = s.shown /\ t.draft = s.draft /\ t.current = s.current
  <1>1. NoRequest \in Requests
    BY SelectionAssumption DEF NoRequest, Requests
  <1>2. t = [s EXCEPT !.posed = FALSE, !.enabled = FALSE, !.step = 0, !.applied = NoRequest]
    BY DEF Released
  <1>3. 0 \in Directions
    BY DEF Directions
  <1>4. t \in SceneRecords
    BY <1>1, <1>2, <1>3 DEF SceneRecords
  <1> QED
    BY <1>2, <1>4 DEF SceneRecords

\* What ApplyRequestedTransform makes of a record.
LEMMA RequestedIs ==
    ASSUME Typed, NEW s \in SceneRecords, NEW sight,
           NEW t, t = Requested(s, sight)
    PROVE  /\ t \in SceneRecords
           /\ t.number = s.number /\ t.active = s.active /\ t.chosen = s.chosen
           /\ (s.anchor => t.anchor) /\ t.lost = s.lost /\ t.due = s.due
           /\ t.current = s.current /\ (t.step # 0 => t.step = s.step)
           /\ t.draft \/ (t.shown = s.shown /\ t.draft = s.draft)
           /\ Unique(s.shown) => Unique(t.shown)
           /\ \/ ~preview.session /\ metadata.pending /\ t = s
              \/ t.posed /\ t.applied = preview.request
              \/ /\ ~Resolves(s) /\ s.posed /\ ~preview.session
                 /\ ~t.posed /\ t.applied = NoRequest
              \/ /\ ~Resolves(s) /\ t.applied = preview.request
                 /\ t.posed = s.posed
           /\ t.posed # s.posed =>
                 \/ ~s.posed /\ Resolves(s)
                 \/ s.posed /\ ~Resolves(s) /\ ~preview.session
  <1> USE DEF Typed
  <1>1. preview.request \in Requests /\ preview.session \in BOOLEAN
    OBVIOUS
  <1>2. CASE ~preview.session /\ metadata.pending /\ ~s.posed
    BY <1>2 DEF Requested
  <1>3. CASE ~(~preview.session /\ metadata.pending /\ ~s.posed) /\ Resolves(s)
    <2>1. PICK p : p = [s EXCEPT !.posed = TRUE, !.enabled = ~preview.session,
                                 !.applied = preview.request]
      OBVIOUS
    <2>2. /\ p \in SceneRecords /\ p.posed /\ p.applied = preview.request
          /\ p.number = s.number /\ p.active = s.active /\ p.chosen = s.chosen
          /\ (s.anchor => p.anchor) /\ p.lost = s.lost /\ p.due = s.due
          /\ p.current = s.current /\ p.step = s.step
          /\ p.shown = s.shown /\ p.draft = s.draft
      BY <1>1, <2>1 DEF SceneRecords
    <2>3. p = [Posed(s, preview.session) EXCEPT !.applied = preview.request]
      BY <2>1 DEF Posed, SceneRecords
    <2>4. CASE preview.session /\ preview.request.live
      <3>1. t = DraftRated(p, sight)
        BY <1>3, <2>3, <2>4 DEF Requested
      <3>2. PICK good \in BOOLEAN : good = (FailureReason(sight) = "none")
        OBVIOUS
      <3>3. PICK id \in IDs \cup {NewPreset} :
                id = IF preview.request.id = NoID THEN NewPreset ELSE preview.request.id
        BY <1>1 DEF Requests
      <3>4. [id |-> id, usable |-> good] \in Candidates
        BY DEF Candidates
      <3>5. <<[id |-> id, usable |-> good]>> \in Seq(Candidates)
        BY <3>4
      <3>6. t = [p EXCEPT !.draft = TRUE, !.shown = <<[id |-> id, usable |-> good]>>]
        BY <3>1, <3>2, <3>3 DEF DraftRated
      <3>7. /\ t \in SceneRecords /\ t.posed = p.posed /\ t.applied = p.applied
            /\ t.number = p.number /\ t.active = p.active /\ t.chosen = p.chosen
            /\ (p.anchor => t.anchor) /\ t.lost = p.lost /\ t.due = p.due
            /\ t.current = p.current /\ t.step = p.step /\ t.draft
            /\ t.shown = <<[id |-> id, usable |-> good]>>
        BY <2>2, <3>5, <3>6, ZenonT(40) DEF SceneRecords
      <3>8. Unique(t.shown)
        BY <3>7 DEF Unique
      <3> QED
        BY <1>3, <2>2, <3>7, <3>8
    <2>5. CASE ~(preview.session /\ preview.request.live)
      <3>1. t = p
        BY <1>3, <2>3, <2>5 DEF Requested
      <3> QED
        BY <1>3, <2>2, <3>1
    <2> QED
      BY <2>4, <2>5
  <1>4. CASE /\ ~(~preview.session /\ metadata.pending /\ ~s.posed) /\ ~Resolves(s)
             /\ s.posed /\ ~preview.session
    <2>1. PICK a : a = [s EXCEPT !.applied = preview.request]
      OBVIOUS
    <2>2. /\ a \in SceneRecords /\ a.posed = s.posed
          /\ a.number = s.number /\ a.active = s.active /\ a.chosen = s.chosen
          /\ (s.anchor => a.anchor) /\ a.lost = s.lost /\ a.due = s.due
          /\ a.current = s.current /\ a.step = s.step
          /\ a.shown = s.shown /\ a.draft = s.draft
      BY <1>1, <2>1 DEF SceneRecords
    <2>3. t = Released(a)
      BY <1>4, <2>1 DEF Requested
    <2>4. /\ t \in SceneRecords
          /\ ~t.posed /\ t.step = 0 /\ t.applied = NoRequest
          /\ t.number = a.number /\ t.active = a.active /\ t.chosen = a.chosen
          /\ (a.anchor => t.anchor) /\ t.lost = a.lost /\ t.due = a.due
          /\ t.shown = a.shown /\ t.draft = a.draft /\ t.current = a.current
      BY <2>2, <2>3, ReleasedIs
    <2> QED
      BY <1>4, <2>2, <2>4
  <1>5. CASE /\ ~(~preview.session /\ metadata.pending /\ ~s.posed) /\ ~Resolves(s)
             /\ ~(s.posed /\ ~preview.session)
    <2>1. t = [s EXCEPT !.applied = preview.request]
      BY <1>5 DEF Requested
    <2> QED
      BY <1>1, <1>5, <2>1 DEF SceneRecords
  <1> QED
    BY <1>2, <1>3, <1>4, <1>5

\* What SelectPresetStep makes of a record.
LEMMA SteppedIs ==
    ASSUME Typed, NEW s \in SceneRecords, NEW t, t = Stepped(s)
    PROVE  /\ t \in SceneRecords /\ t.step = 0
           /\ t.number = s.number /\ t.chosen = s.chosen
           /\ (s.anchor => t.anchor) /\ t.lost = s.lost /\ t.due = s.due
           /\ t.shown = s.shown /\ t.draft = s.draft /\ t.current = s.current
           /\ t.applied = s.applied
           /\ \/ t.active = s.active /\ t.posed = s.posed
              \/ /\ t.posed /\ t.active \in PresetIDs /\ s.enabled
                 /\ ~metadata.pending /\ s.current
                 /\ \E i \in DOMAIN s.shown :
                       s.shown[i].usable /\ s.shown[i].id = t.active
  <1> USE DEF Typed
  <1>1. PICK next : next = Step(s.shown, s.active, s.step)
    OBVIOUS
  <1>2. 0 \in Directions /\ s.step \in Int /\ s.shown \in Seq(Candidates)
    BY DEF Directions, SceneRecords
  <1>3. PresetIDs \subseteq IDs
    BY LenProperties, ElementOfSeq DEF PresetIDs
  <1>4. CASE /\ s.enabled /\ next \notin {NoID, s.active} /\ next \in PresetIDs
             /\ ~metadata.pending /\ s.current
    <2>1. t = [s EXCEPT !.step = 0, !.active = next, !.posed = TRUE, !.enabled = TRUE]
      BY <1>1, <1>4 DEF Stepped, Posed, SceneRecords
    <2>2. /\ t \in SceneRecords /\ t.step = 0 /\ t.active = next /\ t.posed
          /\ t.number = s.number /\ t.chosen = s.chosen
          /\ (s.anchor => t.anchor) /\ t.lost = s.lost /\ t.due = s.due
          /\ t.shown = s.shown /\ t.draft = s.draft /\ t.current = s.current
          /\ t.applied = s.applied
      BY <1>2, <1>3, <1>4, <2>1, ZenonT(40) DEF SceneRecords
    <2>3. \E i \in DOMAIN s.shown : s.shown[i].usable /\ s.shown[i].id = next
      BY <1>1, <1>2, <1>4, StepIsUsable
    <2> QED
      BY <1>4, <2>2, <2>3
  <1>5. CASE ~ /\ s.enabled /\ next \notin {NoID, s.active} /\ next \in PresetIDs
               /\ ~metadata.pending /\ s.current
    <2>1. t = [s EXCEPT !.step = 0]
      BY <1>1, <1>5 DEF Stepped
    <2> QED
      BY <1>2, <2>1 DEF SceneRecords
  <1> QED
    BY <1>4, <1>5

-----------------------------------------------------------------------------
(* The stages of Update.                                                    *)

\* A request may be applied where the camera was not just given back.
LEMMA RequestedKeeps ==
    ASSUME Typed, Counted, NEW s \in SceneRecords, AppliedWasPosted(s), Follows(s),
           GivenBack(s) \/ preview.session \/ ~metadata.pending,
           NEW sight, NEW t, t = Requested(s, sight)
    PROVE  Sound(t)
  <1>1. /\ t \in SceneRecords
        /\ t.active = s.active /\ t.chosen = s.chosen /\ t.current = s.current
        /\ t.draft \/ (t.shown = s.shown /\ t.draft = s.draft)
        /\ Unique(t.shown)
    BY RequestedIs DEF Follows
  <1>2. \/ ~preview.session /\ metadata.pending /\ t = s
        \/ t.posed /\ t.applied = preview.request
        \/ ~Resolves(s) /\ ~t.posed /\ t.applied = NoRequest
        \/ ~Resolves(s) /\ t.applied = preview.request
    BY RequestedIs
  <1>3. preview.request.revision <= spent.requests /\ 0 <= spent.requests
    BY SelectionAssumption DEF Counted
  <1>4. AppliedWasPosted(t)
    BY <1>2, <1>3 DEF AppliedWasPosted, Resolves, NoRequest
  <1>5. GivenBack(t)
    BY <1>1, <1>2 DEF GivenBack, Resolves
  <1>6. Follows(t)
    BY <1>1 DEF Follows
  <1> QED
    BY <1>1, <1>4, <1>5, <1>6 DEF Sound

\* The evaluation an update may begin with.
LEMMA EvaluationKeeps ==
    ASSUME Typed, Counted, Distinct, NEW s, Sound(s), s.due \/ s.current, NEW u,
           u.ready <=> s.due /\ ~metadata.pending /\ u.refreshed,
           NEW e, e = EvaluationStage(s, u)
    PROVE  /\ Sound(e) /\ (e.due \/ e.current)
           /\ e.number = s.number /\ (s.anchor => e.anchor)
           /\ s.chosen => e.chosen
           /\ (e.step # 0 => e.step = s.step)
           /\ s.chosen => \/ e.active = s.active
                          \/ u.preferred \in PresetIDs /\ e.active = u.preferred
                          \/ s.active \notin PresetIDs /\ e.active = NoID
           /\ ~u.ready => /\ e.applied = s.applied /\ e.active = s.active
                          /\ e.posed = s.posed
           /\ e.posed # s.posed =>
                 \/ ~s.posed /\ Resolves(e)
                 \/ s.posed /\ e.active \notin PresetIDs
           /\ e.applied \in {s.applied, preview.request} \/ (s.posed /\ ~e.posed)
  <1> USE DEF Sound
  <1>1. CASE u.ready
    <2>1. PICK v : v = Evaluated(s, u.preferred, u.sights)
      OBVIOUS
    <2>2. presets \in Seq(IDs)
      BY DEF Typed
    <2>3. /\ v \in SceneRecords /\ Follows(v) /\ v.current /\ v.chosen
          /\ s.chosen => \/ v.active = s.active
                         \/ u.preferred \in PresetIDs /\ v.active = u.preferred
                         \/ s.active \notin PresetIDs /\ v.active = NoID
          /\ v.number = s.number /\ (s.anchor => v.anchor)
          /\ v.step = s.step /\ v.posed = s.posed /\ v.applied = s.applied
      BY <2>1, <2>2, EvaluatedIs
    <2>4. PICK w : w = [v EXCEPT !.due = FALSE, !.lost = FALSE]
      OBVIOUS
    <2>5. /\ w \in SceneRecords /\ w.current /\ w.chosen
          /\ w.active = v.active /\ w.number = v.number /\ (v.anchor => w.anchor)
          /\ w.step = v.step /\ w.posed = v.posed /\ w.applied = v.applied
          /\ w.shown = v.shown /\ w.draft = v.draft /\ w.current = v.current
      BY <2>3, <2>4 DEF SceneRecords
    <2>6. e = Requested(w, u.sight) /\ ~metadata.pending
      BY <1>1, <2>1, <2>4 DEF EvaluationStage
    <2>7. AppliedWasPosted(w) /\ Follows(w)
      BY <2>3, <2>5 DEF AppliedWasPosted, Follows
    <2>8. Sound(e)
      BY <2>5, <2>6, <2>7, RequestedKeeps
    <2>9. /\ e.number = w.number /\ e.active = w.active /\ e.chosen = w.chosen
          /\ (w.anchor => e.anchor) /\ e.current = w.current /\ (e.step # 0 => e.step = w.step)
      <3>1. w \in SceneRecords /\ e = Requested(w, u.sight)
        BY <2>5, <2>6
      <3> QED
        BY <3>1, RequestedIs
    <2>10. /\ e.applied = preview.request \/ (w.posed /\ ~e.posed)
           /\ e.posed # w.posed => \/ ~w.posed /\ Resolves(w)
                                   \/ w.posed /\ ~Resolves(w)
      BY <2>5, <2>6, RequestedIs
    <2>11. Resolves(w) = Resolves(e) /\ (~Resolves(e) => e.active \notin PresetIDs)
      BY <2>9 DEF Resolves
    <2> QED
      BY <1>1, <2>3, <2>5, <2>8, <2>9, <2>10, <2>11
  <1>2. CASE ~u.ready /\ u.refreshed
    BY <1>2 DEF EvaluationStage
  <1>3. CASE ~u.ready /\ ~u.refreshed
    <2>1. e = [s EXCEPT !.lost = TRUE]
      BY <1>3 DEF EvaluationStage
    <2>2. /\ e \in SceneRecords
          /\ e.number = s.number /\ e.active = s.active /\ e.chosen = s.chosen
          /\ (s.anchor => e.anchor) /\ e.due = s.due /\ e.shown = s.shown
          /\ e.draft = s.draft /\ e.current = s.current /\ e.step = s.step
          /\ e.posed = s.posed /\ e.applied = s.applied
      BY <2>1 DEF SceneRecords
    <2>3. Sound(e)
      BY <2>2 DEF AppliedWasPosted, GivenBack, Follows
    <2> QED
      BY <1>3, <2>2, <2>3
  <1> QED
    BY <1>1, <1>2, <1>3

\* The measurement the timer asks for.
LEMMA MeasureKeeps ==
    ASSUME Typed, Distinct, NEW s, Sound(s), s.due \/ s.current, NEW u,
           NEW m, m = MeasureStage(s, u)
    PROVE  /\ Sound(m)
           /\ m.number = s.number /\ (s.anchor => m.anchor) /\ m.chosen = s.chosen
           /\ m.active = s.active /\ m.step = s.step /\ m.posed = s.posed
           /\ m.applied = s.applied
  <1> USE DEF Sound
  <1>1. CASE Measures(s, u)
    <2>1. PICK v : v = Measured(s, u.sights)
      OBVIOUS
    <2>2. presets \in Seq(IDs)
      BY DEF Typed
    <2>3. /\ v \in SceneRecords /\ Follows(v) /\ v.current
          /\ v.number = s.number /\ v.active = s.active /\ v.chosen = s.chosen
          /\ (s.anchor => v.anchor) /\ v.step = s.step /\ v.posed = s.posed
          /\ v.applied = s.applied
      BY <2>1, <2>2, MeasuredIs
    <2>4. m = [v EXCEPT !.lost = FALSE]
      BY <1>1, <2>1 DEF MeasureStage
    <2>5. /\ m \in SceneRecords
          /\ m.number = v.number /\ m.active = v.active /\ m.chosen = v.chosen
          /\ (v.anchor => m.anchor) /\ m.step = v.step /\ m.posed = v.posed
          /\ m.applied = v.applied /\ m.shown = v.shown /\ m.draft = v.draft
          /\ m.current = v.current
      BY <2>3, <2>4 DEF SceneRecords
    <2>6. s.current
      BY <1>1 DEF Measures
    <2>7. AppliedWasPosted(m) /\ GivenBack(m) /\ Follows(m)
      BY <2>3, <2>5, <2>6 DEF AppliedWasPosted, GivenBack, Follows
    <2> QED
      BY <2>3, <2>5, <2>7
  <1>2. CASE ~Measures(s, u)
    BY <1>2 DEF MeasureStage
  <1> QED
    BY <1>1, <1>2

\* The keys are on or off; a step is forgotten when they are off.
LEMMA SwitchKeeps ==
    ASSUME NEW s, Sound(s), NEW u, NEW w, w = SwitchStage(s, u)
    PROVE  /\ Sound(w)
           /\ w.number = s.number /\ (s.anchor => w.anchor) /\ w.chosen = s.chosen
           /\ w.active = s.active /\ w.posed = s.posed /\ w.applied = s.applied
           /\ w.step # 0 => w.step = s.step /\ ~w.lost
  <1> USE DEF Sound
  <1>1. PICK can \in BOOLEAN : can = (/\ ~metadata.pending /\ u.refreshed /\ ~s.lost
                                      /\ ~preview.session /\ ~s.due)
    OBVIOUS
  <1>2. PICK step : step = IF can THEN s.step ELSE 0
    OBVIOUS
  <1>3. w = [s EXCEPT !.enabled = can, !.step = step]
    BY <1>1, <1>2 DEF SwitchStage, SceneRecords
  <1>4. step \in Directions
    BY <1>2 DEF SceneRecords, Directions
  <1>5. /\ w \in SceneRecords /\ w.step = step
        /\ w.number = s.number /\ w.active = s.active /\ w.chosen = s.chosen
        /\ (s.anchor => w.anchor) /\ w.lost = s.lost /\ w.shown = s.shown
        /\ w.draft = s.draft /\ w.current = s.current /\ w.posed = s.posed
        /\ w.applied = s.applied
    BY <1>3, <1>4 DEF SceneRecords
  <1>6. AppliedWasPosted(w) /\ GivenBack(w) /\ Follows(w)
    BY <1>5 DEF AppliedWasPosted, GivenBack, Follows
  <1>7. step # 0 => ~s.lost /\ step = s.step
    BY <1>1, <1>2
  <1> QED
    BY <1>5, <1>6, <1>7

\* The request that ended a preview is applied after the return only.
EndIsAhead(s, u) == u.ended /\ ~u.ready => s.applied # preview.request

\* The preset to return to when a preview has ended.
LEMMA ReturnKeeps ==
    ASSUME Typed, Distinct, NEW s, Sound(s), NEW u,
           EndIsAhead(s, u),
           NEW r, r = ReturnStage(s, u)
    PROVE  /\ Sound(r)
           /\ r.number = s.number /\ (s.anchor => r.anchor) /\ (s.chosen => r.chosen)
           /\ r.step = s.step /\ r.lost = s.lost /\ r.posed = s.posed
           /\ r.applied = s.applied
           /\ s.chosen => \/ r.active = s.active
                          \/ /\ u.ended /\ u.preferred \in PresetIDs
                             /\ r.active = u.preferred
                          \/ /\ u.ended /\ ~u.ready
                             /\ s.active \notin PresetIDs /\ r.active = NoID
  <1> USE DEF Sound
  <1>1. CASE u.ended /\ ~metadata.pending /\ ~u.ready
    <2>1. presets \in Seq(IDs)
      BY DEF Typed
    <2>2. r = Evaluated(s, u.preferred, u.sights)
      BY <1>1 DEF ReturnStage
    <2>3. /\ r \in SceneRecords /\ Follows(r) /\ r.current /\ r.chosen
          /\ s.chosen => \/ r.active = s.active
                         \/ u.preferred \in PresetIDs /\ r.active = u.preferred
                         \/ s.active \notin PresetIDs /\ r.active = NoID
          /\ r.number = s.number /\ (s.anchor => r.anchor) /\ r.lost = s.lost
          /\ r.step = s.step /\ r.posed = s.posed /\ r.applied = s.applied
      BY <2>1, <2>2, EvaluatedIs
    <2>4. AppliedWasPosted(r) /\ GivenBack(r)
      BY <1>1, <2>3 DEF AppliedWasPosted, GivenBack, EndIsAhead
    <2> QED
      BY <1>1, <2>3, <2>4
  <1>2. CASE ~(u.ended /\ ~metadata.pending /\ ~u.ready)
    BY <1>2 DEF ReturnStage
  <1> QED
    BY <1>1, <1>2

\* What is requested, and the key.
LEMMA PoseKeeps ==
    ASSUME Typed, Counted, NEW s, Sound(s), s.anchor, NEW u,
           NEW p, p = PoseStage(s, u)
    PROVE  /\ Sound(p)
           /\ p.number = s.number /\ (s.anchor => p.anchor) /\ p.chosen = s.chosen
           /\ p.lost = s.lost
           /\ p.active # s.active =>
                 /\ s.step # 0 /\ p.current /\ ~metadata.pending
                 /\ \E i \in DOMAIN p.shown :
                       p.shown[i].usable /\ p.shown[i].id = p.active
           /\ p.posed # s.posed =>
                 \/ s.posed /\ p.active \notin PresetIDs
                 \/ ~s.posed /\ (s.step # 0 \/ preview.request # s.applied)
  <1> USE DEF Sound
  <1>1. CASE s.posed /\ ~preview.session /\ ~Resolves(s)
    <2>1. p = Released(s)
      BY <1>1 DEF PoseStage
    <2>2. /\ p \in SceneRecords /\ ~p.posed /\ p.applied = NoRequest
          /\ p.number = s.number /\ p.active = s.active /\ p.chosen = s.chosen
          /\ (s.anchor => p.anchor) /\ p.lost = s.lost /\ p.shown = s.shown
          /\ p.draft = s.draft /\ p.current = s.current
      BY <2>1, ReleasedIs
    <2>3. s.active \notin PresetIDs
      BY <1>1 DEF Resolves
    <2>4. 0 <= spent.requests
      BY SelectionAssumption DEF Counted
    <2>5. AppliedWasPosted(p) /\ GivenBack(p) /\ Follows(p)
      BY <2>2, <2>3, <2>4 DEF AppliedWasPosted, GivenBack, Follows, NoRequest
    <2> QED
      BY <1>1, <2>2, <2>3, <2>5
  <1>2. CASE ~(s.posed /\ ~preview.session /\ ~Resolves(s))
    <2>1. PICK q : q = IF s.anchor /\ preview.request # s.applied
                       THEN Requested(s, u.sight) ELSE s
      OBVIOUS
    <2>2. p = IF s.posed /\ ~q.posed THEN q ELSE StepStage(q)
      BY <1>2, <2>1 DEF PoseStage, RequestStage, StepUnlessReleased
    <2>3. /\ Sound(q)
          /\ q.number = s.number /\ q.active = s.active /\ q.chosen = s.chosen
          /\ (s.anchor => q.anchor) /\ q.lost = s.lost /\ (q.step # 0 => q.step = s.step)
          /\ q.posed # s.posed => \/ ~s.posed /\ preview.request # s.applied
                                  \/ s.posed /\ ~Resolves(s)
      <3>1. CASE s.anchor /\ preview.request # s.applied
        <4>1. q = Requested(s, u.sight)
          BY <2>1, <3>1
        <4>2. Sound(q)
          BY <4>1, RequestedKeeps
        <4>3. /\ q.number = s.number /\ q.active = s.active /\ q.chosen = s.chosen
              /\ (s.anchor => q.anchor) /\ q.lost = s.lost /\ (q.step # 0 => q.step = s.step)
          <5>1. s \in SceneRecords
            OBVIOUS
          <5> HIDE DEF Sound
          <5> QED
            BY <4>1, <5>1, RequestedIs
        <4>4. q.posed # s.posed => \/ ~s.posed /\ Resolves(s)
                                   \/ s.posed /\ ~Resolves(s)
          BY <4>1, RequestedIs
        <4> QED
          BY <3>1, <4>2, <4>3, <4>4
      <3>2. CASE ~(s.anchor /\ preview.request # s.applied)
        BY <2>1, <3>2
      <3> QED
        BY <3>1, <3>2
    <2>4. ~Resolves(s) => q.active \notin PresetIDs
      BY <2>3 DEF Resolves
    <2>5. CASE s.posed /\ ~q.posed
      BY <2>2, <2>3, <2>4, <2>5
    <2>6. CASE ~(s.posed /\ ~q.posed) /\ preview.session
      <3>1. p = [q EXCEPT !.enabled = FALSE, !.step = 0]
        BY <2>2, <2>6 DEF StepStage
      <3>2. 0 \in Directions
        BY DEF Directions
      <3>3. /\ p \in SceneRecords /\ p.posed = q.posed /\ p.applied = q.applied
            /\ p.number = q.number /\ p.active = q.active /\ p.chosen = q.chosen
            /\ (q.anchor => p.anchor) /\ p.lost = q.lost /\ p.shown = q.shown
            /\ p.draft = q.draft /\ p.current = q.current
        BY <2>3, <3>1, <3>2, ZenonT(40) DEF SceneRecords
      <3>4. AppliedWasPosted(p) /\ GivenBack(p) /\ Follows(p)
        BY <2>3, <3>3 DEF AppliedWasPosted, GivenBack, Follows
      <3> QED
        BY <2>3, <2>4, <2>6, <3>3, <3>4
    <2>7. CASE ~(s.posed /\ ~q.posed) /\ ~preview.session /\ q.step = 0
      <3>1. p = q
        BY <2>2, <2>7 DEF StepStage
      <3> QED
        BY <2>3, <2>4, <2>7, <3>1
    <2>8. CASE ~(s.posed /\ ~q.posed) /\ ~preview.session /\ q.step # 0
      <3>1. p = Stepped(q)
        BY <2>2, <2>8 DEF StepStage
      <3>2. /\ p \in SceneRecords
            /\ p.number = q.number /\ p.chosen = q.chosen
            /\ (q.anchor => p.anchor) /\ p.lost = q.lost
            /\ p.shown = q.shown /\ p.draft = q.draft /\ p.current = q.current
            /\ p.applied = q.applied
        BY <2>3, <3>1, SteppedIs, Zenon
      <3>3. \/ p.active = q.active /\ p.posed = q.posed
            \/ /\ p.posed /\ ~metadata.pending /\ q.current
               /\ \E i \in DOMAIN q.shown :
                     q.shown[i].usable /\ q.shown[i].id = p.active
        BY <2>3, <3>1, SteppedIs
      <3>4. AppliedWasPosted(p) /\ GivenBack(p) /\ Follows(p)
        BY <2>3, <3>2, <3>3 DEF AppliedWasPosted, GivenBack, Follows
      <3>5. s.step # 0
        BY <2>3, <2>8
      <3>6. p.active # s.active =>
                /\ p.current /\ ~metadata.pending
                /\ \E i \in DOMAIN p.shown :
                      p.shown[i].usable /\ p.shown[i].id = p.active
        BY <2>3, <3>2, <3>3
      <3>7. p.posed # s.posed => ~s.posed
        BY <2>8, <3>3
      <3> QED
        BY <2>3, <3>2, <3>4, <3>5, <3>6, <3>7
    <2> QED
      BY <2>5, <2>6, <2>7, <2>8
  <1> QED
    BY <1>1, <1>2

\* One update: what it keeps, what may change the preset, and what may take the
\* camera or give it back.
LEMMA StagesKeep ==
    ASSUME Typed, Counted, Distinct, NEW s, Sound(s), s.anchor, s.due \/ s.current,
           NEW refreshed, NEW timed, NEW sights, NEW sight,
           NEW t, t = Stages(s, Met(s, refreshed, timed, sights, sight))
    PROVE  /\ Sound(t)
           /\ t.number = s.number /\ (s.anchor => t.anchor)
           /\ s.chosen /\ t.active \notin {s.active, NoID} /\ ~PreviewEnded(s) =>
                 /\ s.step # 0 /\ t.current /\ ~metadata.pending /\ ~t.lost
                 /\ \E i \in DOMAIN t.shown :
                       t.shown[i].usable /\ t.shown[i].id = t.active
           /\ s.chosen /\ t.active # s.active =>
                 \/ s.step # 0
                 \/ PreviewEnded(s) /\ t.active = preview.request.id
                 \/ t.active = NoID /\ s.active \notin PresetIDs
           /\ s.chosen /\ t.posed # s.posed =>
                 \/ s.posed /\ t.active \notin PresetIDs
                 \/ ~s.posed /\ \/ s.step # 0
                                \/ preview.request # s.applied
                                \/ ~s.current /\ s.active \in PresetIDs
  <1>1. PICK u : u = Met(s, refreshed, timed, sights, sight)
    OBVIOUS
  <1>2. /\ (u.ready <=> s.due /\ ~metadata.pending /\ u.refreshed)
        /\ (u.ended <=> PreviewEnded(s))
        /\ u.preferred = IF PreviewEnded(s) THEN preview.request.id ELSE NoID
    BY <1>1 DEF Met
  <1>3. NoID \notin PresetIDs
    BY SelectionAssumption, LenProperties, ElementOfSeq DEF Typed, PresetIDs
  <1>4. u.preferred \in PresetIDs => u.ended /\ u.preferred = preview.request.id
    BY <1>2, <1>3
  <1>5. PICK e : e = EvaluationStage(s, u)
    OBVIOUS
  <1>6. /\ Sound(e) /\ (e.due \/ e.current)
        /\ e.number = s.number /\ (s.anchor => e.anchor)
        /\ s.chosen => e.chosen
        /\ (e.step # 0 => e.step = s.step)
        /\ s.chosen => \/ e.active = s.active
                       \/ u.preferred \in PresetIDs /\ e.active = u.preferred
                       \/ s.active \notin PresetIDs /\ e.active = NoID
        /\ ~u.ready => /\ e.applied = s.applied /\ e.active = s.active
                       /\ e.posed = s.posed
        /\ e.posed # s.posed =>
              \/ ~s.posed /\ Resolves(e)
              \/ s.posed /\ e.active \notin PresetIDs
        /\ e.applied \in {s.applied, preview.request} \/ (s.posed /\ ~e.posed)
    <2>1. u.ready <=> s.due /\ ~metadata.pending /\ u.refreshed
      BY <1>2
    <2> QED
      BY <1>5, <2>1, EvaluationKeeps
  <1>7. s.chosen /\ ~s.posed /\ e.posed =>
            \/ preview.request # s.applied
            \/ ~s.current /\ s.active \in PresetIDs
    <2> SUFFICES ASSUME s.chosen, ~s.posed, e.posed, preview.request = s.applied
                 PROVE  ~s.current /\ s.active \in PresetIDs
      OBVIOUS
    <2>1. ~u.ended
      BY <1>2 DEF PreviewEnded
    <2>2. e.active = s.active \/ e.active = NoID
      BY <1>4, <1>6, <2>1
    <2>3. Resolves(e)
      BY <1>6
    <2>4. ~preview.request.live
      BY DEF Sound, AppliedWasPosted
    <2>5. s.active \in PresetIDs
      BY <1>3, <2>2, <2>3, <2>4 DEF Resolves
    <2> QED
      BY <2>5 DEF Sound, GivenBack
  <1>8. CASE s.posed /\ ~e.posed
    <2>1. t = e
      BY <1>1, <1>5, <1>8 DEF Stages, RestUnlessReleased
    <2>2. s.chosen /\ t.active \notin {s.active, NoID} => PreviewEnded(s)
      BY <1>2, <1>4, <1>6, <2>1
    <2>3. s.chosen /\ t.active # s.active =>
                 \/ PreviewEnded(s) /\ t.active = preview.request.id
                 \/ t.active = NoID /\ s.active \notin PresetIDs
      BY <1>2, <1>4, <1>6, <2>1
    <2> QED
      BY <1>6, <1>8, <2>1, <2>2, <2>3
  <1>9. CASE ~(s.posed /\ ~e.posed)
    <2>1. PICK m : m = MeasureStage(e, u)
      OBVIOUS
    <2>2. PICK w : w = SwitchStage(m, u)
      OBVIOUS
    <2>3. PICK r : r = ReturnStage(w, u)
      OBVIOUS
    <2>4. t = PoseStage(r, u)
      BY <1>1, <1>5, <1>9, <2>1, <2>2, <2>3 DEF Stages, RestUnlessReleased
    <2>5. /\ Sound(m)
          /\ m.number = e.number /\ (e.anchor => m.anchor) /\ m.chosen = e.chosen
          /\ m.active = e.active /\ m.step = e.step /\ m.posed = e.posed
          /\ m.applied = e.applied
      BY <1>6, <2>1, MeasureKeeps
    <2>6. /\ Sound(w)
          /\ w.number = m.number /\ (m.anchor => w.anchor) /\ w.chosen = m.chosen
          /\ w.active = m.active /\ w.posed = m.posed /\ w.applied = m.applied
          /\ w.step # 0 => w.step = m.step /\ ~w.lost
      BY <2>2, <2>5, SwitchKeeps
    <2>7. EndIsAhead(w, u)
      BY <1>2, <1>6, <2>5, <2>6 DEF PreviewEnded, EndIsAhead
    <2>8. /\ Sound(r)
          /\ r.number = w.number /\ (w.anchor => r.anchor) /\ (w.chosen => r.chosen)
          /\ r.step = w.step /\ r.lost = w.lost /\ r.posed = w.posed
          /\ r.applied = w.applied
          /\ w.chosen => \/ r.active = w.active
                         \/ /\ u.ended /\ u.preferred \in PresetIDs
                            /\ r.active = u.preferred
                         \/ /\ u.ended /\ ~u.ready
                            /\ w.active \notin PresetIDs /\ r.active = NoID
      <3>1. Sound(w)
        BY <2>6
      <3> QED
        BY <2>3, <2>7, <3>1, ReturnKeeps
    <2>9. /\ Sound(t)
          /\ t.number = r.number /\ (r.anchor => t.anchor) /\ t.lost = r.lost
          /\ t.active # r.active =>
                /\ r.step # 0 /\ t.current /\ ~metadata.pending
                /\ \E i \in DOMAIN t.shown :
                      t.shown[i].usable /\ t.shown[i].id = t.active
          /\ t.posed # r.posed =>
                \/ r.posed /\ t.active \notin PresetIDs
                \/ ~r.posed /\ (r.step # 0 \/ preview.request # r.applied)
      <3>1. Sound(r) /\ r.anchor
        BY <1>6, <2>5, <2>6, <2>8
      <3> QED
        BY <2>4, <3>1, PoseKeeps
    <2>10. r.step # 0 => s.step # 0 /\ ~t.lost
      BY <1>6, <2>5, <2>6, <2>8, <2>9
    <2>11. s.chosen => \/ r.active = s.active
                       \/ PreviewEnded(s) /\ r.active = preview.request.id
                       \/ r.active = NoID /\ s.active \notin PresetIDs
      BY <1>2, <1>4, <1>6, <2>5, <2>6, <2>8
    <2>12. s.chosen /\ ~PreviewEnded(s) => r.active \in {s.active, NoID}
      BY <2>11
    <2>13. preview.request # r.applied => preview.request # s.applied
      BY <1>6, <1>9, <2>5, <2>6, <2>8
    <2>14. s.chosen /\ t.posed # s.posed =>
              \/ s.posed /\ t.active \notin PresetIDs
              \/ ~s.posed /\ \/ s.step # 0
                             \/ preview.request # s.applied
                             \/ ~s.current /\ s.active \in PresetIDs
      <3>1. r.posed = e.posed
        BY <2>5, <2>6, <2>8
      <3>2. {s.posed, e.posed, t.posed} \subseteq BOOLEAN
        BY <1>6, <2>9 DEF Sound, SceneRecords
      <3>3. t.posed # e.posed => \/ e.posed /\ t.active \notin PresetIDs
                                 \/ ~e.posed /\ (s.step # 0 \/ preview.request # s.applied)
        BY <2>9, <2>10, <2>13, <3>1
      <3> QED
        BY <1>7, <1>9, <3>2, <3>3
    <2>15. s.chosen /\ t.active \notin {s.active, NoID} /\ ~PreviewEnded(s) =>
              /\ s.step # 0 /\ t.current /\ ~metadata.pending /\ ~t.lost
              /\ \E i \in DOMAIN t.shown :
                    t.shown[i].usable /\ t.shown[i].id = t.active
      BY <2>9, <2>10, <2>12
    <2>16. s.chosen /\ t.active # s.active =>
              \/ s.step # 0
              \/ PreviewEnded(s) /\ t.active = preview.request.id
              \/ t.active = NoID /\ s.active \notin PresetIDs
      BY <2>9, <2>10, <2>11
    <2> QED
      BY <1>6, <2>5, <2>6, <2>8, <2>9, <2>14, <2>15, <2>16
  <1> QED
    BY <1>8, <1>9

-----------------------------------------------------------------------------
(* The invariant holds at first, and every step keeps it.                   *)

\* The invariant holds at first.
LEMMA InitHolds ==
    ASSUME Init
    PROVE  IInv
  <1> USE DEF Init
  <1>1. NoRequest \in Requests /\ 0 \in Directions
    BY SelectionAssumption DEF NoRequest, Requests, Directions
  <1>2. <<>> \in Seq(Candidates)
    OBVIOUS
  <1>3. scene \in SceneRecords
    BY <1>1, <1>2 DEF SceneRecords, NewScene
  <1>4. Typed
    BY <1>1, SelectionAssumption DEF Typed, NewScene, Unknown
  <1>5. Distinct
    BY SelectionAssumption DEF Distinct
  <1>6. Counted
    BY SelectionAssumption DEF Counted, NewScene, NoRequest
  <1>7. AppliedWasPosted(scene) /\ GivenBack(scene) /\ Follows(scene)
    BY DEF Unique, AppliedWasPosted, GivenBack, Follows, NewScene, NoRequest
  <1> QED
    BY <1>3, <1>4, <1>5, <1>6, <1>7 DEF IInv, Sound, NewScene

\* What an update begins with is as sound as what the last one left.
LEMMA BeginsSound ==
    ASSUME IInv, NEW refreshed \in BOOLEAN,
           NEW s, s = [scene EXCEPT !.due = @ \/ ~scene.current,
                                    !.anchor = @ \/ refreshed]
    PROVE  /\ Sound(s) /\ (s.due \/ s.current)
           /\ s.number = scene.number /\ s.active = scene.active
           /\ s.chosen = scene.chosen /\ s.current = scene.current
           /\ s.step = scene.step /\ s.posed = scene.posed
           /\ s.applied = scene.applied
           /\ s.chosen => s.anchor
           /\ scene.chosen => (PreviewEnded(s) <=> PreviewEnded(scene))
  <1>1. PICK due \in BOOLEAN : due = (scene.due \/ ~scene.current)
    OBVIOUS
  <1>2. PICK anchor \in BOOLEAN : anchor = (scene.anchor \/ refreshed)
    OBVIOUS
  <1>3. s = [scene EXCEPT !.due = due, !.anchor = anchor] /\ scene \in SceneRecords
    BY <1>1, <1>2 DEF IInv, Sound, SceneRecords
  <1>4. /\ s \in SceneRecords /\ s.due = due /\ s.anchor = anchor
        /\ s.number = scene.number /\ s.active = scene.active
        /\ s.chosen = scene.chosen /\ s.current = scene.current
        /\ s.step = scene.step /\ s.posed = scene.posed
        /\ s.applied = scene.applied
        /\ s.shown = scene.shown /\ s.draft = scene.draft
    BY <1>3 DEF SceneRecords
  <1>5. AppliedWasPosted(s) /\ GivenBack(s) /\ Follows(s)
    BY <1>4 DEF IInv, Sound, AppliedWasPosted, GivenBack, Follows
  <1>6. s.chosen => s.anchor
    BY <1>2, <1>4 DEF IInv
  <1>7. s.due \/ s.current
    BY <1>1, <1>4
  <1>8. scene.chosen => (PreviewEnded(s) <=> PreviewEnded(scene))
    BY <1>4, <1>6 DEF PreviewEnded, IInv
  <1> QED
    BY <1>4, <1>5, <1>6, <1>7, <1>8 DEF Sound

\* What is sound of the next record is sound of it in the next state.
LEMMA SoundStays ==
    ASSUME Sound(scene'), UNCHANGED <<presets, metadata, preview, spent>>
    PROVE  Sound(scene)'
  BY DEF Sound, AppliedWasPosted, GivenBack, Follows, PresetIDs

\* One update of the main thread, and what it may do to the selection.
LEMMA UpdateKeeps ==
    ASSUME IInv, NEW refreshed \in BOOLEAN, NEW timed, NEW sights, NEW sight,
           Update(refreshed, timed, sights, sight)
    PROVE  /\ IInv' /\ scene'.number = scene.number
           /\ scene.chosen /\ scene'.active \notin {scene.active, NoID}
                  /\ ~PreviewEnded(scene) =>
                /\ scene'.current /\ ~metadata.pending /\ ~scene'.lost
                /\ \E i \in DOMAIN scene'.shown :
                      /\ scene'.shown[i].usable
                      /\ scene'.shown[i].id = scene'.active
           /\ scene.chosen /\ scene'.active # scene.active =>
                 \/ scene.step # 0
                 \/ PreviewEnded(scene) /\ scene'.active = preview.request.id
                 \/ scene'.active = NoID /\ scene.active \notin PresetIDs
           /\ scene.chosen /\ scene'.posed # scene.posed =>
                 \/ scene.posed /\ scene'.active \notin PresetIDs
                 \/ ~scene.posed /\ \/ scene.step # 0
                                    \/ preview.request # scene.applied
                                    \/ ~scene.current /\ scene.active \in PresetIDs
  <1>1. PICK s : s = [scene EXCEPT !.due = @ \/ ~scene.current,
                                   !.anchor = @ \/ refreshed]
    OBVIOUS
  <1>2. /\ Sound(s) /\ (s.due \/ s.current)
        /\ s.number = scene.number /\ s.active = scene.active
        /\ s.chosen = scene.chosen /\ s.current = scene.current
        /\ s.step = scene.step /\ s.posed = scene.posed
        /\ s.applied = scene.applied
        /\ s.chosen => s.anchor
        /\ scene.chosen => (PreviewEnded(s) <=> PreviewEnded(scene))
    BY <1>1, BeginsSound
  <1>3. /\ scene' = IF s.anchor
                    THEN Stages(s, Met(s, refreshed, timed, sights, sight)) ELSE s
        /\ UNCHANGED <<presets, metadata, preview, editing, pressing, spent>>
    BY <1>1 DEF Update
  <1>4. Typed /\ Counted /\ Distinct
    BY DEF IInv
  <1>5. Sound(scene') /\ scene'.number = scene.number
            /\ (scene'.chosen => scene'.anchor)
    <2>1. CASE s.anchor
      BY <1>2, <1>3, <1>4, <2>1, StagesKeep
    <2>2. CASE ~s.anchor
      BY <1>2, <1>3, <2>2
    <2> QED
      BY <2>1, <2>2
  <1>6. IInv'
    <2>1. Sound(scene)'
      BY <1>3, <1>5, SoundStays
    <2>2. Typed' /\ Counted' /\ Distinct'
      BY <1>3, <1>4, <1>5 DEF Typed, Counted, Distinct
    <2> QED
      BY <1>5, <2>1, <2>2 DEF IInv
  <1>7. CASE s.chosen /\ s.anchor
    <2>1. PICK t : t = Stages(s, Met(s, refreshed, timed, sights, sight))
      OBVIOUS
    <2>2. /\ s.chosen /\ t.active \notin {s.active, NoID} /\ ~PreviewEnded(s) =>
                /\ t.current /\ ~metadata.pending /\ ~t.lost
                /\ \E i \in DOMAIN t.shown :
                      t.shown[i].usable /\ t.shown[i].id = t.active
          /\ s.chosen /\ t.active # s.active =>
                \/ s.step # 0
                \/ PreviewEnded(s) /\ t.active = preview.request.id
                \/ t.active = NoID /\ s.active \notin PresetIDs
          /\ s.chosen /\ t.posed # s.posed =>
                \/ s.posed /\ t.active \notin PresetIDs
                \/ ~s.posed /\ \/ s.step # 0
                               \/ preview.request # s.applied
                               \/ ~s.current /\ s.active \in PresetIDs
      <3>1. Typed /\ Counted /\ Distinct /\ Sound(s) /\ s.anchor /\ (s.due \/ s.current)
        BY <1>2, <1>4, <1>7
      <3> QED
        BY <2>1, <3>1, StagesKeep
    <2>3. scene' = t
      BY <1>3, <1>7, <2>1
    <2> QED
      BY <1>2, <1>5, <1>6, <1>7, <2>2, <2>3
  <1>8. CASE ~s.chosen
    BY <1>2, <1>5, <1>6, <1>8
  <1> QED
    BY <1>2, <1>7, <1>8

\* Upset counts one more.
LEMMA UpsetCounts ==
    ASSUME Counted, Upset, scene'.number \in 1 .. scene.number + 1,
           preview'.request.revision <= spent.requests,
           preview'.request.live => preview'.request.revision > 0
    PROVE  Counted' /\ spent'.requests = spent.requests
  <1>1. /\ MaxUpsets \in Nat /\ MaxRequests \in Nat
        /\ spent.upsets \in 0 .. MaxUpsets /\ spent.upsets < MaxUpsets
        /\ scene.number \in 1 .. spent.upsets + 1
    BY SelectionAssumption DEF Counted, Upset
  <1>2. /\ spent' \in [requests : 0 .. MaxRequests, presses : 0 .. MaxPresses,
                       upsets : 0 .. MaxUpsets]
        /\ spent'.upsets = spent.upsets + 1 /\ spent'.requests = spent.requests
    BY <1>1 DEF Counted, Upset
  <1>3. scene'.number \in 1 .. spent'.upsets + 1
    BY <1>1, <1>2
  <1> QED
    BY <1>2, <1>3 DEF Counted

\* A notice puts the metadata on hold.
LEMMA NoticeKeeps ==
    ASSUME IInv, Notice
    PROVE  IInv' /\ scene'.active = scene.active /\ scene'.posed = scene.posed
  <1> USE DEF Notice
  <1>1. 0 \in Directions /\ scene \in SceneRecords
    BY DEF Directions, IInv, Sound
  <1>2. /\ scene' \in SceneRecords /\ scene'.number = scene.number
        /\ scene'.active = scene.active /\ scene'.chosen = scene.chosen
        /\ scene'.anchor = scene.anchor /\ scene'.posed = scene.posed
        /\ scene'.applied = scene.applied /\ scene'.current = scene.current
        /\ scene'.shown = scene.shown
    BY <1>1 DEF SceneRecords
  <1>3. Counted' /\ spent'.requests = spent.requests
    BY <1>1, <1>2, UpsetCounts DEF IInv, Counted
  <1>4. metadata'.pending /\ UNCHANGED <<presets, preview>>
    BY DEF IInv, Typed
  <1>5. Sound(scene)'
    BY <1>2, <1>3, <1>4
    DEF IInv, Sound, AppliedWasPosted, GivenBack, Follows, PresetIDs
  <1>6. Typed' /\ Distinct'
    BY <1>2 DEF IInv, Typed, Distinct
  <1> QED
    BY <1>2, <1>3, <1>5, <1>6 DEF IInv

\* What was rated is out of date: Settle, and the presets edited.
LEMMA OutdatedIsSound ==
    ASSUME IInv, scene' = [scene EXCEPT !.current = FALSE],
           UNCHANGED preview, spent'.requests = spent.requests
    PROVE  /\ Sound(scene)' /\ scene'.number = scene.number
           /\ scene'.active = scene.active /\ scene'.posed = scene.posed
           /\ scene'.chosen = scene.chosen /\ scene'.anchor = scene.anchor
  <1>1. scene \in SceneRecords
    BY DEF IInv, Sound
  <1>2. /\ scene' \in SceneRecords /\ scene'.number = scene.number /\ ~scene'.current
        /\ scene'.active = scene.active /\ scene'.chosen = scene.chosen
        /\ scene'.anchor = scene.anchor /\ scene'.posed = scene.posed
        /\ scene'.applied = scene.applied /\ scene'.shown = scene.shown
    BY <1>1 DEF SceneRecords
  <1>3. Sound(scene)'
    BY <1>2 DEF IInv, Sound, AppliedWasPosted, GivenBack, Follows
  <1> QED
    BY <1>2, <1>3

\* The metadata is there, or known to be missing.
LEMMA SettleKeeps ==
    ASSUME IInv, NEW m \in {Unknown} \cup {KnownAs(a) : a \in Animations}, Settle(m)
    PROVE  IInv' /\ scene'.active = scene.active /\ scene'.posed = scene.posed
  <1> USE DEF Settle
  <1>1. /\ Sound(scene)' /\ scene'.number = scene.number
        /\ scene'.active = scene.active /\ scene'.posed = scene.posed
        /\ scene'.chosen = scene.chosen /\ scene'.anchor = scene.anchor
    BY OutdatedIsSound
  <1>2. Typed'
    BY <1>1 DEF IInv, Typed
  <1>3. Counted' /\ Distinct'
    BY <1>1 DEF IInv, Counted, Distinct
  <1> QED
    BY <1>1, <1>2, <1>3 DEF IInv

\* The scene ends and another one starts.
LEMMA RestartKeeps ==
    ASSUME IInv, Restart
    PROVE  IInv' /\ scene'.number # scene.number
  <1> USE DEF Restart
  <1>1. NoRequest \in Requests /\ 0 \in Directions /\ <<>> \in Seq(Candidates)
    BY SelectionAssumption DEF NoRequest, Requests, Directions
  <1>2. scene.number \in Nat
    BY DEF IInv, Sound, SceneRecords
  <1>3. /\ scene' \in SceneRecords /\ scene'.number = scene.number + 1
        /\ ~scene'.chosen /\ ~scene'.current /\ scene'.applied = NoRequest
        /\ scene'.shown = <<>>
    <2>1. /\ NewScene \in SceneRecords /\ ~NewScene.chosen /\ ~NewScene.current
          /\ NewScene.applied = NoRequest /\ NewScene.shown = <<>>
      BY <1>1 DEF SceneRecords, NewScene
    <2> QED
      BY <1>2, <2>1 DEF SceneRecords
  <1>4. preview'.request = NoRequest /\ NoRequest.revision = 0 /\ ~NoRequest.live
    BY DEF NoRequest
  <1>5. 0 <= spent.requests /\ scene.number \in Nat
    BY <1>2, SelectionAssumption DEF IInv, Counted
  <1>6. Counted' /\ spent'.requests = spent.requests
    BY <1>3, <1>4, <1>5, UpsetCounts DEF IInv
  <1>7. Sound(scene)'
    BY <1>3, <1>4, <1>5, <1>6 DEF Sound, AppliedWasPosted, GivenBack, Follows, Unique
  <1>8. Typed'
    <2>1. preview' \in [session : BOOLEAN, request : Requests]
      BY <1>1
    <2>2. editing' \in 0 .. scene'.number
      BY <1>3, <1>5 DEF IInv, Typed
    <2>3. presets' \in Seq(IDs) /\ pressing' \in -1 .. 1
      BY DEF IInv, Typed
    <2>4. metadata' \in [pending : BOOLEAN,
                         ready : {Unknown} \cup {KnownAs(a) : a \in Animations}]
      BY DEF IInv, Typed
    <2> QED
      BY <2>1, <2>2, <2>3, <2>4 DEF Typed
  <1>9. Distinct'
    BY DEF IInv, Distinct
  <1> QED
    BY <1>2, <1>3, <1>6, <1>7, <1>8, <1>9 DEF IInv

\* The checks of a key.
LEMMA PressKeeps ==
    ASSUME IInv, NEW direction \in {-1, 1}, Press(direction)
    PROVE  IInv'
  <1> USE DEF Press
  <1>1. Counted' /\ spent'.requests = spent.requests
    BY SelectionAssumption, SMTT(30) DEF IInv, Counted
  <1>2. Sound(scene)'
    BY <1>1 DEF IInv, Sound, AppliedWasPosted, GivenBack, Follows, PresetIDs
  <1>3. Typed' /\ Distinct'
    BY DEF IInv, Typed, Distinct
  <1> QED
    BY <1>1, <1>2, <1>3 DEF IInv

\* The step a key asked for.
LEMMA StoreStepKeeps ==
    ASSUME IInv, StoreStep
    PROVE  IInv' /\ scene'.active = scene.active /\ scene'.posed = scene.posed
  <1> USE DEF StoreStep
  <1>1. pressing \in Directions /\ scene \in SceneRecords
    BY DEF Directions, IInv, Typed, Sound
  <1>2. /\ scene' \in SceneRecords /\ scene'.number = scene.number
        /\ scene'.active = scene.active /\ scene'.chosen = scene.chosen
        /\ scene'.anchor = scene.anchor /\ scene'.posed = scene.posed
        /\ scene'.applied = scene.applied /\ scene'.current = scene.current
        /\ scene'.shown = scene.shown /\ scene'.draft = scene.draft
    BY <1>1 DEF SceneRecords
  <1>3. Sound(scene')
    BY <1>2 DEF IInv, Sound, AppliedWasPosted, GivenBack, Follows
  <1>4. Sound(scene)'
    BY <1>3, SoundStays
  <1>5. Typed' /\ Counted' /\ Distinct'
    BY <1>2 DEF IInv, Typed, Counted, Distinct
  <1> QED
    BY <1>2, <1>4, <1>5 DEF IInv

\* The session and the editor's frames leave the scene and the request alone.
LEMMA SessionKeeps ==
    ASSUME IInv, BeginSession \/ BeginFrame \/ EndSession
    PROVE  IInv' /\ UNCHANGED scene
  <1>1. /\ UNCHANGED <<presets, metadata, scene, pressing, spent>>
        /\ preview'.request = preview.request
        /\ preview' \in [session : BOOLEAN, request : Requests]
        /\ editing' \in {0, scene.number, editing}
    BY DEF BeginSession, BeginFrame, EndSession, IInv, Typed
  <1>2. Typed' /\ Counted' /\ Distinct'
    <2>1. scene.number \in Nat
      BY DEF IInv, Sound, SceneRecords
    <2> QED
      BY <1>1, <2>1 DEF IInv, Typed, Counted, Distinct
  <1>3. Sound(scene)'
    BY <1>1 DEF IInv, Sound, AppliedWasPosted, GivenBack, Follows, PresetIDs
  <1> QED
    BY <1>1, <1>2, <1>3 DEF IInv

\* A request of the editor, or its clearing.
LEMMA AskKeeps ==
    ASSUME IInv, NEW live \in BOOLEAN, NEW id \in IDs \cup {NoID}, Ask(live, id)
    PROVE  IInv' /\ UNCHANGED scene
  <1> USE DEF Ask
  <1>1. spent.requests \in Nat /\ spent'.requests = spent.requests + 1
    BY SelectionAssumption DEF IInv, Counted
  <1>2. editing \in 0 .. MaxUpsets + 1
    BY SelectionAssumption DEF IInv, Typed, Counted
  <1>3. /\ preview'.request.revision = spent.requests + 1
        /\ preview'.request.live = live
        /\ preview'.session = preview.session
        /\ preview'.request \in Requests
    BY <1>1, <1>2, SelectionAssumption DEF IInv, Typed, Counted, Requests
  <1>4. preview' \in [session : BOOLEAN, request : Requests]
    BY <1>3 DEF IInv, Typed
  <1>5. Counted'
    BY <1>1, <1>3, SelectionAssumption DEF IInv, Counted
  <1>6. Typed' /\ Distinct'
    BY <1>4 DEF IInv, Typed, Distinct
  <1>7. scene.applied \in Requests /\ scene.applied # preview'.request
    BY <1>1, <1>3 DEF IInv, Sound, SceneRecords, Requests, AppliedWasPosted
  <1>8. Sound(scene)'
    BY <1>1, <1>3, <1>7
    DEF IInv, Sound, AppliedWasPosted, GivenBack, Follows, SceneRecords, Requests
  <1> QED
    BY <1>5, <1>6, <1>8 DEF IInv

\* Another list of presets is published.
LEMMA EditedKeeps ==
    ASSUME IInv, NEW list \in Seq(IDs), Edited(list),
           \A i, j \in DOMAIN list : list[i] = list[j] => i = j
    PROVE  IInv' /\ scene'.active = scene.active /\ scene'.posed = scene.posed
  <1> USE DEF Edited
  <1>1. spent'.requests = spent.requests
    BY DEF Upset, IInv, Counted
  <1>2. /\ Sound(scene)' /\ scene'.number = scene.number
        /\ scene'.active = scene.active /\ scene'.posed = scene.posed
        /\ scene'.chosen = scene.chosen /\ scene'.anchor = scene.anchor
    BY <1>1, OutdatedIsSound
  <1>3. scene.number \in Nat
    BY DEF IInv, Sound, SceneRecords
  <1>4. Counted'
    BY <1>2, <1>3, UpsetCounts DEF IInv, Counted
  <1>5. Typed' /\ Distinct'
    BY <1>2 DEF IInv, Typed, Distinct
  <1> QED
    BY <1>2, <1>4, <1>5 DEF IInv

\* A preset more.
LEMMA CreateKeeps ==
    ASSUME IInv, NEW id \in IDs, Create(id)
    PROVE  IInv' /\ scene'.active = scene.active /\ scene'.posed = scene.posed
  <1>1. presets \in Seq(IDs) /\ Distinct
    BY DEF IInv, Typed
  <1>2. PICK list : list = Append(presets, id)
    OBVIOUS
  <1>3. /\ list \in Seq(IDs) /\ Len(list) = Len(presets) + 1
        /\ \A i \in 1 .. Len(presets) : list[i] = presets[i]
        /\ list[Len(presets) + 1] = id
    BY <1>1, <1>2, AppendProperties
  <1>4. /\ DOMAIN list = 1 .. Len(list) /\ DOMAIN presets = 1 .. Len(presets)
        /\ Len(presets) \in Nat
    BY <1>1, <1>3, LenProperties
  <1>5. \A i \in DOMAIN presets : presets[i] # id
    BY DEF Create, PresetIDs
  <1>6. \A i, j \in DOMAIN list : list[i] = list[j] => i = j
    BY <1>1, <1>3, <1>4, <1>5 DEF Distinct
  <1> QED
    BY <1>2, <1>3, <1>6, EditedKeeps DEF Create

\* A preset less.
LEMMA DeleteKeeps ==
    ASSUME IInv, NEW id, Delete(id)
    PROVE  IInv' /\ scene'.active = scene.active /\ scene'.posed = scene.posed
  <1>1. presets \in Seq(IDs) /\ Distinct
    BY DEF IInv, Typed
  <1>2. PICK k \in DOMAIN presets : Edited(RemoveAt(presets, k))
    BY DEF Delete
  <1>3. PICK list : list = RemoveAt(presets, k)
    OBVIOUS
  <1>4. list \in Seq(IDs) /\ \A i, j \in DOMAIN list : list[i] = list[j] => i = j
    <2>1. /\ Len(presets) \in Nat /\ DOMAIN presets = 1 .. Len(presets)
          /\ k \in 1 .. Len(presets)
      BY <1>1, LenProperties
    <2>2. PICK a : a = SubSeq(presets, 1, k - 1)
      OBVIOUS
    <2>3. PICK b : b = SubSeq(presets, k + 1, Len(presets))
      OBVIOUS
    <2>4. list = a \o b
      BY <1>3, <2>2, <2>3 DEF RemoveAt
    <2>5. \A i \in 1 .. Len(presets) : presets[i] \in IDs
      BY <1>1, ElementOfSeq
    <2>6. /\ a \in Seq(IDs) /\ Len(a) = k - 1
          /\ \A i \in 1 .. k - 1 : a[i] = presets[i]
      <3>1. 1 \in Int /\ k - 1 \in Int /\ \A i \in 1 .. k - 1 : presets[i] \in IDs
        BY <2>1, <2>5
      <3>2. /\ a \in Seq(IDs) /\ Len(a) = IF 1 <= k - 1 THEN k - 1 - 1 + 1 ELSE 0
            /\ \A i \in 1 .. k - 1 - 1 + 1 : a[i] = presets[1 + i - 1]
        BY <2>2, <3>1, SubSeqProperties
      <3> QED
        BY <2>1, <3>2
    <2>7. /\ b \in Seq(IDs) /\ Len(b) = Len(presets) - k
          /\ \A i \in 1 .. Len(presets) - k : b[i] = presets[k + i]
      <3>1. /\ k + 1 \in Int /\ Len(presets) \in Int
            /\ \A i \in k + 1 .. Len(presets) : presets[i] \in IDs
        BY <2>1, <2>5
      <3>2. /\ b \in Seq(IDs)
            /\ Len(b) = IF k + 1 <= Len(presets) THEN Len(presets) - (k + 1) + 1 ELSE 0
            /\ \A i \in 1 .. Len(presets) - (k + 1) + 1 : b[i] = presets[k + 1 + i - 1]
        BY <2>3, <3>1, SubSeqProperties, SMTT(40)
      <3> QED
        BY <2>1, <3>2, SMTT(30)
    <2>8. /\ list \in Seq(IDs) /\ Len(list) = Len(presets) - 1
          /\ \A i \in 1 .. Len(presets) - 1 :
                list[i] = IF i <= k - 1 THEN presets[i] ELSE presets[i + 1]
      <3>1. /\ list \in Seq(IDs) /\ Len(list) = Len(a) + Len(b)
            /\ \A i \in 1 .. Len(a) + Len(b) :
                  list[i] = IF i <= Len(a) THEN a[i] ELSE b[i - Len(a)]
        BY <2>4, <2>6, <2>7, ConcatProperties
      <3>2. \A i \in 1 .. Len(presets) - 1 : i <= k - 1 => list[i] = presets[i]
        BY <2>1, <2>6, <2>7, <3>1
      <3>3. \A i \in 1 .. Len(presets) - 1 : ~(i <= k - 1) => list[i] = presets[i + 1]
        <4> TAKE i \in 1 .. Len(presets) - 1
        <4> HAVE ~(i <= k - 1)
        <4>1. i - Len(a) \in 1 .. Len(presets) - k /\ k + (i - Len(a)) = i + 1
          BY <2>1, <2>6
        <4> QED
          BY <2>1, <2>6, <2>7, <3>1, <4>1, SMTT(30)
      <3> QED
        BY <2>1, <2>6, <2>7, <3>1, <3>2, <3>3
    <2>9. DOMAIN list = 1 .. Len(presets) - 1
      BY <2>8, LenProperties
    <2>10. \A i, j \in 1 .. Len(presets) : presets[i] = presets[j] => i = j
      BY <1>1, <2>1 DEF Distinct
    <2>11. ASSUME NEW i \in DOMAIN list, NEW j \in DOMAIN list, list[i] = list[j]
           PROVE  i = j
      <3>1. PICK x \in 1 .. Len(presets) :
               x = (IF i <= k - 1 THEN i ELSE i + 1) /\ list[i] = presets[x]
        BY <2>1, <2>8, <2>9
      <3>2. PICK y \in 1 .. Len(presets) :
               y = (IF j <= k - 1 THEN j ELSE j + 1) /\ list[j] = presets[y]
        BY <2>1, <2>8, <2>9
      <3>3. x = y
        BY <2>10, <2>11, <3>1, <3>2
      <3> QED
        BY <2>1, <2>9, <3>1, <3>2, <3>3
    <2> QED
      BY <2>8, <2>11
  <1> QED
    BY <1>2, <1>3, <1>4, EditedKeeps

-----------------------------------------------------------------------------
(* The theorems.                                                            *)

\* The steps there are, an update told apart from the rest.
LEMMA NextIsAStep ==
    ASSUME Next
    PROVE  \/ \E refreshed \in BOOLEAN, timed \in {"stopped", "early", "due"},
                 sights \in Views, sight \in DraftSights :
                 Update(refreshed, timed, sights, sight)
           \/ Restart
           \/ Notice \/ StoreStep
           \/ \E m \in {Unknown} \cup {KnownAs(a) : a \in Animations} : Settle(m)
           \/ \E d \in {-1, 1} : Press(d)
           \/ BeginSession \/ BeginFrame \/ EndSession
           \/ \E live \in BOOLEAN, id \in IDs \cup {NoID} : Ask(live, id)
           \/ \E id \in IDs : Create(id) \/ Delete(id)
  <1>1. EditedIDs \subseteq IDs
    BY SelectionAssumption
  <1>2. CASE \E sights \in Views, sight \in DraftSights :
                \/ \E timed \in {"stopped", "early", "due"} : Update(TRUE, timed, sights, sight)
                \/ Update(FALSE, "stopped", sights, sight)
    <2>1. PICK sights \in Views, sight \in DraftSights :
                \/ \E timed \in {"stopped", "early", "due"} : Update(TRUE, timed, sights, sight)
                \/ Update(FALSE, "stopped", sights, sight)
      BY <1>2
    <2>2. \E refreshed \in BOOLEAN, timed \in {"stopped", "early", "due"} :
              Update(refreshed, timed, sights, sight)
      BY <2>1
    <2> QED
      BY <2>2, Zenon
  <1>3. CASE \E id \in EditedIDs \cup {NoID} : SetPreview(id) \/ ClearPreview(id)
    <2>1. PICK id \in IDs \cup {NoID} : SetPreview(id) \/ ClearPreview(id)
      BY <1>1, <1>3
    <2>2. Ask(TRUE, id) \/ Ask(FALSE, id)
      BY <2>1 DEF SetPreview, ClearPreview
    <2> QED
      BY <2>2, Zenon
  <1>4. CASE \E id \in EditedIDs : Create(id) \/ Delete(id)
    BY <1>1, <1>4, Zenon
  <1> QED
    BY <1>2, <1>3, <1>4, Zenon DEF Next

\* Steps that leave the preset and the camera as they are, or begin a scene.
Quiet == \/ scene'.active = scene.active /\ scene'.posed = scene.posed
         \/ scene'.number # scene.number

\* Every step keeps the invariant, and is of one of these kinds.
LEMMA StepKeeps ==
    ASSUME IInv, [Next]_vars
    PROVE  /\ IInv'
           /\ \/ Quiet
              \/ \E refreshed \in BOOLEAN, timed \in {"stopped", "early", "due"},
                    sights \in Views, sight \in DraftSights :
                    Update(refreshed, timed, sights, sight)
  <1>1. CASE UNCHANGED vars
    BY <1>1 DEF vars, Quiet, IInv, Typed, Distinct, Counted, Sound,
                AppliedWasPosted, GivenBack, Follows, PresetIDs
  <1>2. CASE \E refreshed \in BOOLEAN, timed \in {"stopped", "early", "due"},
                sights \in Views, sight \in DraftSights :
                Update(refreshed, timed, sights, sight)
    BY <1>2, UpdateKeeps
  <1>3. CASE Restart
    BY <1>3, RestartKeeps DEF Quiet
  <1>4. CASE Notice
    BY <1>4, NoticeKeeps DEF Quiet
  <1>5. CASE StoreStep
    BY <1>5, StoreStepKeeps DEF Quiet
  <1>6. CASE \E m \in {Unknown} \cup {KnownAs(a) : a \in Animations} : Settle(m)
    BY <1>6, SettleKeeps DEF Quiet
  <1>7. CASE \E d \in {-1, 1} : Press(d)
    BY <1>7, PressKeeps DEF Quiet, Press
  <1>8. CASE BeginSession \/ BeginFrame \/ EndSession
    BY <1>8, SessionKeeps DEF Quiet
  <1>9. CASE \E live \in BOOLEAN, id \in IDs \cup {NoID} : Ask(live, id)
    BY <1>9, AskKeeps DEF Quiet
  <1>10. CASE \E id \in IDs : Create(id) \/ Delete(id)
    BY <1>10, CreateKeeps, DeleteKeeps DEF Quiet
  <1>11. CASE Next
    BY <1>2, <1>3, <1>4, <1>5, <1>6, <1>7, <1>8, <1>9, <1>10, <1>11, NextIsAStep
  <1> QED
    BY <1>1, <1>11

\* The inductive invariant: besides the types, a camera that was given back
\* stays so until what was rated is out of date, and the list follows the
\* filters of its presets unless it is the rating of a draft.
THEOREM Invariance == Spec => []IInv
  <1>1. Init => IInv
    BY InitHolds
  <1>2. IInv /\ [Next]_vars => IInv'
    BY StepKeeps
  <1> QED
    BY <1>1, <1>2, PTL DEF Spec

\* Every variable keeps its type, and the published list never holds a preset
\* twice.
THEOREM TypeCorrect == Spec => []TypeOK
  <1>1. IInv => TypeOK
    <2> SUFFICES ASSUME IInv PROVE TypeOK
      OBVIOUS
    <2>1. Len(presets) = Cardinality(PresetIDs)
      BY DistinctIsCounted DEF IInv, Typed
    <2>2. scene \in SceneRecords
      BY DEF IInv, Sound
    <2>3. /\ scene.active \in IDs \cup {NoID} /\ scene.shown \in Seq(Candidates)
          /\ scene.applied \in Requests /\ scene.step \in -1 .. 1
          /\ \A f \in {"chosen", "anchor", "lost", "due", "draft", "current",
                       "enabled", "posed"} : scene[f] \in BOOLEAN
      BY <2>2 DEF SceneRecords, Directions
    <2> QED
      BY <2>1, <2>3 DEF TypeOK, IInv, Typed
  <1> QED
    BY <1>1, Invariance, PTL

\* Rating the presets anew never changes the chosen one, and neither takes nor
\* gives back the camera.
THEOREM SteadySelection == Spec => SelectionIsSteady
  <1> DEFINE Steady ==
        /\ GoesOn /\ scene'.active # scene.active =>
              \/ scene.step # 0
              \/ PreviewEnded(scene) /\ scene'.active = preview.request.id
              \/ scene'.active = NoID /\ scene.active \notin PresetIDs
        /\ GoesOn /\ scene'.posed # scene.posed =>
              \/ scene.posed /\ scene'.active \notin PresetIDs
              \/ ~scene.posed /\ \/ scene.step # 0 \/ preview.session
                                 \/ preview.request # scene.applied
                                 \/ ~scene.current /\ scene.active \in PresetIDs
  <1>1. IInv /\ [Next]_vars => Steady
    <2> SUFFICES ASSUME IInv, [Next]_vars, scene'.number = scene.number, scene.chosen
                 PROVE  Steady
      BY DEF GoesOn
    <2>1. CASE Quiet
      BY <2>1 DEF Quiet
    <2>2. CASE \E refreshed \in BOOLEAN, timed \in {"stopped", "early", "due"},
                  sights \in Views, sight \in DraftSights :
                  Update(refreshed, timed, sights, sight)
      BY <2>2, UpdateKeeps
    <2> QED
      BY <2>1, <2>2, StepKeeps
  <1> QED
    BY <1>1, Invariance, PTL DEF Spec, SelectionIsSteady

\* A key moves to a preset of the list whose sight was good and whose filter
\* takes the animation in force, unless the list is the rating of a draft.
THEOREM SteppedAsRated == Spec => StepsFollowTheRating
  <1> DEFINE Rightly ==
        GoesOn /\ scene'.active \notin {scene.active, NoID} /\ ~PreviewEnded(scene) =>
          /\ [id |-> scene'.active, usable |-> TRUE] \in
                {scene'.shown[i] : i \in DOMAIN scene'.shown}
          /\ Matches(Filters[scene'.active], metadata.ready) \/ scene'.draft
          /\ ~metadata.pending /\ ~scene'.lost
  <1>1. IInv /\ [Next]_vars => Rightly
    <2> SUFFICES ASSUME IInv, [Next]_vars, scene'.number = scene.number, scene.chosen,
                        scene'.active \notin {scene.active, NoID}, ~PreviewEnded(scene)
                 PROVE  /\ [id |-> scene'.active, usable |-> TRUE] \in
                              {scene'.shown[i] : i \in DOMAIN scene'.shown}
                        /\ Matches(Filters[scene'.active], metadata.ready) \/ scene'.draft
                        /\ ~metadata.pending /\ ~scene'.lost
      BY DEF GoesOn
    <2>1. PICK refreshed \in BOOLEAN, timed \in {"stopped", "early", "due"},
               sights \in Views, sight \in DraftSights :
               Update(refreshed, timed, sights, sight)
      BY StepKeeps DEF Quiet
    <2>2. /\ IInv' /\ scene'.current /\ ~metadata.pending /\ ~scene'.lost
          /\ \E i \in DOMAIN scene'.shown :
                scene'.shown[i].usable /\ scene'.shown[i].id = scene'.active
      BY <2>1, UpdateKeeps
    <2>3. UNCHANGED metadata
      BY <2>1 DEF Update
    <2>4. PICK i \in DOMAIN scene'.shown :
               scene'.shown[i].usable /\ scene'.shown[i].id = scene'.active
      BY <2>2
    <2>5. scene'.shown \in Seq(Candidates)
      BY <2>2 DEF IInv, Sound, SceneRecords
    <2>6. scene'.shown[i] \in Candidates
      BY <2>5, LenProperties, ElementOfSeq
    <2>7. scene'.shown[i] = [id |-> scene'.active, usable |-> TRUE]
      BY <2>4, <2>6 DEF Candidates
    <2>8. Matches(Filters[scene'.active], metadata.ready) \/ scene'.draft
      BY <2>2, <2>3, <2>4 DEF IInv, Sound, Follows
    <2> QED
      BY <2>2, <2>7, <2>8
  <1> QED
    BY <1>1, Invariance, PTL DEF Spec, StepsFollowTheRating

\* Whatever presets the editor has saved and deleted in the meantime, keys reach
\* every usable preset of the list, in one round, and a step back undoes one on.
THEOREM KeysGoRound == Spec => []StepsGoRound
  <1>1. IInv => StepsGoRound
    <2> SUFFICES ASSUME IInv PROVE StepsGoRound
      OBVIOUS
    <2>1. PICK list : list = scene.shown
      OBVIOUS
    <2>2. list \in Seq(Candidates) /\ Unique(list)
      BY <2>1 DEF IInv, Sound, SceneRecords, Follows
    <2>3. UsableIDs(list) # {} =>
              \A id \in IDsOf(list) \cup {NoID} : Step(list, id, 1) \in UsableIDs(list)
      BY <2>2, OnwardIsUsable
    <2>4. \A S \in SUBSET UsableIDs(list) :
              S # {} /\ (\A id \in S : Step(list, id, 1) \in S) => S = UsableIDs(list)
      BY <2>2, ClosedIsAll
    <2>5. \A id \in UsableIDs(list) : Step(list, Step(list, id, 1), -1) = id
      BY <2>2, BackUndoes
    <2> QED
      BY <2>1, <2>3, <2>4, <2>5, Zenon DEF StepsGoRound
  <1> QED
    BY <1>1, Invariance, PTL

=============================================================================
