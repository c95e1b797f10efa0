------------------------- MODULE AnimationUpdateProofs -------------------------
(***************************************************************************)
(* Proofs about AnimationUpdate, for any number of scenes, notifiers,      *)
(* animations, notices and edits.                                          *)
(***************************************************************************)
EXTENDS AnimationUpdate, FiniteSetTheorems, SequenceTheorems, WellFoundedInduction, TLAPS

-----------------------------------------------------------------------------
(* The inductive invariant.                                                 *)

ReceiptsAreBounded ==
    /\ position <= serial /\ through <= serial
    /\ \A k \in Keys : receipts[k].number <= serial
    /\ IsFiniteSet(Stamped)
    /\ ReceiptsAreKept

\* Stamps that some metadata or work is about, and 0 for none.
Spent == {coord.working, ready.revision, main.revision, main.result.revision,
          main.basis.metadata.revision, shown.evaluated.metadata.revision}

Posting == {n \in Notifiers : stamped[n] # <<>>}

\* A notice that is not handled yet: its stamp was not worked on, and if it is
\* the last one of its scene, so is its event.
Unhandled(notice) ==
    /\ notice.receipt <= serial /\ notice.receipt > 0
    /\ notice.receipt \notin Spent
    /\ receipts[notice.key].number = notice.receipt =>
          receipts[notice.key].event = notice.event

NoticesAreUnhandled ==
    /\ \A s \in Spent : s <= serial
    /\ \A n \in Posting : Unhandled(stamped[n][1])
    /\ \A i \in 1 .. Len(queue) : Unhandled(queue[i])

\* Each stamp is on its way once.
NoticesAreDistinct ==
    /\ \A n \in Posting :
          /\ \A o \in Posting : stamped[o][1].receipt = stamped[n][1].receipt => o = n
          /\ \A i \in 1 .. Len(queue) : queue[i].receipt # stamped[n][1].receipt
    /\ \A i, j \in 1 .. Len(queue) : queue[i].receipt = queue[j].receipt => i = j

\* A scene on hold has no metadata; work that an invalidation has not overtaken
\* is that of the hold; evaluated metadata is of an earlier one.
HoldIsOne ==
    /\ coord.active = NoKey => ~coord.pending /\ ready = NoMetadata
    /\ coord.pending => /\ ready = NoMetadata /\ coord.working > 0
                        /\ shown.evaluated.metadata.revision # coord.working
    /\ main.pc \in {"measure", "commit", "select"} => ~coord.pending
    /\ main.pc \in {"fetch", "publish"} =>
          /\ main.key \in Keys
          /\ \/ coord.active = NoKey
             \/ coord.active = main.key /\ coord.pending /\ coord.working = main.revision
    /\ main.pc = "publish" => main.result.revision = main.revision

\* Answers were asked for by the notice of the hold and came after it.
AnswersAreOfHold ==
    /\ coord.pending =>
          /\ coord.needID /\ receipts[coord.active].number = coord.working =>
                receipts[coord.active].event \in {"Start", "Stage"}
          /\ replies.id # NoReply => coord.needID
          /\ main.pc = "fetch" /\ main.request => coord.needID
          /\ replies.id.state = "ok" => replies.id.at >= coord.working
          /\ main.pc = "publish" /\ main.result.known =>
                coord.needID /\ main.result.at >= main.result.revision
    /\ ready.known =>
          /\ ready.at >= ready.revision
          /\ receipts[coord.active].number = ready.revision =>
                receipts[coord.active].event \in {"Start", "Stage"}

Whole(m) == m.known => m.name = m.id /\ m.tags = m.id

\* Names and tags are asked for only once the id is known.
RepliesAgree ==
    /\ Whole(ready) /\ Whole(store) /\ Whole(main.result)
    /\ \A r \in {replies.id, replies.name, replies.tags} : r.state = "none" => r = NoReply
    /\ \A r \in {replies.name, replies.tags} :
          r.state \in {"pending", "ok"} => replies.id.state = "ok" /\ r.id = replies.id.id
    /\ main.pc = "fetch" /\ main.request => replies.id = NoReply

VerdictsAreKept ==
    /\ main.pc = "commit" => /\ shown.filter.metadata = main.basis.metadata
                             /\ shown.filter.presets = main.basis.presets
    /\ main.pc = "select" => /\ shown.filter.metadata = shown.evaluated.metadata
                             /\ shown.filter.presets = shown.evaluated.presets

IInv ==
    /\ TypeOK
    /\ ReceiptsAreBounded
    /\ NoticesAreUnhandled /\ NoticesAreDistinct
    /\ HoldIsOne /\ AnswersAreOfHold
    /\ RepliesAgree /\ VerdictsAreKept

-----------------------------------------------------------------------------
(* Numbers, sets and sequences.                                             *)

LEMMA LeastNatural ==
    ASSUME NEW T, T \subseteq Nat, T # {}
    PROVE  \E m \in T : \A n \in T : m <= n
  <1> DEFINE less == {p \in Nat \X Nat : p[1] < p[2]}
  <1>1. IsWellFoundedOn(less, Nat)
    BY NatLessThanWellFounded, Zenon DEF OpToRel
  <1>2. \E m \in T : \A n \in T : ~ (<<n, m>> \in less)
    <2> HIDE DEF less
    <2> QED
      BY <1>1, WFMin, Zenon
  <1>3. \A m, n \in Nat : <<n, m>> \in less <=> n < m
    OBVIOUS
  <1>4. \A m, n \in Nat : ~ (n < m) => m <= n
    OBVIOUS
  <1> HIDE DEF less
  <1> QED
    BY <1>2, <1>3, <1>4

LEMMA HeadIsTyped ==
    ASSUME NEW S, NEW q \in Seq(S), q # <<>>
    PROVE  /\ Head(q) \in S /\ Head(q) = q[1] /\ Len(q) \in Nat \ {0}
           /\ Tail(q) \in Seq(S) /\ Len(Tail(q)) = Len(q) - 1
           /\ \A i \in 1 .. Len(q) - 1 : Tail(q)[i] = q[i + 1]
  BY HeadTailProperties

LEMMA NoticesAreTyped ==
    ASSUME TypeOK
    PROVE  /\ \A n \in Posting : stamped[n][1] \in Notice /\ stamped[n][1].receipt \in Nat
           /\ \A i \in 1 .. Len(queue) : queue[i] \in Notice /\ queue[i].receipt \in Nat
  <1>1. \A notice \in Notice : notice.receipt \in Nat
    BY DEF Notice, Stamps
  <1>2. \A n \in Posting : stamped[n][1] \in Notice
    BY DEF Posting, TypeOK
  <1>3. \A i \in 1 .. Len(queue) : queue[i] \in Notice
    BY DEF TypeOK
  <1> QED
    BY <1>1, <1>2, <1>3, Zenon

LEMMA NothingIsTyped ==
    /\ NoMetadata \in Metadata /\ NoBasis \in Basis
    /\ NoReplies \in [id : Reply, name : Reply, tags : Reply]
    /\ NoWork \in [pc : {"idle", "fetch", "publish", "measure", "commit", "select"},
                   key : Keys \cup {NoKey}, revision : Stamps, request : BOOLEAN,
                   result : Metadata, basis : Basis]
  <1>1. 0 \in Stamps /\ 0 \in 0 .. MaxEdits
    BY ConstantsAssumption DEF Stamps
  <1>2. NoMetadata \in Metadata
    BY <1>1 DEF NoMetadata, Metadata
  <1>3. NoBasis \in Basis
    BY <1>1, <1>2 DEF NoBasis, Basis
  <1>4. NoReply \in Reply
    BY <1>1 DEF NoReply, Reply
  <1> QED
    BY <1>1, <1>2, <1>3, <1>4 DEF NoReplies, NoWork

LEMMA SpentIsTyped ==
    ASSUME TypeOK
    PROVE  Spent \subseteq Stamps
  <1>1. \A m \in Metadata : m.revision \in Stamps
    BY DEF Metadata
  <1>2. \A b \in Basis : b.metadata \in Metadata
    BY DEF Basis
  <1>3. /\ coord.working \in Stamps /\ ready \in Metadata /\ main.revision \in Stamps
        /\ main.result \in Metadata /\ main.basis \in Basis /\ shown.evaluated \in Basis
    BY DEF TypeOK
  <1> QED
    BY <1>1, <1>2, <1>3 DEF Spent

-----------------------------------------------------------------------------
(* What a step that is about something else keeps.                          *)

SameNotices ==
    /\ \A k \in Keys : /\ receipts'[k].number = receipts[k].number
                       /\ receipts'[k].event = receipts[k].event
    /\ UNCHANGED serial

\* No receipt is given out and none is lost.
LEMMA ReceiptsStay ==
    ASSUME TypeOK, ReceiptsAreBounded, SameNotices, UNCHANGED <<position, through>>,
           coord'.active \in {coord.active, NoKey}
    PROVE  ReceiptsAreBounded'
  <1>1. Stamped' = Stamped
    BY DEF Stamped, SameNotices
  <1>2. coord'.active # NoKey => coord'.active \in Stamped'
    BY <1>1 DEF ReceiptsAreBounded, ReceiptsAreKept
  <1>3. IsFiniteSet(Stamped)' /\ (Cardinality(Stamped) <= Capacity)'
    BY <1>1 DEF ReceiptsAreBounded, ReceiptsAreKept
  <1> QED
    BY <1>2, <1>3 DEF ReceiptsAreBounded, ReceiptsAreKept, SameNotices

\* No notice is stamped, posted or handled, and no new stamp is worked on.
LEMMA NoticesStay ==
    ASSUME TypeOK, NoticesAreUnhandled, NoticesAreDistinct, SameNotices,
           UNCHANGED <<stamped, queue>>, Spent' \subseteq Spent \cup {0}
    PROVE  NoticesAreUnhandled' /\ NoticesAreDistinct'
  <1>1. Posting' = Posting
    BY DEF Posting
  <1>2. ASSUME NEW notice \in Notice, Unhandled(notice)
        PROVE  Unhandled(notice)'
    BY <1>2 DEF Unhandled, SameNotices, Notice
  <1>3. \A n \in Posting : stamped[n][1] \in Notice
    BY DEF Posting, TypeOK
  <1>4. \A i \in 1 .. Len(queue) : queue[i] \in Notice
    BY DEF TypeOK
  <1>5. \A n \in Posting' : Unhandled(stamped[n][1])'
    BY <1>1, <1>2, <1>3, Zenon DEF NoticesAreUnhandled
  <1>6. \A i \in 1 .. Len(queue') : Unhandled(queue[i])'
    BY <1>2, <1>4, Zenon DEF NoticesAreUnhandled
  <1>7. \A s \in Spent' : s <= serial'
    BY DEF NoticesAreUnhandled, SameNotices, TypeOK, Stamps
  <1>8. NoticesAreUnhandled'
    BY <1>5, <1>6, <1>7, Zenon DEF NoticesAreUnhandled
  <1>9. NoticesAreDistinct'
    BY <1>1 DEF NoticesAreDistinct
  <1> QED
    BY <1>8, <1>9

-----------------------------------------------------------------------------
(* The start.                                                               *)

LEMMA InitHolds == Init => IInv
  <1> SUFFICES ASSUME Init PROVE IInv
    OBVIOUS
  <1> USE ConstantsAssumption
  <1>1. TypeOK
    BY DEF Init, TypeOK, Stamps, Ages, Receipt, NoReceipt, EventTypes, Notice, Reply,
           NoReply, NoReplies, Metadata, NoMetadata, Basis, NoBasis, NoWork
  <1>2. Stamped = {} /\ Posting = {}
    BY DEF Init, Stamped, Posting, NoReceipt
  <1>3. ReceiptsAreBounded
    BY <1>2, FS_EmptySet DEF Init, ReceiptsAreBounded, ReceiptsAreKept, NoReceipt
  <1>4. NoticesAreUnhandled /\ NoticesAreDistinct
    BY <1>2 DEF Init, NoticesAreUnhandled, NoticesAreDistinct, Spent, NoWork, NoBasis,
                NoMetadata
  <1>5. HoldIsOne /\ AnswersAreOfHold
    BY DEF Init, HoldIsOne, AnswersAreOfHold, NoWork, NoMetadata
  <1>6. RepliesAgree /\ VerdictsAreKept
    BY DEF Init, RepliesAgree, VerdictsAreKept, Whole, NoWork, NoMetadata, NoReplies,
           NoReply
  <1> QED
    BY <1>1, <1>3, <1>4, <1>5, <1>6 DEF IInv

-----------------------------------------------------------------------------
(* Notifiers.                                                               *)

LEMMA PostKeeps ==
    ASSUME IInv, NEW n \in Notifiers, Post(n)
    PROVE  IInv'
  <1> USE DEF IInv, boundary
  <1>1. PICK notice : notice = stamped[n][1]
    OBVIOUS
  <1>2. notice \in Notice /\ stamped[n] = <<notice>> /\ n \in Posting
    BY <1>1 DEF Post, TypeOK, Posting
  <1>3. queue' = Append(queue, notice) /\ queue \in Seq(Notice)
    BY <1>2 DEF Post, TypeOK
  <1>4. /\ queue' \in Seq(Notice) /\ Len(queue') = Len(queue) + 1
        /\ queue'[Len(queue) + 1] = notice
        /\ \A i \in 1 .. Len(queue) : queue'[i] = queue[i]
    BY <1>2, <1>3, AppendProperties
  <1>5. /\ stamped' \in [Notifiers -> Seq(Notice)] /\ stamped'[n] = <<>>
        /\ \A o \in Notifiers \ {n} : stamped'[o] = stamped[o]
        /\ \A o \in Notifiers : Len(stamped'[o]) <= 1
    BY DEF Post, TypeOK
  <1>6. Posting' = Posting \ {n}
    BY <1>5 DEF Posting
  <1>7. TypeOK'
    BY <1>4, <1>5 DEF TypeOK, Post
  <1>8. ReceiptsAreBounded'
    BY DEF ReceiptsAreBounded, ReceiptsAreKept, Stamped, Post
  <1>9. NoticesAreUnhandled'
    <2>1. Spent' = Spent /\ serial' = serial /\ receipts' = receipts
      BY DEF Spent, Post
    <2>2. \A o \in Posting' : Unhandled(stamped[o][1])'
      BY <1>5, <1>6, <2>1 DEF NoticesAreUnhandled, Unhandled, Posting
    <2>3. ASSUME NEW i \in 1 .. Len(queue')
          PROVE  Unhandled(queue[i])'
      <3>1. CASE i = Len(queue) + 1
        BY <1>1, <1>2, <1>4, <2>1, <3>1 DEF NoticesAreUnhandled, Unhandled
      <3>2. CASE i \in 1 .. Len(queue)
        BY <1>4, <2>1, <3>2 DEF NoticesAreUnhandled, Unhandled
      <3> QED
        BY <1>3, <1>4, <3>1, <3>2
    <2>4. \A s \in Spent' : s <= serial'
      BY <2>1 DEF NoticesAreUnhandled
    <2> QED
      BY <2>2, <2>3, <2>4, Zenon DEF NoticesAreUnhandled
  <1>10. NoticesAreDistinct'
    <2>1. ASSUME NEW o \in Posting', NEW i \in 1 .. Len(queue')
          PROVE  queue'[i].receipt # stamped'[o][1].receipt
      <3>1. o \in Posting /\ o # n /\ stamped'[o] = stamped[o]
        BY <1>5, <1>6 DEF Posting
      <3>2. CASE i = Len(queue) + 1
        BY <1>1, <1>2, <1>4, <3>1, <3>2 DEF NoticesAreDistinct
      <3>3. CASE i \in 1 .. Len(queue)
        BY <1>4, <3>1, <3>3 DEF NoticesAreDistinct
      <3> QED
        BY <1>3, <1>4, <3>2, <3>3
    <2>2. \A o, p \in Posting' : stamped'[p][1].receipt = stamped'[o][1].receipt => p = o
      BY <1>5, <1>6 DEF NoticesAreDistinct, Posting
    <2>3. ASSUME NEW i \in 1 .. Len(queue'), NEW j \in 1 .. Len(queue'),
                 queue'[i].receipt = queue'[j].receipt
          PROVE  i = j
      <3>1. CASE i \in 1 .. Len(queue) /\ j \in 1 .. Len(queue)
        BY <1>4, <2>3, <3>1 DEF NoticesAreDistinct
      <3>2. CASE i = Len(queue) + 1 /\ j \in 1 .. Len(queue)
        BY <1>1, <1>2, <1>4, <2>3, <3>2 DEF NoticesAreDistinct
      <3>3. CASE i \in 1 .. Len(queue) /\ j = Len(queue) + 1
        BY <1>1, <1>2, <1>4, <2>3, <3>3 DEF NoticesAreDistinct
      <3>4. CASE i = Len(queue) + 1 /\ j = Len(queue) + 1
        BY <3>4
      <3> QED
        BY <1>3, <1>4, <3>1, <3>2, <3>3, <3>4
    <2> QED
      BY <2>1, <2>2, <2>3 DEF NoticesAreDistinct
  <1>11. HoldIsOne' /\ AnswersAreOfHold' /\ RepliesAgree' /\ VerdictsAreKept'
    BY DEF HoldIsOne, AnswersAreOfHold, RepliesAgree, VerdictsAreKept, Whole, Post
  <1> QED
    BY <1>7, <1>8, <1>9, <1>10, <1>11

\* Making room takes one receipt, never that of the scene followed.
LEMMA EvictionMakesRoom ==
    ASSUME TypeOK, ReceiptsAreBounded, NEW k \in Keys
    PROVE  /\ Evicted(k) \subseteq Stamped \ {coord.active}
           /\ k \notin Evicted(k)
           /\ IsFiniteSet((Stamped \ Evicted(k)) \cup {k})
           /\ Cardinality((Stamped \ Evicted(k)) \cup {k}) <= Capacity
  <1> USE ConstantsAssumption
  <1>1. Evicted(k) \subseteq Stamped \ {coord.active} /\ k \notin Evicted(k)
    BY DEF Evicted
  <1>2. IsFiniteSet(Stamped) /\ Cardinality(Stamped) \in Nat /\ Cardinality(Stamped) <= Capacity
    BY FS_CardinalityType DEF ReceiptsAreBounded, ReceiptsAreKept
  <1>3. PICK rest : rest = Stamped \ Evicted(k)
    OBVIOUS
  <1>4. IsFiniteSet(rest) /\ Cardinality(rest) \in Nat /\ Cardinality(rest) <= Cardinality(Stamped)
    BY <1>2, <1>3, FS_Subset, FS_CardinalityType
  <1>5. IsFiniteSet(rest \cup {k})
        /\ Cardinality(rest \cup {k}) = IF k \in rest THEN Cardinality(rest) ELSE Cardinality(rest) + 1
    BY <1>4, FS_AddElement
  <1>6. CASE k \in Stamped
    <2>1. Evicted(k) = {}
      BY <1>6 DEF Evicted
    <2> QED
      BY <1>1, <1>2, <1>3, <1>4, <1>5, <1>6, <2>1
  <1>7. CASE k \notin Stamped /\ Cardinality(Stamped) < Capacity
    BY <1>1, <1>2, <1>3, <1>4, <1>5, <1>7
  <1>8. CASE k \notin Stamped /\ ~ Cardinality(Stamped) < Capacity
    <2>1. PICK others : others = Stamped \ {coord.active}
      OBVIOUS
    <2>2. IsFiniteSet(others) /\ Cardinality(others) >= Cardinality(Stamped) - 1
      BY <1>2, <2>1, FS_RemoveElement, SMTT(30)
    <2>3. others # {} /\ others \subseteq Nat
      <3>1. Cardinality(others) # 0
        BY <1>2, <1>8, <2>2
      <3>2. others # {}
        BY <3>1, FS_EmptySet
      <3> QED
        BY <2>1, <3>2 DEF Stamped
    <2>4. PICK o \in others : \A p \in others : o <= p
      BY <2>3, LeastNatural
    <2>5. o \in Evicted(k)
      BY <1>2, <1>8, <2>1, <2>4 DEF Evicted
    <2>6. rest \subseteq Stamped \ {o} /\ o \in Stamped
      BY <1>3, <2>1, <2>4, <2>5
    <2>7. IsFiniteSet(Stamped \ {o}) /\ Cardinality(Stamped \ {o}) = Cardinality(Stamped) - 1
      BY <1>2, <2>6, FS_RemoveElement
    <2>8. Cardinality(rest) <= Cardinality(Stamped) - 1
      BY <2>6, <2>7, FS_Subset
    <2> QED
      BY <1>1, <1>2, <1>3, <1>4, <1>5, <2>8
  <1> QED
    BY <1>2, <1>6, <1>7, <1>8

LEMMA ReceiveKeeps ==
    ASSUME IInv, NEW n \in Notifiers, NEW event \in EventTypes, NEW k \in Keys,
           Receive(n, event, k)
    PROVE  IInv'
  <1> USE DEF IInv
  <1>0. serial \in Nat /\ serial' = serial + 1 /\ serial' \in Stamps
    BY ConstantsAssumption DEF Receive, TypeOK, Stamps
  <1>1. PICK gone : gone = Evicted(k)
    OBVIOUS
  <1>2. /\ gone \subseteq Stamped /\ coord.active \notin gone /\ k \notin gone
        /\ IsFiniteSet((Stamped \ gone) \cup {k})
        /\ Cardinality((Stamped \ gone) \cup {k}) <= Capacity
    BY <1>1, EvictionMakesRoom
  <1>3. receipts' = [o \in Keys |->
                      IF o = k /\ event # "Relocated"
                      THEN [number |-> serial + 1, event |-> event, age |-> 0]
                      ELSE IF o \in gone THEN NoReceipt ELSE receipts[o]]
    BY <1>1 DEF Receive
  <1>4. PICK notice : notice = [event |-> event, key |-> k, receipt |-> serial + 1]
    OBVIOUS
  <1>5. notice \in Notice
    BY <1>0, <1>4 DEF Notice
  <1>6. /\ stamped[n] = <<>> /\ stamped' = [stamped EXCEPT ![n] = <<notice>>]
        /\ UNCHANGED queue
    BY <1>4 DEF Receive
  <1>7. stamped' \in [Notifiers -> Seq(Notice)] /\ \A o \in Notifiers : Len(stamped'[o]) <= 1
    BY <1>5, <1>6 DEF TypeOK
  <1>8. Posting' = Posting \cup {n} /\ n \notin Posting /\ stamped'[n][1] = notice
        /\ \A o \in Posting : stamped'[o] = stamped[o]
    BY <1>6, <1>7 DEF Posting, TypeOK
  <1>9. receipts' \in [Keys -> Receipt]
    BY <1>0, <1>3, ConstantsAssumption DEF TypeOK, Receipt, NoReceipt, EventTypes, Stamps, Ages
  <1>10. position' \in Stamps /\ position' <= serial'
    BY <1>0, ConstantsAssumption DEF Receive, TypeOK, Stamps, ReceiptsAreBounded
  <1>11. TypeOK'
    BY <1>0, <1>7, <1>9, <1>10 DEF Receive, TypeOK
  <1>12. ReceiptsAreBounded'
    <2>1. Stamped' \subseteq (Stamped \ gone) \cup {k}
      BY <1>2, <1>3 DEF Stamped, NoReceipt
    <2>2. IsFiniteSet(Stamped') /\ Cardinality(Stamped') <= Capacity
      <3>1. /\ Cardinality(Stamped') \in Nat
            /\ Cardinality((Stamped \ gone) \cup {k}) \in Nat
            /\ IsFiniteSet(Stamped')
            /\ Cardinality(Stamped') <= Cardinality((Stamped \ gone) \cup {k})
        BY <1>2, <2>1, FS_Subset, FS_CardinalityType
      <3> QED
        BY <1>2, <3>1, ConstantsAssumption
    <2>3. \A o \in Keys : receipts'[o].number <= serial'
      BY <1>0, <1>3 DEF ReceiptsAreBounded, NoReceipt, TypeOK, Receipt, Stamps
    <2>4. coord'.active # NoKey => coord'.active \in Stamped'
      BY <1>0, <1>2, <1>3 DEF ReceiptsAreBounded, ReceiptsAreKept, Stamped, Receive
    <2>5. through' <= serial'
      BY <1>0 DEF ReceiptsAreBounded, Receive, TypeOK, Stamps
    <2> QED
      BY <1>10, <2>2, <2>3, <2>4, <2>5 DEF ReceiptsAreBounded, ReceiptsAreKept
  <1>13. Spent' = Spent /\ \A s \in Spent : s \in Nat /\ s <= serial
    <2>1. Spent' = Spent
      BY DEF Spent, Receive
    <2>2. \A s \in Spent : s \in Stamps
      BY SpentIsTyped
    <2> QED
      BY <2>1, <2>2 DEF NoticesAreUnhandled, Stamps
  <1>14. NoticesAreUnhandled'
    <2>1. ASSUME NEW old \in Notice, Unhandled(old)
          PROVE  Unhandled(old)'
      <3>1. old.receipt \in Nat /\ old.key \in Keys /\ old.receipt <= serial /\ old.receipt > 0
            /\ old.receipt \notin Spent
        BY <2>1 DEF Unhandled, Notice, Stamps
      <3>2. receipts'[old.key].number = old.receipt => receipts'[old.key].event = old.event
        BY <1>0, <1>3, <2>1, <3>1 DEF Unhandled, NoReceipt
      <3> QED
        BY <1>0, <1>13, <3>1, <3>2 DEF Unhandled
    <2>2. Unhandled(notice)'
      <3>1. receipts'[k].number = serial + 1 => receipts'[k].event = event
        BY <1>0, <1>2, <1>3 DEF ReceiptsAreBounded, TypeOK, Receipt, Stamps
      <3> QED
        BY <1>0, <1>4, <1>13, <3>1 DEF Unhandled
    <2>3. \A o \in Posting : stamped[o][1] \in Notice
      BY DEF Posting, TypeOK
    <2>4. \A i \in 1 .. Len(queue) : queue[i] \in Notice
      BY DEF TypeOK
    <2>5. ASSUME NEW o \in Posting' PROVE Unhandled(stamped[o][1])'
      <3>1. CASE o = n
        BY <1>8, <2>2, <3>1 DEF Unhandled
      <3>2. CASE o \in Posting
        <4>1. Unhandled(stamped[o][1])
          BY <3>2 DEF NoticesAreUnhandled
        <4>2. PICK old : old = stamped[o][1]
          OBVIOUS
        <4>3. Unhandled(old)'
          BY <2>1, <2>3, <3>2, <4>1, <4>2
        <4> QED
          BY <1>8, <3>2, <4>2, <4>3 DEF Unhandled
      <3> QED
        BY <1>8, <3>1, <3>2
    <2>6. ASSUME NEW i \in 1 .. Len(queue') PROVE Unhandled(queue[i])'
      <3>1. PICK old : old = queue[i]
        OBVIOUS
      <3>2. Unhandled(old)'
        BY <1>6, <2>1, <2>4, <3>1 DEF NoticesAreUnhandled
      <3> QED
        BY <1>6, <3>1, <3>2 DEF Unhandled
    <2> QED
      BY <1>0, <1>13, <2>5, <2>6 DEF NoticesAreUnhandled
  <1>15. NoticesAreDistinct'
    <2>1. \A o \in Posting : stamped[o][1].receipt \in Nat /\ stamped[o][1].receipt <= serial
      BY NoticesAreTyped, Zenon DEF NoticesAreUnhandled, Unhandled
    <2>2. \A i \in 1 .. Len(queue) : queue[i].receipt \in Nat /\ queue[i].receipt <= serial
      BY NoticesAreTyped, Zenon DEF NoticesAreUnhandled, Unhandled
    <2>3. notice.receipt = serial + 1
      BY <1>4
    <2>4. \A o, p \in Posting' : stamped'[p][1].receipt = stamped'[o][1].receipt => p = o
      BY <1>0, <1>8, <2>1, <2>3 DEF NoticesAreDistinct
    <2>5. \A o \in Posting', i \in 1 .. Len(queue') : queue'[i].receipt # stamped'[o][1].receipt
      BY <1>0, <1>6, <1>8, <2>2, <2>3 DEF NoticesAreDistinct
    <2> QED
      BY <1>6, <2>4, <2>5 DEF NoticesAreDistinct
  <1>16. HoldIsOne'
    BY DEF HoldIsOne, Receive
  <1>17. AnswersAreOfHold'
    <2>1. \A s \in Spent : coord.active \in Keys /\ receipts'[coord.active].number = s =>
             receipts'[coord.active] = receipts[coord.active]
      BY <1>0, <1>2, <1>3, <1>13
    <2>2. coord.working \in Spent /\ ready.revision \in Spent
      BY DEF Spent
    <2>3. /\ coord.pending => coord.active \in Keys
          /\ ready.known => coord.active \in Keys
      BY DEF HoldIsOne, TypeOK, NoMetadata
    <2> QED
      BY <2>1, <2>2, <2>3 DEF AnswersAreOfHold, Receive
  <1>18. RepliesAgree' /\ VerdictsAreKept'
    BY DEF RepliesAgree, VerdictsAreKept, Whole, Receive
  <1> QED
    BY <1>11, <1>12, <1>14, <1>15, <1>16, <1>17, <1>18

-----------------------------------------------------------------------------
(* The main thread: notices.                                                *)

\* What handling a notice does to the hold.
LEMMA ObservedNotice ==
    ASSUME IInv, Observe
    PROVE  \E notice \in Notice :
              /\ queue # <<>> /\ notice = queue[1] /\ queue' = Tail(queue)
              /\ Unhandled(notice) /\ main.pc = "idle"
              /\ \/ /\ Ends(notice) /\ coord' = Forgotten(coord)
                    /\ ready' = NoMetadata /\ replies' = NoReplies /\ store' = NoMetadata
                 \/ /\ ~Ends(notice) /\ Starts(notice) /\ coord' = Started(notice)
                    /\ ready' = NoMetadata /\ replies' = NoReplies
                    /\ store' \in {store, NoMetadata}
                 \/ /\ ~Ends(notice) /\ ~Starts(notice) /\ Follows(notice)
                    /\ coord' = [coord EXCEPT !.active = notice.key, !.handled = Handled]
                    /\ ready' = ready /\ replies' = replies
                    /\ store' \in {store, NoMetadata}
                 \/ /\ ~Follows(notice)
                    /\ UNCHANGED <<coord, ready, replies, store>>
  <1> USE DEF IInv
  <1>1. queue \in Seq(Notice) /\ queue # <<>> /\ 1 \in 1 .. Len(queue)
    BY HeadIsTyped DEF Observe, TypeOK
  <1>2. Head(queue) \in Notice /\ Head(queue) = queue[1]
    BY <1>1, HeadIsTyped
  <1>3. Unhandled(Head(queue))
    BY <1>1, <1>2 DEF NoticesAreUnhandled
  <1>4. PICK notice : notice = Head(queue)
    OBVIOUS
  <1>5. /\ main.pc = "idle" /\ queue' = Tail(queue)
        /\ coord' = IF Ends(notice) THEN Forgotten(coord)
                    ELSE IF Starts(notice) THEN Started(notice)
                    ELSE IF Follows(notice)
                    THEN [coord EXCEPT !.active = notice.key, !.handled = Handled]
                    ELSE coord
        /\ ready' = IF Starts(notice) \/ Ends(notice) THEN NoMetadata ELSE ready
        /\ replies' = IF Starts(notice) \/ Ends(notice) THEN NoReplies ELSE replies
        /\ store' = IF Ends(notice) \/ (Follows(notice) /\ coord.active = NoKey)
                    THEN NoMetadata ELSE store
    BY <1>4 DEF Observe, ForgottenReplies
  <1>6. (Ends(notice) => Follows(notice)) /\ (Starts(notice) => Follows(notice))
    BY DEF Ends, Starts
  <1>7. Unhandled(notice)
    BY <1>3, <1>4
  <1> HIDE DEF Ends, Starts, Follows, Forgotten, Started, Unhandled
  <1> notice \in Notice
    BY <1>2, <1>4
  <1> WITNESS notice \in Notice
  <1> QED
    BY <1>1, <1>2, <1>4, <1>5, <1>6, <1>7

LEMMA ObserveKeeps ==
    ASSUME IInv, Observe
    PROVE  IInv'
  <1> USE DEF IInv
  <1>1. PICK notice \in Notice :
              /\ queue # <<>> /\ notice = queue[1] /\ queue' = Tail(queue)
              /\ Unhandled(notice) /\ main.pc = "idle"
              /\ \/ /\ Ends(notice) /\ coord' = Forgotten(coord)
                    /\ ready' = NoMetadata /\ replies' = NoReplies /\ store' = NoMetadata
                 \/ /\ ~Ends(notice) /\ Starts(notice) /\ coord' = Started(notice)
                    /\ ready' = NoMetadata /\ replies' = NoReplies
                    /\ store' \in {store, NoMetadata}
                 \/ /\ ~Ends(notice) /\ ~Starts(notice) /\ Follows(notice)
                    /\ coord' = [coord EXCEPT !.active = notice.key, !.handled = Handled]
                    /\ ready' = ready /\ replies' = replies
                    /\ store' \in {store, NoMetadata}
                 \/ /\ ~Follows(notice)
                    /\ UNCHANGED <<coord, ready, replies, store>>
    BY ObservedNotice
  <1>2. UNCHANGED <<serial, through, position, receipts, stamped, presets, main, shown>>
    BY DEF Observe
  <1>3. /\ notice.key \in Keys /\ notice.event \in EventTypes /\ notice.receipt \in Stamps
        /\ notice.receipt \in Nat
    BY DEF Notice, Stamps
  <1>4. coord.active = NoKey \/ coord.active \in Stamped
    BY DEF ReceiptsAreBounded, ReceiptsAreKept
  <1>5. /\ Follows(notice) => /\ notice.key \in Stamped
                              /\ coord.active \in {NoKey, notice.key}
    BY <1>3 DEF Follows, Live, Adopts, Stamped
  <1>6. /\ \/ coord'.active \in {coord.active, NoKey}
           \/ Follows(notice) /\ coord'.active = notice.key
        /\ coord'.working \in {coord.working, notice.receipt}
    <2>1. CASE coord' = Forgotten(coord)
      BY <2>1 DEF Forgotten, TypeOK
    <2>2. CASE Starts(notice) /\ coord' = Started(notice)
      BY <2>2 DEF Started, Starts
    <2>3. CASE Follows(notice) /\ coord' = [coord EXCEPT !.active = notice.key, !.handled = Handled]
      BY <2>3 DEF TypeOK
    <2>4. CASE coord' = coord
      BY <2>4
    <2> QED
      BY <1>1, <2>1, <2>2, <2>3, <2>4
  <1>7. TypeOK'
    <2>1. queue' \in Seq(Notice)
      BY <1>1, HeadIsTyped DEF TypeOK
    <2>2. coord' \in [active : Keys \cup {NoKey}, working : Stamps, handled : Stamps,
                      pending : BOOLEAN, needID : BOOLEAN, age : Ages]
      <3>1. CASE coord' = Forgotten(coord)
        BY <3>1 DEF TypeOK, Forgotten
      <3>2. CASE coord' = Started(notice)
        BY <1>3, <3>2 DEF TypeOK, Started, Receipt
      <3>3. CASE coord' = [coord EXCEPT !.active = notice.key, !.handled = Handled]
        <4>1. Handled \in Stamps
          BY ConstantsAssumption DEF Handled, TypeOK, Stamps
        <4> QED
          BY <1>3, <3>3, <4>1 DEF TypeOK
      <3>4. CASE coord' = coord
        BY <3>4 DEF TypeOK
      <3> QED
        BY <1>1, <3>1, <3>2, <3>3, <3>4
    <2>3. NoMetadata \in Metadata /\ NoReplies \in [id : Reply, name : Reply, tags : Reply]
      BY NothingIsTyped
    <2>4. /\ ready' \in Metadata /\ store' \in Metadata
          /\ replies' \in [id : Reply, name : Reply, tags : Reply]
      BY <1>1, <2>3 DEF TypeOK
    <2> QED
      BY <1>2, <2>1, <2>2, <2>4 DEF TypeOK
  <1>8. ReceiptsAreBounded'
    <2>2. Stamped' = Stamped
      BY <1>2 DEF Stamped
    <2> QED
      BY <1>2, <1>4, <1>5, <1>6, <2>2 DEF ReceiptsAreBounded, ReceiptsAreKept
  <1>9. Spent' \subseteq Spent \cup {0, notice.receipt}
    <2>2. ready'.revision \in {ready.revision, 0}
      BY <1>1 DEF NoMetadata
    <2> QED
      BY <1>2, <1>6, <2>2 DEF Spent
  <1>10. /\ \A i \in 1 .. Len(queue') : i + 1 \in 2 .. Len(queue) /\ queue'[i] = queue[i + 1]
        /\ Len(queue) \in Nat /\ Len(queue) >= 1 /\ Len(queue') = Len(queue) - 1
    <2>1. /\ Len(queue) \in Nat \ {0} /\ Len(queue') = Len(queue) - 1
          /\ \A i \in 1 .. Len(queue) - 1 : queue'[i] = queue[i + 1]
      BY <1>1, HeadIsTyped DEF TypeOK
    <2> QED
      BY <2>1
  <1>11. Posting' = Posting
    BY <1>2 DEF Posting
  <1>12. NoticesAreUnhandled'
    <2>1. ASSUME NEW other \in Notice, Unhandled(other), other.receipt # notice.receipt
          PROVE  Unhandled(other)'
      BY <1>2, <1>9, <2>1 DEF Unhandled
    <2>2. ASSUME NEW n \in Posting'
          PROVE  Unhandled(stamped[n][1])'
      <3>1. PICK other : other = stamped[n][1]
        OBVIOUS
      <3>2. other \in Notice /\ Unhandled(other) /\ other.receipt # notice.receipt
        BY <1>1, <1>10, <1>11, <3>1, NoticesAreTyped DEF NoticesAreUnhandled, NoticesAreDistinct
      <3>3. Unhandled(other)'
        BY <2>1, <3>2
      <3> QED
        BY <1>2, <3>1, <3>3 DEF Unhandled
    <2>3. ASSUME NEW i \in 1 .. Len(queue')
          PROVE  Unhandled(queue[i])'
      <3>1. PICK other : other = queue[i + 1]
        OBVIOUS
      <3>2. i + 1 \in 1 .. Len(queue) /\ i + 1 # 1 /\ queue'[i] = other
        BY <1>10, <3>1
      <3>3. other \in Notice /\ Unhandled(other) /\ other.receipt # notice.receipt
        BY <1>1, <1>10, <3>1, <3>2, NoticesAreTyped DEF NoticesAreUnhandled, NoticesAreDistinct
      <3>4. Unhandled(other)'
        BY <2>1, <3>3
      <3> QED
        BY <3>2, <3>4 DEF Unhandled
    <2>4. \A s \in Spent' : s <= serial'
      BY <1>1, <1>2, <1>9, ConstantsAssumption, SMTT(30) DEF NoticesAreUnhandled, Unhandled, TypeOK, Stamps
    <2> QED
      BY <2>2, <2>3, <2>4 DEF NoticesAreUnhandled
  <1>13. NoticesAreDistinct'
    <2>1. \A n \in Posting', i \in 1 .. Len(queue') :
             queue'[i].receipt # stamped'[n][1].receipt
      <3> SUFFICES ASSUME NEW n \in Posting', NEW i \in 1 .. Len(queue')
                   PROVE  queue'[i].receipt # stamped'[n][1].receipt
        OBVIOUS
      <3>1. i + 1 \in 1 .. Len(queue) /\ queue'[i] = queue[i + 1]
        BY <1>10
      <3> QED
        BY <1>2, <1>11, <3>1 DEF NoticesAreDistinct
    <2>2. ASSUME NEW i \in 1 .. Len(queue'), NEW j \in 1 .. Len(queue'),
                 queue'[i].receipt = queue'[j].receipt
          PROVE  i = j
      <3>1. i + 1 \in 1 .. Len(queue) /\ j + 1 \in 1 .. Len(queue)
            /\ queue'[i] = queue[i + 1] /\ queue'[j] = queue[j + 1]
        BY <1>10
      <3>2. i + 1 = j + 1
        BY <2>2, <3>1 DEF NoticesAreDistinct
      <3> QED
        BY <1>10, <3>2
    <2> QED
      BY <1>2, <1>11, <2>1, <2>2 DEF NoticesAreDistinct
  <1>14. HoldIsOne' /\ AnswersAreOfHold'
    <2>1. CASE coord' = Forgotten(coord) /\ ready' = NoMetadata
      BY <1>1, <1>2, <2>1 DEF HoldIsOne, AnswersAreOfHold, Forgotten, NoMetadata, TypeOK
    <2>2. CASE Starts(notice) /\ coord' = Started(notice)
               /\ ready' = NoMetadata /\ replies' = NoReplies
      <3>1. /\ coord'.active = notice.key /\ coord'.pending /\ coord'.working = notice.receipt
            /\ coord'.needID = (notice.event \in {"Start", "Stage"})
        BY <2>2 DEF Started
      <3>2. receipts[notice.key].event = notice.event /\ notice.receipt > 0
            /\ notice.receipt \notin Spent
        BY <1>1, <2>2 DEF Starts, Unhandled
      <3>3. shown'.evaluated.metadata.revision # notice.receipt
        BY <1>2, <3>2 DEF Spent
      <3> QED
        BY <1>1, <1>2, <1>3, <2>2, <3>1, <3>2, <3>3, ConstantsAssumption
        DEF HoldIsOne, AnswersAreOfHold, NoMetadata, NoReplies, NoReply
    <2>3. CASE /\ Follows(notice)
               /\ coord' = [coord EXCEPT !.active = notice.key, !.handled = Handled]
               /\ ready' = ready /\ replies' = replies
      <3>1. /\ coord'.active = notice.key /\ coord'.pending = coord.pending
            /\ coord'.working = coord.working /\ coord'.needID = coord.needID
        BY <2>3 DEF TypeOK
      <3>2. CASE coord.active = NoKey
        BY <1>1, <1>2, <1>3, <2>3, <3>1, <3>2, ConstantsAssumption
        DEF HoldIsOne, AnswersAreOfHold, NoMetadata
      <3>3. CASE coord.active = notice.key
        BY <1>1, <1>2, <1>3, <2>3, <3>1, <3>3, ConstantsAssumption DEF HoldIsOne, AnswersAreOfHold
      <3> QED
        BY <1>5, <2>3, <3>2, <3>3
    <2>4. CASE UNCHANGED <<coord, ready, replies>>
      BY <1>2, <2>4 DEF HoldIsOne, AnswersAreOfHold
    <2> QED
      BY <1>1, <2>1, <2>2, <2>3, <2>4
  <1>15. RepliesAgree'
    BY <1>1, <1>2 DEF RepliesAgree, Whole, NoMetadata, NoReplies, NoReply
  <1>16. VerdictsAreKept'
    BY <1>2 DEF VerdictsAreKept
  <1> QED
    BY <1>7, <1>8, <1>12, <1>13, <1>14, <1>15, <1>16

LEMMA ClearActiveKeeps ==
    ASSUME IInv, ClearActive
    PROVE  IInv'
  <1> USE DEF IInv
  <1>1. /\ coord' = Forgotten(coord) /\ ready' = NoMetadata /\ store' = NoMetadata
        /\ shown' = [shown EXCEPT !.evaluated = NoBasis] /\ main.pc = "idle"
        /\ UNCHANGED <<serial, through, position, receipts, replies, stamped, queue,
                       presets, main>>
    BY DEF ClearActive, ForgetsMetadata
  <1>2. TypeOK'
    <2>1. /\ NoMetadata \in Metadata /\ NoBasis \in Basis
          /\ coord' \in [active : Keys \cup {NoKey}, working : Stamps, handled : Stamps,
                         pending : BOOLEAN, needID : BOOLEAN, age : Ages]
      BY <1>1, NothingIsTyped DEF TypeOK, Forgotten
    <2>2. shown' \in [evaluated : Basis, filter : Basis, chosen : Basis]
      BY <1>1, <2>1 DEF TypeOK
    <2> QED
      BY <1>1, <2>1, <2>2 DEF TypeOK
  <1>3. SameNotices /\ coord'.active = NoKey
    BY <1>1 DEF SameNotices, Forgotten, TypeOK
  <1>4. Spent' \subseteq Spent \cup {0}
    BY <1>1 DEF Spent, Forgotten, NoBasis, NoMetadata, TypeOK
  <1>5. ReceiptsAreBounded'
    BY <1>1, <1>3, ReceiptsStay
  <1>6. NoticesAreUnhandled' /\ NoticesAreDistinct'
    BY <1>1, <1>3, <1>4, NoticesStay
  <1>7. HoldIsOne' /\ AnswersAreOfHold'
    BY <1>1 DEF HoldIsOne, AnswersAreOfHold, Forgotten, NoMetadata, TypeOK
  <1>8. RepliesAgree' /\ VerdictsAreKept'
    BY <1>1 DEF RepliesAgree, VerdictsAreKept, Whole, NoMetadata
  <1> QED
    BY <1>2, <1>5, <1>6, <1>7, <1>8

-----------------------------------------------------------------------------
(* The main thread: Tick.                                                   *)

\* Requests and main's place change; what is on hold does not.
OnlyWork == UNCHANGED <<boundary, stamped, queue, presets, shown>>

\* Main's next place works on no other stamp.
LEMMA WorkKeepsNotices ==
    ASSUME IInv, OnlyWork,
           {main'.revision, main'.result.revision, main'.basis.metadata.revision}
              \subseteq Spent \cup {0}
    PROVE  ReceiptsAreBounded' /\ NoticesAreUnhandled' /\ NoticesAreDistinct'
  <1> USE DEF IInv, OnlyWork, boundary
  <1>1. SameNotices
    BY DEF SameNotices
  <1>2. Spent' \subseteq Spent \cup {0}
    BY DEF Spent
  <1> QED
    BY <1>1, <1>2, ReceiptsStay, NoticesStay

LEMMA TickBeginKeeps ==
    ASSUME IInv, TickBegin
    PROVE  IInv'
  <1> USE DEF IInv
  <1>1. /\ main.pc = "idle" /\ coord.active \in Keys /\ coord.pending
        /\ receipts[coord.active].number = coord.working
        /\ UNCHANGED <<serial, through, position, receipts, store, stamped, queue,
                       presets, shown>>
    BY DEF TickBegin, Works, TypeOK
  <1>2. SameNotices
    BY <1>1 DEF SameNotices
  <1>3. CASE /\ ready' = Unknown(coord.working)
             /\ coord' = [coord EXCEPT !.pending = FALSE]
             /\ replies' = NoReplies
             /\ UNCHANGED main
    <2>1. /\ coord'.active = coord.active /\ coord'.working = coord.working /\ ~coord'.pending
          /\ ready'.revision = coord.working /\ ~ready'.known
      BY <1>3 DEF TypeOK, Unknown, NoMetadata
    <2>2. TypeOK'
      <3>1. ready' \in Metadata
        BY <1>3, NothingIsTyped DEF TypeOK, Unknown, Metadata
      <3>2. coord' \in [active : Keys \cup {NoKey}, working : Stamps, handled : Stamps,
                        pending : BOOLEAN, needID : BOOLEAN, age : Ages]
        BY <1>3 DEF TypeOK
      <3> QED
        BY <1>1, <1>3, <3>1, <3>2, NothingIsTyped DEF TypeOK
    <2>3. Spent' \subseteq Spent \cup {0}
      BY <1>1, <1>3, <2>1 DEF Spent
    <2>4. ReceiptsAreBounded' /\ NoticesAreUnhandled' /\ NoticesAreDistinct'
      BY <1>1, <1>2, <2>1, <2>3, ReceiptsStay, NoticesStay
    <2>5. HoldIsOne' /\ AnswersAreOfHold'
      BY <1>1, <1>3, <2>1, ConstantsAssumption DEF HoldIsOne, AnswersAreOfHold
    <2>6. RepliesAgree'
      BY <1>1, <1>3, <2>1 DEF RepliesAgree, Whole, NoReplies, NoReply
    <2>7. VerdictsAreKept'
      BY <1>1, <1>3 DEF VerdictsAreKept
    <2> QED
      BY <2>2, <2>4, <2>5, <2>6, <2>7
  <1>4. CASE /\ main' = [NoWork EXCEPT !.pc = "fetch", !.key = coord.active,
                           !.revision = coord.working,
                           !.request = coord.needID /\ replies.id = NoReply]
             /\ UNCHANGED <<ready, coord, replies>>
    <2>1. /\ main'.pc = "fetch" /\ main'.key = coord.active /\ main'.revision = coord.working
          /\ main'.request <=> (coord.needID /\ replies.id = NoReply)
          /\ main'.result = NoMetadata /\ main'.basis = NoBasis
      BY <1>4 DEF NoWork
    <2>2. TypeOK'
      <3>1. main' \in [pc : {"idle", "fetch", "publish", "measure", "commit", "select"},
                       key : Keys \cup {NoKey}, revision : Stamps, request : BOOLEAN,
                       result : Metadata, basis : Basis]
        BY <1>4, NothingIsTyped DEF TypeOK
      <3> QED
        BY <1>1, <1>4, <3>1 DEF TypeOK
    <2>3. ReceiptsAreBounded' /\ NoticesAreUnhandled' /\ NoticesAreDistinct'
      BY <1>1, <1>4, <2>1, WorkKeepsNotices
      DEF OnlyWork, boundary, Spent, NoMetadata, NoBasis
    <2>4. HoldIsOne' /\ AnswersAreOfHold'
      BY <1>1, <1>4, <2>1 DEF HoldIsOne, AnswersAreOfHold
    <2>5. RepliesAgree'
      BY <1>1, <1>4, <2>1 DEF RepliesAgree, Whole, NoMetadata
    <2>6. VerdictsAreKept'
      BY <1>1, <1>4, <2>1 DEF VerdictsAreKept
    <2> QED
      BY <2>2, <2>3, <2>4, <2>5, <2>6
  <1> QED
    BY <1>3, <1>4 DEF TickBegin

\* Publishing a result or nothing, when fetching.
LEMMA FetchKeepsTypes ==
    ASSUME TypeOK, OnlyWork, replies' \in [id : Reply, name : Reply, tags : Reply],
           \/ main' = NoWork
           \/ \E result \in Metadata : Publishes(result)
    PROVE  TypeOK'
  <1>1. main' \in [pc : {"idle", "fetch", "publish", "measure", "commit", "select"},
                   key : Keys \cup {NoKey}, revision : Stamps, request : BOOLEAN,
                   result : Metadata, basis : Basis]
    <2>1. CASE main' = NoWork
      BY <2>1, NothingIsTyped
    <2>2. ASSUME NEW result \in Metadata, Publishes(result)
          PROVE  main' \in [pc : {"idle", "fetch", "publish", "measure", "commit", "select"},
                            key : Keys \cup {NoKey}, revision : Stamps, request : BOOLEAN,
                            result : Metadata, basis : Basis]
      BY <2>2 DEF Publishes, TypeOK
    <2> QED
      BY <2>1, <2>2
  <1> QED
    BY <1>1 DEF TypeOK, OnlyWork, boundary

\* The work ends without a result.
LEMMA FetchWaits ==
    ASSUME IInv, OnlyWork, main' = NoWork, TypeOK', RepliesAgree',
           coord.pending =>
              /\ replies'.id # NoReply => coord.needID
              /\ replies'.id.state = "ok" => replies'.id.at >= coord.working
    PROVE  IInv'
  <1> USE DEF IInv
  <1>1. main'.pc = "idle"
    BY DEF NoWork
  <1>2. ReceiptsAreBounded' /\ NoticesAreUnhandled' /\ NoticesAreDistinct'
    BY WorkKeepsNotices DEF NoWork, NoMetadata, NoBasis
  <1>3. HoldIsOne' /\ AnswersAreOfHold'
    BY <1>1 DEF HoldIsOne, AnswersAreOfHold, OnlyWork, boundary
  <1>4. VerdictsAreKept'
    BY <1>1 DEF VerdictsAreKept
  <1> QED
    BY <1>2, <1>3, <1>4

\* The work has a result.
LEMMA FetchAnswers ==
    ASSUME IInv, OnlyWork, main.pc = "fetch", TypeOK', RepliesAgree',
           NEW result \in Metadata, Publishes(result), result.revision = main.revision,
           coord.pending =>
              /\ replies'.id # NoReply => coord.needID
              /\ replies'.id.state = "ok" => replies'.id.at >= coord.working
              /\ result.known => coord.needID /\ result.at >= main.revision
    PROVE  IInv'
  <1> USE DEF IInv
  <1>1. /\ main'.pc = "publish" /\ main'.result = result /\ main'.revision = main.revision
        /\ main'.basis = main.basis /\ main'.key = main.key
    BY DEF Publishes, TypeOK
  <1>2. ReceiptsAreBounded' /\ NoticesAreUnhandled' /\ NoticesAreDistinct'
    BY <1>1, WorkKeepsNotices DEF Spent
  <1>3. HoldIsOne' /\ AnswersAreOfHold'
    BY <1>1 DEF HoldIsOne, AnswersAreOfHold, OnlyWork, boundary
  <1>4. VerdictsAreKept'
    BY <1>1 DEF VerdictsAreKept
  <1> QED
    BY <1>2, <1>3, <1>4

LEMMA UnknownIsTyped ==
    ASSUME NEW revision \in Stamps
    PROVE  /\ Unknown(revision) \in Metadata /\ Unknown(revision).revision = revision
           /\ ~Unknown(revision).known
  BY NothingIsTyped DEF Unknown, Metadata, NoMetadata

LEMMA TickIDKeeps ==
    ASSUME IInv, TickID
    PROVE  IInv'
  <1> USE DEF IInv
  <1>1. main.pc = "fetch" /\ replies.id.state \in {"none", "pending", "failed"} /\ OnlyWork
    BY DEF TickID, OnlyWork
  <1>2. PICK r \in IF main.request THEN Asked("none") ELSE {replies.id} :
          /\ replies' = [replies EXCEPT !.id = r]
          /\ IF r.state = "failed" THEN Publishes(Unknown(main.revision)) ELSE main' = NoWork
    BY DEF TickID
  <1>3. r \in Reply /\ r.state # "ok"
    <2>1. CASE main.request
      BY <1>2, <2>1, ConstantsAssumption DEF Asked, Reply, Stamps
    <2>2. CASE ~main.request
      BY <1>1, <1>2, <2>2 DEF TypeOK
    <2> QED
      BY <2>1, <2>2
  <1>4. /\ replies'.id = r /\ replies'.name = replies.name /\ replies'.tags = replies.tags
        /\ replies' \in [id : Reply, name : Reply, tags : Reply]
    BY <1>2, <1>3 DEF TypeOK
  <1>5. main.revision \in Stamps
    BY DEF TypeOK
  <1>6. TypeOK'
    BY <1>1, <1>2, <1>4, <1>5, UnknownIsTyped, FetchKeepsTypes
  <1>7. main'.pc # "fetch" /\ Whole(main'.result)
    <2>1. CASE main' = NoWork
      BY <2>1 DEF NoWork, NoMetadata, Whole
    <2>2. CASE Publishes(Unknown(main.revision))
      BY <2>2 DEF Publishes, Unknown, NoMetadata, Whole, TypeOK
    <2> QED
      BY <1>2, <2>1, <2>2
  <1>8. RepliesAgree'
    <2>1. replies.id.state # "ok"
      BY <1>1
    <2>2. r.state = "none" => r = NoReply
      BY <1>2 DEF RepliesAgree, Asked
    <2> QED
      BY <1>1, <1>4, <1>7, <2>1, <2>2 DEF RepliesAgree, OnlyWork, boundary, Whole
  <1>9. coord.pending => /\ replies'.id # NoReply => coord.needID
                         /\ replies'.id.state = "ok" => replies'.id.at >= coord.working
    BY <1>1, <1>2, <1>3, <1>4 DEF AnswersAreOfHold
  <1>10. CASE main' = NoWork
    BY <1>1, <1>6, <1>8, <1>9, <1>10, FetchWaits
  <1>11. CASE Publishes(Unknown(main.revision))
    BY <1>1, <1>5, <1>6, <1>8, <1>9, <1>11, UnknownIsTyped, FetchAnswers
  <1> QED
    BY <1>2, <1>10, <1>11

LEMMA TickDataKeeps ==
    ASSUME IInv, TickData
    PROVE  IInv'
  <1> USE DEF IInv
  <1>1. main.pc = "fetch" /\ replies.id.state = "ok" /\ OnlyWork
    BY DEF TickData, OnlyWork
  <1>2. main.revision \in Stamps /\ replies.id \in Reply /\ replies.id # NoReply
    BY <1>1 DEF TypeOK, NoReply
  <1>3. coord.pending => /\ coord.needID /\ replies.id.at >= coord.working
                         /\ coord.working = main.revision
    BY <1>1, <1>2, ConstantsAssumption DEF AnswersAreOfHold, HoldIsOne
  <1>4. CASE store.known /\ store.id = replies.id.id
    <2>1. PICK result : result = [store EXCEPT !.revision = main.revision, !.at = replies.id.at]
      OBVIOUS
    <2>2. Publishes(result) /\ UNCHANGED replies
      BY <1>4, <2>1 DEF TickData
    <2>3. result \in Metadata /\ result.revision = main.revision /\ result.at = replies.id.at
          /\ result.id = store.id /\ result.name = store.name /\ result.tags = store.tags
          /\ result.known
      BY <1>2, <1>4, <2>1 DEF TypeOK, Metadata, Reply
    <2>4. TypeOK'
      BY <1>1, <2>2, <2>3, FetchKeepsTypes DEF TypeOK
    <2>5. main'.pc = "publish" /\ main'.result = result
      BY <2>2 DEF Publishes, TypeOK
    <2>6. RepliesAgree'
      BY <1>1, <1>4, <2>2, <2>3, <2>5 DEF RepliesAgree, OnlyWork, boundary, Whole
    <2> QED
      BY <1>1, <1>3, <2>2, <2>3, <2>4, <2>6, FetchAnswers
  <1>5. CASE ~(store.known /\ store.id = replies.id.id)
    <2>1. PICK name \in IF replies.name = NoReply THEN Asked(replies.id.id) ELSE {replies.name},
               tags \in IF replies.tags = NoReply THEN Asked(replies.id.id) ELSE {replies.tags} :
              /\ replies' = [replies EXCEPT !.name = name, !.tags = tags]
              /\ IF "failed" \in {name.state, tags.state}
                 THEN Publishes(Unknown(main.revision))
                 ELSE IF "pending" \in {name.state, tags.state}
                 THEN main' = NoWork
                 ELSE Publishes([revision |-> main.revision, known |-> TRUE,
                                 id |-> replies.id.id, name |-> name.id, tags |-> tags.id,
                                 at |-> replies.id.at])
      BY <1>5 DEF TickData
    <2>2. \A r \in Asked(replies.id.id) :
             /\ r \in Reply /\ r.state \in {"pending", "failed"}
             /\ r.state = "pending" => r.id = replies.id.id
      BY <1>2, ConstantsAssumption DEF Asked, Reply, Stamps
    <2>3. /\ name \in Reply /\ tags \in Reply
          /\ \A r \in {name, tags} : r.state = "none" => r = NoReply
          /\ \A r \in {name, tags} : r.state \in {"pending", "ok"} => r.id = replies.id.id
          /\ "none" \notin {name.state, tags.state}
      BY <2>1, <2>2 DEF RepliesAgree, TypeOK
    <2>4. /\ replies'.id = replies.id /\ replies'.name = name /\ replies'.tags = tags
          /\ replies' \in [id : Reply, name : Reply, tags : Reply]
      BY <2>1, <2>3 DEF TypeOK
    <2>5. PICK result : result = [revision |-> main.revision, known |-> TRUE,
                                  id |-> replies.id.id, name |-> name.id, tags |-> tags.id,
                                  at |-> replies.id.at]
      OBVIOUS
    <2>6. result \in Metadata /\ result.revision = main.revision /\ result.at = replies.id.at
      BY <1>2, <2>3, <2>5 DEF Metadata, Reply
    <2>7. Whole(ready) /\ Whole(store) /\ ready' = ready /\ store' = store
      BY <1>1 DEF RepliesAgree, OnlyWork, boundary
    <2>8. ASSUME main'.pc # "fetch", Whole(main'.result)
          PROVE  RepliesAgree'
      BY <1>1, <2>3, <2>4, <2>7, <2>8 DEF RepliesAgree, Whole
    <2>9. CASE main' = NoWork
      <3>1. TypeOK'
        BY <1>1, <2>4, <2>9, FetchKeepsTypes
      <3>2. RepliesAgree'
        BY <2>8, <2>9 DEF NoWork, NoMetadata, Whole
      <3> QED
        BY <1>1, <1>3, <2>4, <2>9, <3>1, <3>2, FetchWaits
    <2>10. CASE Publishes(Unknown(main.revision))
      <3>1. TypeOK'
        BY <1>1, <1>2, <2>4, <2>10, UnknownIsTyped, FetchKeepsTypes
      <3>2. RepliesAgree'
        BY <1>2, <2>8, <2>10, UnknownIsTyped DEF Publishes, TypeOK, Whole
      <3> QED
        BY <1>1, <1>2, <1>3, <2>4, <2>10, <3>1, <3>2, UnknownIsTyped, FetchAnswers
    <2>11. CASE /\ "failed" \notin {name.state, tags.state}
                /\ "pending" \notin {name.state, tags.state}
                /\ Publishes(result)
      <3>1. TypeOK'
        BY <1>1, <2>4, <2>6, <2>11, FetchKeepsTypes
      <3>2. name.state = "ok" /\ tags.state = "ok"
        BY <2>3, <2>11 DEF Reply
      <3>3. RepliesAgree'
        BY <2>3, <2>5, <2>8, <2>11, <3>2 DEF Publishes, TypeOK, Whole
      <3> QED
        BY <1>1, <1>3, <2>4, <2>6, <2>11, <3>1, <3>3, FetchAnswers
    <2> QED
      BY <2>1, <2>5, <2>9, <2>10, <2>11
  <1> QED
    BY <1>4, <1>5

LEMMA TickPublishKeeps ==
    ASSUME IInv, TickPublish
    PROVE  IInv'
  <1> USE DEF IInv
  <1>1. /\ main.pc = "publish" /\ main' = NoWork
        /\ UNCHANGED <<serial, through, position, receipts, store, stamped, queue,
                       presets, shown>>
    BY DEF TickPublish
  <1>2. /\ main'.pc = "idle" /\ main'.result = NoMetadata
        /\ main'.revision = 0 /\ main'.basis = NoBasis
    BY <1>1 DEF NoWork
  <1>3. SameNotices
    BY <1>1 DEF SameNotices
  <1>4. VerdictsAreKept'
    BY <1>2 DEF VerdictsAreKept
  <1>5. CASE /\ coord.active = main.key /\ coord.working = main.revision
             /\ receipts[main.key].number = main.revision
             /\ ready' = main.result /\ coord' = [coord EXCEPT !.pending = FALSE]
             /\ replies' = NoReplies
    <2>1. /\ coord'.active = coord.active /\ coord'.working = coord.working /\ ~coord'.pending
          /\ coord' \in [active : Keys \cup {NoKey}, working : Stamps, handled : Stamps,
                        pending : BOOLEAN, needID : BOOLEAN, age : Ages]
      BY <1>5 DEF TypeOK
    <2>2. TypeOK'
      BY <1>1, <1>5, <2>1, NothingIsTyped DEF TypeOK
    <2>3. coord.active # NoKey /\ coord.pending /\ main.result.revision = main.revision
      BY <1>1, <1>5, ConstantsAssumption DEF HoldIsOne
    <2>4. Spent' \subseteq Spent \cup {0}
      BY <1>1, <1>2, <1>5, <2>1 DEF Spent, NoMetadata, NoBasis
    <2>5. ReceiptsAreBounded' /\ NoticesAreUnhandled' /\ NoticesAreDistinct'
      BY <1>1, <1>3, <2>1, <2>4, ReceiptsStay, NoticesStay
    <2>6. HoldIsOne'
      BY <1>2, <2>1, <2>3 DEF HoldIsOne
    <2>7. AnswersAreOfHold'
      BY <1>1, <1>2, <1>5, <2>1, <2>3 DEF AnswersAreOfHold
    <2>8. RepliesAgree'
      BY <1>1, <1>2, <1>5 DEF RepliesAgree, Whole, NoReplies, NoReply, NoMetadata
    <2> QED
      BY <1>4, <2>2, <2>5, <2>6, <2>7, <2>8
  <1>6. CASE UNCHANGED <<ready, coord, replies>>
    <2>1. OnlyWork
      BY <1>1, <1>6 DEF OnlyWork, boundary
    <2>2. TypeOK'
      BY <1>1, <1>6, NothingIsTyped DEF TypeOK
    <2>3. RepliesAgree'
      BY <1>1, <1>2, <1>6 DEF RepliesAgree, Whole, NoMetadata
    <2> QED
      BY <1>1, <1>6, <2>1, <2>2, <2>3, FetchWaits DEF AnswersAreOfHold
  <1> QED
    BY <1>5, <1>6 DEF TickPublish

-----------------------------------------------------------------------------
(* The main thread: evaluation and selection.                               *)

LEMMA MeasureBeginKeeps ==
    ASSUME IInv, MeasureBegin
    PROVE  IInv'
  <1> USE DEF IInv
  <1>1. OnlyWork /\ Valid(ready) /\ main' = Measuring /\ UNCHANGED replies
    BY DEF MeasureBegin, OnlyWork
  <1>2. /\ main'.pc = "measure" /\ main'.result = ready
        /\ main'.revision = 0 /\ main'.basis = NoBasis /\ ~coord.pending
    BY <1>1 DEF Measuring, NoWork, Valid
  <1>3. TypeOK'
    <2>1. main' \in [pc : {"idle", "fetch", "publish", "measure", "commit", "select"},
                     key : Keys \cup {NoKey}, revision : Stamps, request : BOOLEAN,
                     result : Metadata, basis : Basis]
      BY <1>1, NothingIsTyped DEF Measuring, TypeOK
    <2> QED
      BY <1>1, <2>1 DEF TypeOK, OnlyWork, boundary
  <1>4. ReceiptsAreBounded' /\ NoticesAreUnhandled' /\ NoticesAreDistinct'
    BY <1>1, <1>2, WorkKeepsNotices DEF Spent, NoBasis, NoMetadata
  <1>5. HoldIsOne' /\ AnswersAreOfHold'
    BY <1>1, <1>2 DEF HoldIsOne, AnswersAreOfHold, OnlyWork, boundary
  <1>6. RepliesAgree' /\ VerdictsAreKept'
    BY <1>1, <1>2 DEF RepliesAgree, VerdictsAreKept, OnlyWork, boundary, Whole
  <1> QED
    BY <1>3, <1>4, <1>5, <1>6

LEMMA MeasureReadKeeps ==
    ASSUME IInv, MeasureRead
    PROVE  IInv'
  <1> USE DEF IInv
  <1>1. PICK read : read = [metadata |-> main.result, position |-> position,
                            presets |-> presets]
    OBVIOUS
  <1>2. /\ main.pc = "measure" /\ main' = [main EXCEPT !.pc = "commit", !.basis = read]
        /\ shown' = [shown EXCEPT !.filter = IF VerdictsHold THEN @ ELSE read]
        /\ UNCHANGED <<boundary, replies, stamped, queue, presets>>
    BY <1>1 DEF MeasureRead
  <1>3. read \in Basis /\ read.metadata = main.result /\ read.presets = presets
    BY <1>1 DEF TypeOK, Basis
  <1>4. /\ main'.pc = "commit" /\ main'.basis = read /\ main'.result = main.result
        /\ main'.revision = main.revision /\ shown'.evaluated = shown.evaluated
        /\ shown'.filter \in {shown.filter, read}
        /\ shown'.filter.metadata = main.result /\ shown'.filter.presets = presets
    BY <1>2, <1>3 DEF TypeOK, VerdictsHold
  <1>5. TypeOK'
    <2>1. main' \in [pc : {"idle", "fetch", "publish", "measure", "commit", "select"},
                     key : Keys \cup {NoKey}, revision : Stamps, request : BOOLEAN,
                     result : Metadata, basis : Basis]
      BY <1>2, <1>3 DEF TypeOK
    <2>2. shown' \in [evaluated : Basis, filter : Basis, chosen : Basis]
      BY <1>2, <1>3 DEF TypeOK
    <2> QED
      BY <1>2, <2>1, <2>2 DEF TypeOK, boundary
  <1>6. SameNotices /\ Spent' \subseteq Spent \cup {0}
    BY <1>2, <1>3, <1>4 DEF SameNotices, Spent, boundary
  <1>7. ReceiptsAreBounded' /\ NoticesAreUnhandled' /\ NoticesAreDistinct'
    BY <1>2, <1>6, ReceiptsStay, NoticesStay DEF boundary
  <1>8. HoldIsOne' /\ AnswersAreOfHold'
    BY <1>2, <1>4 DEF HoldIsOne, AnswersAreOfHold, boundary
  <1>9. RepliesAgree' /\ VerdictsAreKept'
    BY <1>2, <1>3, <1>4 DEF RepliesAgree, VerdictsAreKept, Whole, boundary
  <1> QED
    BY <1>5, <1>7, <1>8, <1>9

LEMMA MeasureCommitKeeps ==
    ASSUME IInv, MeasureCommit
    PROVE  IInv'
  <1> USE DEF IInv
  <1>1. /\ main.pc = "commit" /\ main.basis \in Basis /\ main.basis.metadata \in Metadata
        /\ UNCHANGED <<serial, through, position, receipts, coord, ready, replies,
                       stamped, queue, presets>>
    BY DEF MeasureCommit, TypeOK, Basis
  <1>2. SameNotices /\ ~coord.pending
    BY <1>1 DEF SameNotices, HoldIsOne
  <1>3. /\ main' \in {NoWork, [NoWork EXCEPT !.pc = "select"]}
        /\ \/ main' = NoWork /\ UNCHANGED <<store, shown>>
           \/ /\ Current(main.basis) /\ store' = main.basis.metadata
              /\ shown' = [shown EXCEPT !.evaluated = main.basis]
    BY DEF MeasureCommit
  <1>4. /\ main'.pc \in {"idle", "select"} /\ main'.result = NoMetadata
        /\ main'.revision = 0 /\ main'.basis = NoBasis
    BY <1>3 DEF NoWork
  <1>5. /\ shown'.evaluated \in {shown.evaluated, main.basis} /\ shown'.filter = shown.filter
        /\ shown' \in [evaluated : Basis, filter : Basis, chosen : Basis]
    BY <1>1, <1>3 DEF TypeOK
  <1>6. TypeOK'
    <2>1. main' \in [pc : {"idle", "fetch", "publish", "measure", "commit", "select"},
                     key : Keys \cup {NoKey}, revision : Stamps, request : BOOLEAN,
                     result : Metadata, basis : Basis]
      BY <1>3, NothingIsTyped
    <2>2. store' \in Metadata
      BY <1>1, <1>3 DEF TypeOK
    <2> QED
      BY <1>1, <1>5, <2>1, <2>2 DEF TypeOK
  <1>7. Spent' \subseteq Spent \cup {0}
    BY <1>1, <1>4, <1>5 DEF Spent, NoBasis, NoMetadata
  <1>8. ReceiptsAreBounded' /\ NoticesAreUnhandled' /\ NoticesAreDistinct'
    BY <1>1, <1>2, <1>7, ReceiptsStay, NoticesStay
  <1>9. HoldIsOne' /\ AnswersAreOfHold'
    BY <1>1, <1>2, <1>4 DEF HoldIsOne, AnswersAreOfHold
  <1>10. RepliesAgree'
    <2>1. Whole(ready)' /\ Whole(main.result)'
      BY <1>1, <1>4 DEF RepliesAgree, Whole, NoMetadata
    <2>2. Whole(store)'
      <3>1. CASE UNCHANGED store
        BY <3>1 DEF RepliesAgree, Whole
      <3>2. CASE Current(main.basis) /\ store' = main.basis.metadata
        <4>1. store' = ready
          BY <3>2 DEF Current, Valid
        <4> QED
          BY <4>1 DEF RepliesAgree, Whole
      <3> QED
        BY <1>3, <3>1, <3>2
    <2> QED
      BY <1>1, <1>4, <2>1, <2>2 DEF RepliesAgree
  <1>11. VerdictsAreKept'
    <2>1. CASE main'.pc = "select"
      <3>1. shown'.evaluated = main.basis
        BY <1>3, <2>1 DEF NoWork, TypeOK
      <3> QED
        BY <1>1, <1>5, <2>1, <3>1 DEF VerdictsAreKept
    <2>2. CASE main'.pc = "idle"
      BY <2>2 DEF VerdictsAreKept
    <2> QED
      BY <1>4, <2>1, <2>2
  <1> QED
    BY <1>6, <1>8, <1>9, <1>10, <1>11

LEMMA SelectKeeps ==
    ASSUME IInv, Select
    PROVE  IInv'
  <1> USE DEF IInv
  <1>1. /\ main' = NoWork /\ UNCHANGED <<boundary, replies, stamped, queue, presets>>
        /\ shown' = IF Current(shown.evaluated)
                    THEN [shown EXCEPT !.chosen = shown.evaluated] ELSE shown
    BY DEF Select
  <1>2. /\ main'.pc = "idle" /\ main'.result = NoMetadata
        /\ main'.revision = 0 /\ main'.basis = NoBasis
    BY <1>1 DEF NoWork
  <1>3. /\ shown'.evaluated = shown.evaluated
        /\ shown' \in [evaluated : Basis, filter : Basis, chosen : Basis]
    BY <1>1 DEF TypeOK
  <1>4. TypeOK'
    BY <1>1, <1>3, NothingIsTyped DEF TypeOK, boundary
  <1>5. SameNotices /\ Spent' \subseteq Spent \cup {0}
    BY <1>1, <1>2, <1>3 DEF SameNotices, Spent, boundary, NoBasis, NoMetadata
  <1>6. ReceiptsAreBounded' /\ NoticesAreUnhandled' /\ NoticesAreDistinct'
    BY <1>1, <1>5, ReceiptsStay, NoticesStay DEF boundary
  <1>7. HoldIsOne' /\ AnswersAreOfHold'
    BY <1>1, <1>2, <1>3 DEF HoldIsOne, AnswersAreOfHold, boundary
  <1>8. RepliesAgree' /\ VerdictsAreKept'
    BY <1>1, <1>2 DEF RepliesAgree, VerdictsAreKept, Whole, boundary, NoMetadata
  <1> QED
    BY <1>4, <1>6, <1>7, <1>8

-----------------------------------------------------------------------------
(* The other threads.                                                       *)

\* An answer comes: the rest of the state is untouched.
LEMMA AnswerStays ==
    ASSUME IInv, UNCHANGED <<boundary, stamped, queue, presets, main, shown>>
    PROVE  /\ ReceiptsAreBounded' /\ NoticesAreUnhandled' /\ NoticesAreDistinct'
           /\ HoldIsOne' /\ VerdictsAreKept'
           /\ replies' \in [id : Reply, name : Reply, tags : Reply] => TypeOK'
  <1> USE DEF IInv, boundary
  <1>1. SameNotices /\ Spent' = Spent
    BY DEF SameNotices, Spent
  <1>2. ReceiptsAreBounded' /\ NoticesAreUnhandled' /\ NoticesAreDistinct'
    BY <1>1, ReceiptsStay, NoticesStay
  <1> QED
    BY <1>2 DEF HoldIsOne, VerdictsAreKept, TypeOK

LEMMA AnswerIDKeeps ==
    ASSUME IInv, NEW r, AnswerID(r)
    PROVE  IInv'
  <1> USE DEF IInv
  <1>1. /\ replies.id.state = "pending" /\ r \in Reply /\ r.state \in {"ok", "failed"}
        /\ r.at = serial /\ replies' = [replies EXCEPT !.id = r]
        /\ UNCHANGED <<boundary, stamped, queue, presets, main, shown>>
    BY DEF AnswerID, TypeOK, Reply
  <1>2. /\ replies'.id = r /\ replies'.name = replies.name /\ replies'.tags = replies.tags
        /\ replies' \in [id : Reply, name : Reply, tags : Reply]
    BY <1>1 DEF TypeOK
  <1>3. replies.id # NoReply
    BY <1>1 DEF NoReply
  <1>4. coord.working <= serial
    BY DEF NoticesAreUnhandled, Spent
  <1>5. AnswersAreOfHold'
    BY <1>1, <1>2, <1>3, <1>4 DEF AnswersAreOfHold, boundary
  <1>6. RepliesAgree'
    BY <1>1, <1>2, <1>3 DEF RepliesAgree, Whole, boundary
  <1> QED
    BY <1>1, <1>2, <1>5, <1>6, AnswerStays

LEMMA AnswerDataKeeps ==
    ASSUME IInv, NEW field \in {"name", "tags"}, NEW state \in {"ok", "failed"},
           AnswerData(field, state)
    PROVE  IInv'
  <1> USE DEF IInv
  <1>1. /\ replies[field].state = "pending"
        /\ replies' = [replies EXCEPT ![field].state = state]
        /\ UNCHANGED <<boundary, stamped, queue, presets, main, shown>>
    BY DEF AnswerData
  <1>2. PICK r : r = [replies[field] EXCEPT !.state = state]
    OBVIOUS
  <1>3. replies' = [replies EXCEPT ![field] = r]
    BY <1>1, <1>2
  <1>4. r \in Reply /\ r.state = state /\ r.id = replies[field].id
    BY <1>2 DEF TypeOK, Reply
  <1>5. /\ replies'.id = replies.id /\ replies' \in [id : Reply, name : Reply, tags : Reply]
        /\ \/ field = "name" /\ replies'.name = r /\ replies'.tags = replies.tags
           \/ field = "tags" /\ replies'.tags = r /\ replies'.name = replies.name
    <2>1. CASE field = "name"
      BY <1>3, <1>4, <2>1 DEF TypeOK
    <2>2. CASE field = "tags"
      BY <1>3, <1>4, <2>2 DEF TypeOK
    <2> QED
      BY <2>1, <2>2
  <1>6. AnswersAreOfHold'
    BY <1>1, <1>5 DEF AnswersAreOfHold, boundary
  <1>7. RepliesAgree'
    BY <1>1, <1>4, <1>5 DEF RepliesAgree, Whole, boundary
  <1> QED
    BY <1>1, <1>5, <1>6, <1>7, AnswerStays

LEMMA PublishPresetsKeeps ==
    ASSUME IInv, PublishPresets
    PROVE  IInv'
  <1> USE DEF IInv
  <1>1. /\ presets' \in 0 .. MaxEdits
        /\ UNCHANGED <<boundary, replies, stamped, queue, main, shown>>
    BY ConstantsAssumption DEF PublishPresets, TypeOK
  <1>2. TypeOK' /\ SameNotices /\ Spent' = Spent
    BY <1>1 DEF TypeOK, SameNotices, Spent, boundary
  <1>3. ReceiptsAreBounded' /\ NoticesAreUnhandled' /\ NoticesAreDistinct'
    BY <1>1, <1>2, ReceiptsStay, NoticesStay DEF boundary
  <1>4. HoldIsOne' /\ AnswersAreOfHold'
    BY <1>1 DEF HoldIsOne, AnswersAreOfHold, boundary
  <1>5. RepliesAgree' /\ VerdictsAreKept'
    BY <1>1 DEF RepliesAgree, VerdictsAreKept, Whole, boundary
  <1> QED
    BY <1>2, <1>3, <1>4, <1>5

LEMMA InvalidateKeeps ==
    ASSUME IInv, Invalidate
    PROVE  IInv'
  <1> USE DEF IInv
  <1>1. /\ serial' = serial + 1 /\ through' = serial + 1 /\ serial \in Nat /\ serial' \in Stamps
        /\ receipts' = [k \in Keys |-> NoReceipt] /\ coord' = Forgotten(coord)
        /\ ready' = NoMetadata /\ store' = NoMetadata
        /\ UNCHANGED <<position, replies, stamped, queue, presets, main, shown>>
    BY ConstantsAssumption DEF Invalidate, ForgetsMetadata, TypeOK, Stamps
  <1>2. /\ coord'.active = NoKey /\ ~coord'.pending /\ coord'.working = coord.working
        /\ coord' \in [active : Keys \cup {NoKey}, working : Stamps, handled : Stamps,
                       pending : BOOLEAN, needID : BOOLEAN, age : Ages]
    BY <1>1 DEF Forgotten, TypeOK
  <1>3. TypeOK'
    <2>1. NoReceipt \in Receipt
      BY ConstantsAssumption DEF NoReceipt, Receipt, EventTypes, Stamps, Ages
    <2> QED
      BY <1>1, <1>2, <2>1, NothingIsTyped DEF TypeOK
  <1>4. ReceiptsAreBounded'
    <2>1. Stamped' = {} /\ \A k \in Keys : receipts'[k].number = 0
      BY <1>1 DEF Stamped, NoReceipt
    <2>2. IsFiniteSet(Stamped') /\ Cardinality(Stamped') <= Capacity
      BY <2>1, FS_EmptySet, ConstantsAssumption
    <2> QED
      BY <1>1, <1>2, <2>1, <2>2 DEF ReceiptsAreBounded, ReceiptsAreKept, TypeOK, Stamps
  <1>5. Spent' \subseteq Spent \cup {0} /\ Spent \subseteq Stamps
    BY <1>1, <1>2, SpentIsTyped DEF Spent, NoMetadata
  <1>6. ASSUME NEW notice \in Notice, Unhandled(notice)
        PROVE  Unhandled(notice)'
    BY <1>1, <1>5, <1>6 DEF Unhandled, Notice, NoReceipt, Stamps
  <1>7. NoticesAreUnhandled'
    <2>1. Posting' = Posting
      BY <1>1 DEF Posting
    <2>2. \A n \in Posting' : Unhandled(stamped[n][1])'
      <3> SUFFICES ASSUME NEW n \in Posting' PROVE Unhandled(stamped[n][1])'
        OBVIOUS
      <3>1. PICK notice : notice = stamped[n][1]
        OBVIOUS
      <3>2. notice \in Notice /\ Unhandled(notice)
        BY <2>1, <3>1, NoticesAreTyped DEF NoticesAreUnhandled
      <3> QED
        BY <1>1, <1>6, <3>1, <3>2 DEF Unhandled
    <2>3. \A i \in 1 .. Len(queue') : Unhandled(queue[i])'
      BY <1>1, <1>6, NoticesAreTyped, Zenon DEF NoticesAreUnhandled
    <2>4. \A s \in Spent' : s <= serial'
      <3>1. \A s \in Spent \cup {0} : s \in Nat /\ s <= serial
        BY <1>1, <1>5 DEF NoticesAreUnhandled, Stamps
      <3> QED
        BY <1>1, <1>5, <3>1
    <2> QED
      BY <2>2, <2>3, <2>4, Zenon DEF NoticesAreUnhandled
  <1>8. NoticesAreDistinct'
    BY <1>1 DEF NoticesAreDistinct, Posting
  <1>9. HoldIsOne' /\ AnswersAreOfHold'
    BY <1>1, <1>2 DEF HoldIsOne, AnswersAreOfHold, NoMetadata
  <1>10. RepliesAgree' /\ VerdictsAreKept'
    BY <1>1 DEF RepliesAgree, VerdictsAreKept, Whole, NoMetadata
  <1> QED
    BY <1>3, <1>4, <1>7, <1>8, <1>9, <1>10

LEMMA TimePassesKeeps ==
    ASSUME IInv, TimePasses
    PROVE  IInv'
  <1> USE DEF IInv
  <1>1. \A age \in Ages : Older(age) \in Ages
    BY ConstantsAssumption DEF Older, Ages
  <1>2. /\ receipts' \in [Keys -> Receipt] /\ SameNotices
        /\ UNCHANGED <<serial, through, position, ready, store, replies, stamped,
                       queue, presets, main, shown>>
    <2>1. ASSUME NEW k \in Keys
          PROVE  /\ receipts'[k] \in Receipt
                 /\ receipts'[k].number = receipts[k].number
                 /\ receipts'[k].event = receipts[k].event
      <3>1. receipts[k] \in Receipt
        BY DEF TypeOK
      <3>2. receipts'[k] \in {receipts[k], [receipts[k] EXCEPT !.age = Older(@)]}
        BY DEF TimePasses
      <3> QED
        BY <1>1, <3>1, <3>2 DEF Receipt
    <2>2. receipts' \in [Keys -> Receipt]
      BY <2>1, Zenon DEF TimePasses
    <2> QED
      BY <2>1, <2>2 DEF TimePasses, SameNotices
  <1>3. /\ coord'.active = coord.active /\ coord'.working = coord.working
        /\ coord'.pending = coord.pending /\ coord'.needID = coord.needID
        /\ coord' \in [active : Keys \cup {NoKey}, working : Stamps, handled : Stamps,
                       pending : BOOLEAN, needID : BOOLEAN, age : Ages]
    <2>1. coord' \in {coord, [coord EXCEPT !.age = Older(@)]}
      BY DEF TimePasses
    <2> QED
      BY <1>1, <2>1 DEF TypeOK
  <1>4. TypeOK'
    BY <1>2, <1>3 DEF TypeOK
  <1>5. Spent' = Spent
    BY <1>2, <1>3 DEF Spent
  <1>6. ReceiptsAreBounded' /\ NoticesAreUnhandled' /\ NoticesAreDistinct'
    BY <1>2, <1>3, <1>5, ReceiptsStay, NoticesStay
  <1>7. HoldIsOne'
    BY <1>2, <1>3 DEF HoldIsOne
  <1>8. AnswersAreOfHold'
    <2>1. coord.pending \/ ready.known => coord.active \in Keys
      BY DEF HoldIsOne, TypeOK, NoMetadata
    <2> QED
      BY <1>2, <1>3, <2>1 DEF AnswersAreOfHold, SameNotices
  <1>9. RepliesAgree' /\ VerdictsAreKept'
    BY <1>2 DEF RepliesAgree, VerdictsAreKept, Whole
  <1> QED
    BY <1>4, <1>6, <1>7, <1>8, <1>9

LEMMA StutterKeeps ==
    ASSUME IInv, UNCHANGED vars
    PROVE  IInv'
  <1> USE DEF IInv, vars
  <1>1. TypeOK' /\ SameNotices /\ Spent' = Spent
    BY DEF TypeOK, SameNotices, Spent
  <1>2. ReceiptsAreBounded' /\ NoticesAreUnhandled' /\ NoticesAreDistinct'
    BY <1>1, ReceiptsStay, NoticesStay
  <1>3. HoldIsOne' /\ AnswersAreOfHold' /\ RepliesAgree' /\ VerdictsAreKept'
    BY DEF HoldIsOne, AnswersAreOfHold, RepliesAgree, VerdictsAreKept, Whole
  <1> QED
    BY <1>1, <1>2, <1>3

LEMMA NextKeepsIInv ==
    IInv /\ [Next]_vars => IInv'
  <1> SUFFICES ASSUME IInv, [Next]_vars PROVE IInv'
    OBVIOUS
  <1>1. ASSUME NEW n \in Notifiers, NEW event \in EventTypes, NEW k \in Keys,
               Receive(n, event, k)
        PROVE  IInv'
    BY <1>1, ReceiveKeeps
  <1>2. ASSUME NEW n \in Notifiers, Post(n) PROVE IInv'
    BY <1>2, PostKeeps
  <1>3. CASE Observe
    BY <1>3, ObserveKeeps
  <1>4. CASE ClearActive
    BY <1>4, ClearActiveKeeps
  <1>5. CASE Tick
    BY <1>5, TickBeginKeeps, TickIDKeeps, TickDataKeeps, TickPublishKeeps DEF Tick
  <1>6. CASE MeasureBegin \/ MeasureRead \/ MeasureCommit \/ Select
    BY <1>6, MeasureBeginKeeps, MeasureReadKeeps, MeasureCommitKeeps, SelectKeeps
  <1>7. CASE Answers
    BY <1>7, AnswerIDKeeps, AnswerDataKeeps DEF Answers
  <1>8. CASE PublishPresets
    BY <1>8, PublishPresetsKeeps
  <1>9. CASE Invalidate
    BY <1>9, InvalidateKeeps
  <1>10. CASE TimePasses
    BY <1>10, TimePassesKeeps
  <1>11. CASE UNCHANGED vars
    BY <1>11, StutterKeeps
  <1> QED
    BY <1>1, <1>2, <1>3, <1>4, <1>5, <1>6, <1>7, <1>8, <1>9, <1>10, <1>11 DEF Next

-----------------------------------------------------------------------------
(* A step leaves the evaluated metadata and the hold to the actions that    *)
(* change them.                                                             *)

\* Settled metadata, and what was chosen, are changed by these only.
LEMMA SettledByTick ==
    ASSUME IInv, Next, ready' # ready, ready' # NoMetadata
    PROVE  ready = NoMetadata
  <1>1. ready' # ready /\ ready' # NoMetadata
    OBVIOUS
  <1>2. CASE TickBegin
    BY <1>1, <1>2 DEF TickBegin, Works, IInv, HoldIsOne
  <1>3. CASE TickPublish
    BY <1>1, <1>3, ConstantsAssumption DEF TickPublish, IInv, HoldIsOne
  <1>4. CASE Observe
    BY <1>1, <1>4 DEF Observe
  <1>5. CASE ClearActive \/ Invalidate
    BY <1>1, <1>5 DEF ClearActive, Invalidate, ForgetsMetadata
  <1>6. CASE TickID \/ TickData \/ MeasureBegin \/ MeasureRead \/ Select \/ PublishPresets
    BY <1>1, <1>6
    DEF TickID, TickData, MeasureBegin, MeasureRead, Select, PublishPresets, boundary
  <1>7. CASE MeasureCommit \/ TimePasses
    BY <1>1, <1>7 DEF MeasureCommit, TimePasses
  <1>8. CASE Answers
    BY <1>1, <1>8 DEF Answers, AnswerID, AnswerData, boundary
  <1>9. ASSUME NEW n \in Notifiers,
               Post(n) \/ \E event \in EventTypes, k \in Keys : Receive(n, event, k)
        PROVE  FALSE
    BY <1>1, <1>9 DEF Post, Receive, boundary
  <1> QED
    BY <1>2, <1>3, <1>4, <1>5, <1>6, <1>7, <1>8, <1>9 DEF Next, Tick

LEMMA ChosenBySelect ==
    ASSUME IInv, Next, shown'.chosen # shown.chosen
    PROVE  Select
  <1>1. shown'.chosen # shown.chosen
    OBVIOUS
  <1>2. CASE Tick
    BY <1>1, <1>2 DEF Tick, TickBegin, TickID, TickData, TickPublish
  <1>3. CASE Observe \/ PublishPresets \/ Invalidate \/ TimePasses \/ MeasureBegin
    BY <1>1, <1>3 DEF Observe, PublishPresets, Invalidate, TimePasses, MeasureBegin
  <1>4. CASE ClearActive
    BY <1>1, <1>4 DEF ClearActive, IInv, TypeOK
  <1>5. CASE MeasureRead
    BY <1>1, <1>5 DEF MeasureRead, IInv, TypeOK
  <1>6. CASE MeasureCommit
    BY <1>1, <1>6 DEF MeasureCommit, IInv, TypeOK
  <1>7. CASE Answers
    BY <1>1, <1>7 DEF Answers, AnswerID, AnswerData
  <1>8. ASSUME NEW n \in Notifiers,
               Post(n) \/ \E event \in EventTypes, k \in Keys : Receive(n, event, k)
        PROVE  FALSE
    BY <1>1, <1>8 DEF Post, Receive
  <1> QED
    BY <1>2, <1>3, <1>4, <1>5, <1>6, <1>7, <1>8 DEF Next

-----------------------------------------------------------------------------
(* The refinement: what the hold looks like from outside.                   *)

HoldOf == IF coord.active = NoKey THEN "none"
          ELSE IF ~Valid(ready) THEN "waiting"
          ELSE IF shown.evaluated.metadata = ready THEN "committed"
          ELSE "ready"

AbstractStep == [HoldOfScene!Next]_(HoldOfScene!vars)

\* The four things a step may do to the hold, besides leaving it alone.
LEMMA HoldSteps ==
    /\ (UNCHANGED <<coord.active, HoldOf>>) => AbstractStep
    /\ coord.active = NoKey /\ coord'.active \in Keys /\ HoldOf' = "waiting" => AbstractStep
    /\ coord.active # NoKey /\ HoldOf' = "waiting" /\ UNCHANGED coord.active => AbstractStep
    /\ HoldOf = "waiting" /\ HoldOf' = "ready" /\ UNCHANGED coord.active => AbstractStep
    /\ HoldOf = "ready" /\ HoldOf' = "committed" /\ UNCHANGED coord.active => AbstractStep
    /\ coord.active # NoKey /\ coord'.active = NoKey => AbstractStep
  BY DEF AbstractStep, HoldOf, HoldOfScene!Next, HoldOfScene!vars, HoldOfScene!Follow,
         HoldOfScene!Notice, HoldOfScene!Answer, HoldOfScene!Publish, HoldOfScene!Forget

\* What the hold is seen from stays.
SameHold ==
    /\ UNCHANGED <<ready, coord.active, coord.pending, shown.evaluated>>
    /\ coord.active # NoKey =>
          receipts'[coord.active].number = receipts[coord.active].number

LEMMA SameHoldStutters ==
    ASSUME SameHold
    PROVE  AbstractStep
  <1>1. HoldOf' = HoldOf
    BY DEF SameHold, HoldOf, Valid
  <1> QED
    BY <1>1, HoldSteps DEF SameHold

LEMMA ReceiveRefines ==
    ASSUME IInv, NEW n \in Notifiers, NEW event \in EventTypes, NEW k \in Keys,
           Receive(n, event, k)
    PROVE  AbstractStep
  <1> USE DEF IInv
  <1>1. UNCHANGED <<coord, ready, shown>> /\ coord.active \in Keys \cup {NoKey}
    BY DEF Receive, TypeOK
  <1>2. CASE coord.active = NoKey
    BY <1>1, <1>2, SameHoldStutters DEF SameHold
  <1>3. CASE coord.active = k /\ event # "Relocated" /\ coord.active # NoKey
    <2>1. receipts'[k].number = serial + 1
      BY <1>3 DEF Receive
    <2>2. ready.revision <= serial /\ ready.revision \in Nat /\ serial \in Nat
      BY SpentIsTyped DEF NoticesAreUnhandled, Spent, Stamps, TypeOK
    <2>3. HoldOf' = "waiting"
      BY <1>1, <1>3, <2>1, <2>2 DEF HoldOf, Valid
    <2> QED
      BY <1>1, <1>3, <2>3, HoldSteps
  <1>4. CASE coord.active # NoKey /\ ~(coord.active = k /\ event # "Relocated")
    <2>1. coord.active \notin Evicted(k)
      BY DEF Evicted
    <2>2. receipts'[coord.active] = receipts[coord.active]
      BY <1>1, <1>4, <2>1 DEF Receive
    <2> QED
      BY <1>1, <2>2, SameHoldStutters DEF SameHold
  <1> QED
    BY <1>2, <1>3, <1>4

LEMMA ObserveRefines ==
    ASSUME IInv, Observe
    PROVE  AbstractStep
  <1>1. PICK notice \in Notice :
              /\ queue # <<>> /\ notice = queue[1] /\ queue' = Tail(queue)
              /\ Unhandled(notice) /\ main.pc = "idle"
              /\ \/ /\ Ends(notice) /\ coord' = Forgotten(coord)
                    /\ ready' = NoMetadata /\ replies' = NoReplies /\ store' = NoMetadata
                 \/ /\ ~Ends(notice) /\ Starts(notice) /\ coord' = Started(notice)
                    /\ ready' = NoMetadata /\ replies' = NoReplies
                    /\ store' \in {store, NoMetadata}
                 \/ /\ ~Ends(notice) /\ ~Starts(notice) /\ Follows(notice)
                    /\ coord' = [coord EXCEPT !.active = notice.key, !.handled = Handled]
                    /\ ready' = ready /\ replies' = replies
                    /\ store' \in {store, NoMetadata}
                 \/ /\ ~Follows(notice)
                    /\ UNCHANGED <<coord, ready, replies, store>>
    BY ObservedNotice
  <1>2. UNCHANGED <<receipts, shown>> /\ notice.key \in Keys
    BY DEF Observe, Notice
  <1>3. CASE Ends(notice) /\ coord' = Forgotten(coord)
    <2>1. coord.active # NoKey
      BY <1>2, <1>3, ConstantsAssumption DEF Ends, Follows, Adopts
    <2>2. coord'.active = NoKey
      BY <1>3 DEF Forgotten, IInv, TypeOK
    <2> QED
      BY <2>1, <2>2, HoldSteps
  <1>4. CASE Starts(notice) /\ coord' = Started(notice) /\ ready' = NoMetadata
    <2>1. coord.active \in {NoKey, notice.key} /\ coord'.active = notice.key
      BY <1>4 DEF Starts, Follows, Adopts, Started
    <2>2. HoldOf' = "waiting"
      BY <1>2, <1>4, <2>1, ConstantsAssumption DEF HoldOf, Valid
    <2> QED
      BY <1>2, <2>1, <2>2, HoldSteps
  <1>5. CASE /\ Follows(notice) /\ ready' = ready
             /\ coord' = [coord EXCEPT !.active = notice.key, !.handled = Handled]
    <2>1. /\ coord.active \in {NoKey, notice.key} /\ coord'.active = notice.key
          /\ coord'.pending = coord.pending
      BY <1>5 DEF Follows, Adopts, IInv, TypeOK
    <2>2. CASE coord.active = NoKey
      <3>1. ready' = NoMetadata
        BY <1>5, <2>2 DEF IInv, HoldIsOne
      <3>2. HoldOf' = "waiting"
        BY <1>2, <2>1, <3>1, ConstantsAssumption DEF HoldOf, Valid
      <3> QED
        BY <1>2, <2>1, <2>2, <3>2, HoldSteps
    <2>3. CASE coord.active = notice.key
      BY <1>2, <1>5, <2>1, <2>3, SameHoldStutters DEF SameHold
    <2> QED
      BY <2>1, <2>2, <2>3
  <1>6. CASE UNCHANGED <<coord, ready>>
    BY <1>2, <1>6, SameHoldStutters DEF SameHold
  <1> QED
    BY <1>1, <1>3, <1>4, <1>5, <1>6

\* An answer of the hold that is under way ends it.
LEMMA AnswerEndsHold ==
    ASSUME IInv, coord.pending, coord.active # NoKey,
           receipts[coord.active].number = coord.working,
           coord' = [coord EXCEPT !.pending = FALSE],
           ready' # ready, ready'.revision = coord.working, UNCHANGED <<receipts, shown>>
    PROVE  AbstractStep
  <1>1. coord'.active = coord.active /\ ~coord'.pending
    BY DEF IInv, TypeOK
  <1>2. /\ ready = NoMetadata /\ ready' # NoMetadata
        /\ shown.evaluated.metadata.revision # coord.working
    BY DEF IInv, HoldIsOne
  <1>3. HoldOf = "waiting"
    BY <1>2 DEF HoldOf, Valid
  <1>4. HoldOf' = "ready"
    BY <1>1, <1>2 DEF HoldOf, Valid
  <1> QED
    BY <1>1, <1>3, <1>4, HoldSteps

LEMMA TickRefines ==
    ASSUME IInv, Tick
    PROVE  AbstractStep
  <1>1. CASE TickID \/ TickData
    BY <1>1, SameHoldStutters DEF SameHold, TickID, TickData, boundary
  <1>2. CASE TickBegin
    <2>1. CASE UNCHANGED <<ready, coord>>
      BY <1>2, <2>1, SameHoldStutters DEF SameHold, TickBegin
    <2>2. CASE /\ ready' = Unknown(coord.working)
               /\ coord' = [coord EXCEPT !.pending = FALSE]
      <3>1. ready'.revision = coord.working /\ coord.working > 0 /\ ready = NoMetadata
        BY <1>2, <2>2, UnknownIsTyped DEF TickBegin, Works, IInv, HoldIsOne, TypeOK
      <3>2. ready' # ready
        BY <3>1 DEF NoMetadata
      <3> QED
        BY <1>2, <2>2, <3>1, <3>2, AnswerEndsHold DEF TickBegin, Works
    <2> QED
      BY <1>2, <2>1, <2>2 DEF TickBegin
  <1>3. CASE TickPublish
    <2>1. CASE UNCHANGED <<ready, coord>>
      BY <1>3, <2>1, SameHoldStutters DEF SameHold, TickPublish
    <2>2. CASE /\ coord.active = main.key /\ coord.working = main.revision
               /\ receipts[main.key].number = main.revision
               /\ ready' = main.result /\ coord' = [coord EXCEPT !.pending = FALSE]
      <3>1. /\ coord.active # NoKey /\ coord.pending /\ ready = NoMetadata
            /\ ready'.revision = coord.working /\ coord.working > 0
        BY <1>3, <2>2, ConstantsAssumption DEF TickPublish, IInv, HoldIsOne
      <3>2. ready' # ready
        BY <3>1 DEF NoMetadata
      <3> QED
        BY <1>3, <2>2, <3>1, <3>2, AnswerEndsHold DEF TickPublish
    <2> QED
      BY <1>3, <2>1, <2>2 DEF TickPublish
  <1> QED
    BY <1>1, <1>2, <1>3 DEF Tick

LEMMA MeasureCommitRefines ==
    ASSUME IInv, MeasureCommit
    PROVE  AbstractStep
  <1>1. UNCHANGED <<receipts, coord, ready>>
    BY DEF MeasureCommit
  <1>2. CASE UNCHANGED shown
    BY <1>1, <1>2, SameHoldStutters DEF SameHold
  <1>3. CASE Current(main.basis) /\ shown' = [shown EXCEPT !.evaluated = main.basis]
    <2>1. shown'.evaluated.metadata = ready /\ Valid(ready)
      BY <1>3 DEF Current, Valid, IInv, TypeOK
    <2>2. HoldOf \in {"ready", "committed"} /\ HoldOf' = "committed"
      BY <1>1, <2>1 DEF HoldOf, Valid
    <2> QED
      BY <1>1, <2>2, HoldSteps
  <1> QED
    BY <1>2, <1>3 DEF MeasureCommit

LEMMA NextRefines ==
    ASSUME IInv, [Next]_vars
    PROVE  AbstractStep
  <1>1. ASSUME NEW n \in Notifiers, NEW event \in EventTypes, NEW k \in Keys,
               Receive(n, event, k)
        PROVE  AbstractStep
    BY <1>1, ReceiveRefines
  <1>2. ASSUME NEW n \in Notifiers, Post(n) PROVE AbstractStep
    BY <1>2, SameHoldStutters DEF SameHold, Post, boundary
  <1>3. CASE Observe
    BY <1>3, ObserveRefines
  <1>4. CASE ClearActive
    <2>1. coord.active # NoKey /\ coord'.active = NoKey
      BY <1>4 DEF ClearActive, Forgotten, IInv, TypeOK
    <2> QED
      BY <2>1, HoldSteps
  <1>5. CASE Tick
    BY <1>5, TickRefines
  <1>6. CASE MeasureBegin \/ PublishPresets \/ Answers
    BY <1>6, SameHoldStutters
    DEF SameHold, MeasureBegin, PublishPresets, Answers, AnswerID, AnswerData, boundary
  <1>7. CASE MeasureRead
    BY <1>7, SameHoldStutters DEF SameHold, MeasureRead, boundary, IInv, TypeOK
  <1>8. CASE MeasureCommit
    BY <1>8, MeasureCommitRefines
  <1>9. CASE Select
    BY <1>9, SameHoldStutters DEF SameHold, Select, boundary, IInv, TypeOK
  <1>10. CASE Invalidate
    <2>1. /\ coord' = Forgotten(coord) /\ coord'.active = NoKey
          /\ coord.active = NoKey => ~coord.pending /\ ready = NoMetadata
          /\ ready' = NoMetadata /\ UNCHANGED shown
      BY <1>10 DEF Invalidate, ForgetsMetadata, Forgotten, IInv, TypeOK, HoldIsOne
    <2>2. CASE coord.active = NoKey
      <3>1. HoldOf = "none" /\ HoldOf' = "none"
        BY <2>1, <2>2 DEF HoldOf
      <3> QED
        BY <2>1, <2>2, <3>1, HoldSteps
    <2> QED
      BY <2>1, <2>2, HoldSteps
  <1>11. CASE TimePasses
    <2>1. /\ coord'.active = coord.active /\ coord'.pending = coord.pending
          /\ coord.active \in Keys \cup {NoKey}
          /\ \A k \in Keys : receipts'[k].number = receipts[k].number
      BY <1>11 DEF TimePasses, IInv, TypeOK, Receipt
    <2> QED
      BY <1>11, <2>1, SameHoldStutters DEF SameHold, TimePasses
  <1>12. CASE UNCHANGED vars
    BY <1>12, SameHoldStutters DEF SameHold, vars
  <1> QED
    BY <1>1, <1>2, <1>3, <1>4, <1>5, <1>6, <1>7, <1>8, <1>9, <1>10, <1>11, <1>12 DEF Next

-----------------------------------------------------------------------------
(* The theorems.                                                            *)

\* The strengthened invariant: stamps on their way are of no work yet, a scene
\* on hold has no metadata, answers are of the hold that asked for them.
THEOREM UpdateIsInductive == Spec => []IInv
  BY InitHolds, NextKeepsIInv, PTL DEF Spec

\* Type correctness of the coordinator: no stamp, age or edit leaves its range.
THEOREM UpdateTypeIsCorrect == Spec => []TypeOK
  BY UpdateIsInductive, PTL DEF IInv

\* The scene followed keeps its receipt and the receipts stay within their
\* capacity, however many scenes are heard of (receipts_.at in Tick).
THEOREM ReceiptsNeverMiss == Spec => []ReceiptsAreKept
  <1>1. IInv => ReceiptsAreKept
    BY DEF IInv, ReceiptsAreBounded
  <1> QED
    BY <1>1, UpdateIsInductive, PTL

\* Metadata is never composed of answers about different animations, and never
\* known where no start or stage notice asked for it.
THEOREM MetadataIsNeverMixed == Spec => []MetadataIsWhole
  <1>1. IInv => MetadataIsWhole
    BY DEF IInv, MetadataIsWhole, RepliesAgree, Whole, AnswersAreOfHold, Valid
  <1> QED
    BY <1>1, UpdateIsInductive, PTL

\* Metadata settled for a notice, known or unknown, is final for it.
THEOREM SettledStaysFinal == Spec => SettledIsFinal
  <1>1. IInv /\ [Next]_vars =>
           [ready # NoMetadata /\ ready' # NoMetadata /\ ready' # ready =>
               ready'.revision > ready.revision]_vars
    BY SettledByTick DEF vars
  <1> QED
    BY <1>1, UpdateIsInductive, PTL DEF Spec, SettledIsFinal

\* A selection is made from the metadata of the last notice received, from the
\* positions and the presets of that moment, on whichever threads they change.
THEOREM SelectionsAreCurrent == Spec => SelectionIsCurrent
  <1>1. ASSUME IInv, [Next]_vars, shown'.chosen # shown.chosen
        PROVE  LET basis == shown'.chosen IN
               /\ coord.active # NoKey
               /\ basis.metadata.revision = receipts[coord.active].number
               /\ basis.metadata.known =>
                     basis.metadata.at >= receipts[coord.active].number
               /\ basis.position = position /\ basis.presets = presets
               /\ main.pc = "select" =>
                     /\ shown.filter.metadata = basis.metadata
                     /\ shown.filter.presets = presets
    <2>1. Select
      BY <1>1, ChosenBySelect DEF vars
    <2>2. Current(shown.evaluated) /\ shown'.chosen = shown.evaluated
      BY <1>1, <2>1 DEF Select, IInv, TypeOK
    <2>3. /\ coord.active # NoKey /\ shown.evaluated.metadata = ready
          /\ receipts[coord.active].number = ready.revision
          /\ shown.evaluated.position = position /\ shown.evaluated.presets = presets
      BY <2>2 DEF Current, Valid
    <2>4. ready.known => ready.at >= ready.revision
      BY <1>1 DEF IInv, AnswersAreOfHold
    <2>5. main.pc = "select" => /\ shown.filter.metadata = shown.evaluated.metadata
                                /\ shown.filter.presets = shown.evaluated.presets
      BY <1>1 DEF IInv, VerdictsAreKept
    <2> QED
      BY <2>2, <2>3, <2>4, <2>5
  <1>2. IInv /\ [Next]_vars =>
           [ shown'.chosen # shown.chosen =>
               LET basis == shown'.chosen IN
               /\ coord.active # NoKey
               /\ basis.metadata.revision = receipts[coord.active].number
               /\ basis.metadata.known =>
                     basis.metadata.at >= receipts[coord.active].number
               /\ basis.position = position /\ basis.presets = presets
               /\ main.pc = "select" =>
                     /\ shown.filter.metadata = basis.metadata
                     /\ shown.filter.presets = presets ]_vars
    BY <1>1
  <1> QED
    BY <1>2, UpdateIsInductive, PTL DEF Spec, SelectionIsCurrent

\* The coordinator, with the selection it guards, implements MetadataHold: a
\* notice of the scene followed holds every selection before it is handled, and
\* only an answer to that notice ends the hold.
THEOREM CoordinatorIsAHold == Spec => IsAHold
  <1>1. Init => HoldOfScene!Init
    BY DEF Init, HoldOfScene!Init
  <1>2. IInv /\ [Next]_vars => [HoldOfScene!Next]_(HoldOfScene!vars)
    BY NextRefines DEF AbstractStep
  <1> QED
    BY <1>1, <1>2, UpdateIsInductive, PTL DEF Spec, IsAHold, HoldOfScene!Spec

=============================================================================
