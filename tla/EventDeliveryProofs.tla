-------------------------- MODULE EventDeliveryProofs --------------------------
(***************************************************************************)
(* Proofs about EventDelivery, for any number of notifiers, notices, loads,*)
(* camera-state changes and failures, on whatever thread they happen.      *)
(***************************************************************************)
EXTENDS EventDelivery, FiniteSetTheorems, SequenceTheorems, TLAPS

USE DEF Main

-----------------------------------------------------------------------------
(* The inductive invariant.                                                 *)

Busy == {n \in Notifiers : notifiers[n].pc # "idle"}
Queue == main.batch \o pending
InWork == main.pc \in {"collect", "recheck", "live", "restore", "apply"}

\* Invalidations a load that has bumped the generation still owes.
Owed == IF load = "bumped" THEN 2 ELSE IF load = "invalidated" THEN 1 ELSE 0

\* What bounds the stamps given out.
StampsAreCounted ==
    /\ through <= serial
    /\ serial + Owed <= raised + 2 * generation + changes + failures
    /\ load # "idle" => generation > 0

\* The loads that have invalidated the receipts given out before them.
Settling == IF load = "bumped" THEN generation - 1 ELSE generation

\* A notice raised before such a load is no longer live.
Carried(w) ==
    /\ w.receipt <= serial /\ w.raised <= generation
    /\ w.raised < Settling => w.receipt <= through

WorkIsStamped ==
    /\ \A n \in Busy : Carried(notifiers[n].work)
    /\ \A i \in 1 .. Len(Queue) : Carried(Queue[i])

\* Each stamp is in one place.
ReceiptsAreDistinct ==
    /\ \A r \in settled : r <= serial
    /\ \A n \in Busy :
          /\ notifiers[n].work.receipt \notin settled
          /\ \A k \in Busy : notifiers[k].work.receipt = notifiers[n].work.receipt => k = n
          /\ \A i \in 1 .. Len(Queue) : Queue[i].receipt # notifiers[n].work.receipt
    /\ \A i \in 1 .. Len(Queue) :
          /\ Queue[i].receipt \notin settled
          /\ \A j \in 1 .. Len(Queue) : Queue[j].receipt = Queue[i].receipt => j = i

NoticesAreCounted == IsFiniteSet(Busy) /\ IsFiniteSet(settled) /\ NoticesAreKept

\* What the main thread knows of the work it is at; a load on the main thread
\* comes between two ticks.
WorkIsAtHand ==
    /\ InWork => main.batch # <<>>
    /\ where = "main" /\ load # "idle" => main.pc = "idle"
    /\ main.loads <= Loaded
    /\ main.pc \in {"restore", "apply"} =>
          /\ Notice.raised >= main.loads
          /\ where = "main" => Notice.raised = generation

IInv ==
    /\ TypeOK /\ StampsAreCounted
    /\ WorkIsStamped /\ ReceiptsAreDistinct /\ NoticesAreCounted
    /\ WorkIsAtHand
    /\ RestoreIsOwed /\ NoStaleSceneOnMain

-----------------------------------------------------------------------------
(* Sequences.                                                               *)

LEMMA HeadIsTyped ==
    ASSUME NEW S, NEW q \in Seq(S), q # <<>>
    PROVE  /\ Head(q) \in S /\ Head(q) = q[1] /\ Len(q) \in Nat \ {0}
           /\ Tail(q) \in Seq(S) /\ Len(Tail(q)) = Len(q) - 1
           /\ \A i \in 1 .. Len(q) - 1 : Tail(q)[i] = q[i + 1]
  BY HeadTailProperties

\* A batch without its first work, and what is pending behind it.
LEMMA QueueWithoutHead ==
    ASSUME NEW S, NEW q \in Seq(S), q # <<>>, NEW p \in Seq(S)
    PROVE  /\ Len(q \o p) = Len(Tail(q) \o p) + 1
           /\ (q \o p)[1] = Head(q)
           /\ \A i \in 1 .. Len(Tail(q) \o p) : (Tail(q) \o p)[i] = (q \o p)[i + 1]
  <1>1. /\ Head(q) = q[1] /\ Len(q) \in Nat \ {0}
        /\ Tail(q) \in Seq(S) /\ Len(Tail(q)) = Len(q) - 1
        /\ \A i \in 1 .. Len(q) - 1 : Tail(q)[i] = q[i + 1]
    BY HeadIsTyped
  <1>2. Len(p) \in Nat /\ Len(Tail(q)) \in Nat
    BY <1>1, LenProperties
  <1>3. /\ Len(q \o p) = Len(q) + Len(p)
        /\ \A i \in 1 .. Len(q) + Len(p) :
              (q \o p)[i] = IF i <= Len(q) THEN q[i] ELSE p[i - Len(q)]
    BY ConcatProperties
  <1>4. /\ Len(Tail(q) \o p) = Len(Tail(q)) + Len(p)
        /\ \A i \in 1 .. Len(Tail(q)) + Len(p) :
              (Tail(q) \o p)[i] = IF i <= Len(Tail(q)) THEN Tail(q)[i] ELSE p[i - Len(Tail(q))]
    BY <1>1, ConcatProperties
  <1>5. Len(q \o p) = Len(Tail(q) \o p) + 1 /\ (q \o p)[1] = Head(q)
    BY <1>1, <1>2, <1>3, <1>4
  <1>6. ASSUME NEW i \in 1 .. Len(Tail(q) \o p)
        PROVE  (Tail(q) \o p)[i] = (q \o p)[i + 1]
    <2>1. i + 1 \in 1 .. Len(q) + Len(p) /\ i \in 1 .. Len(Tail(q)) + Len(p)
      BY <1>1, <1>2, <1>4
    <2>2. CASE i <= Len(Tail(q))
      BY <1>1, <1>2, <1>3, <1>4, <2>1, <2>2
    <2>3. CASE i > Len(Tail(q))
      <3>1. (Tail(q) \o p)[i] = p[i - Len(Tail(q))]
        BY <1>2, <1>4, <2>1, <2>3
      <3>2. (q \o p)[i + 1] = p[i + 1 - Len(q)]
        BY <1>1, <1>2, <1>3, <2>1, <2>3
      <3>3. i - Len(Tail(q)) = i + 1 - Len(q)
        BY <1>1, <1>2
      <3> QED
        BY <3>1, <3>2, <3>3
    <2> QED
      BY <1>2, <2>2, <2>3
  <1> QED
    BY <1>5, <1>6

\* Another work at the end.
LEMMA QueueWithLast ==
    ASSUME NEW S, NEW q \in Seq(S), NEW p \in Seq(S), NEW e \in S
    PROVE  q \o Append(p, e) = Append(q \o p, e)
  BY ConcatProperties, AppendProperties, ConcatAssociative, ConcatEmptySeq

-----------------------------------------------------------------------------
(* What is common to the actions.                                           *)

\* Stamps and generation only grow, and a load counts as settling only once it
\* has invalidated the receipts.
ReceiptsMove == UNCHANGED receipts \/ Invalidate
GenerationMoves ==
    /\ generation' \in Nat /\ generation' >= generation
    /\ Settling' = Settling \/ Invalidate

LEMMA CarriedStays ==
    ASSUME TypeOK, StampsAreCounted, ReceiptsMove, GenerationMoves
    PROVE  \A w \in Work : Carried(w) => Carried(w)'
  <1>1. serial \in Nat /\ through \in Nat /\ through <= serial /\ generation \in Nat
    BY ConstantsAssumption DEF TypeOK, StampsAreCounted, Stamps, Eras
  <1> SUFFICES ASSUME NEW w \in Work, Carried(w) PROVE Carried(w)'
    OBVIOUS
  <1>2. w.receipt \in Nat /\ w.raised \in Nat
    BY DEF Work, Stamps, Eras
  <1>3. w.receipt <= serial' /\ w.raised <= generation'
    BY <1>1, <1>2 DEF ReceiptsMove, Invalidate, receipts, GenerationMoves, Carried
  <1>4. through' >= through
    BY <1>1 DEF ReceiptsMove, Invalidate, receipts
  <1>5. CASE Settling' = Settling
    BY <1>1, <1>2, <1>3, <1>4, <1>5 DEF ReceiptsMove, Invalidate, receipts, Carried
  <1>6. CASE Invalidate
    BY <1>1, <1>2, <1>3, <1>6 DEF Invalidate, Carried
  <1> QED
    BY <1>5, <1>6 DEF GenerationMoves

LEMMA QueueIsTyped ==
    ASSUME TypeOK
    PROVE  /\ main.batch \in Seq(Work) /\ pending \in Seq(Work)
           /\ Queue \in Seq(Work) /\ Len(Queue) \in Nat
           /\ Len(Queue) = Len(main.batch) + Len(pending)
           /\ \A i \in 1 .. Len(Queue) : Queue[i] \in Work
           /\ \A n \in Busy : notifiers[n].work \in Work
  <1>1. main.batch \in Seq(Work) /\ pending \in Seq(Work)
    BY DEF TypeOK
  <1>2. Queue \in Seq(Work) /\ Len(Queue) = Len(main.batch) + Len(pending)
    BY <1>1, ConcatProperties DEF Queue
  <1>3. \A i \in 1 .. Len(Queue) : Queue[i] \in Work
    BY <1>2, ElementOfSeq
  <1>4. \A n \in Busy : notifiers[n].work \in Work
    BY DEF TypeOK, Busy
  <1> QED
    BY <1>1, <1>2, <1>3, <1>4, LenProperties

\* What a step keeps that neither takes nor settles a notice.
LEMMA NoticesStay ==
    ASSUME TypeOK, StampsAreCounted, WorkIsStamped, ReceiptsAreDistinct,
           NoticesAreCounted, ReceiptsMove, GenerationMoves,
           UNCHANGED <<notifiers, pending, raised, settled>>, main'.batch = main.batch
    PROVE  WorkIsStamped' /\ ReceiptsAreDistinct' /\ NoticesAreCounted'
  <1>1. Queue' = Queue /\ Busy' = Busy
    BY DEF Queue, Busy
  <1>2. WorkIsStamped'
    BY <1>1, CarriedStays, QueueIsTyped DEF WorkIsStamped
  <1>3. \A r \in settled : r <= serial'
    <2>1. serial \in Nat /\ settled \subseteq Nat
      BY DEF TypeOK, Stamps
    <2>2. serial' = serial \/ serial' = serial + 1
      BY DEF ReceiptsMove, Invalidate, receipts
    <2>3. \A r \in settled : r \in Nat /\ r <= serial
      BY <2>1 DEF ReceiptsAreDistinct
    <2> QED
      BY <2>1, <2>2, <2>3
  <1>4. ReceiptsAreDistinct'
    BY <1>1, <1>3 DEF ReceiptsAreDistinct
  <1>5. NoticesAreCounted'
    BY <1>1 DEF NoticesAreCounted, NoticesAreKept, Busy
  <1> QED
    BY <1>2, <1>4, <1>5

\* The end of the work the main thread is at.
LEMMA WorkIsDone ==
    ASSUME TypeOK, Done
    PROVE  main' = [pc |-> "next", batch |-> Tail(main.batch), player |-> FALSE,
                    loads |-> main.loads]
  BY DEF TypeOK, Done

LEMMA NoticeSettles ==
    ASSUME TypeOK, StampsAreCounted, WorkIsStamped, ReceiptsAreDistinct,
           NoticesAreCounted, ReceiptsMove, UNCHANGED <<generation, load>>,
           UNCHANGED <<notifiers, pending, raised>>, main.batch # <<>>, Settled
    PROVE  /\ WorkIsStamped' /\ ReceiptsAreDistinct' /\ NoticesAreCounted'
           /\ settled' \subseteq Stamps /\ main'.batch \in Seq(Work)
  <1>1. /\ main.batch \in Seq(Work) /\ pending \in Seq(Work)
        /\ Queue \in Seq(Work) /\ Len(Queue) \in Nat
        /\ Len(Queue) = Len(main.batch) + Len(pending)
        /\ \A i \in 1 .. Len(Queue) : Queue[i] \in Work
        /\ \A n \in Busy : notifiers[n].work \in Work
    BY QueueIsTyped
  <1>2. /\ main'.batch = Tail(main.batch)
        /\ settled' = settled \cup {Notice.receipt}
    BY WorkIsDone DEF Settled
  <1>0. PICK queue, rest : queue = Queue /\ rest = Tail(main.batch) \o pending
    OBVIOUS
  <1>3. Queue' = rest /\ Busy' = Busy
    BY <1>0, <1>2 DEF Queue, Busy
  <1>4. /\ Notice \in Work /\ Notice = Head(main.batch)
        /\ Tail(main.batch) \in Seq(Work) /\ Len(Tail(main.batch)) = Len(main.batch) - 1
        /\ Len(main.batch) \in Nat \ {0}
    BY <1>1, HeadIsTyped DEF Notice
  <1>5. /\ Len(queue) = Len(rest) + 1 /\ queue[1] = Notice
        /\ \A i \in 1 .. Len(rest) : rest[i] = queue[i + 1]
    <2>1. /\ Len(main.batch \o pending) = Len(Tail(main.batch) \o pending) + 1
          /\ (main.batch \o pending)[1] = Head(main.batch)
          /\ \A i \in 1 .. Len(Tail(main.batch) \o pending) :
                (Tail(main.batch) \o pending)[i] = (main.batch \o pending)[i + 1]
      BY <1>1, QueueWithoutHead, ZenonT(40)
    <2> QED
      BY <1>0, <1>4, <2>1, Zenon DEF Queue
  <1>6. Len(rest) \in Nat
    BY <1>0, <1>4, <1>1, ConcatProperties, LenProperties
  <1>7. \A i \in 1 .. Len(rest) : i + 1 \in 1 .. Len(queue) /\ i + 1 # 1
    BY <1>5, <1>6
  <1>8. 1 \in 1 .. Len(queue)
    BY <1>5, <1>6
  <1>9. GenerationMoves
    BY DEF GenerationMoves, TypeOK, Eras, Settling
  <1>10. WorkIsStamped'
    <2>1. \A n \in Busy : Carried(notifiers[n].work)'
      BY <1>0, <1>1, <1>9, CarriedStays DEF WorkIsStamped
    <2>2. \A i \in 1 .. Len(rest) : Carried(queue[i + 1])'
      BY <1>0, <1>1, <1>7, <1>9, CarriedStays DEF WorkIsStamped
    <2> QED
      BY <1>3, <1>5, <2>1, <2>2 DEF WorkIsStamped
  <1>11. serial \in Nat /\ settled \subseteq Nat /\ Notice.receipt \in Stamps
    BY <1>4 DEF TypeOK, Stamps, Work
  <1>12. Notice.receipt <= serial
    BY <1>0, <1>5, <1>8 DEF WorkIsStamped, Carried
  <1>13. ReceiptsAreDistinct'
    <2>1. \A r \in settled' : r <= serial'
      <3>1. serial' = serial \/ serial' = serial + 1
        BY DEF ReceiptsMove, Invalidate, receipts
      <3>2. \A r \in settled' : r \in Nat /\ r <= serial
        BY <1>2, <1>11, <1>12 DEF ReceiptsAreDistinct, Stamps
      <3> QED
        BY <1>11, <3>1, <3>2
    <2>2. \A n \in Busy :
            /\ notifiers[n].work.receipt \notin settled'
            /\ \A k \in Busy : notifiers[k].work.receipt = notifiers[n].work.receipt => k = n
            /\ \A i \in 1 .. Len(rest) : rest[i].receipt # notifiers[n].work.receipt
      <3> TAKE n \in Busy
      <3>1. /\ notifiers[n].work.receipt \notin settled
            /\ \A k \in Busy : notifiers[k].work.receipt = notifiers[n].work.receipt => k = n
            /\ \A i \in 1 .. Len(queue) : queue[i].receipt # notifiers[n].work.receipt
        BY <1>0, Zenon DEF ReceiptsAreDistinct
      <3> QED
        BY <1>2, <1>5, <1>7, <1>8, <3>1
    <2>3. \A i \in 1 .. Len(rest) :
            /\ rest[i].receipt \notin settled'
            /\ \A j \in 1 .. Len(rest) : rest[j].receipt = rest[i].receipt => j = i
      <3> TAKE i \in 1 .. Len(rest)
      <3>1. rest[i] = queue[i + 1] /\ i + 1 \in 1 .. Len(queue) /\ i + 1 # 1
        BY <1>5, <1>7
      <3>2. rest[i].receipt \notin settled'
        BY <1>0, <1>2, <1>5, <1>8, <3>1 DEF ReceiptsAreDistinct
      <3>3. ASSUME NEW j \in 1 .. Len(rest), rest[j].receipt = rest[i].receipt
            PROVE  j = i
        <4>1. rest[j] = queue[j + 1] /\ j + 1 \in 1 .. Len(queue)
          BY <1>5, <1>7
        <4>2. j + 1 = i + 1
          BY <1>0, <3>1, <3>3, <4>1 DEF ReceiptsAreDistinct
        <4> QED
          BY <4>2
      <3> QED
        BY <3>2, <3>3
    <2> QED
      BY <1>3, <2>1, <2>2, <2>3 DEF ReceiptsAreDistinct
  <1>14. NoticesAreCounted'
    <2>1. Notice.receipt \notin settled
      BY <1>0, <1>5, <1>8 DEF ReceiptsAreDistinct
    <2>2. IsFiniteSet(settled) /\ Cardinality(settled) \in Nat
      BY FS_CardinalityType DEF NoticesAreCounted
    <2>3. IsFiniteSet(settled') /\ Cardinality(settled') = Cardinality(settled) + 1
      BY <1>2, <2>1, <2>2, FS_AddElement
    <2>4. Cardinality(Busy) \in Nat
      BY FS_CardinalityType DEF NoticesAreCounted
    <2>5. raised = Cardinality(Busy) + Len(pending) + Len(main.batch) + Cardinality(settled)
      BY DEF NoticesAreCounted, NoticesAreKept, Busy
    <2>6. Len(main'.batch) = Len(main.batch) - 1 /\ Len(pending) \in Nat /\ Len(main.batch) \in Nat
      BY <1>1, <1>2, <1>4, LenProperties
    <2>7. raised = Cardinality(Busy) + Len(pending) + Len(main'.batch) + Cardinality(settled')
      <3>1. PICK a, b, c, d, e, f :
               /\ a = Cardinality(Busy) /\ b = Len(pending)
               /\ c = Len(main.batch) /\ d = Cardinality(settled)
               /\ e = Len(main'.batch) /\ f = Cardinality(settled')
        OBVIOUS
      <3>2. {a, b, c, d} \subseteq Nat /\ e = c - 1 /\ f = d + 1
        BY <2>2, <2>3, <2>4, <2>6, <3>1, Zenon
      <3>3. raised = a + b + c + d
        BY <2>5, <3>1, Zenon
      <3>4. raised = a + b + e + f
        BY <3>2, <3>3
      <3> QED
        BY <3>1, <3>4, Zenon
    <2>8. IsFiniteSet(Busy')
      BY <1>3 DEF NoticesAreCounted
    <2> QED
      BY <1>3, <2>3, <2>7, <2>8 DEF NoticesAreCounted, NoticesAreKept, Busy
  <1>15. settled' \subseteq Stamps
    BY <1>2, <1>11 DEF TypeOK
  <1> QED
    BY <1>2, <1>4, <1>10, <1>13, <1>14, <1>15

\* Stamps stay in their range as long as notices, loads, changes and failures do.
LEMMA StampsAreBounded ==
    ASSUME NEW s \in Nat, NEW t \in Nat, NEW r \in 0 .. MaxNotices, NEW g \in Eras,
           NEW c \in 0 .. MaxChanges, NEW f \in 0 .. MaxFailures, NEW o \in Nat,
           t <= s, s + o <= r + 2 * g + c + f
    PROVE  s \in Stamps /\ t \in Stamps
  BY ConstantsAssumption DEF Stamps, Eras

\* The scene stays, is gone, or is left to a reset.
GivesBack ==
    \/ scene' = NoScene /\ reset' \in BOOLEAN
    \/ scene' \in {scene, Restoring(scene)} /\ reset' = TRUE
    \/ UNCHANGED <<scene, reset>>

LEMMA SceneIsGivenBack ==
    ASSUME TypeOK, RestoreIsOwed, NoStaleSceneOnMain, GivesBack, UNCHANGED where,
           \/ load' # "idle"
           \/ reset'
           \/ load = "idle" /\ UNCHANGED generation
    PROVE  /\ scene' \in Scene /\ (scene'.state = "Idle" <=> scene' = NoScene)
           /\ reset' \in BOOLEAN
           /\ RestoreIsOwed' /\ NoStaleSceneOnMain'
  <1>1. scene \in Scene /\ reset \in BOOLEAN /\ (scene.state = "Idle" <=> scene = NoScene)
    BY DEF TypeOK
  <1>2. NoScene \in Scene /\ NoScene.state = "Idle"
    BY ConstantsAssumption DEF NoScene, Scene, Eras
  <1>3. scene # NoScene =>
            Restoring(scene) \in Scene /\ Restoring(scene).state = "Restoring"
    BY <1>1 DEF Restoring, Scene
  <1>4. scene = NoScene => Restoring(scene) = NoScene
    BY DEF Restoring
  <1>5. /\ scene' \in Scene /\ (scene'.state = "Idle" <=> scene' = NoScene)
        /\ reset' \in BOOLEAN
    BY <1>1, <1>2, <1>3, <1>4 DEF GivesBack
  <1>6. RestoreIsOwed'
    BY <1>2 DEF GivesBack, RestoreIsOwed
  <1>7. NoStaleSceneOnMain'
    BY DEF GivesBack, NoStaleSceneOnMain, NoStaleScene
  <1> QED
    BY <1>5, <1>6, <1>7

-----------------------------------------------------------------------------
(* The notifiers.                                                           *)

LEMMA ReceiveKeeps ==
    ASSUME IInv, NEW n \in Notifiers, NEW type \in EventTypes, NEW key \in Keys,
           ReceiveSceneEvent(n, type, key)
    PROVE  IInv'
  <1> USE DEF IInv
  <1>0. PICK w : w = [type |-> type, key |-> key, receipt |-> serial + 1,
                      raised |-> generation, generation |-> 0]
    OBVIOUS
  <1>1. /\ notifiers[n].pc = "idle" /\ raised < MaxNotices
        /\ raised' = raised + 1 /\ serial' = serial + 1
        /\ notifiers' = [notifiers EXCEPT ![n] = [pc |-> "stamped", work |-> w]]
        /\ UNCHANGED <<where, generation, through, reset, scene, hook, pending, main,
                       load, camera, changes, failures, settled>>
    BY <1>0 DEF ReceiveSceneEvent, resetters
  <1>2. /\ serial \in Nat /\ through \in Nat /\ raised \in Nat /\ generation \in Nat
        /\ changes \in Nat /\ failures \in Nat /\ Owed \in Nat /\ raised' \in 0 .. MaxNotices
    BY <1>1, ConstantsAssumption DEF TypeOK, Stamps, Eras, Owed
  <1>3. StampsAreCounted'
    BY <1>1, <1>2 DEF StampsAreCounted, Owed
  <1>4. serial' \in Stamps /\ through' \in Stamps
    <2>1. Owed' = Owed /\ serial' \in Nat /\ through' \in Nat
      BY <1>1, <1>2 DEF Owed
    <2>2. /\ generation' \in Eras /\ changes' \in 0 .. MaxChanges
          /\ failures' \in 0 .. MaxFailures
      BY <1>1 DEF TypeOK
    <2> QED
      BY <1>2, <1>3, <2>1, <2>2, StampsAreBounded DEF StampsAreCounted
  <1>5. w \in Work /\ w.receipt = serial + 1 /\ w.raised = generation
    BY <1>0, <1>1, <1>4, ConstantsAssumption DEF TypeOK, Work, Eras
  <1>6. /\ notifiers' \in [Notifiers -> [pc : {"idle", "stamped", "numbered"},
                                         work : Work \cup {<<>>}]]
        /\ notifiers'[n].pc = "stamped" /\ notifiers'[n].work = w
        /\ \A k \in Notifiers : k # n => notifiers'[k] = notifiers[k]
    BY <1>1, <1>5 DEF TypeOK
  <1>7. TypeOK'
    BY <1>1, <1>2, <1>4, <1>5, <1>6 DEF TypeOK
  <1>8. Busy' = Busy \cup {n} /\ n \notin Busy /\ Queue' = Queue /\ Settling' = Settling
    BY <1>1, <1>6 DEF Busy, Queue, Settling
  <1>9. /\ \A i \in 1 .. Len(Queue) : Queue[i] \in Work
        /\ \A k \in Busy : notifiers[k].work \in Work
    BY QueueIsTyped
  <1>10. \A v \in Work : v.receipt \in Nat /\ v.raised \in Nat
    BY DEF Work, Stamps, Eras
  <1>11. WorkIsStamped'
    <2>1. \A v \in Work : Carried(v) => Carried(v)'
      BY <1>1, <1>2, <1>8, <1>10 DEF Carried
    <2>2. Carried(w)'
      BY <1>1, <1>2, <1>5, <1>8 DEF Carried, Settling
    <2>3. PICK queue : queue = Queue
      OBVIOUS
    <2>4. \A i \in 1 .. Len(queue) : Carried(queue[i])'
      BY <1>9, <2>1, <2>3 DEF WorkIsStamped
    <2>5. \A k \in Busy : notifiers'[k] = notifiers[k] /\ k \in Notifiers
      BY <1>6, <1>8 DEF Busy
    <2>6. \A k \in Busy' : Carried(notifiers[k].work)'
      <3> SUFFICES ASSUME NEW k \in Notifiers, k \in Busy'
                   PROVE  Carried(notifiers[k].work)'
        BY DEF Busy
      <3>1. CASE k = n
        BY <1>6, <2>2, <3>1 DEF Carried
      <3>2. CASE k # n
        <4>1. k \in Busy /\ notifiers'[k] = notifiers[k]
          BY <1>8, <2>5, <3>2
        <4>2. PICK v \in Work : v = notifiers[k].work /\ Carried(v)
          BY <1>9, <4>1 DEF WorkIsStamped
        <4>3. notifiers'[k].work = v /\ Carried(v)'
          BY <2>1, <4>1, <4>2
        <4> QED
          BY <4>3 DEF Carried
      <3> QED
        BY <3>1, <3>2
    <2> QED
      BY <1>8, <2>3, <2>4, <2>6 DEF WorkIsStamped
  <1>12. ReceiptsAreDistinct'
    <2>1. \A r \in settled : r \in Nat /\ r <= serial
      BY <1>2 DEF ReceiptsAreDistinct, TypeOK, Stamps
    <2>2. \A k \in Busy : /\ notifiers'[k] = notifiers[k]
                          /\ notifiers[k].work.receipt \in Nat
                          /\ notifiers[k].work.receipt <= serial
      BY <1>6, <1>8, <1>9, <1>10 DEF Busy, WorkIsStamped, Carried
    <2>3. \A i \in 1 .. Len(Queue) : Queue[i].receipt \in Nat /\ Queue[i].receipt <= serial
      BY <1>9, <1>10 DEF WorkIsStamped, Carried
    <2>4. PICK queue : queue = Queue
      OBVIOUS
    <2>5. \A r \in settled' : r <= serial'
      BY <1>1, <1>2, <2>1
    <2>6. \A k \in Busy' :
            /\ notifiers'[k].work.receipt \notin settled'
            /\ \A j \in Busy' : notifiers'[j].work.receipt = notifiers'[k].work.receipt => j = k
            /\ \A i \in 1 .. Len(queue) : queue[i].receipt # notifiers'[k].work.receipt
      <3>1. \A k \in Busy :
            /\ notifiers[k].work.receipt \notin settled
            /\ \A j \in Busy : notifiers[j].work.receipt = notifiers[k].work.receipt => j = k
            /\ \A i \in 1 .. Len(queue) : queue[i].receipt # notifiers[k].work.receipt
        BY <2>4 DEF ReceiptsAreDistinct
      <3>2. /\ notifiers'[n].work.receipt = serial + 1
            /\ serial + 1 \notin settled
            /\ \A k \in Busy : notifiers[k].work.receipt # serial + 1
            /\ \A i \in 1 .. Len(queue) : queue[i].receipt # serial + 1
        BY <1>2, <1>5, <1>6, <2>1, <2>2, <2>3, <2>4
      <3> QED
        BY <1>1, <1>8, <2>2, <3>1, <3>2
    <2> QED
      BY <1>1, <1>8, <2>4, <2>5, <2>6 DEF ReceiptsAreDistinct
  <1>13. NoticesAreCounted'
    <2>1. /\ IsFiniteSet(Busy) /\ IsFiniteSet(settled)
          /\ Cardinality(Busy) \in Nat /\ Cardinality(settled) \in Nat
          /\ raised = Cardinality(Busy) + Len(pending) + Len(main.batch) + Cardinality(settled)
      BY FS_CardinalityType DEF NoticesAreCounted, NoticesAreKept, Busy
    <2>2. IsFiniteSet(Busy') /\ Cardinality(Busy') = Cardinality(Busy) + 1
      BY <1>8, <2>1, FS_AddElement
    <2>3. Len(pending) \in Nat /\ Len(main.batch) \in Nat
      BY QueueIsTyped, LenProperties
    <2>4. raised' = Cardinality(Busy') + Len(pending) + Len(main.batch) + Cardinality(settled)
      BY <1>1, <2>1, <2>2, <2>3
    <2> QED
      BY <1>1, <2>1, <2>2, <2>4 DEF NoticesAreCounted, NoticesAreKept, Busy
  <1>14. WorkIsAtHand' /\ RestoreIsOwed' /\ NoStaleSceneOnMain'
    BY <1>1 DEF WorkIsAtHand, InWork, Loaded, Notice, RestoreIsOwed, NoStaleSceneOnMain,
                NoStaleScene
  <1> QED
    BY <1>3, <1>7, <1>11, <1>12, <1>13, <1>14

LEMMA NotifierChanges ==
    ASSUME NEW S, NEW T, NEW r \in [pc : S, work : T], NEW to, NEW w
    PROVE  [r EXCEPT !.pc = to, !.work = w] = [pc |-> to, work |-> w]
  <1>1. PICK a \in S, b \in T : r = [pc |-> a, work |-> b]
    BY Zenon
  <1>2. [r EXCEPT !.pc = to] = [pc |-> to, work |-> b]
    BY <1>1
  <1>3. [[r EXCEPT !.pc = to] EXCEPT !.work = w] = [pc |-> to, work |-> w]
    <2>1. [[pc |-> to, work |-> b] EXCEPT !.work = w] = [pc |-> to, work |-> w]
      OBVIOUS
    <2> QED
      BY <1>2, <2>1
  <1> QED
    BY <1>3

LEMMA LoadGenerationKeeps ==
    ASSUME IInv, NEW n \in Notifiers, LoadGeneration(n)
    PROVE  IInv'
  <1> USE DEF IInv
  <1>0. PICK w : w = [notifiers[n].work EXCEPT !.generation = generation]
    OBVIOUS
  <1>1. /\ notifiers[n].pc = "stamped" /\ n \in Busy
        /\ UNCHANGED <<where, generation, serial, through, reset, scene, hook, raised,
                       pending, main, load, camera, changes, failures, settled>>
    BY DEF LoadGeneration, resetters, receipts, Busy
  <1>2. /\ notifiers[n] \in [pc : {"idle", "stamped", "numbered"}, work : Work \cup {<<>>}]
        /\ notifiers[n].work \in Work /\ generation \in Eras
    BY <1>1 DEF TypeOK
  <1>3. /\ w \in Work /\ w.receipt = notifiers[n].work.receipt
        /\ w.raised = notifiers[n].work.raised
    BY <1>0, <1>2 DEF Work
  <1>4. notifiers' = [notifiers EXCEPT ![n] = [pc |-> "numbered", work |-> w]]
    <2>1. notifiers' = [notifiers EXCEPT ![n].pc = "numbered",
                                         ![n].work.generation = generation]
      BY DEF LoadGeneration
    <2>2. notifiers' = [notifiers EXCEPT ![n] =
                          [notifiers[n] EXCEPT !.pc = "numbered", !.work = w]]
      BY <1>0, <1>2, <2>1 DEF TypeOK
    <2>3. [notifiers[n] EXCEPT !.pc = "numbered", !.work = w] = [pc |-> "numbered", work |-> w]
      BY <1>2, NotifierChanges, ZenonT(40)
    <2> QED
      BY <2>2, <2>3, Zenon
  <1>5. /\ notifiers' \in [Notifiers -> [pc : {"idle", "stamped", "numbered"},
                                         work : Work \cup {<<>>}]]
        /\ notifiers'[n].pc = "numbered" /\ notifiers'[n].work = w
        /\ \A k \in Notifiers : k # n => notifiers'[k] = notifiers[k]
    BY <1>3, <1>4 DEF TypeOK
  <1>6. TypeOK'
    BY <1>1, <1>3, <1>5 DEF TypeOK
  <1>7. Busy' = Busy /\ Queue' = Queue
    BY <1>1, <1>5 DEF Busy, Queue
  <1>8. \A k \in Busy : /\ notifiers'[k].work.receipt = notifiers[k].work.receipt
                        /\ notifiers'[k].work.raised = notifiers[k].work.raised
    BY <1>3, <1>5 DEF Busy
  <1>9. StampsAreCounted'
    BY <1>1 DEF StampsAreCounted, Owed
  <1>10. WorkIsStamped'
    BY <1>1, <1>7, <1>8 DEF WorkIsStamped, Carried, Settling
  <1>11. ReceiptsAreDistinct'
    BY <1>1, <1>7, <1>8 DEF ReceiptsAreDistinct
  <1>12. NoticesAreCounted'
    BY <1>1, <1>7 DEF NoticesAreCounted, NoticesAreKept, Busy
  <1>13. WorkIsAtHand' /\ RestoreIsOwed' /\ NoStaleSceneOnMain'
    BY <1>1 DEF WorkIsAtHand, InWork, Loaded, Notice, RestoreIsOwed, NoStaleSceneOnMain,
                NoStaleScene
  <1> QED
    BY <1>6, <1>9, <1>10, <1>11, <1>12, <1>13

LEMMA PostKeeps ==
    ASSUME IInv, NEW n \in Notifiers, Post(n)
    PROVE  IInv'
  <1> USE DEF IInv
  <1>0. PICK w, queue, longer : /\ w = notifiers[n].work /\ queue = Queue
                                /\ longer = main.batch \o Append(pending, w)
    OBVIOUS
  <1>1. /\ notifiers[n].pc = "numbered" /\ n \in Busy
        /\ pending' = Append(pending, w)
        /\ notifiers' = [notifiers EXCEPT ![n] = [pc |-> "idle", work |-> <<>>]]
        /\ UNCHANGED <<where, generation, serial, through, reset, scene, hook, raised,
                       main, load, camera, changes, failures, settled>>
    BY <1>0 DEF Post, resetters, receipts, Busy
  <1>2. /\ w \in Work
        /\ main.batch \in Seq(Work) /\ pending \in Seq(Work)
        /\ Len(queue) \in Nat /\ Len(pending) \in Nat /\ Len(main.batch) \in Nat
    BY <1>0, <1>1, QueueIsTyped, LenProperties
  <1>3. /\ pending' \in Seq(Work) /\ Len(pending') = Len(pending) + 1
        /\ Len(longer) = Len(queue) + 1 /\ longer[Len(queue) + 1] = w
        /\ \A i \in 1 .. Len(queue) : longer[i] = queue[i]
    <2>1. longer = Append(queue, w)
      <3>1. \A q, p \in Seq(Work), e \in Work : q \o Append(p, e) = Append(q \o p, e)
        BY QueueWithLast
      <3>2. main.batch \o Append(pending, w) = Append(main.batch \o pending, w)
        BY <1>2, <3>1, Zenon
      <3> QED
        BY <1>0, <3>2, Zenon DEF Queue
    <2>2. queue \in Seq(Work)
      BY <1>0, QueueIsTyped
    <2> QED
      BY <1>1, <1>2, <2>1, <2>2, AppendProperties
  <1>4. Queue' = longer
    BY <1>0, <1>1 DEF Queue
  <1>5. /\ notifiers' \in [Notifiers -> [pc : {"idle", "stamped", "numbered"},
                                         work : Work \cup {<<>>}]]
        /\ notifiers'[n].pc = "idle"
        /\ \A k \in Notifiers : k # n => notifiers'[k] = notifiers[k]
    BY <1>1 DEF TypeOK
  <1>6. TypeOK'
    BY <1>1, <1>3, <1>5 DEF TypeOK
  <1>7. Busy' = Busy \ {n} /\ \A k \in Busy' : k \in Busy /\ notifiers'[k] = notifiers[k]
    BY <1>1, <1>5 DEF Busy
  <1>8. \A i \in 1 .. Len(longer) : i \in 1 .. Len(queue) \/ (i = Len(queue) + 1 /\ longer[i] = w)
    BY <1>2, <1>3
  <1>9. StampsAreCounted'
    BY <1>1 DEF StampsAreCounted, Owed
  <1>10. WorkIsStamped'
    <2>1. Carried(w) /\ \A i \in 1 .. Len(queue) : Carried(queue[i])
      BY <1>0, <1>1 DEF WorkIsStamped
    <2>2. \A i \in 1 .. Len(longer) : Carried(longer[i])
      BY <1>3, <1>8, <2>1
    <2>3. \A k \in Busy' : Carried(notifiers'[k].work)
      BY <1>7 DEF WorkIsStamped
    <2> QED
      BY <1>1, <1>4, <2>2, <2>3 DEF WorkIsStamped, Carried, Settling
  <1>11. ReceiptsAreDistinct'
    <2>1. /\ w.receipt \notin settled
          /\ \A k \in Busy : notifiers[k].work.receipt = w.receipt => k = n
          /\ \A i \in 1 .. Len(queue) : queue[i].receipt # w.receipt
      BY <1>0, <1>1 DEF ReceiptsAreDistinct
    <2>2. \A i \in 1 .. Len(longer) :
            /\ longer[i].receipt \notin settled
            /\ \A j \in 1 .. Len(longer) : longer[j].receipt = longer[i].receipt => j = i
      <3>1. \A i \in 1 .. Len(queue) :
              /\ queue[i].receipt \notin settled
              /\ \A j \in 1 .. Len(queue) : queue[j].receipt = queue[i].receipt => j = i
        BY <1>0, Zenon DEF ReceiptsAreDistinct
      <3> QED
        BY <1>3, <1>8, <2>1, <3>1
    <2>3. \A k \in Busy' :
            /\ notifiers'[k].work.receipt \notin settled
            /\ \A j \in Busy' : notifiers'[j].work.receipt = notifiers'[k].work.receipt => j = k
            /\ \A i \in 1 .. Len(longer) : longer[i].receipt # notifiers'[k].work.receipt
      <3> TAKE k \in Busy'
      <3>1. k \in Busy /\ k # n /\ notifiers'[k] = notifiers[k]
        BY <1>7
      <3>2. /\ notifiers[k].work.receipt \notin settled
            /\ \A j \in Busy : notifiers[j].work.receipt = notifiers[k].work.receipt => j = k
            /\ \A i \in 1 .. Len(queue) : queue[i].receipt # notifiers[k].work.receipt
        BY <1>0, <3>1, Zenon DEF ReceiptsAreDistinct
      <3>3. \A j \in Busy' : notifiers'[j].work.receipt = notifiers'[k].work.receipt => j = k
        BY <1>7, <3>1, <3>2
      <3>4. \A i \in 1 .. Len(longer) : longer[i].receipt # notifiers'[k].work.receipt
        BY <1>3, <1>8, <2>1, <3>1, <3>2
      <3> QED
        BY <3>1, <3>2, <3>3, <3>4
    <2> QED
      BY <1>1, <1>4, <2>2, <2>3 DEF ReceiptsAreDistinct
  <1>12. NoticesAreCounted'
    <2>1. /\ IsFiniteSet(Busy) /\ IsFiniteSet(settled)
          /\ Cardinality(Busy) \in Nat /\ Cardinality(settled) \in Nat
          /\ raised = Cardinality(Busy) + Len(pending) + Len(main.batch) + Cardinality(settled)
      BY FS_CardinalityType DEF NoticesAreCounted, NoticesAreKept, Busy
    <2>2. IsFiniteSet(Busy') /\ Cardinality(Busy') = Cardinality(Busy) - 1
      BY <1>1, <1>7, <2>1, FS_RemoveElement
    <2>3. raised = Cardinality(Busy') + Len(pending') + Len(main.batch) + Cardinality(settled)
      BY <1>2, <1>3, <2>1, <2>2
    <2> QED
      BY <1>1, <2>1, <2>2, <2>3 DEF NoticesAreCounted, NoticesAreKept, Busy
  <1>13. WorkIsAtHand' /\ RestoreIsOwed' /\ NoStaleSceneOnMain'
    BY <1>1 DEF WorkIsAtHand, InWork, Loaded, Notice, RestoreIsOwed, NoStaleSceneOnMain,
                NoStaleScene
  <1> QED
    BY <1>6, <1>9, <1>10, <1>11, <1>12, <1>13

-----------------------------------------------------------------------------
(* The tick around its notices.                                             *)

\* A failed boundary, a load or a camera-state change gives out one more stamp.
LEMMA StampsStay ==
    ASSUME TypeOK, StampsAreCounted, ReceiptsMove,
           UNCHANGED <<raised, generation, load, changes>>,
           failures' \in 0 .. MaxFailures,
           (UNCHANGED receipts /\ UNCHANGED failures) \/ failures' = failures + 1
    PROVE  StampsAreCounted' /\ serial' \in Stamps /\ through' \in Stamps
  <1>1. /\ serial \in Nat /\ through \in Nat /\ generation \in Eras /\ Owed \in Nat
        /\ raised \in 0 .. MaxNotices /\ changes \in 0 .. MaxChanges
        /\ failures \in Nat /\ generation \in Nat /\ raised \in Nat /\ changes \in Nat
    BY ConstantsAssumption DEF TypeOK, Stamps, Eras, Owed
  <1>2. Owed' = Owed
    BY DEF Owed
  <1>3. \/ serial' = serial /\ through' = through
        \/ serial' = serial + 1 /\ through' = serial + 1 /\ failures' = failures + 1
    BY DEF ReceiptsMove, Invalidate, receipts
  <1>4. failures' = failures \/ failures' = failures + 1
    OBVIOUS
  <1>5. /\ serial' \in Nat /\ through' \in Nat /\ through' <= serial'
        /\ serial' + Owed <= raised + 2 * generation + changes + failures'
    BY <1>1, <1>3, <1>4 DEF StampsAreCounted
  <1>6. StampsAreCounted'
    BY <1>2, <1>5 DEF StampsAreCounted
  <1> QED
    BY <1>1, <1>5, <1>6, StampsAreBounded

LEMMA TickTakeKeeps ==
    ASSUME IInv, TickTake
    PROVE  IInv'
  <1> USE DEF IInv
  <1>1. /\ main.pc = "take"
        /\ main' = [main EXCEPT !.pc = "next", !.batch = @ \o pending]
        /\ pending' = <<>>
        /\ UNCHANGED <<where, generation, serial, through, reset, scene, hook, notifiers,
                       raised, load, camera, changes, failures, settled>>
    BY DEF TickTake, resetters, receipts
  <1>2. main.batch \in Seq(Work) /\ pending \in Seq(Work) /\ Queue \in Seq(Work)
        /\ Len(Queue) = Len(main.batch) + Len(pending)
        /\ Len(pending) \in Nat /\ Len(main.batch) \in Nat
    BY QueueIsTyped, LenProperties
  <1>3. /\ main' = [pc |-> "next", batch |-> Queue, player |-> main.player,
                    loads |-> main.loads]
    BY <1>1 DEF Queue, TypeOK
  <1>4. Queue \o <<>> = Queue /\ <<>> \in Seq(Work) /\ Len(<<>>) = 0
    BY <1>2, ConcatEmptySeq, EmptySeq
  <1>5. Queue' = Queue /\ Busy' = Busy
    BY <1>1, <1>3, <1>4 DEF Queue, Busy
  <1>6. TypeOK'
    BY <1>1, <1>2, <1>3, <1>4 DEF TypeOK
  <1>7. StampsAreCounted'
    BY <1>1 DEF StampsAreCounted, Owed
  <1>8. WorkIsStamped'
    BY <1>1, <1>5 DEF WorkIsStamped, Carried, Settling
  <1>9. ReceiptsAreDistinct'
    BY <1>1, <1>5 DEF ReceiptsAreDistinct
  <1>10. NoticesAreCounted'
    <2>1. /\ IsFiniteSet(Busy) /\ IsFiniteSet(settled)
          /\ Cardinality(Busy) \in Nat /\ Cardinality(settled) \in Nat
          /\ raised = Cardinality(Busy) + Len(pending) + Len(main.batch) + Cardinality(settled)
      BY FS_CardinalityType DEF NoticesAreCounted, NoticesAreKept, Busy
    <2>2. raised = Cardinality(Busy) + Len(pending') + Len(main'.batch) + Cardinality(settled)
      <3>1. Len(pending') = 0 /\ Len(main'.batch) = Len(main.batch) + Len(pending)
        BY <1>1, <1>2, <1>3, <1>4
      <3> QED
        BY <1>2, <2>1, <3>1
    <2> QED
      BY <1>1, <1>5, <2>1, <2>2 DEF NoticesAreCounted, NoticesAreKept, Busy
  <1>11. WorkIsAtHand' /\ RestoreIsOwed' /\ NoStaleSceneOnMain'
    BY <1>1, <1>3 DEF WorkIsAtHand, InWork, Loaded, RestoreIsOwed, NoStaleSceneOnMain,
                      NoStaleScene
  <1> QED
    BY <1>6, <1>7, <1>8, <1>9, <1>10, <1>11

LEMMA GenerationStays ==
    ASSUME TypeOK, UNCHANGED <<generation, load>>
    PROVE  GenerationMoves
  BY DEF GenerationMoves, TypeOK, Eras, Settling

\* A step that leaves the notices, the loads and the work at hand alone.
LEMMA OnlyTheSceneMoves ==
    ASSUME IInv, ReceiptsMove, GivesBack,
           UNCHANGED <<where, generation, notifiers, pending, raised, load, camera,
                       changes, settled>>,
           hook' \in {"notInstalled", "installed", "failed"},
           main' \in Main,
           main'.batch = main.batch,
           failures' \in 0 .. MaxFailures,
           (UNCHANGED receipts /\ UNCHANGED failures) \/ failures' = failures + 1,
           WorkIsAtHand'
    PROVE  IInv'
  <1> USE DEF IInv
  <1>1. StampsAreCounted' /\ serial' \in Stamps /\ through' \in Stamps
    BY StampsStay
  <1>2. WorkIsStamped' /\ ReceiptsAreDistinct' /\ NoticesAreCounted'
    BY GenerationStays, NoticesStay
  <1>3. /\ scene' \in Scene /\ (scene'.state = "Idle" <=> scene' = NoScene)
        /\ reset' \in BOOLEAN /\ RestoreIsOwed' /\ NoStaleSceneOnMain'
    <2>1. load' # "idle" \/ reset' \/ (load = "idle" /\ UNCHANGED generation)
      OBVIOUS
    <2> QED
      BY <2>1, SceneIsGivenBack
  <1>4. TypeOK'
    BY <1>1, <1>3 DEF TypeOK
  <1> QED
    BY <1>1, <1>2, <1>3, <1>4

LEMMA ResetGivesBack ==
    ASSUME reset \in BOOLEAN, ProcessPendingReset
    PROVE  GivesBack
  BY DEF ProcessPendingReset, GivesBack

LEMMA RestoreGivesBack ==
    ASSUME reset \in BOOLEAN, Restores
    PROVE  GivesBack
  BY DEF Restores, GivesBack

LEMMA TickBeginKeeps ==
    ASSUME IInv, TickBegin
    PROVE  IInv'
  <1> USE DEF IInv
  <1>1. /\ Free /\ main.pc = "idle"
        /\ UNCHANGED <<where, generation, hook, notifiers, pending, raised, load, camera,
                       changes, settled>>
    BY DEF TickBegin, Free, producers, resetters
  <1>2. reset \in BOOLEAN /\ failures \in 0 .. MaxFailures
    BY DEF TypeOK
  <1>3. CASE /\ ProcessPendingReset /\ main' = [main EXCEPT !.pc = "take"]
             /\ UNCHANGED <<receipts, failures>>
    <2>1. GivesBack /\ ReceiptsMove
      BY <1>2, <1>3, ResetGivesBack DEF ReceiptsMove
    <2>2. main' = [pc |-> "take", batch |-> main.batch, player |-> main.player,
                   loads |-> main.loads]
      BY <1>3 DEF TypeOK
    <2>3. WorkIsAtHand'
      BY <1>1, <2>2 DEF WorkIsAtHand, InWork, Loaded, Free
    <2>4. main' \in Main
      BY <2>2 DEF TypeOK
    <2> QED
      BY <1>1, <1>2, <1>3, <2>1, <2>2, <2>3, <2>4, OnlyTheSceneMoves DEF TypeOK
  <1>4. CASE /\ Fails("reset") /\ reset /\ scene' \in {NoScene, Restoring(scene)}
             /\ HandleBoundaryFailure /\ UNCHANGED main
    <2>1. GivesBack /\ ReceiptsMove
      BY <1>4 DEF GivesBack, HandleBoundaryFailure, RequestReset, ReceiptsMove, Invalidate
    <2>2. failures' = failures + 1 /\ failures' \in 0 .. MaxFailures
      BY <1>2, <1>4, ConstantsAssumption DEF Fails
    <2>3. WorkIsAtHand'
      BY <1>1, <1>4 DEF WorkIsAtHand, InWork, Loaded
    <2> QED
      BY <1>1, <1>4, <2>1, <2>2, <2>3, OnlyTheSceneMoves DEF TypeOK
  <1> QED
    BY <1>3, <1>4 DEF TickBegin

LEMMA MainUpdateElsewhereKeeps ==
    ASSUME IInv, MainUpdateElsewhere
    PROVE  IInv'
  <1> USE DEF IInv
  <1>1. /\ Fails("thread") /\ RequestReset /\ main' = main
        /\ UNCHANGED <<where, generation, scene, hook, notifiers, pending, raised, load,
                       camera, changes, settled>>
    BY DEF MainUpdateElsewhere, producers, resetters
  <1>2. GivesBack /\ ReceiptsMove
    BY <1>1 DEF GivesBack, RequestReset, ReceiptsMove, Invalidate
  <1>3. failures' = failures + 1 /\ failures' \in 0 .. MaxFailures
    BY <1>1, ConstantsAssumption DEF Fails, TypeOK
  <1>4. WorkIsAtHand'
    BY <1>1 DEF WorkIsAtHand, InWork, Loaded, Notice
  <1> QED
    BY <1>1, <1>2, <1>3, <1>4, OnlyTheSceneMoves DEF TypeOK

LEMMA CameraUpdateKeeps ==
    ASSUME IInv, CameraUpdate
    PROVE  IInv'
  <1> USE DEF IInv
  <1>1. /\ main' = main /\ UNCHANGED receipts
        /\ UNCHANGED <<where, generation, hook, notifiers, pending, raised, load,
                       camera, changes, settled>>
    BY DEF CameraUpdate, producers, resetters
  <1>2. reset \in BOOLEAN /\ failures \in 0 .. MaxFailures
    BY DEF TypeOK
  <1>3. GivesBack
    <2>1. CASE ProcessPendingReset
      BY <1>2, <2>1, ResetGivesBack
    <2>2. CASE Restores
      BY <1>2, <2>2, RestoreGivesBack
    <2>3. CASE EmergencyReset
      BY <2>3 DEF EmergencyReset, GivesBack
    <2> QED
      BY <2>1, <2>2, <2>3 DEF CameraUpdate
  <1>4. /\ failures' = failures \/ failures' = failures + 1
        /\ failures' \in 0 .. MaxFailures
    BY <1>2, ConstantsAssumption DEF CameraUpdate, Fails
  <1>5. WorkIsAtHand'
    BY <1>1 DEF WorkIsAtHand, InWork, Loaded, Notice
  <1>6. ReceiptsMove
    BY <1>1 DEF ReceiptsMove
  <1> QED
    BY <1>1, <1>3, <1>4, <1>5, <1>6, OnlyTheSceneMoves DEF TypeOK

LEMMA TickEndKeeps ==
    ASSUME IInv, TickEnd
    PROVE  IInv'
  <1> USE DEF IInv
  <1>1. /\ main.pc = "next" /\ main.batch = <<>> /\ main' = AtRest
        /\ UNCHANGED <<where, generation, hook, notifiers, pending, raised, load,
                       camera, changes, settled>>
    BY DEF TickEnd, producers, resetters
  <1>2. reset \in BOOLEAN /\ failures \in 0 .. MaxFailures
    BY DEF TypeOK
  <1>3. \/ GivesBack /\ UNCHANGED receipts /\ UNCHANGED failures
        \/ GivesBack /\ HandleBoundaryFailure /\ Fails("tick")
    <2>1. CASE UNCHANGED <<scene, reset, receipts, failures>>
      BY <2>1 DEF GivesBack
    <2>2. CASE Restores /\ UNCHANGED <<receipts, failures>>
      BY <1>2, <2>2, RestoreGivesBack
    <2>3. CASE /\ Fails("tick") /\ HandleBoundaryFailure
               /\ scene' \in {scene, NoScene, Restoring(scene)}
      BY <2>3 DEF HandleBoundaryFailure, RequestReset, GivesBack
    <2> QED
      BY <2>1, <2>2, <2>3 DEF TickEnd
  <1>4. ReceiptsMove
    BY <1>3 DEF HandleBoundaryFailure, RequestReset, ReceiptsMove, Invalidate
  <1>5. /\ (UNCHANGED receipts /\ UNCHANGED failures) \/ failures' = failures + 1
        /\ failures' \in 0 .. MaxFailures
    BY <1>2, <1>3, ConstantsAssumption DEF Fails
  <1>6. /\ main'.pc = "idle" /\ main'.batch = <<>> /\ main'.loads = 0
        /\ main' \in Main
    BY <1>1, EmptySeq, ConstantsAssumption DEF AtRest, Eras
  <1>7. WorkIsAtHand'
    <2>1. 0 <= Loaded /\ Loaded' = Loaded
      BY <1>1, ConstantsAssumption DEF Loaded, StampsAreCounted, TypeOK, Eras
    <2> QED
      BY <1>6, <2>1 DEF WorkIsAtHand, InWork
  <1> QED
    BY <1>1, <1>3, <1>4, <1>5, <1>6, <1>7, OnlyTheSceneMoves DEF TypeOK

LEMMA HandlerRestoresKeeps ==
    ASSUME IInv, HandlerRestores
    PROVE  IInv'
  <1> USE DEF IInv
  <1>1. /\ main.pc = "restore" /\ main' = [main EXCEPT !.pc = "apply"]
        /\ ProcessPendingReset /\ UNCHANGED receipts /\ UNCHANGED failures
        /\ UNCHANGED <<where, generation, hook, notifiers, pending, raised, load,
                       camera, changes, settled>>
    BY DEF HandlerRestores, producers, resetters
  <1>2. reset \in BOOLEAN /\ failures \in 0 .. MaxFailures
    BY DEF TypeOK
  <1>3. GivesBack /\ ReceiptsMove
    BY <1>1, <1>2, ResetGivesBack DEF ReceiptsMove
  <1>4. main' = [pc |-> "apply", batch |-> main.batch, player |-> main.player,
                 loads |-> main.loads]
    BY <1>1 DEF TypeOK
  <1>5. WorkIsAtHand'
    BY <1>1, <1>4 DEF WorkIsAtHand, InWork, Loaded, Notice
  <1>6. main' \in Main
    BY <1>4 DEF TypeOK
  <1> QED
    BY <1>1, <1>2, <1>3, <1>4, <1>5, <1>6, OnlyTheSceneMoves DEF TypeOK

-----------------------------------------------------------------------------
(* The notice at hand.                                                      *)

LEMMA NoticeIsCarried ==
    ASSUME TypeOK, WorkIsStamped, main.batch # <<>>
    PROVE  Notice \in Work /\ Carried(Notice)
  <1>1. main.batch \in Seq(Work) /\ pending \in Seq(Work) /\ Len(Queue) \in Nat
    BY QueueIsTyped
  <1>2. Notice \in Work
    BY <1>1, HeadIsTyped DEF Notice
  <1>3. (main.batch \o pending)[1] = Head(main.batch)
    BY <1>1, QueueWithoutHead, Zenon
  <1>4. 1 \in 1 .. Len(Queue)
    <2>1. Len(main.batch) \in Nat \ {0} /\ Len(pending) \in Nat
      BY <1>1, HeadIsTyped, LenProperties
    <2>2. Len(Queue) = Len(main.batch) + Len(pending)
      BY QueueIsTyped
    <2> QED
      BY <2>1, <2>2
  <1>5. Queue[1] = Notice
    BY <1>3 DEF Queue, Notice
  <1> QED
    BY <1>2, <1>4, <1>5 DEF WorkIsStamped

LEMMA TheNoticeSettles ==
    ASSUME IInv, main.batch # <<>>, main.pc # "idle", Settled, ReceiptsMove,
           UNCHANGED <<where, generation, notifiers, pending, raised, load, camera,
                       changes>>,
           hook' \in {"notInstalled", "installed", "failed"},
           failures' \in 0 .. MaxFailures,
           (UNCHANGED receipts /\ UNCHANGED failures) \/ failures' = failures + 1,
           scene' \in Scene, scene'.state = "Idle" <=> scene' = NoScene,
           reset' \in BOOLEAN, RestoreIsOwed', NoStaleSceneOnMain'
    PROVE  IInv'
  <1> USE DEF IInv
  <1>1. StampsAreCounted' /\ serial' \in Stamps /\ through' \in Stamps
    BY StampsStay
  <1>2. /\ WorkIsStamped' /\ ReceiptsAreDistinct' /\ NoticesAreCounted'
        /\ settled' \subseteq Stamps /\ main'.batch \in Seq(Work)
    BY NoticeSettles
  <1>3. main' = [pc |-> "next", batch |-> Tail(main.batch), player |-> FALSE,
                 loads |-> main.loads]
    BY WorkIsDone DEF Settled
  <1>4. TypeOK'
    BY <1>1, <1>2, <1>3 DEF TypeOK
  <1>5. WorkIsAtHand'
    BY <1>3 DEF WorkIsAtHand, InWork, Loaded
  <1> QED
    BY <1>1, <1>2, <1>4, <1>5

\* Where the scene stays or is given back, the rest of the last lemma follows.
LEMMA TheNoticeSettlesQuietly ==
    ASSUME IInv, main.batch # <<>>, main.pc # "idle", Settled, ReceiptsMove, GivesBack,
           UNCHANGED <<where, generation, notifiers, pending, raised, load, camera,
                       changes>>,
           hook' \in {"notInstalled", "installed", "failed"},
           failures' \in 0 .. MaxFailures,
           (UNCHANGED receipts /\ UNCHANGED failures) \/ failures' = failures + 1
    PROVE  IInv'
  <1>1. load' # "idle" \/ reset' \/ (load = "idle" /\ UNCHANGED generation)
    <2>1. load' # "idle" \/ load = "idle"
      OBVIOUS
    <2> QED
      BY <2>1
  <1>2. /\ scene' \in Scene /\ (scene'.state = "Idle" <=> scene' = NoScene)
        /\ reset' \in BOOLEAN /\ RestoreIsOwed' /\ NoStaleSceneOnMain'
    BY <1>1, SceneIsGivenBack DEF IInv
  <1> QED
    BY <1>2, TheNoticeSettles

LEMMA BeginKeeps ==
    ASSUME IInv, Begin
    PROVE  IInv'
  <1> USE DEF IInv
  <1>1. /\ main.pc = "next" /\ main.batch # <<>>
        /\ UNCHANGED <<receipts, reset, scene, failures>>
        /\ UNCHANGED <<where, generation, hook, notifiers, pending, raised, load,
                       camera, changes>>
    BY DEF Begin, producers, resetters
  <1>2. GivesBack /\ ReceiptsMove
    BY <1>1 DEF GivesBack, ReceiptsMove
  <1>3. CASE Settled
    BY <1>1, <1>2, <1>3, TheNoticeSettlesQuietly DEF TypeOK
  <1>4. ASSUME UNCHANGED settled, NEW player \in BOOLEAN,
               main' = [main EXCEPT !.pc = "collect", !.player = player, !.loads = Loaded]
        PROVE  IInv'
    <2>1. main' = [pc |-> "collect", batch |-> main.batch, player |-> player,
                   loads |-> Loaded]
      BY <1>4 DEF TypeOK
    <2>2. Loaded \in Eras
      BY ConstantsAssumption DEF Loaded, StampsAreCounted, TypeOK, Eras
    <2>3. main' \in Main
      BY <2>1, <2>2 DEF TypeOK
    <2>4. WorkIsAtHand'
      <3>1. Loaded' = Loaded /\ Loaded <= Loaded
        BY <1>1, <2>2, ConstantsAssumption DEF Loaded, Eras
      <3> QED
        BY <1>1, <2>1, <3>1 DEF WorkIsAtHand, InWork
    <2> QED
      BY <1>1, <1>2, <1>4, <2>1, <2>3, <2>4, OnlyTheSceneMoves DEF TypeOK
  <1> QED
    BY <1>3, <1>4 DEF Begin

\* The next step of the work at hand, where what it knows stays true.
LEMMA WorkGoesOn ==
    ASSUME IInv, main.batch # <<>>, main.pc # "idle",
           NEW pc \in {"recheck", "live", "restore"},
           main' = [main EXCEPT !.pc = pc],
           UNCHANGED <<where, generation, receipts, reset, scene, notifiers, pending, raised,
                       load, camera, changes, failures, settled>>,
           hook' \in {"notInstalled", "installed", "failed"},
           pc = "restore" => /\ Notice.raised >= main.loads
                             /\ where = "main" => Notice.raised = generation
    PROVE  IInv'
  <1> USE DEF IInv
  <1>1. main' = [pc |-> pc, batch |-> main.batch, player |-> main.player,
                 loads |-> main.loads]
    BY DEF TypeOK
  <1>2. main' \in Main
    BY <1>1 DEF TypeOK
  <1>3. WorkIsAtHand'
    BY <1>1 DEF WorkIsAtHand, InWork, Loaded, Notice
  <1>4. GivesBack /\ ReceiptsMove
    BY DEF GivesBack, ReceiptsMove
  <1> QED
    BY <1>1, <1>2, <1>3, <1>4, OnlyTheSceneMoves DEF TypeOK

LEMMA CollectKeeps ==
    ASSUME IInv, Collect
    PROVE  IInv'
  <1> USE DEF IInv
  <1>1. /\ main.pc = "collect" /\ main.batch # <<>>
        /\ UNCHANGED <<receipts, reset, scene, failures>>
        /\ UNCHANGED <<where, generation, notifiers, pending, raised, load,
                       camera, changes>>
    BY DEF Collect, producers, resetters, WorkIsAtHand, InWork
  <1>2. hook' \in {"notInstalled", "installed", "failed"}
    BY DEF Collect, TypeOK
  <1>3. GivesBack /\ ReceiptsMove
    BY <1>1 DEF GivesBack, ReceiptsMove
  <1>4. CASE Settled
    BY <1>1, <1>2, <1>3, <1>4, TheNoticeSettlesQuietly DEF TypeOK
  <1>5. CASE main' = [main EXCEPT !.pc = "recheck"] /\ UNCHANGED settled
    BY <1>1, <1>2, <1>5, WorkGoesOn
  <1> QED
    BY <1>4, <1>5 DEF Collect

LEMMA RecheckKeeps ==
    ASSUME IInv, Recheck
    PROVE  IInv'
  <1> USE DEF IInv
  <1>1. /\ main.pc = "recheck" /\ main.batch # <<>>
        /\ UNCHANGED <<receipts, reset, scene, failures>>
        /\ UNCHANGED <<where, generation, hook, notifiers, pending, raised, load,
                       camera, changes>>
    BY DEF Recheck, producers, resetters, WorkIsAtHand, InWork
  <1>2. hook' \in {"notInstalled", "installed", "failed"}
    BY <1>1 DEF TypeOK
  <1>3. GivesBack /\ ReceiptsMove
    BY <1>1 DEF GivesBack, ReceiptsMove
  <1>4. CASE Settled
    BY <1>1, <1>2, <1>3, <1>4, TheNoticeSettlesQuietly DEF TypeOK
  <1>5. CASE main' = [main EXCEPT !.pc = "live"] /\ UNCHANGED settled
    BY <1>1, <1>2, <1>5, WorkGoesOn
  <1> QED
    BY <1>4, <1>5 DEF Recheck

LEMMA HandleSceneEventKeeps ==
    ASSUME IInv, HandleSceneEvent
    PROVE  IInv'
  <1> USE DEF IInv
  <1>1. /\ main.pc = "live" /\ main.batch # <<>>
        /\ UNCHANGED <<receipts, reset, scene, failures>>
        /\ UNCHANGED <<where, generation, hook, notifiers, pending, raised, load,
                       camera, changes>>
    BY DEF HandleSceneEvent, producers, resetters, WorkIsAtHand, InWork
  <1>2. hook' \in {"notInstalled", "installed", "failed"}
    BY <1>1 DEF TypeOK
  <1>3. GivesBack /\ ReceiptsMove
    BY <1>1 DEF GivesBack, ReceiptsMove
  <1>4. CASE Settled
    BY <1>1, <1>2, <1>3, <1>4, TheNoticeSettlesQuietly DEF TypeOK
  <1>5. CASE IsLiveReceipt /\ main' = [main EXCEPT !.pc = "restore"] /\ UNCHANGED settled
    <2>1. Notice \in Work /\ Carried(Notice)
      BY <1>1, NoticeIsCarried
    <2>2. /\ Notice.raised \in Nat /\ Notice.receipt \in Nat /\ through \in Nat
          /\ generation \in Nat /\ main.loads \in Nat
      BY <2>1, ConstantsAssumption DEF Work, Stamps, Eras, TypeOK
    <2>3. Notice.raised >= Settling /\ Notice.raised <= generation
      BY <1>5, <2>1, <2>2 DEF IsLiveReceipt, Carried, Settling
    <2>4. Settling >= Loaded /\ Loaded >= main.loads
      BY <2>2 DEF Settling, Loaded, WorkIsAtHand
    <2>5. where = "main" => Settling = generation
      BY <1>1 DEF Settling, WorkIsAtHand
    <2>6. /\ Notice.raised >= main.loads
          /\ where = "main" => Notice.raised = generation
      BY <2>2, <2>3, <2>4, <2>5 DEF Settling, Loaded
    <2> QED
      BY <1>1, <1>2, <1>5, <2>6, WorkGoesOn
  <1> QED
    BY <1>4, <1>5 DEF HandleSceneEvent

LEMMA HandlerAppliesKeeps ==
    ASSUME IInv, HandlerApplies
    PROVE  IInv'
  <1> USE DEF IInv
  <1>1. /\ main.pc = "apply" /\ main.batch # <<>> /\ Settled
        /\ UNCHANGED <<receipts, failures>>
        /\ UNCHANGED <<where, generation, hook, notifiers, pending, raised, load,
                       camera, changes>>
    BY DEF HandlerApplies, producers, resetters, WorkIsAtHand, InWork
  <1>2. reset \in BOOLEAN /\ ReceiptsMove
    BY <1>1 DEF TypeOK, ReceiptsMove
  <1>3. CASE GivesBack
    BY <1>1, <1>2, <1>3, TheNoticeSettlesQuietly DEF TypeOK
  <1>4. CASE /\ scene.state # "Restoring" /\ ~reset /\ scene' \in {Prepared, Started}
             /\ UNCHANGED reset
    <2>1. Notice \in Work
      BY <1>1, NoticeIsCarried
    <2>2. /\ scene \in Scene /\ (scene.state = "Idle" <=> scene = NoScene)
          /\ NoScene \in Scene /\ NoScene.state = "Idle"
      BY ConstantsAssumption DEF TypeOK, NoScene, Scene, Eras
    <2>3. \/ Prepared = scene
          \/ /\ Prepared \in Scene /\ Prepared.state = "Preparing"
             /\ Prepared.raised = Notice.raised
      BY <2>1 DEF Prepared, Scene, Work
    <2>4. \/ Started = Prepared \/ Started = NoScene
          \/ /\ Started \in Scene /\ Started.state = "Active"
             /\ Started.raised = Prepared.raised /\ Prepared.state = "Preparing"
      BY <2>2, <2>3 DEF Started, Scene
    <2>5. where = "main" => Notice.raised = generation
      BY <1>1 DEF WorkIsAtHand
    <2>6. /\ scene' \in Scene /\ (scene'.state = "Idle" <=> scene' = NoScene)
          /\ scene'.state # "Restoring"
      BY <1>4, <2>2, <2>3, <2>4
    <2>7. where = "main" /\ load = "idle" /\ scene' # NoScene => scene'.raised = generation
      BY <1>4, <2>2, <2>3, <2>4, <2>5 DEF NoStaleSceneOnMain, NoStaleScene
    <2>8. RestoreIsOwed' /\ NoStaleSceneOnMain'
      BY <1>1, <2>6, <2>7 DEF RestoreIsOwed, NoStaleSceneOnMain, NoStaleScene
    <2> QED
      BY <1>1, <1>2, <1>4, <2>6, <2>8, TheNoticeSettles DEF TypeOK
  <1>5. \/ GivesBack
        \/ /\ scene.state # "Restoring" /\ ~reset /\ scene' \in {Prepared, Started}
           /\ UNCHANGED reset
    <2>1. Restores => GivesBack
      BY <1>2, RestoreGivesBack
    <2>2. UNCHANGED <<scene, reset>> => GivesBack
      BY DEF GivesBack
    <2> QED
      BY <2>1, <2>2 DEF HandlerApplies
  <1> QED
    BY <1>3, <1>4, <1>5

LEMMA NoticeFailsKeeps ==
    ASSUME IInv, NoticeFails
    PROVE  IInv'
  <1> USE DEF IInv
  <1>1. /\ main.pc \in {"collect", "live", "restore", "apply"} /\ main.batch # <<>>
        /\ Settled /\ Fails("notice")
        /\ UNCHANGED <<where, generation, notifiers, pending, raised, load,
                       camera, changes>>
    BY DEF NoticeFails, producers, resetters, WorkIsAtHand, InWork
  <1>2. hook' \in {"notInstalled", "installed", "failed"}
    BY DEF NoticeFails, TypeOK
  <1>3. GivesBack /\ ReceiptsMove
    BY DEF NoticeFails, EmergencyReset, HandleBoundaryFailure, RequestReset, GivesBack,
           ReceiptsMove, Invalidate
  <1>4. failures' = failures + 1 /\ failures' \in 0 .. MaxFailures
    BY <1>1, ConstantsAssumption DEF Fails, TypeOK
  <1> QED
    BY <1>1, <1>2, <1>3, <1>4, TheNoticeSettlesQuietly

-----------------------------------------------------------------------------
(* Loads and camera-state changes.                                          *)

LEMMA LoadBeginKeeps ==
    ASSUME IInv, LoadBegin
    PROVE  IInv'
  <1> USE DEF IInv
  <1>1. /\ load = "idle" /\ generation < MaxLoads /\ (where = "main" => main.pc = "idle")
        /\ generation' = generation + 1 /\ load' = "bumped"
        /\ UNCHANGED <<where, serial, through, receipts, reset, scene, hook, notifiers,
                       pending, raised, main, camera, changes, failures, settled>>
    BY DEF LoadBegin, producers, receipts
  <1>2. /\ generation \in Nat /\ serial \in Nat /\ raised \in Nat
        /\ changes \in Nat /\ failures \in Nat /\ generation' \in Eras
    BY <1>1, ConstantsAssumption DEF TypeOK, Eras, Stamps
  <1>3. GivesBack /\ ReceiptsMove /\ GenerationMoves
    BY <1>1, <1>2 DEF GivesBack, ReceiptsMove, GenerationMoves, Settling
  <1>4. StampsAreCounted'
    BY <1>1, <1>2 DEF StampsAreCounted, Owed
  <1>5. WorkIsStamped' /\ ReceiptsAreDistinct' /\ NoticesAreCounted'
    BY <1>1, <1>3, NoticesStay
  <1>6. /\ scene' \in Scene /\ (scene'.state = "Idle" <=> scene' = NoScene)
        /\ reset' \in BOOLEAN /\ RestoreIsOwed' /\ NoStaleSceneOnMain'
    BY <1>1, <1>3, SceneIsGivenBack
  <1>7. TypeOK'
    BY <1>1, <1>2, <1>6 DEF TypeOK
  <1>8. WorkIsAtHand'
    <2>1. Loaded' = Loaded
      BY <1>1, <1>2 DEF Loaded
    <2> QED
      BY <1>1, <2>1 DEF WorkIsAtHand, InWork, Notice
  <1> QED
    BY <1>4, <1>5, <1>6, <1>7, <1>8

LEMMA LoadInvalidatesKeeps ==
    ASSUME IInv, LoadInvalidates
    PROVE  IInv'
  <1> USE DEF IInv
  <1>1. /\ load \in {"bumped", "invalidated"} /\ Invalidate
        /\ load' = IF load = "bumped" THEN "invalidated" ELSE "requesting"
        /\ UNCHANGED <<where, generation, reset, scene, hook, notifiers,
                       pending, raised, main, camera, changes, failures, settled>>
    BY DEF LoadInvalidates, producers
  <1>2. /\ generation \in Nat /\ serial \in Nat /\ raised \in 0 .. MaxNotices
        /\ raised \in Nat /\ changes \in Nat /\ failures \in Nat
        /\ generation \in Eras /\ changes \in 0 .. MaxChanges
        /\ failures \in 0 .. MaxFailures
    BY <1>1, ConstantsAssumption DEF TypeOK, Eras, Stamps
  <1>3. GivesBack /\ ReceiptsMove /\ GenerationMoves
    BY <1>1, <1>2 DEF GivesBack, ReceiptsMove, GenerationMoves, Settling
  <1>4. serial' = serial + 1 /\ through' = serial + 1 /\ Owed' + 1 = Owed /\ Owed' \in Nat
    BY <1>1 DEF Invalidate, Owed
  <1>5. StampsAreCounted'
    BY <1>1, <1>2, <1>4 DEF StampsAreCounted, Owed
  <1>6. serial' \in Stamps /\ through' \in Stamps
    <2>1. serial' + Owed' <= raised + 2 * generation + changes + failures
      BY <1>1, <1>5 DEF StampsAreCounted
    <2>2. serial' \in Nat /\ through' \in Nat /\ through' <= serial'
      BY <1>2, <1>4
    <2> QED
      BY <1>2, <1>4, <2>1, <2>2, StampsAreBounded
  <1>7. WorkIsStamped' /\ ReceiptsAreDistinct' /\ NoticesAreCounted'
    BY <1>1, <1>3, NoticesStay
  <1>8. /\ scene' \in Scene /\ (scene'.state = "Idle" <=> scene' = NoScene)
        /\ reset' \in BOOLEAN /\ RestoreIsOwed' /\ NoStaleSceneOnMain'
    BY <1>1, <1>3, SceneIsGivenBack
  <1>9. TypeOK'
    BY <1>1, <1>6, <1>8 DEF TypeOK
  <1>10. WorkIsAtHand'
    BY <1>1 DEF WorkIsAtHand, InWork, Notice, Loaded
  <1> QED
    BY <1>5, <1>7, <1>8, <1>9, <1>10

LEMMA LoadRequestsResetKeeps ==
    ASSUME IInv, LoadRequestsReset
    PROVE  IInv'
  <1> USE DEF IInv
  <1>1. /\ load = "requesting" /\ reset' = TRUE /\ load' = "idle"
        /\ UNCHANGED <<where, generation, serial, through, receipts, scene, hook, notifiers,
                       pending, raised, main, camera, changes, failures, settled>>
    BY DEF LoadRequestsReset, producers, receipts
  <1>2. generation \in Nat
    BY ConstantsAssumption DEF TypeOK, Eras
  <1>3. GivesBack /\ ReceiptsMove /\ GenerationMoves
    BY <1>1, <1>2 DEF GivesBack, ReceiptsMove, GenerationMoves, Settling
  <1>4. StampsAreCounted'
    BY <1>1 DEF StampsAreCounted, Owed
  <1>5. WorkIsStamped' /\ ReceiptsAreDistinct' /\ NoticesAreCounted'
    BY <1>1, <1>3, NoticesStay
  <1>6. /\ scene' \in Scene /\ (scene'.state = "Idle" <=> scene' = NoScene)
        /\ reset' \in BOOLEAN /\ RestoreIsOwed' /\ NoStaleSceneOnMain'
    BY <1>1, <1>3, SceneIsGivenBack
  <1>7. TypeOK'
    BY <1>1, <1>6 DEF TypeOK
  <1>8. WorkIsAtHand'
    <2>1. Loaded' >= Loaded /\ Loaded \in Int /\ Loaded' \in Int /\ main.loads \in Nat
      BY <1>1, <1>2, ConstantsAssumption DEF Loaded, TypeOK, Eras
    <2>2. main.loads <= Loaded'
      BY <2>1 DEF WorkIsAtHand
    <2> QED
      BY <1>1, <2>2 DEF WorkIsAtHand, InWork, Notice
  <1> QED
    BY <1>4, <1>5, <1>6, <1>7, <1>8

LEMMA CameraStateChangesKeeps ==
    ASSUME IInv, CameraStateChanges
    PROVE  IInv'
  <1> USE DEF IInv
  <1>1. /\ changes < MaxChanges /\ changes' = changes + 1 /\ Invalidate
        /\ camera' = "requesting"
        /\ UNCHANGED <<where, generation, reset, scene, hook, notifiers,
                       pending, raised, main, load, failures, settled>>
    BY DEF CameraStateChanges, producers
  <1>2. /\ generation \in Nat /\ serial \in Nat /\ raised \in 0 .. MaxNotices
        /\ raised \in Nat /\ changes \in Nat /\ failures \in Nat
        /\ generation \in Eras /\ changes' \in 0 .. MaxChanges
        /\ failures \in 0 .. MaxFailures /\ Owed \in Nat /\ Owed' = Owed
    BY <1>1, ConstantsAssumption DEF TypeOK, Eras, Stamps, Owed
  <1>3. GivesBack /\ ReceiptsMove /\ GenerationMoves
    BY <1>1, <1>2 DEF GivesBack, ReceiptsMove, GenerationMoves, Settling
  <1>4. serial' = serial + 1 /\ through' = serial + 1
    BY <1>1 DEF Invalidate
  <1>5. StampsAreCounted'
    BY <1>1, <1>2, <1>4 DEF StampsAreCounted, Owed
  <1>6. serial' \in Stamps /\ through' \in Stamps
    <2>1. serial' + Owed <= raised + 2 * generation + changes' + failures
      BY <1>1, <1>2, <1>5 DEF StampsAreCounted
    <2>2. serial' \in Nat /\ through' \in Nat /\ through' <= serial'
      BY <1>2, <1>4
    <2> QED
      BY <1>2, <1>4, <2>1, <2>2, StampsAreBounded
  <1>7. WorkIsStamped' /\ ReceiptsAreDistinct' /\ NoticesAreCounted'
    BY <1>1, <1>3, NoticesStay
  <1>8. /\ scene' \in Scene /\ (scene'.state = "Idle" <=> scene' = NoScene)
        /\ reset' \in BOOLEAN /\ RestoreIsOwed' /\ NoStaleSceneOnMain'
    <2>1. load' # "idle" \/ reset' \/ (load = "idle" /\ UNCHANGED generation)
      BY <1>1
    <2> QED
      BY <1>1, <1>3, <2>1, SceneIsGivenBack
  <1>9. TypeOK'
    BY <1>1, <1>2, <1>6, <1>8 DEF TypeOK
  <1>10. WorkIsAtHand'
    BY <1>1 DEF WorkIsAtHand, InWork, Notice, Loaded
  <1> QED
    BY <1>5, <1>7, <1>8, <1>9, <1>10

LEMMA CameraStateResetsKeeps ==
    ASSUME IInv, CameraStateResets
    PROVE  IInv'
  <1> USE DEF IInv
  <1>1. /\ reset' = TRUE /\ camera' = "idle"
        /\ UNCHANGED <<where, generation, serial, through, receipts, scene, hook, notifiers,
                       pending, raised, main, load, changes, failures, settled>>
    BY DEF CameraStateResets, producers, receipts
  <1>2. GivesBack /\ ReceiptsMove /\ GenerationMoves
    BY <1>1, GenerationStays DEF GivesBack, ReceiptsMove
  <1>3. StampsAreCounted'
    BY <1>1 DEF StampsAreCounted, Owed
  <1>4. WorkIsStamped' /\ ReceiptsAreDistinct' /\ NoticesAreCounted'
    BY <1>1, <1>2, NoticesStay
  <1>5. /\ scene' \in Scene /\ (scene'.state = "Idle" <=> scene' = NoScene)
        /\ reset' \in BOOLEAN /\ RestoreIsOwed' /\ NoStaleSceneOnMain'
    BY <1>1, <1>2, SceneIsGivenBack
  <1>6. TypeOK'
    BY <1>1, <1>5 DEF TypeOK
  <1>7. WorkIsAtHand'
    BY <1>1 DEF WorkIsAtHand, InWork, Notice, Loaded
  <1> QED
    BY <1>3, <1>4, <1>5, <1>6, <1>7

-----------------------------------------------------------------------------
(* The theorems.                                                            *)

LEMMA InitEstablishesIInv == Init => IInv
  <1> SUFFICES ASSUME Init PROVE IInv
    OBVIOUS
  <1> USE DEF Init
  <1>1. <<>> \in Seq(Work) /\ Len(<<>>) = 0
    BY EmptySeq
  <1>2. Queue = <<>> /\ Len(Queue) = 0 /\ Busy = {}
    <2>1. <<>> \o <<>> = <<>>
      BY <1>1, ConcatEmptySeq
    <2> QED
      BY <1>1, <2>1 DEF Queue, Busy, AtRest
  <1>3. 0 \in Stamps /\ 0 \in Eras
    BY ConstantsAssumption DEF Stamps, Eras
  <1>4. NoScene \in Scene /\ NoScene.state = "Idle"
    BY <1>3 DEF NoScene, Scene
  <1>5. AtRest \in Main
    BY <1>1, <1>3 DEF AtRest
  <1>6. TypeOK
    <2>1. notifiers \in [Notifiers -> [pc : {"idle", "stamped", "numbered"},
                                       work : Work \cup {<<>>}]]
      OBVIOUS
    <2>2. \A n \in Notifiers : notifiers[n].pc = "idle"
      OBVIOUS
    <2>3. where \in {"main", "other"}
      BY ConstantsAssumption
    <2>4. 0 \in 0 .. MaxNotices /\ 0 \in 0 .. MaxChanges /\ 0 \in 0 .. MaxFailures
      BY ConstantsAssumption
    <2>5. /\ generation \in Eras /\ serial \in Stamps /\ through \in Stamps
          /\ reset \in BOOLEAN /\ scene \in Scene
          /\ scene.state = "Idle" <=> scene = NoScene
          /\ main \in Main
          /\ pending \in Seq(Work) /\ settled \subseteq Stamps
      BY <1>1, <1>3, <1>4, <1>5
    <2>6. /\ hook = "notInstalled" /\ load = "idle" /\ camera = "idle"
          /\ raised = 0 /\ changes = 0 /\ failures = 0
      OBVIOUS
    <2> HIDE DEF Init
    <2> QED
      BY <2>1, <2>2, <2>3, <2>4, <2>5, <2>6 DEF TypeOK
  <1>7. StampsAreCounted
    BY DEF StampsAreCounted, Owed
  <1>8. WorkIsStamped /\ ReceiptsAreDistinct
    BY <1>2 DEF WorkIsStamped, ReceiptsAreDistinct
  <1>9. NoticesAreCounted
    <2>1. IsFiniteSet({}) /\ Cardinality({}) = 0
      BY FS_EmptySet
    <2>2. raised = Cardinality(Busy) + Len(pending) + Len(main.batch) + Cardinality(settled)
      BY <1>1, <1>2, <2>1 DEF AtRest
    <2> QED
      BY <1>2, <2>1, <2>2 DEF NoticesAreCounted, NoticesAreKept, Busy
  <1>10. WorkIsAtHand /\ RestoreIsOwed /\ NoStaleSceneOnMain
    BY <1>4 DEF WorkIsAtHand, InWork, AtRest, Loaded, RestoreIsOwed, NoStaleSceneOnMain,
                NoStaleScene
  <1> QED
    BY <1>6, <1>7, <1>8, <1>9, <1>10 DEF IInv

LEMMA StutteringKeeps ==
    ASSUME IInv, UNCHANGED vars
    PROVE  IInv'
<1> USE DEF vars, IInv
<1>1. TypeOK'
  BY DEF TypeOK
<1>4. (StampsAreCounted /\ WorkIsStamped)'
  BY DEF StampsAreCounted, Owed, WorkIsStamped, Carried, Settling, Busy, Queue, InWork, Notice,
         Loaded
<1>2. (ReceiptsAreDistinct /\ NoticesAreCounted /\ NoticesAreKept)'
  BY DEF ReceiptsAreDistinct, NoticesAreCounted, NoticesAreKept, Carried, Settling, Busy,
         Queue, InWork, Notice, Loaded, Owed
<1>3. (WorkIsAtHand /\ RestoreIsOwed /\ NoStaleSceneOnMain)'
  BY DEF WorkIsAtHand, RestoreIsOwed, NoStaleSceneOnMain, NoStaleScene, InWork, Loaded,
         Carried, Settling, Busy, Queue, Notice, Owed
<1> QED
  BY <1>1, <1>2, <1>3, <1>4

LEMMA NextKeepsIInv == IInv /\ [Next]_vars => IInv'
  <1> SUFFICES ASSUME IInv, [Next]_vars PROVE IInv'
    OBVIOUS
  <1>1. CASE UNCHANGED vars
    BY <1>1, StutteringKeeps
  <1>2. CASE \E n \in Notifiers : Notifies(n)
    BY <1>2, ReceiveKeeps, LoadGenerationKeeps, PostKeeps DEF Notifies
  <1>3. CASE MainUpdate
    BY <1>3, TickBeginKeeps, TickTakeKeeps, TickEndKeeps, BeginKeeps, CollectKeeps,
       RecheckKeeps, HandleSceneEventKeeps, HandlerRestoresKeeps, HandlerAppliesKeeps,
       NoticeFailsKeeps DEF MainUpdate
  <1>4. CASE MainUpdateElsewhere \/ CameraUpdate
    BY <1>4, MainUpdateElsewhereKeeps, CameraUpdateKeeps
  <1>5. CASE Loads
    BY <1>5, LoadBeginKeeps, LoadInvalidatesKeeps, LoadRequestsResetKeeps DEF Loads
  <1>6. CASE CameraStateChanges \/ CameraStateResets
    BY <1>6, CameraStateChangesKeeps, CameraStateResetsKeeps
  <1> QED
    BY <1>1, <1>2, <1>3, <1>4, <1>5, <1>6 DEF Next

\* The inductive invariant holds in every reachable state.
THEOREM DeliveryIsInductive == Spec => []IInv
  <1>1. Init => IInv
    BY InitEstablishesIInv
  <1>2. IInv /\ [Next]_vars => IInv'
    BY NextKeepsIInv
  <1> QED
    BY <1>1, <1>2, PTL DEF Spec

\* Every variable of the delivery has its type; no stamp leaves its range.
THEOREM DeliveryTypeIsCorrect == Spec => []TypeOK
  <1>1. IInv => TypeOK
    BY DEF IInv
  <1> QED
    BY <1>1, DeliveryIsInductive, PTL

\* However requests and consumptions of resets cross and whatever throws, a scene
\* that is being given back has a reset requested.
THEOREM RestoresStayOwed == Spec => []RestoreIsOwed
  <1>1. IInv => RestoreIsOwed
    BY DEF IInv
  <1> QED
    BY <1>1, DeliveryIsInductive, PTL

\* With loads on the main thread, once a load has returned and its reset is
\* processed no scene of before it is left.
THEOREM LoadsLeaveNoStaleScene == Spec => []NoStaleSceneOnMain
  <1>1. IInv => NoStaleSceneOnMain
    BY DEF IInv
  <1> QED
    BY <1>1, DeliveryIsInductive, PTL

\* No notice is lost or worked off twice, whatever throws.
THEOREM NoNoticeIsLost == Spec => []NoticesAreKept
  <1>1. IInv => NoticesAreKept
    BY DEF IInv, NoticesAreCounted
  <1> QED
    BY <1>1, DeliveryIsInductive, PTL

\* A notice raised before a load that had returned when its work was begun starts
\* no scene, on whatever thread loads come: MainUpdate's own step that starts one
\* is HandlerApplies, where WorkIsAtHand has compared the two.
THEOREM NoLateStart == Spec => LateWorkStartsNothing
  <1>1. IInv /\ [Next]_vars =>
           [scene = NoScene /\ scene' # NoScene => Notice.raised >= main.loads]_vars
    <2> SUFFICES ASSUME IInv, Next, scene = NoScene, scene' # NoScene
                 PROVE  Notice.raised >= main.loads
      OBVIOUS
    <2>1. Restoring(scene) = NoScene
      BY DEF Restoring
    <2>2. CASE HandlerApplies
      BY <2>2 DEF IInv, HandlerApplies, WorkIsAtHand
    <2>3. CASE NoticeFails
      BY <2>1, <2>3 DEF NoticeFails, EmergencyReset
    <2>4. CASE TickBegin \/ TickEnd \/ HandlerRestores \/ CameraUpdate
      BY <2>1, <2>4 DEF TickBegin, TickEnd, HandlerRestores, CameraUpdate,
                        ProcessPendingReset, Restores, EmergencyReset
    <2>5. CASE TickTake \/ Begin \/ Collect \/ Recheck \/ HandleSceneEvent
               \/ MainUpdateElsewhere
      BY <2>5 DEF TickTake, Begin, Collect, Recheck, HandleSceneEvent, MainUpdateElsewhere
    <2>6. CASE Loads \/ CameraStateChanges \/ CameraStateResets
      BY <2>6 DEF Loads, LoadBegin, LoadInvalidates, LoadRequestsReset,
                  CameraStateChanges, CameraStateResets
    <2>7. CASE \E n \in Notifiers : Notifies(n)
      BY <2>7 DEF Notifies, ReceiveSceneEvent, LoadGeneration, Post
    <2> QED
      BY <2>2, <2>3, <2>4, <2>5, <2>6, <2>7 DEF Next, MainUpdate
  <1> QED
    BY <1>1, DeliveryIsInductive, PTL DEF Spec, LateWorkStartsNothing
=============================================================================
