---------------------------- MODULE AnimationUpdate ----------------------------
(****************************************************************************)
(* AnimationUpdateCoordinator and the candidate selection it guards: the    *)
(* threads that meet at SelectionBoundary.                                  *)
(*                                                                          *)
(* A notifier thread stamps a notice (Receive) and posts it afterwards; the *)
(* main thread observes posted notices, ticks the coordinator and evaluates *)
(* and selects candidates in several locked sections with unlocked work     *)
(* between them; the script VM answers requests when it likes; the editor   *)
(* publishes presets; a lifecycle thread invalidates everything.  Every     *)
(* action is one locked section together with the unlocked work of its      *)
(* thread up to the next one.                                               *)
(*                                                                          *)
(* The coordinator is enabled (Configure was called), time is kept as ages  *)
(* that stop at Hold, and serial numbers stop at MaxSerial.                 *)
(****************************************************************************)
EXTENDS Naturals, Sequences, FiniteSets

CONSTANTS
    Keys,        \* scene keys, in the order of receipts_
    NoKey,
    PlayerKeys,  \* the scenes the player takes part in
    Notifiers,   \* threads that deliver notices
    Animations,  \* animation ids
    Hold,        \* 5 s
    Capacity,    \* 128 receipts
    MaxSerial,   \* bound: stamps given out
    MaxEdits     \* bound: preset snapshots published

ASSUME ConstantsAssumption ==
    /\ Keys \subseteq Nat /\ NoKey \notin Keys /\ PlayerKeys \subseteq Keys
    /\ Hold \in Nat \ {0} /\ Capacity \in Nat \ {0, 1}
    /\ MaxSerial \in Nat /\ MaxEdits \in Nat

EventTypes == {"Starting", "Start", "Change", "Stage", "Relocated", "End"}

VARIABLES
    serial,    \* serial_
    through,   \* invalidatedThrough_
    position,  \* position_
    receipts,  \* receipts_: number 0 where the map has no entry
    coord,     \* active_, working_, handled_, pending_, needID_, age of the hold
    ready,     \* ready_
    store,     \* store_.current
    replies,   \* idReply_, nameReply_, tagsReply_
    stamped,   \* per notifier: <<>>, or the notice it has stamped and not yet posted
    queue,     \* posted notices
    presets,   \* the preset snapshot published last
    main,      \* where the main thread is, with its locals
    shown      \* what candidates were evaluated and selected from

vars == <<serial, through, position, receipts, coord, ready, store, replies,
          stamped, queue, presets, main, shown>>

boundary == <<serial, through, position, receipts, coord, ready, store>>

Stamps == 0 .. MaxSerial
Ages == 0 .. Hold

Notice == [event : EventTypes, key : Keys, receipt : Stamps]
Receipt == [number : Stamps, event : EventTypes, age : Ages]
NoReceipt == [number |-> 0, event |-> "End", age |-> 0]

\* An answer of the VM: the animation it is about, and the last stamp given
\* out when it came.
Reply == [state : {"none", "pending", "ok", "failed"},
          id : Animations \cup {"none"}, at : Stamps]
NoReply == [state |-> "none", id |-> "none", at |-> 0]

Metadata == [revision : Stamps, known : BOOLEAN,
             id : Animations \cup {"none"}, name : Animations \cup {"none"},
             tags : Animations \cup {"none"}, at : Stamps]
NoMetadata == [revision |-> 0, known |-> FALSE, id |-> "none", name |-> "none",
               tags |-> "none", at |-> 0]

Unknown(revision) == [NoMetadata EXCEPT !.revision = revision]

\* What a list of candidates was computed from.
Basis == [metadata : Metadata, position : Stamps, presets : 0 .. MaxEdits]
NoBasis == [metadata |-> NoMetadata, position |-> 0, presets |-> 0]

TypeOK ==
    /\ serial \in Stamps /\ through \in Stamps /\ position \in Stamps
    /\ receipts \in [Keys -> Receipt]
    /\ coord \in [active : Keys \cup {NoKey}, working : Stamps, handled : Stamps,
                  pending : BOOLEAN, needID : BOOLEAN, age : Ages]
    /\ ready \in Metadata /\ store \in Metadata
    /\ replies \in [id : Reply, name : Reply, tags : Reply]
    /\ stamped \in [Notifiers -> Seq(Notice)] /\ \A n \in Notifiers : Len(stamped[n]) <= 1
    /\ queue \in Seq(Notice)
    /\ presets \in 0 .. MaxEdits
    /\ main \in [pc : {"idle", "fetch", "publish", "measure", "commit", "select"},
                 key : Keys \cup {NoKey}, revision : Stamps, request : BOOLEAN,
                 result : Metadata, basis : Basis]
    /\ shown \in [evaluated : Basis, filter : Basis, chosen : Basis]

NoWork == [pc |-> "idle", key |-> NoKey, revision |-> 0, request |-> FALSE,
           result |-> NoMetadata, basis |-> NoBasis]

NoReplies == [id |-> NoReply, name |-> NoReply, tags |-> NoReply]

Init ==
    /\ serial = 0 /\ through = 0 /\ position = 0
    /\ receipts = [k \in Keys |-> NoReceipt]
    /\ coord = [active |-> NoKey, working |-> 0, handled |-> 0,
                pending |-> FALSE, needID |-> FALSE, age |-> 0]
    /\ ready = NoMetadata /\ store = NoMetadata
    /\ replies = NoReplies
    /\ stamped = [n \in Notifiers |-> <<>>]
    /\ queue = <<>>
    /\ presets = 0
    /\ main = NoWork
    /\ shown = [evaluated |-> NoBasis, filter |-> NoBasis, chosen |-> NoBasis]

Stamped == {k \in Keys : receipts[k].number > 0}

\* ValidLocked: the metadata answers the last notice of the scene followed.
Valid(m) ==
    /\ coord.active # NoKey /\ m # NoMetadata
    /\ receipts[coord.active].number = m.revision
    /\ ready = m /\ ~coord.pending

-----------------------------------------------------------------------------
(* Notifier threads.                                                        *)

\* Mutant: the scene followed may lose its receipt.
EvictedAny(k) ==
    {o \in Stamped : /\ Cardinality(Stamped) >= Capacity /\ k \notin Stamped
                     /\ \A p \in Stamped : o <= p}

\* The least key whose receipt makes room: never the scene followed.
Evicted(k) ==
    {o \in Stamped : /\ Cardinality(Stamped) >= Capacity /\ k \notin Stamped
                     /\ o # coord.active
                     /\ \A p \in Stamped \ {coord.active} : o <= p}

Receive(n, event, k) ==
    /\ stamped[n] = <<>> /\ serial < MaxSerial
    /\ serial' = serial + 1
    /\ stamped' = [stamped EXCEPT
                     ![n] = <<[event |-> event, key |-> k, receipt |-> serial + 1]>>]
    /\ receipts' = [o \in Keys |->
                      IF o = k /\ event # "Relocated"
                      THEN [number |-> serial + 1, event |-> event, age |-> 0]
                      ELSE IF o \in Evicted(k) THEN NoReceipt ELSE receipts[o]]
    /\ position' = IF event = "Relocated" /\ coord.active = k
                   THEN position + 1 ELSE position
    /\ UNCHANGED <<through, coord, ready, store, replies, queue, presets, main, shown>>

\* Two notices may be posted in another order than they were stamped.
Post(n) ==
    /\ stamped[n] # <<>>
    /\ queue' = queue \o stamped[n]
    /\ stamped' = [stamped EXCEPT ![n] = <<>>]
    /\ UNCHANGED <<boundary, replies, presets, main, shown>>

-----------------------------------------------------------------------------
(* The main thread: notices.                                                *)

Live(notice) ==
    notice.receipt > through /\ receipts[notice.key].number > 0

Adopts(notice) ==
    coord.active = NoKey /\ notice.key \in PlayerKeys
    /\ notice.event \in {"Starting", "Start"}

\* The scene followed ends, or the procedure gives it up.
Forgotten(c) == [c EXCEPT !.active = NoKey, !.pending = FALSE]

\* Mutant: a notice of another scene takes over.
FollowsAny(notice) == Live(notice) /\ (Adopts(notice) \/ coord.active # NoKey)

Follows(notice) == Live(notice) /\ (Adopts(notice) \/ coord.active = notice.key)

Ends(notice) == Follows(notice) /\ notice.event = "End"

Handled == IF coord.active = NoKey THEN 0 ELSE coord.handled

\* Only the latest notice of the scene starts a hold, and only once.
Starts(notice) ==
    /\ Follows(notice) /\ notice.event # "End"
    /\ receipts[notice.key].number = notice.receipt /\ notice.receipt > Handled

\* Mutant: the age of the notice is off by one.
StartedEarly(notice) ==
    [active |-> notice.key, working |-> notice.receipt, handled |-> notice.receipt,
     pending |-> TRUE, needID |-> notice.event \in {"Start", "Stage"},
     age |-> receipts[notice.key].age + 1]

\* The deadline counts from the receipt.
Started(notice) ==
    [active |-> notice.key, working |-> notice.receipt, handled |-> notice.receipt,
     pending |-> TRUE, needID |-> notice.event \in {"Start", "Stage"},
     age |-> receipts[notice.key].age]

\* Mutant: the names asked for earlier stay.
ForgottenID == [replies EXCEPT !.id = NoReply]

ForgottenReplies == NoReplies

Observe ==
    LET notice == Head(queue)
        ends == Ends(notice)
        starts == Starts(notice)
    IN
    /\ main.pc = "idle" /\ queue # <<>>
    /\ queue' = Tail(queue)
    /\ coord' = IF ends THEN Forgotten(coord)
                ELSE IF starts THEN Started(notice)
                ELSE IF Follows(notice)
                THEN [coord EXCEPT !.active = notice.key, !.handled = Handled]
                ELSE coord
    /\ ready' = IF starts \/ ends THEN NoMetadata ELSE ready
    /\ replies' = IF starts \/ ends THEN ForgottenReplies ELSE replies
    /\ store' = IF ends \/ (Follows(notice) /\ coord.active = NoKey)
                THEN NoMetadata ELSE store
    /\ UNCHANGED <<serial, through, position, receipts, stamped, presets, main, shown>>

ForgetsMetadata == ready' = NoMetadata /\ store' = NoMetadata

\* StopSceneWork: ClearActive, and the evaluation is forgotten.
ClearActive ==
    /\ main.pc = "idle" /\ coord.active # NoKey
    /\ coord' = Forgotten(coord)
    /\ ForgetsMetadata
    /\ shown' = [shown EXCEPT !.evaluated = NoBasis]
    /\ UNCHANGED <<serial, through, position, receipts, replies, stamped, queue,
                   presets, main>>

-----------------------------------------------------------------------------
(* The main thread: Tick.                                                   *)

\* Mutant: an update that is over is ticked again.
WorksAgain == coord.active # NoKey /\ receipts[coord.active].number = coord.working

\* An update of the latest notice is under way.
Works ==
    /\ coord.active # NoKey /\ coord.pending
    /\ receipts[coord.active].number = coord.working

\* Mutant: the deadline is not looked at.
NeverExpires == FALSE

Expires == coord.age >= Hold

TickBegin ==
    /\ main.pc = "idle" /\ Works
    /\ IF Expires
       THEN /\ ready' = Unknown(coord.working)
            /\ coord' = [coord EXCEPT !.pending = FALSE]
            /\ replies' = NoReplies
            /\ UNCHANGED main
       ELSE /\ main' = [NoWork EXCEPT !.pc = "fetch", !.key = coord.active,
                          !.revision = coord.working,
                          !.request = coord.needID /\ replies.id = NoReply]
            /\ UNCHANGED <<ready, coord, replies>>
    /\ UNCHANGED <<serial, through, position, receipts, store, stamped, queue,
                   presets, shown>>

\* A request goes out, or fails at once (full, VM or script not available).
Asked(id) == {[state |-> "pending", id |-> id, at |-> 0],
              [state |-> "failed", id |-> "none", at |-> 0]}

Publishes(result) == main' = [main EXCEPT !.pc = "publish", !.result = result]

\* The id is asked for once, and looked at.
TickID ==
    /\ main.pc = "fetch" /\ replies.id.state \in {"none", "pending", "failed"}
    /\ \E r \in IF main.request THEN Asked("none") ELSE {replies.id} :
          /\ replies' = [replies EXCEPT !.id = r]
          /\ IF r.state = "failed"
             THEN Publishes(Unknown(main.revision))
             ELSE main' = NoWork
    /\ UNCHANGED <<boundary, stamped, queue, presets, shown>>

\* The id is known: its name and tags are those published last, or asked for.
TickData ==
    LET id == replies.id.id
        cached == store.known /\ store.id = id
        Options(r) == IF r = NoReply THEN Asked(id) ELSE {r}
    IN
    /\ main.pc = "fetch" /\ replies.id.state = "ok"
    /\ IF cached
       THEN /\ Publishes([store EXCEPT !.revision = main.revision, !.at = replies.id.at])
            /\ UNCHANGED replies
       ELSE \E name \in Options(replies.name), tags \in Options(replies.tags) :
              /\ replies' = [replies EXCEPT !.name = name, !.tags = tags]
              /\ IF "failed" \in {name.state, tags.state}
                 THEN Publishes(Unknown(main.revision))
                 ELSE IF "pending" \in {name.state, tags.state}
                 THEN main' = NoWork
                 ELSE Publishes([revision |-> main.revision, known |-> TRUE,
                                 id |-> id, name |-> name.id, tags |-> tags.id,
                                 at |-> replies.id.at])
    /\ UNCHANGED <<boundary, stamped, queue, presets, shown>>

TickPublish ==
    LET current == /\ coord.active = main.key /\ coord.working = main.revision
                   /\ receipts[main.key].number = main.revision
    IN
    /\ main.pc = "publish"
    /\ main' = NoWork
    /\ ready' = IF current THEN main.result ELSE ready
    /\ coord' = IF current THEN [coord EXCEPT !.pending = FALSE] ELSE coord
    /\ replies' = IF current THEN NoReplies ELSE replies
    /\ UNCHANGED <<serial, through, position, receipts, store, stamped, queue,
                   presets, shown>>

-----------------------------------------------------------------------------
(* The main thread: evaluation and selection.                               *)

Measuring == [NoWork EXCEPT !.pc = "measure", !.result = ready]

MeasureBegin ==
    /\ main.pc = "idle" /\ Valid(ready)
    /\ main' = Measuring
    /\ UNCHANGED <<boundary, replies, stamped, queue, presets, shown>>

\* Mutant: the verdicts about other metadata are kept.
VerdictsHoldForPresets == shown.filter.presets = presets

VerdictsHold == shown.filter.presets = presets /\ shown.filter.metadata = main.result

\* Positions, presets and the filters' verdicts, kept from the last evaluation
\* of the same presets and metadata.
MeasureRead ==
    LET read == [metadata |-> main.result, position |-> position, presets |-> presets] IN
    /\ main.pc = "measure"
    /\ main' = [main EXCEPT !.pc = "commit", !.basis = read]
    /\ shown' = [shown EXCEPT !.filter = IF VerdictsHold THEN @ ELSE read]
    /\ UNCHANGED <<boundary, replies, stamped, queue, presets>>

\* Does a list computed from the basis still belong to the scene as it is?
Current(basis) ==
    Valid(basis.metadata) /\ basis.position = position /\ basis.presets = presets

\* The list is published together with its metadata, or dropped.
MeasureCommit ==
    /\ main.pc = "commit"
    /\ IF Current(main.basis)
       THEN /\ store' = main.basis.metadata
            /\ shown' = [shown EXCEPT !.evaluated = main.basis]
            /\ \E selects \in BOOLEAN :
                  main' = IF selects THEN [NoWork EXCEPT !.pc = "select"] ELSE NoWork
       ELSE main' = NoWork /\ UNCHANGED <<store, shown>>
    /\ UNCHANGED <<serial, through, position, receipts, coord, ready, replies,
                   stamped, queue, presets>>

\* EvaluateVisibility right after the commit; SelectPresetStep at any later
\* camera update.
Select ==
    /\ main.pc \in {"select", "idle"}
    /\ main' = NoWork
    /\ shown' = IF Current(shown.evaluated)
                THEN [shown EXCEPT !.chosen = shown.evaluated] ELSE shown
    /\ UNCHANGED <<boundary, replies, stamped, queue, presets>>

-----------------------------------------------------------------------------
(* The other threads.                                                       *)

\* A VM callback fills its mailbox; a dropped mailbox is nobody's.
AnswerID(r) ==
    /\ replies.id.state = "pending"
    /\ r \in {[state |-> "ok", id |-> a, at |-> serial] : a \in Animations}
             \cup {[state |-> "failed", id |-> "none", at |-> serial]}
    /\ replies' = [replies EXCEPT !.id = r]
    /\ UNCHANGED <<boundary, stamped, queue, presets, main, shown>>

AnswerData(field, state) ==
    /\ replies[field].state = "pending"
    /\ replies' = [replies EXCEPT ![field].state = state]
    /\ UNCHANGED <<boundary, stamped, queue, presets, main, shown>>

\* PresetRepository publishes under the same mutex.
PublishPresets ==
    /\ presets < MaxEdits
    /\ presets' = presets + 1
    /\ UNCHANGED <<boundary, replies, stamped, queue, main, shown>>

Invalidate ==
    /\ serial < MaxSerial
    /\ serial' = serial + 1 /\ through' = serial + 1
    /\ receipts' = [k \in Keys |-> NoReceipt]
    /\ coord' = Forgotten(coord)
    /\ ForgetsMetadata
    /\ UNCHANGED <<position, replies, stamped, queue, presets, main, shown>>

Older(age) == IF age < Hold THEN age + 1 ELSE age

TimePasses ==
    /\ main.pc = "idle"
    /\ receipts' = [k \in Keys |->
                      IF k \in Stamped THEN [receipts[k] EXCEPT !.age = Older(@)]
                      ELSE receipts[k]]
    /\ coord' = IF coord.active = NoKey THEN coord ELSE [coord EXCEPT !.age = Older(@)]
    /\ UNCHANGED <<serial, through, position, ready, store, replies, stamped,
                   queue, presets, main, shown>>

Answers ==
    \/ \E a \in Animations \cup {"none"}, s \in {"ok", "failed"} :
          AnswerID([state |-> s, id |-> a, at |-> serial])
    \/ \E f \in {"name", "tags"}, s \in {"ok", "failed"} : AnswerData(f, s)

Tick == TickBegin \/ TickID \/ TickData \/ TickPublish

Next ==
    \/ \E n \in Notifiers : \/ \E event \in EventTypes, k \in Keys : Receive(n, event, k)
                            \/ Post(n)
    \/ Observe \/ ClearActive
    \/ Tick
    \/ MeasureBegin \/ MeasureRead \/ MeasureCommit \/ Select
    \/ Answers
    \/ PublishPresets
    \/ Invalidate
    \/ TimePasses

Spec == Init /\ [][Next]_vars

\* The main thread keeps ticking and handling, time passes, and a stamped
\* notice is posted.  Nothing is assumed of the VM.
Fairness ==
    /\ \A n \in Notifiers : WF_vars(Post(n))
    /\ SF_vars(Observe) /\ SF_vars(TickBegin)
    /\ WF_vars(main.pc # "idle" /\ (Tick \/ MeasureRead \/ MeasureCommit \/ Select))
    /\ SF_vars(TimePasses)

FairSpec == Spec /\ Fairness

-----------------------------------------------------------------------------
(* Safety.                                                                  *)

\* The map lookup receipts_.at(key) in Tick cannot throw: the scene followed
\* keeps its receipt through evictions and invalidations, and the map stays at
\* its capacity.
ReceiptsAreKept ==
    /\ coord.active # NoKey => coord.active \in Stamped
    /\ Cardinality(Stamped) <= Capacity

\* Known metadata is whole: name and tags are those of the id, although the
\* three answers come one by one and survive from tick to tick; and its id was
\* asked for by a start or stage notice, not by a change alone.
MetadataIsWhole ==
    /\ ready.known => ready.name = ready.id /\ ready.tags = ready.id
    /\ Valid(ready) /\ ready.known =>
          receipts[coord.active].event \in {"Start", "Stage"}

\* animation-filter-design.md: no candidate is selected from metadata read
\* before a notice that has been received, from positions before a received
\* relocation, or from presets before a published edit; and the filter verdicts
\* kept from earlier evaluations are those of that metadata and those presets.
SelectionIsCurrent ==
    [][ shown'.chosen # shown.chosen =>
          LET basis == shown'.chosen IN
          /\ coord.active # NoKey
          /\ basis.metadata.revision = receipts[coord.active].number
          /\ basis.metadata.known =>
                basis.metadata.at >= receipts[coord.active].number
          /\ basis.position = position /\ basis.presets = presets
          /\ main.pc = "select" =>
                /\ shown.filter.metadata = basis.metadata
                /\ shown.filter.presets = presets ]_vars

\* animation-filter-design.md: what was settled as unknown is not overwritten
\* by a late answer; settled metadata changes only with a newer notice.
SettledIsFinal ==
    [][ ready # NoMetadata /\ ready' # NoMetadata /\ ready' # ready =>
          ready'.revision > ready.revision ]_vars

-----------------------------------------------------------------------------
(* Refinement and liveness.                                                 *)

HoldOfScene == INSTANCE MetadataHold WITH
            Scenes <- Keys, NoScene <- NoKey,
            target <- coord.active,
            metadata <- IF coord.active = NoKey THEN "none"
                        ELSE IF ~Valid(ready) THEN "waiting"
                        ELSE IF shown.evaluated.metadata = ready THEN "committed"
                        ELSE "ready"

\* Received notices put the scene on hold before they are handled, and an
\* answer that is no longer current never ends it.
IsAHold == HoldOfScene!Spec

\* animation-filter-design.md: a hold ends at the latest with the deadline.
HoldEnds == coord.active # NoKey /\ ~Valid(ready) ~> coord.active = NoKey \/ Valid(ready)

=============================================================================
