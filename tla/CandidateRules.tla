----------------------------- MODULE CandidateRules -----------------------------
(***************************************************************************)
(* The rules that rate camera presets and walk through them: the anchor's  *)
(* line of sight (core/VisibilityEvaluation.cpp), the animation filter     *)
(* (runtime/PresetFilterEvaluator.h) and the choice of a candidate         *)
(* (core/CandidateSelection.cpp).  Operators only; nothing here changes.   *)
(***************************************************************************)
EXTENDS Integers, Sequences, FiniteSets, FiniteSetsExt

NoID == ""  \* the empty string: no preset id

-----------------------------------------------------------------------------
(* Line of sight.  A sight is a pose, if the preset gives one, and what the  *)
(* five rays towards the anchor met: ray 1 from the centre, the others from  *)
(* the corners.  EvaluateVisibilityCandidate reports every ray once, and     *)
(* none of them traced without a pose.                                       *)

Statuses == {"visible", "obstructed", "unavailable", "inside"}
Corners == 2 .. 5
Sights == [pose : BOOLEAN, rays : [1 .. 5 -> Statuses]]
NoPose == [pose |-> FALSE, rays |-> [r \in 1 .. 5 |-> "unavailable"]]

\* ApplyAnchorLOSRule.
FailureReason(sight) ==
    IF ~sight.pose THEN "pose unavailable"
    ELSE IF \E r \in 1 .. 5 : sight.rays[r] = "unavailable" THEN "anchor unavailable"
    ELSE IF sight.rays[1] # "visible" THEN "center obstructed"
    ELSE IF Cardinality({r \in Corners : sight.rays[r] = "visible"}) < 3
         THEN "corners obstructed"
    ELSE "none"

-----------------------------------------------------------------------------
(* Animation filters.  An expression is {} when it is left empty, and {S}    *)
(* when S are the animations it matches.                                     *)

Accepts(expression, animation) == \A S \in expression : animation \in S

\* PresetFilterEvaluator::Matches.
Matches(filter, metadata) ==
    /\ ~filter.invalid
    /\ \/ filter.name = {} /\ filter.tag = {}
       \/ /\ metadata.known
          /\ Accepts(filter.name, metadata.animation)
          /\ Accepts(filter.tag, metadata.animation)

-----------------------------------------------------------------------------
(* Candidates in the order of the presets: [id, usable].                    *)

IDsOf(list) == {list[i].id : i \in DOMAIN list}
UsableIDs(list) == {list[i].id : i \in {j \in DOMAIN list : list[j].usable}}

First(list, Accepted(_)) ==
    LET found == {i \in DOMAIN list : Accepted(list[i])}
    IN IF found = {} THEN NoID ELSE list[Min(found)].id

\* CandidateSelector::SelectInitial; its one caller has no preference.
SelectInitial(list) == First(list, LAMBDA c : c.usable)

\* CandidateSelector::Step: from the current candidate, or from beyond the end
\* the direction comes from, round once, the current one last.
Start(list, current, direction) ==
    IF current \in IDsOf(list)
    THEN Min({i \in DOMAIN list : list[i].id = current})
    ELSE IF direction > 0 THEN Len(list) ELSE 1

\* Mutant: one-based and zero-based indices are mixed up.
AroundMixed(list, current, direction, offset) ==
    list[((Start(list, current, direction) + direction * offset) % Len(list)) + 1]

Around(list, current, direction, offset) ==
    list[((Start(list, current, direction) - 1 + direction * offset) % Len(list)) + 1]

Step(list, current, direction) ==
    LET hits == {o \in 1 .. Len(list) : Around(list, current, direction, o).usable}
    IN IF list = <<>> \/ direction = 0 \/ hits = {} THEN NoID
       ELSE Around(list, current, direction, Min(hits)).id
=============================================================================
