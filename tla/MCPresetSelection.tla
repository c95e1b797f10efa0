--------------------------- MODULE MCPresetSelection ---------------------------
(* Constants of PresetSelection for TLC: a preset for every animation, one  *)
(* for a1 only, and a sight on each side of the rule's limit.               *)
EXTENDS PresetSelection, TLC

MCFilters ==
    [p |-> [invalid |-> FALSE, name |-> {}, tag |-> {}],
     q |-> [invalid |-> FALSE, name |-> {{"a1"}}, tag |-> {{"a1"}}],
     r |-> [invalid |-> FALSE, name |-> {}, tag |-> {}]]

MCStored == {<<"p", "q", "r">>, <<>>}

\* The first n rays are free, the others meet something.
Free(n) == [pose |-> TRUE,
            rays |-> [i \in 1 .. 5 |-> IF i <= n THEN "visible" ELSE "obstructed"]]
View(p, q, r) == [p |-> Free(p), q |-> Free(q), r |-> Free(r)]
MCViews == {View(4, 4, 4), View(3, 4, 4), View(3, 3, 3)}
=============================================================================
