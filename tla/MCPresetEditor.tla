---------------------------- MODULE MCPresetEditor ----------------------------
(* PresetEditor for TLC: behaviours about drafts, and behaviours about keys. *)
EXTENDS PresetEditor

\* The file edited outside has one preset or none.
MCReloads == {<<>>, <<[id |-> 1, pose |-> "new"]>>}

Drafts == [keys |-> {"F8"}, thread |-> "frames", edits |-> TRUE, sets |-> FALSE]
Assigning(keys, thread) == [keys |-> keys, thread |-> thread, edits |-> FALSE, sets |-> TRUE]
MCScopes == {Drafts, Assigning({"K", "Esc"}, "frames"), Assigning({"K"}, "other")}

\* The key of the editor and another one, held together.
Holding == [keys |-> {"F8", "K"}, thread |-> "frames", edits |-> FALSE, sets |-> FALSE]

DraftScope == {Drafts}
HoldingScope == {Holding}
=============================================================================
