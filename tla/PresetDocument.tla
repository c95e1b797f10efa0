----------------------------- MODULE PresetDocument -----------------------------
(****************************************************************************)
(* What the preset repository promises, abstractly: a document that others  *)
(* may write too, and the list made of it.  An edit happens as a whole or   *)
(* not at all: one preset of the list changes, and the document with it, at *)
(* the same moment.  Nothing else that the plugin does changes the          *)
(* document, and the list changes otherwise only by becoming what was read  *)
(* at one moment, or by being forgotten.                                    *)
(****************************************************************************)
CONSTANTS IDs, Values, NoPreset, Contents, Missing

VARIABLES
    stored,   \* the document
    offered,  \* the list of presets
    ready,    \* the list is the document's, not one that was forgotten
    read      \* the list being read, Missing when none is

vars == <<stored, offered, ready, read>>

Lists == [IDs -> Values \cup {NoPreset}]
Empty == [i \in IDs |-> NoPreset]

Init == stored \in Contents /\ offered = Empty /\ ready = FALSE /\ read = Missing

\* A document that is not there offers nothing.
Begin ==
    /\ stored = Missing
    /\ offered' = Empty /\ ready' = TRUE
    /\ UNCHANGED <<stored, read>>

Read ==
    /\ stored \in Lists
    /\ read' = stored
    /\ UNCHANGED <<stored, offered, ready>>

Take ==
    /\ read # Missing
    /\ offered' = read /\ ready' = TRUE /\ read' = Missing
    /\ UNCHANGED stored

Forget ==
    /\ offered' = Empty /\ ready' = FALSE /\ read' = Missing
    /\ UNCHANGED stored

Change(i, v) ==
    /\ read = Missing
    /\ offered' = [offered EXCEPT ![i] = v]
    /\ stored' = offered'
    /\ ready' = TRUE
    /\ UNCHANGED read

\* A new preset may be put in a list that was forgotten.
Put(i, v) == (ready \/ offered[i] = NoPreset) /\ Change(i, v)

Remove(i) == ready /\ offered[i] # NoPreset /\ Change(i, NoPreset)

OthersWrite ==
    /\ stored' \in Contents
    /\ UNCHANGED <<offered, ready, read>>

Next == \/ Begin \/ Read \/ Take \/ Forget \/ OthersWrite
        \/ \E i \in IDs : Remove(i) \/ \E v \in Values : Put(i, v)

Spec == Init /\ [][Next]_vars

=============================================================================
