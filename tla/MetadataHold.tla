------------------------------ MODULE MetadataHold ------------------------------
(****************************************************************************)
(* What the procedure may rely on about the animation metadata of the       *)
(* scene it follows, abstractly: a notice of the scene puts every selection *)
(* on hold at once; the hold ends with an answer, and candidates are        *)
(* published from that answer before the next notice or not at all.         *)
(****************************************************************************)
CONSTANTS Scenes, NoScene

VARIABLES
    target,    \* the scene followed
    metadata   \* of the last notice: on hold, answered, or published

vars == <<target, metadata>>

Init == target = NoScene /\ metadata = "none"

Follow ==
    /\ target = NoScene
    /\ target' \in Scenes
    /\ metadata' = "waiting"

Notice ==
    /\ target # NoScene
    /\ metadata' = "waiting"
    /\ UNCHANGED target

Answer ==
    /\ metadata = "waiting"
    /\ metadata' = "ready"
    /\ UNCHANGED target

Publish ==
    /\ metadata = "ready"
    /\ metadata' = "committed"
    /\ UNCHANGED target

Forget ==
    /\ target # NoScene
    /\ target' = NoScene
    /\ metadata' = "none"

Next == Follow \/ Notice \/ Answer \/ Publish \/ Forget

Spec == Init /\ [][Next]_vars

=============================================================================
