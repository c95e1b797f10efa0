------------------------------- MODULE SceneLease -------------------------------
(****************************************************************************)
(* What the scene camera promises the player, abstractly: SmoothCam's       *)
(* camera is on lease to at most one scene at a time.  The lease is taken   *)
(* for the current scene only, never once the scene is ending, may be       *)
(* returned early and taken again (movement, debug mode), and the next      *)
(* scene starts with the camera already back.                               *)
(*                                                                          *)
(* The states of SceneSession.h stand behind it: a scene is Preparing or    *)
(* Active while it is current, Restoring while it is ending.                *)
(****************************************************************************)
CONSTANTS Scenes, NoScene

VARIABLES
    scene,   \* the current scene
    held,    \* the camera is on lease
    ending   \* the scene is being given up

vars == <<scene, held, ending>>

Init == scene = NoScene /\ held = FALSE /\ ending = FALSE

\* A lease whose first pose fails gives the scene up at once.
Take ==
    /\ scene # NoScene /\ ~ending /\ ~held
    /\ held' = TRUE
    /\ ending' \in BOOLEAN
    /\ UNCHANGED scene

\* Returned or lost; the scene may go on or be given up for it.
GiveBack ==
    /\ held
    /\ held' = FALSE
    /\ ending' \in {ending, TRUE}
    /\ UNCHANGED scene

End ==
    /\ scene # NoScene
    /\ ending' = TRUE
    /\ UNCHANGED <<scene, held>>

\* The scene is over, and another one may have begun; the camera is back.
Change ==
    /\ scene' \in Scenes \cup {NoScene}
    /\ scene = NoScene => scene' # NoScene
    /\ held' = FALSE
    /\ ending' = FALSE

Next == Take \/ GiveBack \/ End \/ Change

Spec == Init /\ [][Next]_vars

=============================================================================
