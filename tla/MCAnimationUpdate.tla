--------------------------- MODULE MCAnimationUpdate ---------------------------
(* Constants of AnimationUpdate for TLC.                                    *)
EXTENDS AnimationUpdate, TLC

MCSymmetry == Permutations(Animations) \cup Permutations(Notifiers)
=============================================================================
