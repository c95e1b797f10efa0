---------------------------- MODULE MCEventDelivery ----------------------------
(* Constants of EventDelivery for TLC.                                      *)
EXTENDS EventDelivery, TLC

MCSymmetry == Permutations(Notifiers)
=============================================================================
