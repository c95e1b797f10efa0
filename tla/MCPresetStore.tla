----------------------------- MODULE MCPresetStore -----------------------------
(* Constants of PresetStore for TLC.                                        *)
EXTENDS PresetStore, TLC

MCSymmetry == Permutations(IDs) \cup Permutations(Values)
=============================================================================
