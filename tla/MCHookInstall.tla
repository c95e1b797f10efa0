---------------------------- MODULE MCHookInstall ----------------------------
(* HookInstall for TLC: two vtables and two mods that are interchangeable.  *)
EXTENDS HookInstall, TLC

Symmetric == Permutations(Vtables) \cup Permutations(Mods)
=============================================================================
