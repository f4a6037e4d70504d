--------------------------- MODULE MCItemRegistry ---------------------------
(***************************************************************************)
(* ItemRegistry for TLC: no property names a serial number, a variant, an  *)
(* owner or a call.                                                        *)
(***************************************************************************)
EXTENDS ItemRegistry, TLC

RegistrySymmetry ==
   UNION {Permutations(s) : s \in {Serial, Variant, Owner, Task}}
=============================================================================
