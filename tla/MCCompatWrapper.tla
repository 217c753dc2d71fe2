-------------------------- MODULE MCCompatWrapper --------------------------
(* CompatWrapper with a v1 that still is one when a GUID codec swaps its   *)
(* bytes or an ordered one moves them twice, and a v4 for which neither    *)
(* holds: a mistaken codec makes bytes of other classes of it.             *)
EXTENDS CompatWrapper, TLC

V1 == <<1, 2, 3, 4, 21, 6, 23, 24, 129, 10, 11, 12, 13, 14, 15, 16>>
V4 == <<1, 2, 3, 4, 5, 6, 71, 8, 129, 10, 11, 12, 13, 14, 15, 16>>
SomeCores == {V1, V4}
Raw == {[V4 EXCEPT ![7] = 247, ![9] = 5]}
Renamings == Permutations(Objects)
=============================================================================
