----------------------------- MODULE MCFlfTable -----------------------------
(* FlfTable with two other extensions, one of which has a run of handlers  *)
(* as long as fast_uuid's and can be taken for it.                         *)
EXTENDS FlfTable, TLC

HandlerCounts == ("fast_uuid" :> 2) @@ ("other" :> 2) @@ ("small" :> 1)
IniFiles == {<<"other">>, <<"fast_uuid">>, <<"small", "fast_uuid">>,
             <<"fast_uuid", "other">>}
Renamings == Permutations(Addresses)
=============================================================================
