---------------------------- MODULE MCUuidObject ----------------------------
(* UuidObject with the text user code writes, and the sets whose members  *)
(* are alike.                                                              *)
EXTENDS UuidObject, TLC

WrittenTexts == {<<"other", 1>>}
Renamings == Permutations(Objects) \cup Permutations(Handles) \cup Permutations(Strings)
=============================================================================
