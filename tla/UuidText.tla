------------------------------ MODULE UuidText ------------------------------
(***************************************************************************)
(* Bytes, texts and answers of comparisons, as UuidPlain and UuidObject    *)
(* both speak of them.                                                     *)
(***************************************************************************)
EXTENDS Integers

CONSTANT Values   (* what sixteen bytes may be, ordered as memcmp orders them *)

(* Nil is what fu_create() leaves; None stands for no bytes at all.        *)
Nil == 0
None == -1

(* A text is named by its spelling and the bytes it stands for; junk is    *)
(* what the parser refuses.                                                *)
Texts == {"canonical", "other", "junk"} \X Values
NoText == <<"no text", None>>
Canonical(v) == <<"canonical", v>>
Parsed(t) == IF t[1] \in {"canonical", "other"} THEN t[2] ELSE None

(* equals(), compareTo(), and the operators on two Uuid objects.           *)
Foreign == {"equals", "compareTo"}
Comparisons == Foreign \cup {"operator"}
Answers == {"true", "false", "less", "equal", "greater", "throws"}

Sign(mine, theirs) ==
  IF mine < theirs THEN "less" ELSE IF mine = theirs THEN "equal" ELSE "greater"

(* An argument that could not be resolved is unequal, and not comparable.  *)
Answer(call, mine, theirs) ==
  IF call = "equals" THEN IF mine = theirs THEN "true" ELSE "false"
  ELSE IF theirs = None THEN "throws" ELSE Sign(mine, theirs)
=============================================================================
