--------------------------- MODULE MCCallArguments ---------------------------
(* CallArguments with UUIDs of two bytes, four digits and one hyphen.      *)
EXTENDS CallArguments, TLC

AUuid == <<5, 0>>
(* A namespace, a longer one, raw bytes, and an integer.                   *)
Spelled == {Format36(<<1, 2>>), <<Urn, Open>> \o Format36(<<3, 4>>) \o <<Close>>, <<1, 0>>}

(* The classes a Uuid is of; the class of the accessor and its parent; two *)
(* that no Uuid is of.                                                     *)
Classes ==
  [Uuid |-> {"Uuid", "UuidValueInterface", "Stringable", "JsonSerializable"},
   UuidValueInterface |-> {"UuidValueInterface", "Stringable", "JsonSerializable"},
   Stringable |-> {"Stringable"}, JsonSerializable |-> {"JsonSerializable"},
   Wrapper |-> {"Wrapper", "Parent", "Stringable"}, Parent |-> {"Parent", "Stringable"},
   Text |-> {"Text", "Stringable", "Countable"}, Countable |-> {"Countable"}]
Loaded ==
  [name \in DOMAIN Classes \cup {"self", "parent", "unloaded"} |->
     CASE name = "self" -> "Wrapper"
       [] name = "parent" -> "Parent"
       [] name = "unloaded" -> NoClass
       [] OTHER -> name]

(* Objects by their getCore(): none or not to be called, undeclared, of a  *)
(* union, and of intersections that do and do not take a Uuid in.          *)
Accessor == [exists |-> TRUE, plain |-> TRUE, required |-> 0, typed |-> FALSE,
             type |-> [object |-> FALSE, parts |-> {}]]
Typed(parts) == [Accessor EXCEPT !.typed = TRUE, !.type.parts = parts]
Giving(class, methods) == [method : methods, gives : {class}]
Foreign ==
  Giving("Uuid", {Accessor, [Accessor EXCEPT !.plain = FALSE], [Accessor EXCEPT !.required = 1],
                  [Typed({}) EXCEPT !.type.object = TRUE],
                  Typed({{"UuidValueInterface"}}), Typed({{"Stringable", "JsonSerializable"}})})
  \cup Giving("Text", {Typed({{"Uuid"}, {"Text"}}), Typed({{"Stringable", "Countable"}})})
  \cup Giving("Wrapper", {Typed({{"self"}, {"unloaded"}}), Typed({{"parent"}})})
  \cup Giving(NoClass, {[Accessor EXCEPT !.exists = FALSE], Typed({{"Stringable", "unloaded"}})})
Renamings == Permutations(Vars) \cup Permutations(Strings)
=============================================================================
