----------------------------- MODULE ReturnTypes -----------------------------
(***************************************************************************)
(* Which accessors fu_resolve_uuid() calls.  A foreign object is asked for *)
(* its core only if getCore() may return a Uuid by its declared type, and  *)
(* finding that out loads no class and runs no user code.  A declared type *)
(* is a union of built-in types and intersections of names; it is none     *)
(* where nothing is declared.                                              *)
(***************************************************************************)
EXTENDS Integers, FiniteSets

CONSTANTS
  Required,  (* the class FastUuid\Uuid                                     *)
  Supers,    (* of each class that is loaded, the classes its objects are of*)
  Lookup,    (* the class a name stands for in the class of the accessor    *)
  NoClass    (* for a name nothing is loaded by                             *)

IsA(class, super) == super \in Supers[class]

(* Uuid is final.  Its own name stands for it everywhere.                  *)
ASSUME ReturnTypesAssumption ==
  /\ Required \in DOMAIN Supers /\ NoClass \notin DOMAIN Supers
  /\ \A class \in DOMAIN Supers :
       IsA(class, class) /\ (IsA(class, Required) => class = Required)
  /\ Required \in DOMAIN Lookup /\ Lookup[Required] = Required
  /\ \A name \in DOMAIN Lookup : Lookup[name] \in DOMAIN Supers \cup {NoClass}

(* fu_type_may_return, for MAY_BE_OBJECT and the class Uuid.               *)
(* Mutant: the classes a Uuid is of do not count.                          *)
CompatibleByName(name) == name = Required
Compatible(name) ==
  \/ name = Required
  \/ Lookup[name] # NoClass /\ (IsA(Required, Lookup[name]) \/ IsA(Lookup[name], Required))
(* Mutant: one name of an intersection is enough.                          *)
SomeCompatible(part) == \E name \in part : Compatible(name)
AllCompatible(part) == \A name \in part : Compatible(name)
MayReturn(type) == type.object \/ \E part \in type.parts : AllCompatible(part)

(* fu_find_zero_arg_method: public, not static, not abstract, callable     *)
(* without arguments, of a type that may help.                             *)
Usable(method) == method.exists /\ method.plain /\ method.required = 0
Asked(method) == Usable(method) /\ (method.typed => MayReturn(method.type))

(* The engine lets an object of this class out of a function of this type. *)
Accepts(type, class) ==
  \/ type.object
  \/ \E part \in type.parts : \A name \in part : Lookup[name] # NoClass /\ IsA(class, Lookup[name])
CanGive(method, class) == Usable(method) /\ (method.typed => Accepts(method.type, class))
=============================================================================
