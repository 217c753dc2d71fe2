---------------------------- MODULE CallArguments ----------------------------
(***************************************************************************)
(* The functions and static methods that take strings: uuid_v3() to        *)
(* uuid_is_valid(), Uuid::uuid3() to fromHexadecimal().  A call may have   *)
(* to turn its arguments into strings, which runs user code: __toString(), *)
(* getCore(), an error handler.  That code may write in place, replace or  *)
(* drop any variable, those the arguments came from included.  A frameless *)
(* handler is given these variables and not copies of them.                *)
(***************************************************************************)
EXTENDS UuidSpelling, ReturnTypes

CONSTANTS
  Vars,      (* user variables                                              *)
  Strings,   (* places of the heap for a string                             *)
  NoString,  (* the null pointer                                            *)
  Inputs,    (* texts user code has                                         *)
  MaxName,   (* FU_MAX_NAME_BYTES                                           *)
  UuidValue, (* the bytes of the Uuid objects                               *)
  Objects    (* the other objects: getCore(), the class of what it returns  *)

NameBased == {"v3", "v5"}
OneText == {"v8", "parse", "from bytes", "is valid", "decimal", "hexadecimal"}
Functions == NameBased \cup OneText
Entries(fn) == IF fn \in {"decimal", "hexadecimal"} THEN {"method"}
               ELSE {"function", "frameless", "method"}
Arity(fn) == IF fn \in NameBased THEN 2 ELSE 1

ASSUME ArgumentsAssumption ==
  /\ UuidValue \in Uuids /\ MaxName \in Nat
  /\ NoString \notin Strings
  /\ IsFiniteSet(Vars) /\ IsFiniteSet(Strings)

(* An accessor returns nothing that the engine would refuse.               *)
ASSUME ObjectsAssumption ==
  \A o \in Objects :
    /\ \A part \in o.method.type.parts : part \subseteq DOMAIN Lookup
    /\ o.gives # NoClass /\ o.method.typed => Accepts(o.method.type, o.gives)

VARIABLES
  var,          \* what each user variable holds
  chars, refs,  \* the heap: text of a string and its reference count
  call          \* the call in progress

heap == <<chars, refs>>
vars == <<var, heap, call>>

(* A zval: a string is a pointer, the rest is itself.                      *)
Kinds == {"null", "array", "uuid", "object"}
Zvals == [kind : {"string"}, at : Strings] \cup [kind : Kinds, at : {NoString}]
Plain(kind) == [kind |-> kind, at |-> NoString]
StringAt(s) == [kind |-> "string", at |-> s]
IsString(z) == z.kind = "string"

(* Strings whose count drops to 0 are freed.                               *)
Freed == << >>
Counted(zs, at, s) == Cardinality({i \in at : zs[i] = StringAt(s)})
(* Mutant: each is given back twice.                                       *)
ReleasedTwice(zs, at) ==
  /\ refs' = [s \in Strings |-> refs[s] - 2 * Counted(zs, at, s)]
  /\ UNCHANGED chars
Released(zs, at) ==
  /\ refs' = [s \in Strings |-> refs[s] - Counted(zs, at, s)]
  /\ chars' = [s \in Strings |-> IF refs'[s] = 0 THEN Freed ELSE chars[s]]

(* The call: how it was entered, its arguments and which of them it has a  *)
(* count of, the namespace as a foreign object told it; and as history     *)
(* what the texts of its strings were at the call, what it was given, and  *)
(* the foreign object it resolved.                                         *)
NoCall == [fn |-> "none", by |-> "none", strict |-> FALSE, step |-> "none",
           args |-> << >>, held |-> {}, core |-> << >>,
           asked |-> << >>, given |-> << >>, object |-> << >>, answer |-> << >>]
Waiting == {"string", "handler", "core", "text"}   (* for user code *)
Throws == <<"throws">>

Init ==
  /\ var = [x \in Vars |-> Plain("null")]
  /\ chars = [s \in Strings |-> Freed] /\ refs = [s \in Strings |-> 0]
  /\ call = NoCall

-----------------------------------------------------------------------------
(* User code, between calls and inside them.                               *)
Assign(x, z) ==
  /\ refs' = [s \in Strings |-> refs[s] + Counted(<<z>>, {1}, s) - Counted(<<var[x]>>, {1}, s)]
  /\ chars' = [s \in Strings |-> IF refs'[s] = 0 THEN Freed ELSE chars[s]]
  /\ var' = [var EXCEPT ![x] = z]

AssignNew(x, t) ==
  \E s \in Strings :
    /\ refs[s] = 0
    /\ refs' = [r \in Strings |-> IF r = s THEN 1 ELSE refs[r] - Counted(<<var[x]>>, {1}, r)]
    /\ chars' = [r \in Strings |-> IF r = s THEN t ELSE IF refs'[r] = 0 THEN Freed ELSE chars[r]]
    /\ var' = [var EXCEPT ![x] = StringAt(s)]

WriteInPlace(x, t) ==
  /\ IsString(var[x]) /\ refs[var[x].at] = 1
  /\ chars' = [chars EXCEPT ![var[x].at] = t]
  /\ UNCHANGED <<var, refs>>

UserCode(x) ==
  /\ call.step \in Waiting \cup {"none"}
  /\ \/ \E kind \in Kinds : Assign(x, Plain(kind))
     \/ \E y \in Vars : IsString(var[y]) /\ Assign(x, var[y])
     \/ \E t \in Inputs : AssignNew(x, t) \/ WriteInPlace(x, t)
  /\ UNCHANGED call

-----------------------------------------------------------------------------
(* The work, once every argument is a text.  The UUID made is a function   *)
(* of what it is made from, in fu_gen_v3() and fu_gen_v5() by a hash.      *)
UuidOf(fn, made) == IF made = NoUuid THEN Throws ELSE <<"uuid", fn, made>>
NameLenOk(name) == Len(name) <= MaxName
NameBasedUuid(fn, namespace, name) ==
  IF namespace = NoUuid \/ ~NameLenOk(name) THEN Throws ELSE UuidOf(fn, <<namespace, name>>)
OfBytes(fn, data) == UuidOf(fn, IF Len(data) = UuidBytes THEN data ELSE NoUuid)
OfHexadecimal(t) == UuidOf("hexadecimal", IF Len(t) = Digits THEN Parse(t) ELSE NoUuid)
Work(fn, t) ==
  CASE fn \in NameBased -> NameBasedUuid(fn, Parse(t[1]), t[2])
    [] fn \in {"v8", "from bytes"} -> OfBytes(fn, t[1])
    [] fn = "parse" -> UuidOf(fn, Parse(t[1]))
    [] fn = "is valid" -> <<"bool", Parse(t[1]) # NoUuid>>
    [] fn = "decimal" -> UuidOf(fn, FromDecimal(t[1]))
    [] fn = "hexadecimal" -> OfHexadecimal(t[1])

TextOf(z) == IF IsString(z) THEN chars[z.at] ELSE << >>
TextsOf(zs) == [i \in DOMAIN zs |-> TextOf(zs[i])]

(* Mutant: what is a string already is borrowed from its variable.         *)
PinsConverted(zs) == {i \in DOMAIN zs : ~IsString(zs[i])}
Pins(zs) == DOMAIN zs

(* A frame has copies of its arguments; a frameless handler makes them     *)
(* unless all are strings.                                                 *)
Enter(fn, by, strict, zs) ==
  /\ call = NoCall
  /\ by = "frameless" => \E i \in DOMAIN zs : ~IsString(zs[i])
  /\ refs' = [s \in Strings |-> refs[s] + Counted(zs, Pins(zs), s)]
  /\ call' = [NoCall EXCEPT !.fn = fn, !.by = by, !.strict = strict, !.step = "coerce",
                            !.args = zs, !.held = Pins(zs), !.asked = TextsOf(zs)]
  /\ UNCHANGED <<var, chars>>

Direct(fn, zs) ==
  /\ call = NoCall
  /\ \A i \in DOMAIN zs : IsString(zs[i])
  /\ call' = [NoCall EXCEPT !.fn = fn, !.by = "frameless", !.step = "done",
                            !.given = TextsOf(zs), !.answer = Work(fn, TextsOf(zs))]
  /\ UNCHANGED <<var, heap>>

-----------------------------------------------------------------------------
(* One argument after the other becomes a string.                          *)
Current == Len(call.given) + 1
Coercing(kinds) ==
  call.step = "coerce" /\ Current <= Arity(call.fn) /\ call.args[Current].kind \in kinds

(* The namespace of a method, and an object fromHexadecimal() is given,    *)
(* stay objects until the other argument is a string.                      *)
StaysObject ==
  /\ call.by = "method" /\ Current = 1
  /\ call.fn \in NameBased \cup {"hexadecimal"}

Return(answer, given) ==
  /\ Released(call.args, call.held)
  /\ call' = [NoCall EXCEPT !.fn = call.fn, !.by = call.by, !.step = "done",
                            !.given = given, !.object = call.object, !.answer = answer]
  /\ UNCHANGED var
(* Mutant: a call that fails does not give its arguments back.             *)
FailLeaks ==
  /\ call' = [NoCall EXCEPT !.fn = call.fn, !.by = call.by, !.step = "done", !.answer = Throws]
  /\ UNCHANGED <<var, heap>>
Fail == Return(Throws, << >>)

KeepsString ==
  /\ Coercing({"string"})
  /\ call' = [call EXCEPT !.given = Append(@, call.asked[Current])]
  /\ UNCHANGED <<var, heap>>
KeepsObject ==
  /\ Coercing({"uuid", "object"}) /\ StaysObject
  /\ call' = [call EXCEPT !.given = Append(@, << >>)]
  /\ UNCHANGED <<var, heap>>

(* A Uuid has a __toString() that is not user code.                        *)
ConvertsUuid ==
  /\ Coercing({"uuid"}) /\ ~StaysObject /\ ~call.strict
  /\ \E s \in Strings :
       /\ refs[s] = 0
       /\ refs' = [refs EXCEPT ![s] = 1]
       /\ chars' = [chars EXCEPT ![s] = Format36(UuidValue)]
       /\ call' = [call EXCEPT !.args[Current] = StringAt(s), !.held = @ \cup {Current},
                               !.given = Append(@, Format36(UuidValue))]
  /\ UNCHANGED var
CallsUser ==
  /\ Coercing({"object", "null"}) /\ ~call.strict
  /\ call.args[Current].kind = "object" => ~StaysObject
  /\ call' = [call EXCEPT !.step = IF call.args[Current].kind = "null" THEN "handler" ELSE "string"]
  /\ UNCHANGED <<var, heap>>
TypeError ==
  /\ \/ Coercing({"array"})
     \/ call.strict /\ Coercing({"null"})
     \/ call.strict /\ Coercing({"uuid", "object"}) /\ ~StaysObject
  /\ Fail

(* What user code returns is owned; it may be the string of a variable.    *)
StringReturned(y) ==
  /\ call.step = "string" /\ IsString(var[y])
  /\ refs' = [refs EXCEPT ![var[y].at] = @ + 1]
  /\ call' = [call EXCEPT !.step = "coerce", !.args[Current] = var[y], !.held = @ \cup {Current},
                          !.given = Append(@, TextOf(var[y]))]
  /\ UNCHANGED <<var, chars>>
(* null is the empty string, once the deprecation was handled.             *)
HandlerReturned ==
  /\ call.step = "handler"
  /\ call' = [call EXCEPT !.step = "coerce", !.given = Append(@, << >>)]
  /\ UNCHANGED <<var, heap>>
UserThrows == call.step \in Waiting /\ Fail

-----------------------------------------------------------------------------
(* fu_resolve_uuid, or the zval_get_string of fromHexadecimal.             *)
Coerced == call.step = "coerce" /\ Current > Arity(call.fn)
IsObject == call.args[1].kind \in {"uuid", "object"} /\ call.core = << >>
Resolved(t) ==
  /\ call' = [call EXCEPT !.step = "coerce", !.core = <<t>>, !.given[1] = t]
  /\ UNCHANGED <<var, heap>>
Asks(step, object) ==
  call' = [call EXCEPT !.step = step, !.object = object] /\ UNCHANGED <<var, heap>>

ResolveUuid == Coerced /\ IsObject /\ call.args[1].kind = "uuid" /\ Resolved(Format36(UuidValue))
ResolveObject ==
  /\ Coerced /\ IsObject /\ call.args[1].kind = "object"
  /\ IF call.fn = "hexadecimal" THEN Asks("text", << >>)
     ELSE \E o \in Objects :
            IF Asked(o.method) THEN Asks("core", <<o>>) ELSE Asks("text", <<o>>) \/ Fail
Gives == call.object[1].gives
CoreReturned == call.step = "core" /\ Gives = Required /\ Resolved(Format36(UuidValue))
CoreUseless == call.step = "core" /\ Gives # Required /\ (Asks("text", call.object) \/ Fail)
TextReturned(y) == call.step = "text" /\ IsString(var[y]) /\ Resolved(TextOf(var[y]))

Read == [i \in DOMAIN call.args |-> IF i = 1 /\ call.core # << >> THEN call.core[1]
                                    ELSE TextOf(call.args[i])]
Finish == Coerced /\ ~IsObject /\ Return(Work(call.fn, Read), call.given)

(* Other readers of one argument, which run no user code: those of node,   *)
(* clock sequence and local identifier, and getInteger().  They and the    *)
(* parsers are tried with literals; bound: before anything else was called,*)
(* for they read no variable.                                              *)
Literals(reader) ==
  CASE reader = "parse" -> Tried
    [] reader \in {"decimal", "local id"} -> DecimalsTried
    [] reader = "node" -> Tried
    [] reader \in {"node int", "local id int", "clock seq"} -> -2 .. NodeMax + LocalMax + SeqMax
    [] reader = "integer" -> Uuids
Readers ==
  {"parse", "decimal", "local id", "node", "node int", "local id int", "clock seq", "integer"}
ReadLiteral(reader, a) ==
  CASE reader \in OneText -> Work(reader, <<a>>)
    [] reader = "local id" -> LocalIdOfText(a)
    [] reader = "local id int" -> LocalIdOfInt(a)
    [] reader = "node" -> NodeOfText(a)
    [] reader = "node int" -> NodeOfInt(a)
    [] reader = "clock seq" -> ClockSeq(a)
    [] reader = "integer" -> ToDecimal[a]
Fresh == call = NoCall /\ \A x \in Vars : var[x] = Plain("null")
Literal(reader, a) ==
  /\ call' = [NoCall EXCEPT !.fn = reader, !.by = "literal", !.step = "done",
                            !.given = <<a>>, !.answer = ReadLiteral(reader, a)]
  /\ UNCHANGED <<var, heap>>

(* The caller takes the answer.                                            *)
Leave == call.step = "done" /\ call' = NoCall /\ UNCHANGED <<var, heap>>

Next ==
  \/ \E x \in Vars : UserCode(x) \/ StringReturned(x) \/ TextReturned(x)
  \/ \E fn \in Functions : \E xs \in [1 .. Arity(fn) -> Vars] :
       LET zs == [i \in DOMAIN xs |-> var[xs[i]]]
       IN  \/ Direct(fn, zs)
           \/ \E by \in Entries(fn), strict \in BOOLEAN : Enter(fn, by, strict, zs)
  \/ KeepsString \/ KeepsObject \/ ConvertsUuid \/ CallsUser \/ TypeError
  \/ HandlerReturned \/ UserThrows
  \/ ResolveUuid \/ ResolveObject \/ CoreReturned \/ CoreUseless
  \/ Finish \/ Leave
  \/ Fresh /\ \E reader \in Readers : \E a \in Literals(reader) : Literal(reader, a)

Spec == Init /\ [][Next]_vars

-----------------------------------------------------------------------------
(* Every variable has its type.                                            *)
TypeOK ==
  /\ var \in [Vars -> Zvals]
  /\ refs \in [Strings -> Nat]
  /\ call.step \in Waiting \cup {"none", "coerce", "done"}
  /\ call.held \subseteq DOMAIN call.args
  /\ call.step \in Waiting \cup {"coerce"} => Len(call.args) = Arity(call.fn)

(* A call answers for the values it was given, as they were when it was    *)
(* made or when user code returned them, whatever user code did to the     *)
(* variables meanwhile and whichever of the entry points was taken; what   *)
(* is not a string and cannot be made one is refused.                      *)
AnswersGiven ==
  call.step = "done" /\ call.by # "literal" =>
    call.answer = IF call.given = << >> THEN Throws ELSE Work(call.fn, call.given)

(* Every string is counted once for each variable and each argument that   *)
(* has it: no call leaks one, and none is freed under a call that reads it.*)
RefsExact ==
  /\ \A s \in Strings : refs[s] = Counted(var, Vars, s) + Counted(call.args, call.held, s)
  /\ \A i \in DOMAIN call.args : IsString(call.args[i]) => refs[call.args[i].at] > 0

Reads(reader) == call.by = "literal" /\ call.fn = reader
Argument == call.given[1]
Result == call.answer[3]

(* fu_parse() reads what is formatted, in any two wrappers, and whatever it*)
(* accepts is the UUID it says, hyphens in their places, wrappers closed.  *)
(* What one UUID in its forms is, is what all texts that spell it are.     *)
ParsesExactly ==
  Reads("parse") =>
    /\ call.answer # Throws => Spells(Argument, Result)
    /\ call.answer = Throws => Argument \notin Documented

(* An integer, a node or a local identifier is taken for exactly its value *)
(* or not at all: nothing wraps, is cut or has two spellings, and what     *)
(* getInteger() says fromInteger() takes back.                             *)
Takes(n, max) == call.answer = IF n \in 0 .. max THEN Valid(n) ELSE Invalid
NumbersExact ==
  /\ Reads("integer") => /\ Number(call.answer) = ValueOf(Argument)
                         /\ FromDecimal(call.answer) = Argument
  /\ Reads("decimal") =>
       IF IsNumeral(Argument, ValueOf([i \in 1 .. UuidBytes |-> Base * Base - 1]))
       THEN ValueOf(Result) = Number(Argument) ELSE call.answer = Throws
  /\ Reads("local id") =>
       IF IsNumeral(Argument, LocalMax) THEN Takes(Number(Argument), LocalMax)
       ELSE call.answer = Invalid
  /\ Reads("local id int") => Takes(Argument, LocalMax)
  /\ Reads("clock seq") => Takes(Argument, SeqMax)
  /\ Reads("node int") =>
       IF Argument \in 0 .. NodeMax THEN ValueOf(call.answer.value) = Argument
       ELSE call.answer = Invalid
  /\ Reads("node") =>
       call.answer = IF Len(Argument) = 2 * NodeBytes /\ \A i \in DOMAIN Argument : Argument[i] >= 0
                     THEN NodeOfInt(FoldLeft(LAMBDA n, d : n * Base + d, 0, Argument)) ELSE Invalid

(* The identity of a foreign object is the Uuid its getCore() gives, never *)
(* the text it presents, be that text a UUID too: user code may run, throw *)
(* and change every variable in between.  And no getCore() is run that can *)
(* by its type give no Uuid.                                               *)
CoreIsIdentity ==
  \A i \in DOMAIN call.object :
    LET o == call.object[i]
    IN  /\ call.step = "core" => CanGive(o.method, Required)
        /\ Usable(o.method) /\ o.gives = Required =>
             /\ call.step # "text"
             /\ call.step = "done" /\ call.given # << >> =>
                  call.answer = Work(call.fn, [call.given EXCEPT ![1] = Format36(UuidValue)])
=============================================================================
