----------------------------- MODULE CallProofs -----------------------------
(***************************************************************************)
(* How the extension is called, in three parts.                            *)
(* CallArguments for any number of variables and strings, any texts and    *)
(* any objects: user code that runs inside a call cannot change what the   *)
(* call answers, and no count is lost.                                     *)
(* The parser of UuidSpelling for UUIDs of any length, any hyphens and any *)
(* text: it takes nothing but spellings, and every documented one.         *)
(* FlfTable for any extensions and any number of processes and loads:      *)
(* opcodes reach their functions, and freed ones are never bound.          *)
(***************************************************************************)
EXTENDS CallArguments, FlfTable, FiniteSetTheorems, SequenceTheorems, TLAPS

(* Texts there are.                                                        *)
Text == Inputs \cup {<< >>, Format36(UuidValue)}

Working(c) == c.step \in Waiting \cup {"coerce"}

(* What a call in progress is like.                                        *)
WorkOK(c) ==
  /\ c.fn \in Functions /\ c.by \in {"function", "frameless", "method"}
  /\ c.args \in Seq(Zvals) /\ Len(c.args) = Arity(c.fn) /\ c.held = DOMAIN c.args
  /\ c.asked \in Seq(Text) /\ Len(c.asked) = Arity(c.fn)
  /\ c.given \in Seq(Text) /\ Len(c.given) <= Arity(c.fn)

(* User code runs for the argument the call is at, or for the namespace.   *)
StepOK(c) ==
  /\ c.step = "string" => Len(c.given) < Arity(c.fn) /\ c.args[Len(c.given) + 1].kind = "object"
  /\ c.step = "handler" => Len(c.given) < Arity(c.fn) /\ c.args[Len(c.given) + 1].kind = "null"
  /\ c.step \in {"core", "text"} => Len(c.given) = Arity(c.fn) /\ c.args[1].kind = "object"
  /\ c.core # << >> => /\ Len(c.given) = Arity(c.fn) /\ c.core[1] = c.given[1]
                       /\ c.args[1].kind \in {"uuid", "object"}

IdleOK(c) == c.args = << >> /\ c.held = {}

(* The strings of a call have the texts the call was given.                *)
TextKept(c, i) ==
  /\ i <= Len(c.given) =>
       \/ IsString(c.args[i]) /\ c.given[i] = chars[c.args[i].at]
       \/ c.args[i].kind = "null" /\ c.given[i] = << >>
       \/ c.args[i].kind \in {"uuid", "object"} /\ i = 1
  /\ i > Len(c.given) /\ IsString(c.args[i]) => c.asked[i] = chars[c.args[i].at]

Record(c) ==
  c = [fn |-> c.fn, by |-> c.by, strict |-> c.strict, step |-> c.step, args |-> c.args,
       held |-> c.held, core |-> c.core, asked |-> c.asked, given |-> c.given,
       object |-> c.object, answer |-> c.answer]

HeapOK == var \in [Vars -> Zvals] /\ refs \in [Strings -> Nat] /\ chars \in [Strings -> Text]

CallOK ==
  /\ Record(call) /\ call.step \in Waiting \cup {"none", "coerce", "done"}
  /\ IF Working(call) THEN WorkOK(call) /\ StepOK(call) ELSE IdleOK(call)

CountsOK == \A s \in Strings : refs[s] = Counted(var, Vars, s) + Counted(call.args, call.held, s)
TextsOK == Working(call) => \A i \in DOMAIN call.args : TextKept(call, i)

(* Once an object was looked at, its text is asked for only if it gives no *)
(* core, and what is known of it is the core it gave.                      *)
GivesCore(o) == Usable(o.method) /\ o.gives = Required
FoundOK(c, o) ==
  /\ c.step \in {"core", "text", "coerce", "done"}
  /\ c.step = "core" => Asked(o.method)
  /\ c.step = "coerce" => c.core # << >>
  /\ GivesCore(o) =>
       /\ c.step # "text"
       /\ c.step = "coerce" => c.core = <<Format36(UuidValue)>>
       /\ c.step = "done" /\ c.given # << >> =>
            c.by # "literal" /\ c.given = [c.given EXCEPT ![1] = Format36(UuidValue)]
ObjectOK ==
  \/ call.object = << >> /\ call.step # "core"
  \/ \E o \in Objects : call.object = <<o>> /\ FoundOK(call, o)

IInv == HeapOK /\ CallOK /\ CountsOK /\ TextsOK /\ AnswersGiven /\ ObjectOK

-----------------------------------------------------------------------------
(* Counting.                                                               *)

(* A count is a number, and one that holds the string is counted.          *)
LEMMA CountIsNat ==
  ASSUME NEW zs, NEW at, IsFiniteSet(at), NEW s
  PROVE  /\ Counted(zs, at, s) \in Nat
         /\ \A i \in at : zs[i] = StringAt(s) => Counted(zs, at, s) > 0
<1> DEFINE owners == {i \in at : zs[i] = StringAt(s)}
<1>1. IsFiniteSet(owners)
  BY FS_Subset
<1>2. Cardinality(owners) \in Nat
  BY <1>1, FS_CardinalityType
<1>3. ASSUME NEW i \in at, zs[i] = StringAt(s) PROVE Cardinality(owners) > 0
  <2>1. owners # {}
    BY <1>3
  <2> QED
    BY <1>1, <1>2, <2>1, FS_EmptySet
<1> QED
  BY <1>2, <1>3 DEF Counted

(* Nothing holds a string if there are no places.                          *)
LEMMA CountOfNone == ASSUME NEW zs, NEW s PROVE Counted(zs, {}, s) = 0
<1>1. {i \in {} : zs[i] = StringAt(s)} = {}
  OBVIOUS
<1> QED
  BY <1>1, FS_EmptySet DEF Counted

(* One value holds it once or not at all.                                  *)
LEMMA CountOfOne ==
  ASSUME NEW z, NEW s
  PROVE  Counted(<<z>>, {1}, s) = IF z = StringAt(s) THEN 1 ELSE 0
<1>1. {i \in {1} : <<z>>[i] = StringAt(s)} = IF z = StringAt(s) THEN {1} ELSE {}
  OBVIOUS
<1>2. Cardinality({1}) = 1 /\ Cardinality({}) = 0
  BY FS_Singleton, FS_EmptySet
<1> QED
  BY <1>1, <1>2 DEF Counted

(* One place takes another value, or becomes counted.                      *)
LEMMA CountMoves ==
  ASSUME NEW zs, NEW new, NEW at, IsFiniteSet(at), NEW x \in at, NEW s,
         \A i \in at \ {x} : new[i] = zs[i]
  PROVE  Counted(new, at, s) = Counted(zs, at, s) - Counted(<<zs[x]>>, {1}, s)
                                                 + Counted(<<new[x]>>, {1}, s)
<1> DEFINE rest == {i \in at \ {x} : zs[i] = StringAt(s)}
           old == {i \in at : zs[i] = StringAt(s)}
           now == {i \in at : new[i] = StringAt(s)}
<1>1. IsFiniteSet(rest) /\ x \notin rest
  BY FS_Subset
<1>2. old = (IF zs[x] = StringAt(s) THEN rest \cup {x} ELSE rest)
  OBVIOUS
<1>3. now = (IF new[x] = StringAt(s) THEN rest \cup {x} ELSE rest)
  OBVIOUS
<1>4. Cardinality(rest \cup {x}) = Cardinality(rest) + 1 /\ Cardinality(rest) \in Nat
  BY <1>1, FS_AddElement, FS_CardinalityType
<1> HIDE DEF rest, old, now
<1>5. Cardinality(old) = Cardinality(rest) + Counted(<<zs[x]>>, {1}, s)
  BY <1>2, <1>4, CountOfOne
<1>6. Cardinality(now) = Cardinality(rest) + Counted(<<new[x]>>, {1}, s)
  BY <1>3, <1>4, CountOfOne
<1>7. Counted(<<zs[x]>>, {1}, s) \in Nat /\ Counted(<<new[x]>>, {1}, s) \in Nat
  BY CountOfOne
<1> QED
  BY <1>4, <1>5, <1>6, <1>7 DEF Counted, old, now

(* The places of a call are finitely many.                                 *)
LEMMA PlacesFinite ==
  ASSUME CallOK
  PROVE  IsFiniteSet(call.held)
<1>1. CASE Working(call)
  <2>1. call.held = 1 .. Arity(call.fn) /\ Arity(call.fn) \in Nat
    BY <1>1, LenProperties DEF CallOK, WorkOK, Arity
  <2> DEFINE n == Arity(call.fn)
  <2>2. 1 \in Int /\ n \in Int
    BY <2>1
  <2> HIDE DEF n
  <2>3. IsFiniteSet(1 .. n)
    BY <2>2, FS_Interval, Zenon
  <2> QED
    BY <2>1, <2>3 DEF n
<1>2. CASE ~Working(call)
  BY <1>2, FS_EmptySet DEF CallOK, IdleOK
<1> QED
  BY <1>1, <1>2

(* A string a call holds has a count of the call, and is a string.         *)
LEMMA HeldCounted ==
  ASSUME HeapOK, CallOK, CountsOK, NEW i \in DOMAIN call.args, IsString(call.args[i])
  PROVE  LET s == call.args[i].at
         IN  /\ s \in Strings /\ call.args[i] = StringAt(s)
             /\ Counted(call.args, call.held, s) \in Nat \ {0}
             /\ Counted(var, Vars, s) \in Nat /\ refs[s] \in Nat \ {0}
<1> DEFINE s == call.args[i].at
<1>1. Working(call) /\ i \in call.held
  BY DEF CallOK, IdleOK, WorkOK
<1>2. call.args[i] \in Zvals
  BY <1>1, ElementOfSeq, LenProperties DEF CallOK, WorkOK
<1>3. s \in Strings /\ call.args[i] = StringAt(s)
  BY <1>2 DEF Zvals, IsString, StringAt, Kinds
<1>4. Counted(call.args, call.held, s) \in Nat /\ Counted(call.args, call.held, s) > 0
  BY <1>1, <1>3, PlacesFinite, CountIsNat
<1>5. Counted(var, Vars, s) \in Nat
  BY ArgumentsAssumption, CountIsNat
<1>6. refs[s] = Counted(var, Vars, s) + Counted(call.args, call.held, s)
  BY <1>3 DEF CountsOK
<1> QED
  BY <1>3, <1>4, <1>5, <1>6

-----------------------------------------------------------------------------
(* User code.                                                              *)

(* It leaves a call alone as long as the strings of the call keep theirs.  *)
LEMMA CallUntouched ==
  ASSUME IInv, UNCHANGED call, HeapOK', CountsOK',
         \A i \in DOMAIN call.args :
           IsString(call.args[i]) => chars'[call.args[i].at] = chars[call.args[i].at]
  PROVE  IInv'
<1>1. CallOK' /\ AnswersGiven' /\ ObjectOK'
  BY DEF IInv, CallOK, AnswersGiven, ObjectOK
<1>2. TextsOK'
  BY DEF IInv, TextsOK, TextKept
<1> QED
  BY <1>1, <1>2 DEF IInv

(* What a variable holds moves the count of that and of what it held.      *)
LEMMA VariableMoves ==
  ASSUME HeapOK, CallOK, CountsOK, NEW x \in Vars, NEW z, var' = [var EXCEPT ![x] = z],
         NEW s \in Strings
  PROVE  /\ Counted(var', Vars, s) = Counted(var, Vars, s) - Counted(<<var[x]>>, {1}, s)
                                                           + Counted(<<z>>, {1}, s)
         /\ refs[s] = Counted(var, Vars, s) + Counted(call.args, call.held, s)
         /\ Counted(var, Vars, s) \in Nat /\ Counted(call.args, call.held, s) \in Nat
         /\ Counted(var', Vars, s) \in Nat
         /\ var[x] = StringAt(s) => Counted(var, Vars, s) > 0
<1>1. IsFiniteSet(Vars) /\ IsFiniteSet(call.held)
  BY ArgumentsAssumption, PlacesFinite
<1>2. var'[x] = z /\ \A y \in Vars \ {x} : var'[y] = var[y]
  BY DEF HeapOK
<1>3. Counted(var', Vars, s) = Counted(var, Vars, s) - Counted(<<var[x]>>, {1}, s)
                                                     + Counted(<<z>>, {1}, s)
  <2>1. PICK old, new : old = var /\ new = var'
    OBVIOUS
  <2>2. \A i \in Vars \ {x} : new[i] = old[i]
    BY <1>2, <2>1
  <2>3. Counted(new, Vars, s) = Counted(old, Vars, s) - Counted(<<old[x]>>, {1}, s)
                                                      + Counted(<<new[x]>>, {1}, s)
    BY <1>1, <2>2, CountMoves
  <2> QED
    BY <1>2, <2>1, <2>3
<1>4. /\ Counted(var, Vars, s) \in Nat /\ Counted(call.args, call.held, s) \in Nat
      /\ Counted(var', Vars, s) \in Nat
      /\ var[x] = StringAt(s) => Counted(var, Vars, s) > 0
  BY <1>1, CountIsNat
<1>5. refs[s] = Counted(var, Vars, s) + Counted(call.args, call.held, s)
  BY DEF CountsOK
<1> QED
  BY <1>2, <1>3, <1>4, <1>5

(* A variable is assigned what there is.                                   *)
LEMMA AssignKeeps ==
  ASSUME IInv, UNCHANGED call, NEW x \in Vars, NEW z \in Zvals, Assign(x, z)
  PROVE  IInv'
<1>1. /\ refs' = [s \in Strings |-> refs[s] + Counted(<<z>>, {1}, s) - Counted(<<var[x]>>, {1}, s)]
      /\ chars' = [s \in Strings |-> IF refs'[s] = 0 THEN Freed ELSE chars[s]]
      /\ var' = [var EXCEPT ![x] = z]
  BY DEF Assign
<1>2. HeapOK /\ CallOK /\ CountsOK
  BY DEF IInv
<1>3. ASSUME NEW s \in Strings
      PROVE  /\ refs'[s] = Counted(var', Vars, s) + Counted(call.args, call.held, s)
             /\ refs'[s] \in Nat
             /\ Counted(call.args, call.held, s) # 0 => chars'[s] = chars[s]
  <2>1. refs'[s] = refs[s] + Counted(<<z>>, {1}, s) - Counted(<<var[x]>>, {1}, s)
    BY <1>1
  <2>2. Counted(<<z>>, {1}, s) \in Nat /\ Counted(<<var[x]>>, {1}, s) \in Nat
    BY CountOfOne
  <2>3. /\ Counted(var', Vars, s) = Counted(var, Vars, s) - Counted(<<var[x]>>, {1}, s)
                                                          + Counted(<<z>>, {1}, s)
        /\ refs[s] = Counted(var, Vars, s) + Counted(call.args, call.held, s)
        /\ Counted(var, Vars, s) \in Nat /\ Counted(call.args, call.held, s) \in Nat
        /\ Counted(var', Vars, s) \in Nat
    BY <1>1, <1>2, VariableMoves
  <2>4. /\ refs'[s] = Counted(var', Vars, s) + Counted(call.args, call.held, s)
        /\ refs'[s] \in Nat
        /\ Counted(call.args, call.held, s) # 0 => refs'[s] # 0
    BY <2>1, <2>2, <2>3
  <2> QED
    BY <1>1, <2>4
<1>4. HeapOK'
  <2>1. refs' \in [Strings -> Nat] /\ var' \in [Vars -> Zvals]
    BY <1>1, <1>2, <1>3 DEF HeapOK
  <2>2. chars' \in [Strings -> Text]
    BY <1>1, <1>2 DEF HeapOK, Text, Freed
  <2> QED
    BY <2>1, <2>2 DEF HeapOK
<1>5. CountsOK'
  BY <1>3 DEF CountsOK
<1>6. \A i \in DOMAIN call.args :
        IsString(call.args[i]) => chars'[call.args[i].at] = chars[call.args[i].at]
  BY <1>2, <1>3, HeldCounted
<1> QED
  BY <1>4, <1>5, <1>6, CallUntouched

(* A variable is assigned a new string.                                    *)
LEMMA AssignNewKeeps ==
  ASSUME IInv, UNCHANGED call, NEW x \in Vars, NEW t \in Inputs, AssignNew(x, t)
  PROVE  IInv'
<1>1. PICK s \in Strings :
        /\ refs[s] = 0
        /\ refs' = [r \in Strings |-> IF r = s THEN 1 ELSE refs[r] - Counted(<<var[x]>>, {1}, r)]
        /\ chars' = [r \in Strings |-> IF r = s THEN t ELSE IF refs'[r] = 0 THEN Freed ELSE chars[r]]
        /\ var' = [var EXCEPT ![x] = StringAt(s)]
  BY DEF AssignNew
<1>2. HeapOK /\ CallOK /\ CountsOK
  BY DEF IInv
<1>3. ASSUME NEW r \in Strings
      PROVE  /\ refs'[r] = Counted(var', Vars, r) + Counted(call.args, call.held, r)
             /\ refs'[r] \in Nat
             /\ Counted(call.args, call.held, r) # 0 => chars'[r] = chars[r]
  <2>1. /\ Counted(var', Vars, r) = Counted(var, Vars, r) - Counted(<<var[x]>>, {1}, r)
                                                          + Counted(<<StringAt(s)>>, {1}, r)
        /\ refs[r] = Counted(var, Vars, r) + Counted(call.args, call.held, r)
        /\ Counted(var, Vars, r) \in Nat /\ Counted(call.args, call.held, r) \in Nat
        /\ Counted(var', Vars, r) \in Nat
        /\ var[x] = StringAt(r) => Counted(var, Vars, r) > 0
    BY <1>1, <1>2, VariableMoves
  <2>2. Counted(<<StringAt(s)>>, {1}, r) = IF r = s THEN 1 ELSE 0
    BY CountOfOne DEF StringAt
  <2>3. Counted(<<var[x]>>, {1}, r) = IF var[x] = StringAt(r) THEN 1 ELSE 0
    BY CountOfOne
  <2>4. CASE r = s
    <3>1. Counted(var, Vars, r) = 0 /\ Counted(call.args, call.held, r) = 0
      BY <1>1, <2>1, <2>4
    <3> QED
      BY <1>1, <2>1, <2>2, <2>3, <2>4, <3>1
  <2>5. CASE r # s
    <3>1. refs'[r] = refs[r] - Counted(<<var[x]>>, {1}, r)
      BY <1>1, <2>5
    <3>2. /\ refs'[r] = Counted(var', Vars, r) + Counted(call.args, call.held, r)
          /\ refs'[r] \in Nat
          /\ Counted(call.args, call.held, r) # 0 => refs'[r] # 0
      BY <2>1, <2>2, <2>3, <2>5, <3>1
    <3> QED
      BY <1>1, <2>5, <3>2
  <2> QED
    BY <2>4, <2>5
<1>4. HeapOK'
  <2>1. refs' \in [Strings -> Nat] /\ var' \in [Vars -> Zvals]
    BY <1>1, <1>2, <1>3 DEF HeapOK, Zvals, StringAt
  <2>2. chars' \in [Strings -> Text]
    BY <1>1, <1>2 DEF HeapOK, Text, Freed
  <2> QED
    BY <2>1, <2>2 DEF HeapOK
<1>5. CountsOK'
  BY <1>3 DEF CountsOK
<1>6. \A i \in DOMAIN call.args :
        IsString(call.args[i]) => chars'[call.args[i].at] = chars[call.args[i].at]
  BY <1>2, <1>3, HeldCounted
<1> QED
  BY <1>4, <1>5, <1>6, CallUntouched

(* A string is written in place only if one variable alone has it.         *)
LEMMA WriteKeeps ==
  ASSUME IInv, UNCHANGED call, NEW x \in Vars, NEW t \in Inputs, WriteInPlace(x, t)
  PROVE  IInv'
<1> DEFINE s == var[x].at
<1>1. /\ IsString(var[x]) /\ refs[s] = 1 /\ chars' = [chars EXCEPT ![s] = t]
      /\ UNCHANGED <<var, refs>>
  BY DEF WriteInPlace
<1>2. HeapOK /\ CallOK /\ CountsOK
  BY DEF IInv
<1>3. s \in Strings /\ var[x] = StringAt(s)
  BY <1>1, <1>2 DEF HeapOK, Zvals, IsString, StringAt, Kinds
<1>4. Counted(var, Vars, s) > 0 /\ Counted(var, Vars, s) \in Nat
  BY <1>3, ArgumentsAssumption, CountIsNat
<1>5. ASSUME NEW i \in DOMAIN call.args, IsString(call.args[i])
      PROVE  chars'[call.args[i].at] = chars[call.args[i].at]
  <2> DEFINE r == call.args[i].at
  <2>1. r \in Strings /\ Counted(call.args, call.held, r) \in Nat \ {0}
    BY <1>2, <1>5, HeldCounted
  <2>2. refs[r] = Counted(var, Vars, r) + Counted(call.args, call.held, r)
    BY <1>2, <2>1 DEF CountsOK
  <2> HIDE DEF r, s
  <2>3. r # s
    BY <1>1, <1>4, <2>1, <2>2
  <2> QED
    BY <1>1, <1>2, <1>3, <2>1, <2>3 DEF HeapOK, r
<1>6. HeapOK' /\ CountsOK'
  BY <1>1, <1>2 DEF HeapOK, CountsOK, Text
<1> QED
  BY <1>5, <1>6, CallUntouched

(* So user code leaves the call alone.                                     *)
LEMMA UserCodeKeeps ==
  ASSUME IInv, NEW x \in Vars, UserCode(x)
  PROVE  IInv'
<1>1. UNCHANGED call
  BY DEF UserCode
<1>2. ASSUME NEW kind \in Kinds, Assign(x, Plain(kind)) PROVE IInv'
  <2>1. Plain(kind) \in Zvals
    BY DEF Plain, Zvals
  <2> QED
    BY <1>1, <1>2, <2>1, AssignKeeps
<1>3. ASSUME NEW y \in Vars, Assign(x, var[y]) PROVE IInv'
  <2>1. var[y] \in Zvals
    BY DEF IInv, HeapOK
  <2> QED
    BY <1>1, <1>3, <2>1, AssignKeeps
<1>4. ASSUME NEW t \in Inputs, AssignNew(x, t) \/ WriteInPlace(x, t) PROVE IInv'
  BY <1>1, <1>4, AssignNewKeeps, WriteKeeps
<1> QED
  BY <1>2, <1>3, <1>4 DEF UserCode

-----------------------------------------------------------------------------
(* A call is made, and ends.                                               *)

(* The shape of a call in progress.                                        *)
LEMMA WorkingCalls ==
  ASSUME CallOK, Working(call)
  PROVE  /\ call.by # "literal" /\ call.fn \in Functions /\ Arity(call.fn) \in {1, 2}
         /\ call.args \in Seq(Zvals) /\ DOMAIN call.args = 1 .. Arity(call.fn)
         /\ \A i \in 1 .. Arity(call.fn) : call.args[i] \in Zvals
         /\ Len(call.given) \in Nat /\ call.given \in Seq(Text)
         /\ \A i \in 1 .. Arity(call.fn) : call.asked[i] \in Text
<1>1. WorkOK(call)
  BY DEF CallOK
<1>2. call.args \in Seq(Zvals) /\ DOMAIN call.args = 1 .. Arity(call.fn)
  BY <1>1, LenProperties DEF WorkOK
<1>3. call.asked \in Seq(Text) /\ DOMAIN call.asked = 1 .. Arity(call.fn)
  BY <1>1, LenProperties DEF WorkOK
<1>4. Arity(call.fn) \in {1, 2}
  BY DEF Arity
<1>5. Len(call.given) \in Nat
  BY <1>1, LenProperties DEF WorkOK
<1>6. call.by # "literal" /\ call.fn \in Functions /\ call.given \in Seq(Text)
  BY <1>1 DEF WorkOK
<1>7. \A i \in 1 .. Arity(call.fn) : call.args[i] \in Zvals
  BY <1>2, ElementOfSeq, LenProperties
<1>8. \A i \in 1 .. Arity(call.fn) : call.asked[i] \in Text
  BY <1>3, ElementOfSeq, LenProperties
<1> QED
  BY <1>2, <1>4, <1>5, <1>6, <1>7, <1>8

(* A call gives back what it has, and says what it answers for.            *)
LEMMA ReturnKeeps ==
  ASSUME IInv, Working(call), NEW answer, NEW given, Return(answer, given),
         answer = IF given = << >> THEN Throws ELSE Work(call.fn, given),
         given # << >> => given = call.given /\ call.step = "coerce"
  PROVE  IInv'
<1>1. /\ refs' = [s \in Strings |-> refs[s] - Counted(call.args, call.held, s)]
      /\ chars' = [s \in Strings |-> IF refs'[s] = 0 THEN Freed ELSE chars[s]]
      /\ var' = var
      /\ call' = [fn |-> call.fn, by |-> call.by, strict |-> FALSE, step |-> "done",
                  args |-> << >>, held |-> {}, core |-> << >>, asked |-> << >>,
                  given |-> given, object |-> call.object, answer |-> answer]
  BY DEF Return, Released, NoCall
<1>2. HeapOK /\ CallOK /\ CountsOK
  BY DEF IInv
<1>3. ASSUME NEW s \in Strings
      PROVE  refs'[s] = Counted(var, Vars, s) /\ refs'[s] \in Nat
  <2>1. Counted(var, Vars, s) \in Nat /\ Counted(call.args, call.held, s) \in Nat
    BY <1>2, ArgumentsAssumption, PlacesFinite, CountIsNat
  <2> QED
    BY <1>1, <1>2, <2>1 DEF CountsOK
<1>4. HeapOK'
  BY <1>1, <1>2, <1>3 DEF HeapOK, Text, Freed
<1>5. CallOK'
  BY <1>1 DEF CallOK, Record, Working, Waiting, IdleOK
<1>6. CountsOK'
  <2> SUFFICES ASSUME NEW s \in Strings
               PROVE  refs'[s] = Counted(var', Vars, s) + Counted(call'.args, call'.held, s)
    BY DEF CountsOK
  <2>1. Counted(call'.args, call'.held, s) = 0
    BY <1>1, CountOfNone
  <2> QED
    BY <1>1, <1>3, <2>1
<1>7. TextsOK'
  BY <1>1 DEF TextsOK, Working, Waiting
<1>8. AnswersGiven'
  BY <1>1 DEF AnswersGiven
<1>9. ObjectOK'
  <2>1. call'.step = "done" /\ call'.object = call.object /\ call'.by = call.by
        /\ call'.given = given /\ call.by # "literal" /\ call.given \in Seq(Text)
    BY <1>1, <1>2, WorkingCalls
  <2>2. CASE call.object = << >>
    BY <2>1, <2>2 DEF ObjectOK
  <2>3. ASSUME NEW o \in Objects, call.object = <<o>>, FoundOK(call, o)
        PROVE  FoundOK(call', o)
    <3> SUFFICES ASSUME GivesCore(o), given # << >>
                 PROVE  given = [given EXCEPT ![1] = Format36(UuidValue)]
      BY <2>1 DEF FoundOK
    <3>1. call.core = <<Format36(UuidValue)>>
      BY <2>3 DEF FoundOK
    <3>2. call.core # << >> /\ call.core[1] = Format36(UuidValue)
      BY <3>1
    <3>3. given[1] = Format36(UuidValue)
      BY <1>2, <3>2 DEF CallOK, StepOK
    <3>4. given = [i \in 1 .. Len(given) |-> given[i]]
      BY <2>1
    <3> QED
      BY <3>3, <3>4
  <2> QED
    BY <2>1, <2>2, <2>3 DEF IInv, ObjectOK
<1> QED
  BY <1>4, <1>5, <1>6, <1>7, <1>8, <1>9 DEF IInv

(* A call that throws answers for nothing given.                           *)
LEMMA FailKeeps ==
  ASSUME IInv, Working(call), Fail
  PROVE  IInv'
BY ReturnKeeps DEF Fail

(* The texts of a call's arguments are texts.                              *)
LEMMA TextsAreTexts ==
  ASSUME HeapOK, NEW n \in Nat, NEW zs \in [1 .. n -> Zvals]
  PROVE  /\ TextsOf(zs) \in Seq(Text) /\ Len(TextsOf(zs)) = n
         /\ \A i \in 1 .. n : TextsOf(zs)[i] = TextOf(zs[i])
<1>1. \A i \in 1 .. n : TextOf(zs[i]) \in Text
  BY DEF TextOf, HeapOK, Zvals, IsString, Kinds, Text
<1> QED
  BY <1>1 DEF TextsOf

(* A call that has copies of its arguments.                                *)
LEMMA EnterKeeps ==
  ASSUME IInv, NEW fn \in Functions, NEW by \in Entries(fn), NEW strict,
         NEW zs \in [1 .. Arity(fn) -> Zvals], Enter(fn, by, strict, zs)
  PROVE  IInv'
<1>1. /\ call = NoCall
      /\ refs' = [s \in Strings |-> refs[s] + Counted(zs, DOMAIN zs, s)]
      /\ UNCHANGED <<var, chars>>
      /\ call' = [fn |-> fn, by |-> by, strict |-> strict, step |-> "coerce",
                  args |-> zs, held |-> DOMAIN zs, core |-> << >>, asked |-> TextsOf(zs),
                  given |-> << >>, object |-> << >>, answer |-> << >>]
  BY DEF Enter, Pins, NoCall
<1>2. HeapOK /\ CountsOK
  BY DEF IInv
<1>3. Arity(fn) \in {1, 2} /\ by \in {"function", "frameless", "method"}
  BY DEF Arity, Entries
<1>4. /\ zs \in Seq(Zvals) /\ Len(zs) = Arity(fn)
      /\ TextsOf(zs) \in Seq(Text) /\ Len(TextsOf(zs)) = Arity(fn)
      /\ \A i \in 1 .. Arity(fn) : TextsOf(zs)[i] = TextOf(zs[i])
  <2>1. Arity(fn) \in Nat
    BY <1>3
  <2> QED
    BY <1>2, <2>1, TextsAreTexts
<1>5. ASSUME NEW s \in Strings
      PROVE  /\ refs'[s] = Counted(var, Vars, s) + Counted(zs, DOMAIN zs, s)
             /\ refs'[s] \in Nat
  <2>1. IsFiniteSet(DOMAIN zs)
    <3> DEFINE n == Arity(fn)
    <3>1. 1 \in Int /\ n \in Int
      BY <1>3
    <3> HIDE DEF n
    <3>2. IsFiniteSet(1 .. n)
      BY <3>1, FS_Interval, Zenon
    <3> QED
      BY <3>2 DEF n
  <2>2. Counted(var, Vars, s) \in Nat /\ Counted(zs, DOMAIN zs, s) \in Nat
    BY <2>1, ArgumentsAssumption, CountIsNat
  <2>3. Counted(call.args, call.held, s) = 0
    BY <1>1, CountOfNone DEF NoCall
  <2> QED
    BY <1>1, <1>2, <2>2, <2>3 DEF CountsOK
<1>6. HeapOK'
  BY <1>1, <1>2, <1>5 DEF HeapOK
<1>7. << >> \in Seq(Text) /\ Len(<< >>) = 0
  BY EmptySeq
<1>8. CallOK'
  <2>1. WorkOK(call')
    BY <1>1, <1>3, <1>4, <1>7 DEF WorkOK
  <2> QED
    BY <1>1, <2>1 DEF CallOK, Record, Working, Waiting, StepOK
<1>9. CountsOK'
  BY <1>1, <1>5 DEF CountsOK
<1>10. TextsOK'
  BY <1>1, <1>4, <1>7 DEF TextsOK, TextKept, TextOf
<1>11. AnswersGiven' /\ ObjectOK'
  BY <1>1 DEF AnswersGiven, ObjectOK
<1> QED
  BY <1>6, <1>8, <1>9, <1>10, <1>11 DEF IInv

(* What has no arguments of its own changes no count.                      *)
LEMMA OutsideKeeps ==
  ASSUME IInv, UNCHANGED <<var, heap>>, call.args = << >>, call.held = {},
         Record(call'), call'.step \in {"none", "done"}, IdleOK(call')
  PROVE  HeapOK' /\ CallOK' /\ CountsOK' /\ TextsOK'
<1>1. HeapOK'
  BY DEF IInv, HeapOK, heap
<1>2. CallOK'
  BY DEF CallOK, Working, Waiting
<1>3. CountsOK'
  BY DEF IInv, CountsOK, IdleOK, heap
<1>4. TextsOK'
  BY DEF TextsOK, Working, Waiting
<1> QED
  BY <1>1, <1>2, <1>3, <1>4

(* A frameless handler that borrows.                                       *)
LEMMA DirectKeeps ==
  ASSUME IInv, NEW fn \in Functions, NEW zs \in [1 .. Arity(fn) -> Zvals], Direct(fn, zs)
  PROVE  IInv'
<1>1. /\ call = NoCall /\ UNCHANGED <<var, heap>>
      /\ call' = [fn |-> fn, by |-> "frameless", strict |-> FALSE, step |-> "done",
                  args |-> << >>, held |-> {}, core |-> << >>, asked |-> << >>,
                  given |-> TextsOf(zs), object |-> << >>, answer |-> Work(fn, TextsOf(zs))]
  BY DEF Direct, NoCall
<1>2. HeapOK' /\ CallOK' /\ CountsOK' /\ TextsOK'
  BY <1>1, OutsideKeeps DEF Record, IdleOK, NoCall
<1>3. TextsOf(zs) # << >>
  <2>1. DOMAIN TextsOf(zs) = 1 .. Arity(fn) /\ Arity(fn) \in {1, 2}
    BY DEF TextsOf, Arity
  <2>2. DOMAIN << >> = {}
    OBVIOUS
  <2>3. 1 \in DOMAIN TextsOf(zs)
    BY <2>1
  <2> QED
    BY <2>2, <2>3
<1>4. AnswersGiven' /\ ObjectOK'
  BY <1>1, <1>3 DEF AnswersGiven, ObjectOK
<1> QED
  BY <1>2, <1>4 DEF IInv

(* The caller takes the answer.                                            *)
LEMMA LeaveKeeps ==
  ASSUME IInv, Leave
  PROVE  IInv'
<1>1. call.step = "done" /\ call' = NoCall /\ UNCHANGED <<var, heap>>
  BY DEF Leave
<1>2. call.args = << >> /\ call.held = {}
  BY <1>1 DEF IInv, CallOK, Working, Waiting, IdleOK
<1>3. HeapOK' /\ CallOK' /\ CountsOK' /\ TextsOK'
  BY <1>1, <1>2, OutsideKeeps DEF Record, IdleOK, NoCall
<1>4. AnswersGiven' /\ ObjectOK'
  BY <1>1 DEF NoCall, AnswersGiven, ObjectOK
<1> QED
  BY <1>3, <1>4 DEF IInv

-----------------------------------------------------------------------------
(* One argument after the other becomes a string.                          *)

(* The call is at one of its arguments.                                    *)
LEMMA AtArgument ==
  ASSUME CallOK, Working(call), Current <= Arity(call.fn)
  PROVE  /\ Current \in DOMAIN call.args /\ Current \in 1 .. Arity(call.fn)
         /\ Len(call.given) < Arity(call.fn) /\ call.core = << >>
         /\ Current = Len(call.given) + 1 /\ call.held = DOMAIN call.args
         /\ call.args[Current] \in Zvals
<1>1. /\ Arity(call.fn) \in {1, 2} /\ DOMAIN call.args = 1 .. Arity(call.fn)
      /\ Len(call.given) \in Nat /\ \A i \in 1 .. Arity(call.fn) : call.args[i] \in Zvals
  BY WorkingCalls
<1>2. WorkOK(call) /\ StepOK(call)
  BY DEF CallOK
<1>3. Len(call.given) < Arity(call.fn) /\ Current \in 1 .. Arity(call.fn)
  BY <1>1 DEF Current
<1> QED
  BY <1>1, <1>2, <1>3 DEF WorkOK, StepOK, Current

(* Before all arguments are there no object was looked at.                 *)
LEMMA NoObjectYet ==
  ASSUME IInv, Working(call), Current <= Arity(call.fn)
  PROVE  call.object = << >>
<1>1. Len(call.given) < Arity(call.fn) /\ call.core = << >>
  BY AtArgument DEF IInv
<1>2. Arity(call.fn) \in {1, 2} /\ Len(call.given) \in Nat
  BY WorkingCalls DEF IInv
<1>3. call.step \notin {"core", "text"} /\ call.step # "done"
  BY <1>1, <1>2 DEF IInv, CallOK, StepOK, Working, Waiting
<1> QED
  BY <1>1, <1>3 DEF IInv, ObjectOK, FoundOK

(* It is done with one: a string with the text given, or the empty text of *)
(* null, or an object to resolve.                                          *)
LEMMA GivenGrows ==
  ASSUME IInv, Working(call), Current <= Arity(call.fn), NEW t \in Text, NEW args,
         HeapOK', CountsOK', DOMAIN args = DOMAIN call.args, args \in Seq(Zvals),
         \A i \in DOMAIN args : i # Current => args[i] = call.args[i],
         \A i \in DOMAIN args : IsString(args[i]) /\ i # Current =>
                                  chars'[args[i].at] = chars[args[i].at],
         \/ IsString(args[Current]) /\ t = chars'[args[Current].at]
         \/ args[Current].kind = "null" /\ t = << >>
         \/ args[Current].kind \in {"uuid", "object"} /\ Current = 1,
         call' = [call EXCEPT !.step = "coerce", !.args = args, !.held = DOMAIN args,
                              !.given = Append(@, t)]
  PROVE  IInv'
<1>1. CallOK /\ TextsOK
  BY DEF IInv
<1>2. /\ call'.fn = call.fn /\ call'.by = call.by /\ call'.step = "coerce"
      /\ call'.args = args /\ call'.held = DOMAIN args /\ call'.core = call.core
      /\ call'.asked = call.asked /\ call'.given = Append(call.given, t) /\ Record(call')
      /\ call'.object = call.object
  BY <1>1 DEF CallOK, Record
<1>3. /\ Arity(call.fn) \in {1, 2} /\ Len(call.given) \in Nat /\ call.given \in Seq(Text)
      /\ call.by # "literal" /\ DOMAIN args = 1 .. Arity(call.fn)
  BY <1>1, WorkingCalls
<1>4. /\ Len(call.given) < Arity(call.fn) /\ call.core = << >>
      /\ Current = Len(call.given) + 1 /\ Current \in DOMAIN args
  BY <1>1, AtArgument
<1>5. /\ call'.given \in Seq(Text) /\ Len(call'.given) = Current
      /\ call'.given[Current] = t
      /\ \A i \in 1 .. Len(call.given) : call'.given[i] = call.given[i]
  BY <1>2, <1>3, <1>4, AppendProperties
<1>6. CallOK'
  <2>1. WorkOK(call')
    <3>1. Len(args) = Arity(call.fn)
      BY <1>3, LenProperties
    <3> QED
      BY <1>1, <1>2, <1>3, <1>4, <1>5, <3>1 DEF CallOK, WorkOK
  <2> QED
    BY <1>2, <1>4, <2>1 DEF CallOK, Working, Waiting, StepOK
<1>7. TextsOK'
  <2> SUFFICES ASSUME NEW i \in DOMAIN args PROVE TextKept(call, i)'
    BY <1>2 DEF TextsOK
  <2>1. CASE i = Current
    BY <1>2, <1>3, <1>4, <1>5, <2>1 DEF TextKept
  <2>2. CASE i # Current
    <3>1. TextKept(call, i)
      BY <1>1 DEF TextsOK
    <3>2. i \in 1 .. Arity(call.fn) /\ args[i] = call.args[i]
          /\ (IsString(args[i]) => chars'[args[i].at] = chars[args[i].at])
      BY <1>3, <2>2
    <3>3. CASE i <= Len(call.given)
      <4>1. call'.given[i] = call.given[i] /\ i <= Current /\ ~(i > Current)
        BY <1>3, <1>4, <1>5, <3>2, <3>3
      <4> QED
        BY <1>2, <1>5, <3>1, <3>2, <3>3, <4>1 DEF TextKept
    <3>4. CASE ~(i <= Len(call.given))
      <4>1. ~(i <= Current) /\ i > Len(call.given)
        BY <1>3, <1>4, <2>2, <3>2, <3>4
      <4> QED
        BY <1>2, <1>5, <3>1, <3>2, <4>1 DEF TextKept
    <3> QED
      BY <3>3, <3>4
  <2> QED
    BY <2>1, <2>2
<1>8. AnswersGiven' /\ ObjectOK'
  BY <1>2, NoObjectYet DEF AnswersGiven, ObjectOK
<1> QED
  BY <1>6, <1>7, <1>8 DEF IInv

(* An argument that was not a string becomes one of which the call has a   *)
(* count.                                                                  *)
LEMMA ArgumentBecomes ==
  ASSUME HeapOK, CallOK, CountsOK, Working(call), NEW c \in DOMAIN call.args,
         ~IsString(call.args[c]), NEW s \in Strings, UNCHANGED var,
         refs' = [refs EXCEPT ![s] = @ + 1],
         call'.args = [call.args EXCEPT ![c] = StringAt(s)], call'.held = call.held
  PROVE  CountsOK' /\ refs' \in [Strings -> Nat]
<1>1. c \in call.held
  BY DEF CallOK, WorkOK
<1>2. ASSUME NEW r \in Strings
      PROVE  /\ refs'[r] = Counted(var', Vars, r) + Counted(call'.args, call'.held, r)
             /\ refs'[r] \in Nat
  <2>1. PICK old, new : old = call.args /\ new = call'.args
    OBVIOUS
  <2>2. \A i \in call.held \ {c} : new[i] = old[i]
    BY <2>1 DEF CallOK, WorkOK
  <2>3. IsFiniteSet(call.held) /\ IsFiniteSet(Vars)
    BY PlacesFinite, ArgumentsAssumption
  <2>4. Counted(new, call.held, r) = Counted(old, call.held, r) - Counted(<<old[c]>>, {1}, r)
                                                               + Counted(<<new[c]>>, {1}, r)
    BY <1>1, <2>2, <2>3, CountMoves
  <2>5. Counted(<<old[c]>>, {1}, r) = 0
    BY <2>1, CountOfOne DEF IsString, StringAt
  <2>6. Counted(<<new[c]>>, {1}, r) = IF s = r THEN 1 ELSE 0
    <3>1. new[c] = StringAt(s)
      BY <2>1
    <3> QED
      BY <3>1, CountOfOne DEF StringAt
  <2>7. Counted(var, Vars, r) \in Nat /\ Counted(old, call.held, r) \in Nat
    BY <2>3, CountIsNat
  <2>8. refs[r] = Counted(var, Vars, r) + Counted(old, call.held, r)
    BY <2>1 DEF CountsOK
  <2>9. refs'[r] = IF s = r THEN refs[r] + 1 ELSE refs[r]
    BY DEF HeapOK
  <2> QED
    BY <2>1, <2>4, <2>5, <2>6, <2>7, <2>8, <2>9
<1> QED
  BY <1>2 DEF CountsOK, HeapOK

(* A string is taken with the text it has had since the call.             *)
LEMMA KeepsStringKeeps ==
  ASSUME IInv, KeepsString
  PROVE  IInv'
<1>1. /\ Working(call) /\ Current <= Arity(call.fn) /\ call.args[Current].kind = "string"
      /\ call.step = "coerce" /\ UNCHANGED <<var, heap>>
      /\ call' = [call EXCEPT !.given = Append(@, call.asked[Current])]
  BY DEF KeepsString, Coercing, Working
<1>2. HeapOK /\ CallOK /\ CountsOK /\ TextsOK
  BY DEF IInv
<1>3. /\ Current \in 1 .. Arity(call.fn) /\ Current = Len(call.given) + 1
      /\ call.held = DOMAIN call.args /\ Current \in DOMAIN call.args
  BY <1>1, <1>2, AtArgument
<1>4. /\ call.asked[Current] \in Text /\ call.args \in Seq(Zvals) /\ Len(call.given) \in Nat
  BY <1>1, <1>2, <1>3, WorkingCalls
<1>5. call' = [call EXCEPT !.step = "coerce", !.args = call.args, !.held = DOMAIN call.args,
                           !.given = Append(@, call.asked[Current])]
  BY <1>1, <1>2, <1>3 DEF CallOK, Record
<1>6. HeapOK' /\ CountsOK'
  BY <1>1, <1>2, <1>5 DEF HeapOK, CountsOK, heap, CallOK, Record
<1>7. IsString(call.args[Current]) /\ call.asked[Current] = chars'[call.args[Current].at]
  BY <1>1, <1>2, <1>3, <1>4 DEF IsString, TextsOK, TextKept, heap
<1>8. chars' = chars
  BY <1>1 DEF heap
<1> QED
  BY <1>1, <1>4, <1>5, <1>6, <1>7, <1>8, GivenGrows

(* An object that stays one, and null once its deprecation was handled.    *)
LEMMA KeptKeeps ==
  ASSUME IInv, KeepsObject \/ HandlerReturned
  PROVE  IInv'
<1>1. /\ Working(call) /\ Current <= Arity(call.fn) /\ UNCHANGED <<var, heap>>
      /\ \/ call.args[Current].kind = "null"
         \/ call.args[Current].kind \in {"uuid", "object"} /\ Current = 1
      /\ call' = [call EXCEPT !.step = "coerce", !.given = Append(@, << >>)]
  <2>1. CASE KeepsObject
    BY <2>1 DEF KeepsObject, Coercing, StaysObject, Working, IInv, CallOK, Record
  <2>2. CASE HandlerReturned
    <3>1. Working(call) /\ Len(call.given) < Arity(call.fn)
          /\ call.args[Current].kind = "null"
      BY <2>2 DEF HandlerReturned, Working, Waiting, IInv, CallOK, StepOK, Current
    <3>2. Len(call.given) \in Nat /\ Arity(call.fn) \in {1, 2}
      BY <3>1, WorkingCalls DEF IInv
    <3>3. Current <= Arity(call.fn)
      BY <3>1, <3>2 DEF Current
    <3> QED
      BY <2>2, <3>1, <3>3 DEF HandlerReturned
  <2> QED
    BY <2>1, <2>2
<1>2. HeapOK /\ CallOK /\ CountsOK
  BY DEF IInv
<1>3. call.held = DOMAIN call.args
  BY <1>1, <1>2, AtArgument
<1>4. << >> \in Text /\ call.args \in Seq(Zvals)
  BY <1>1, <1>2, WorkingCalls DEF Text
<1>5. call' = [call EXCEPT !.step = "coerce", !.args = call.args, !.held = DOMAIN call.args,
                           !.given = Append(@, << >>)]
  BY <1>1, <1>2, <1>3 DEF CallOK, Record
<1>6. HeapOK' /\ CountsOK'
  BY <1>1, <1>2, <1>5 DEF HeapOK, CountsOK, heap, CallOK, Record
<1>7. chars' = chars
  BY <1>1 DEF heap
<1> QED
  BY <1>1, <1>4, <1>5, <1>6, <1>7, GivenGrows

(* What becomes a string that is counted for the call: a Uuid its own new  *)
(* one, an object the one its __toString() returned.                       *)
LEMMA BecomesKeeps ==
  ASSUME IInv, Working(call), Current <= Arity(call.fn), ~IsString(call.args[Current]),
         NEW s \in Strings, UNCHANGED var, refs' = [refs EXCEPT ![s] = @ + 1],
         chars' \in [Strings -> Text], \A r \in Strings : refs[r] # 0 => chars'[r] = chars[r],
         call' = [call EXCEPT !.step = "coerce", !.args = [call.args EXCEPT ![Current] = StringAt(s)],
                              !.held = call.held, !.given = Append(@, chars'[s])]
  PROVE  IInv'
<1>1. HeapOK /\ CallOK /\ CountsOK
  BY DEF IInv
<1>2. /\ Current \in DOMAIN call.args /\ Current \in 1 .. Arity(call.fn)
      /\ call.held = DOMAIN call.args
  BY <1>1, AtArgument
<1>3. /\ call.args \in Seq(Zvals) /\ DOMAIN call.args = 1 .. Arity(call.fn)
      /\ \A i \in 1 .. Arity(call.fn) : call.args[i] \in Zvals
      /\ Arity(call.fn) \in {1, 2}
  BY <1>1, WorkingCalls
<1>0. PICK args, t : args = [call.args EXCEPT ![Current] = StringAt(s)] /\ t = chars'[s]
  OBVIOUS
<1>4. StringAt(s) \in Zvals
  BY DEF StringAt, Zvals
<1>5. args \in Seq(Zvals) /\ DOMAIN args = DOMAIN call.args
  BY <1>0, <1>2, <1>3, <1>4
<1>6. call'.args = args /\ call'.held = call.held
  BY <1>0, <1>1 DEF CallOK, Record
<1>7. CountsOK' /\ refs' \in [Strings -> Nat]
  BY <1>0, <1>1, <1>2, <1>6, ArgumentBecomes
<1>8. HeapOK'
  BY <1>1, <1>7 DEF HeapOK
<1>9. /\ args[Current] = StringAt(s) /\ \A i \in DOMAIN args : i # Current => args[i] = call.args[i]
      /\ t \in Text
  BY <1>0, <1>2
<1>10. IsString(args[Current]) /\ t = chars'[args[Current].at]
  BY <1>0, <1>9 DEF IsString, StringAt
<1>11. ASSUME NEW i \in DOMAIN args, IsString(args[i]), i # Current
       PROVE  chars'[args[i].at] = chars[args[i].at]
  <2>1. i \in DOMAIN call.args /\ args[i] = call.args[i]
    BY <1>5, <1>9, <1>11
  <2>2. call.args[i].at \in Strings /\ refs[call.args[i].at] # 0
    BY <1>1, <1>11, <2>1, HeldCounted
  <2> QED
    BY <2>1, <2>2
<1>12. call' = [call EXCEPT !.step = "coerce", !.args = args, !.held = DOMAIN args,
                            !.given = Append(@, t)]
  BY <1>0, <1>2, <1>5
<1>13. \A i \in DOMAIN args : IsString(args[i]) /\ i # Current =>
                                chars'[args[i].at] = chars[args[i].at]
  BY <1>11
<1>14. \/ IsString(args[Current]) /\ t = chars'[args[Current].at]
       \/ args[Current].kind = "null" /\ t = << >>
       \/ args[Current].kind \in {"uuid", "object"} /\ Current = 1
  BY <1>10
<1>15. \A i \in DOMAIN args : i # Current => args[i] = call.args[i]
  BY <1>9
<1>16. t \in Text
  BY <1>9
<1> QED
  BY <1>5, <1>7, <1>8, <1>12, <1>13, <1>14, <1>15, <1>16, GivenGrows

(* A Uuid becomes its text in a string of the call's own.                  *)
LEMMA ConvertsUuidKeeps ==
  ASSUME IInv, ConvertsUuid
  PROVE  IInv'
<1>1. HeapOK /\ CallOK /\ CountsOK
  BY DEF IInv
<1>2. PICK s \in Strings :
        /\ refs[s] = 0
        /\ refs' = [refs EXCEPT ![s] = 1]
        /\ chars' = [chars EXCEPT ![s] = Format36(UuidValue)]
        /\ call' = [call EXCEPT !.args[Current] = StringAt(s), !.held = @ \cup {Current},
                                !.given = Append(@, Format36(UuidValue))]
  BY DEF ConvertsUuid
<1>3. /\ Working(call) /\ Current <= Arity(call.fn) /\ ~IsString(call.args[Current])
      /\ call.step = "coerce" /\ UNCHANGED var
  BY DEF ConvertsUuid, Coercing, Working, IsString
<1>4. Current \in call.held
  BY <1>1, <1>3, AtArgument
<1>5. call.held \cup {Current} = call.held
  BY <1>4
<1>6. refs' = [refs EXCEPT ![s] = @ + 1]
  BY <1>2
<1>7. /\ chars' \in [Strings -> Text] /\ chars'[s] = Format36(UuidValue)
      /\ \A r \in Strings : refs[r] # 0 => chars'[r] = chars[r]
  BY <1>1, <1>2 DEF HeapOK, Text
<1>8. call' = [call EXCEPT !.step = "coerce", !.args = [call.args EXCEPT ![Current] = StringAt(s)],
                           !.held = call.held, !.given = Append(@, chars'[s])]
  BY <1>1, <1>2, <1>3, <1>5, <1>7 DEF CallOK, Record
<1> QED
  BY <1>3, <1>6, <1>7, <1>8, BecomesKeeps

(* An object becomes the string user code returned, one count more.        *)
LEMMA StringReturnedKeeps ==
  ASSUME IInv, NEW y \in Vars, StringReturned(y)
  PROVE  IInv'
<1> DEFINE s == var[y].at
<1>1. HeapOK /\ CallOK /\ CountsOK
  BY DEF IInv
<1>2. /\ call.step = "string" /\ IsString(var[y])
      /\ refs' = [refs EXCEPT ![s] = @ + 1]
      /\ call' = [call EXCEPT !.step = "coerce", !.args[Current] = var[y], !.held = @ \cup {Current},
                              !.given = Append(@, TextOf(var[y]))]
      /\ UNCHANGED <<var, chars>>
  BY DEF StringReturned
<1>3. s \in Strings /\ var[y] = StringAt(s)
  BY <1>1, <1>2 DEF HeapOK, Zvals, IsString, StringAt, Kinds
<1>4. /\ Working(call) /\ Len(call.given) < Arity(call.fn)
      /\ call.args[Current].kind = "object"
  BY <1>1, <1>2 DEF Working, Waiting, CallOK, StepOK, Current
<1>5. Len(call.given) \in Nat /\ Arity(call.fn) \in {1, 2}
  BY <1>1, <1>4, WorkingCalls
<1>6. Current <= Arity(call.fn) /\ ~IsString(call.args[Current])
  BY <1>4, <1>5 DEF Current, IsString
<1>7. Current \in call.held
  BY <1>1, <1>4, <1>6, AtArgument
<1>8. call.held \cup {Current} = call.held
  BY <1>7
<1>9. TextOf(var[y]) = chars'[s]
  BY <1>2 DEF TextOf
<1> HIDE DEF s
<1>10. call' = [call EXCEPT !.step = "coerce", !.args = [call.args EXCEPT ![Current] = StringAt(s)],
                            !.held = call.held, !.given = Append(@, chars'[s])]
  BY <1>1, <1>2, <1>3, <1>8, <1>9 DEF CallOK, Record
<1>11. chars' \in [Strings -> Text] /\ \A r \in Strings : refs[r] # 0 => chars'[r] = chars[r]
  BY <1>1, <1>2 DEF HeapOK
<1>12. UNCHANGED var /\ refs' = [refs EXCEPT ![s] = @ + 1]
  BY <1>2
<1> QED
  BY <1>3, <1>4, <1>6, <1>10, <1>11, <1>12, BecomesKeeps

-----------------------------------------------------------------------------
(* Asking user code, and resolving what is an object.                      *)

(* Only the step changes, and what object is asked.                        *)
LEMMA AsksKeeps ==
  ASSUME IInv, Working(call), NEW step \in Waiting, NEW object, Asks(step, object),
         \/ object = << >> /\ step # "core"
         \/ \E o \in Objects : /\ object = <<o>> /\ step \in {"core", "text"}
                               /\ step = "core" => Asked(o.method)
                               /\ step = "text" => ~GivesCore(o),
         step = "string" => Len(call.given) < Arity(call.fn) /\ call.args[Current].kind = "object",
         step = "handler" => Len(call.given) < Arity(call.fn) /\ call.args[Current].kind = "null",
         step \in {"core", "text"} => Len(call.given) = Arity(call.fn) /\ call.args[1].kind = "object"
  PROVE  IInv'
<1>1. /\ UNCHANGED <<var, heap>> /\ CallOK
      /\ call' = [call EXCEPT !.step = step, !.object = object]
  BY DEF Asks, IInv
<1>2. /\ call'.step = step /\ Record(call') /\ call'.by = call.by /\ call'.object = object
      /\ call'.fn = call.fn /\ call'.args = call.args /\ call'.held = call.held
      /\ call'.core = call.core /\ call'.asked = call.asked /\ call'.given = call.given
  BY <1>1 DEF CallOK, Record
<1>3. CallOK'
  BY <1>1, <1>2 DEF CallOK, Working, WorkOK, StepOK, Current
<1>4. HeapOK' /\ CountsOK' /\ TextsOK'
  BY <1>1, <1>2 DEF IInv, HeapOK, CountsOK, heap, TextsOK, TextKept
<1>5. AnswersGiven'
  BY <1>2 DEF AnswersGiven, Waiting
<1>6. ObjectOK'
  BY <1>2 DEF ObjectOK, FoundOK
<1> QED
  BY <1>3, <1>4, <1>5, <1>6 DEF IInv

(* User code is called for the argument the call is at.                    *)
LEMMA CallsUserKeeps ==
  ASSUME IInv, CallsUser
  PROVE  IInv'
<1>1. /\ Working(call) /\ Current <= Arity(call.fn) /\ call.args[Current].kind \in {"object", "null"}
      /\ Asks(IF call.args[Current].kind = "null" THEN "handler" ELSE "string", << >>)
  <2>1. /\ Working(call) /\ Current <= Arity(call.fn)
        /\ call.args[Current].kind \in {"object", "null"} /\ UNCHANGED <<var, heap>>
        /\ call' = [call EXCEPT !.step = IF call.args[Current].kind = "null" THEN "handler"
                                         ELSE "string"]
    BY DEF CallsUser, Coercing, Working
  <2>2. call.object = << >> /\ Record(call)
    BY <2>1, NoObjectYet DEF IInv, CallOK
  <2> QED
    BY <2>1, <2>2 DEF Asks, Record
<1>2. Len(call.given) < Arity(call.fn)
  BY <1>1, AtArgument DEF IInv
<1>3. CASE call.args[Current].kind = "null"
  <2>1. Asks("handler", << >>) /\ "handler" \in Waiting
    BY <1>1, <1>3 DEF Waiting
  <2> QED
    BY <1>1, <1>2, <1>3, <2>1, AsksKeeps
<1>4. CASE call.args[Current].kind = "object"
  <2>1. Asks("string", << >>) /\ "string" \in Waiting
    BY <1>1, <1>4 DEF Waiting
  <2> QED
    BY <1>1, <1>2, <1>4, <2>1, AsksKeeps
<1> QED
  BY <1>1, <1>3, <1>4

(* All arguments are there.                                                *)
LEMMA AllThere ==
  ASSUME CallOK, Coerced
  PROVE  /\ Working(call) /\ Len(call.given) = Arity(call.fn)
         /\ 1 \in DOMAIN call.args /\ call.args[1] \in Zvals
<1>1. Working(call) /\ Len(call.given) + 1 > Arity(call.fn)
  BY DEF Coerced, Working, Current
<1>2. /\ Arity(call.fn) \in {1, 2} /\ DOMAIN call.args = 1 .. Arity(call.fn)
      /\ Len(call.given) \in Nat /\ \A i \in 1 .. Arity(call.fn) : call.args[i] \in Zvals
  BY <1>1, WorkingCalls
<1>3. Len(call.given) <= Arity(call.fn)
  BY <1>1 DEF CallOK, WorkOK
<1> QED
  BY <1>1, <1>2, <1>3

(* The namespace, or the one argument, became known.                       *)
LEMMA ResolvedKeeps ==
  ASSUME IInv, Working(call), Len(call.given) = Arity(call.fn),
         call.args[1].kind \in {"uuid", "object"}, NEW t \in Text, Resolved(t),
         \A o \in Objects : call.object = <<o>> /\ GivesCore(o) => t = Format36(UuidValue)
  PROVE  IInv'
<1>1. /\ UNCHANGED <<var, heap>> /\ CallOK
      /\ call' = [call EXCEPT !.step = "coerce", !.core = <<t>>, !.given[1] = t]
  BY DEF Resolved, IInv
<1>2. /\ call'.step = "coerce" /\ Record(call') /\ call'.by = call.by
      /\ call'.fn = call.fn /\ call'.args = call.args /\ call'.held = call.held
      /\ call'.core = <<t>> /\ call'.asked = call.asked /\ call'.object = call.object
      /\ call'.given = [call.given EXCEPT ![1] = t]
  BY <1>1 DEF CallOK, Record
<1>3. /\ Arity(call.fn) \in {1, 2} /\ DOMAIN call.args = 1 .. Arity(call.fn)
      /\ call.given \in Seq(Text) /\ call.by # "literal" /\ Len(call.given) \in Nat
  BY <1>1, WorkingCalls
<1>4. DOMAIN call.given = 1 .. Len(call.given)
  BY <1>3, LenProperties
<1>5. /\ call'.given \in Seq(Text) /\ Len(call'.given) = Len(call.given) /\ call'.given[1] = t
      /\ \A i \in 1 .. Len(call.given) : i # 1 => call'.given[i] = call.given[i]
  BY <1>2, <1>3, <1>4
<1>6. CallOK'
  <2>1. WorkOK(call')
    BY <1>1, <1>2, <1>5 DEF CallOK, WorkOK
  <2>2. <<t>>[1] = t
    OBVIOUS
  <2>3. StepOK(call')
    BY <1>2, <1>5, <2>2 DEF StepOK
  <2> QED
    BY <1>2, <2>1, <2>3 DEF CallOK, Working, Waiting
<1>7. TextsOK'
  <2> SUFFICES ASSUME NEW i \in DOMAIN call.args PROVE TextKept(call, i)'
    BY <1>2 DEF TextsOK
  <2>1. TextKept(call, i) /\ i \in 1 .. Len(call.given) /\ ~(i > Len(call.given))
    BY <1>3 DEF IInv, TextsOK
  <2>2. chars' = chars
    BY <1>1 DEF heap
  <2>3. CASE i = 1
    BY <1>2, <1>5, <2>1, <2>3 DEF TextKept
  <2>4. CASE i # 1
    BY <1>2, <1>5, <2>1, <2>2, <2>4 DEF TextKept
  <2> QED
    BY <2>3, <2>4
<1>8. HeapOK' /\ CountsOK'
  BY <1>1, <1>2 DEF IInv, HeapOK, CountsOK, heap
<1>9. AnswersGiven'
  BY <1>2 DEF AnswersGiven
<1>10. ObjectOK'
  <2>1. <<t>> # << >>
    OBVIOUS
  <2>2. ASSUME NEW o \in Objects, call.object = <<o>> PROVE FoundOK(call', o)
    BY <1>2, <2>1, <2>2 DEF FoundOK
  <2> QED
    BY <1>2, <2>2 DEF IInv, ObjectOK
<1> QED
  BY <1>6, <1>7, <1>8, <1>9, <1>10 DEF IInv

(* fu_type_may_return decides what the engine lets through: no type that   *)
(* takes a Uuid in is passed over, and none that does not is tried.        *)
LEMMA TypesDecided ==
  ASSUME NEW type, \A part \in type.parts : part \subseteq DOMAIN Lookup
  PROVE  MayReturn(type) <=> Accepts(type, Required)
<1>1. ASSUME NEW name \in DOMAIN Lookup
      PROVE  Compatible(name) <=> Lookup[name] # NoClass /\ IsA(Required, Lookup[name])
  <2>1. Required \in DOMAIN Supers /\ Required # NoClass /\ IsA(Required, Required)
    BY ReturnTypesAssumption
  <2>2. CASE name = Required
    BY <2>1, <2>2, ReturnTypesAssumption DEF Compatible
  <2>3. CASE name # Required
    <3>1. Lookup[name] # NoClass /\ IsA(Lookup[name], Required) => Lookup[name] = Required
      BY ReturnTypesAssumption
    <3> QED
      BY <2>1, <2>3, <3>1 DEF Compatible
  <2> QED
    BY <2>2, <2>3
<1>2. ASSUME NEW part \in type.parts
      PROVE  AllCompatible(part)
               <=> \A name \in part : Lookup[name] # NoClass /\ IsA(Required, Lookup[name])
  BY <1>1 DEF AllCompatible
<1> QED
  BY <1>2 DEF MayReturn, Accepts

(* An object that gives a core is asked for it.                            *)
LEMMA CoreIsAskedFor ==
  ASSUME NEW o \in Objects, GivesCore(o)
  PROVE  Asked(o.method)
<1>1. Required # NoClass
  BY ReturnTypesAssumption
<1>2. /\ \A part \in o.method.type.parts : part \subseteq DOMAIN Lookup
      /\ o.method.typed => Accepts(o.method.type, Required)
  BY <1>1, ObjectsAssumption DEF GivesCore
<1>3. MayReturn(o.method.type) <=> Accepts(o.method.type, Required)
  BY <1>2, TypesDecided
<1> QED
  BY <1>2, <1>3 DEF Asked, GivesCore

(* An object is asked, refused, or found to be a Uuid.                     *)
LEMMA ResolveKeeps ==
  ASSUME IInv, ResolveUuid \/ ResolveObject
  PROVE  IInv'
<1>1. CallOK /\ Coerced /\ IsObject
  BY DEF IInv, ResolveUuid, ResolveObject
<1>2. Working(call) /\ Len(call.given) = Arity(call.fn)
  BY <1>1, AllThere
<1>3. CASE ResolveUuid
  <2>1. call.args[1].kind = "uuid" /\ Resolved(Format36(UuidValue)) /\ Format36(UuidValue) \in Text
    BY <1>3 DEF ResolveUuid, Text
  <2> QED
    BY <1>2, <2>1, ResolvedKeeps
<1>4. CASE ResolveObject
  <2>1. call.args[1].kind = "object" /\ "core" \in Waiting /\ "text" \in Waiting
    BY <1>4 DEF ResolveObject, Waiting
  <2>2. CASE Asks("text", << >>)
    BY <1>2, <2>1, <2>2, AsksKeeps
  <2>3. ASSUME NEW o \in Objects, Asked(o.method), Asks("core", <<o>>) PROVE IInv'
    BY <1>2, <2>1, <2>3, AsksKeeps
  <2>4. ASSUME NEW o \in Objects, ~Asked(o.method), Asks("text", <<o>>) PROVE IInv'
    <3>1. ~GivesCore(o)
      BY <2>4, CoreIsAskedFor
    <3> QED
      BY <1>2, <2>1, <2>4, <3>1, AsksKeeps
  <2>5. CASE Fail
    BY <1>2, <2>5, FailKeeps
  <2> QED
    BY <1>4, <2>2, <2>3, <2>4, <2>5 DEF ResolveObject
<1> QED
  BY <1>3, <1>4

(* User code answered for an object, or did not.                           *)
LEMMA UserAnsweredKeeps ==
  ASSUME IInv, CoreReturned \/ CoreUseless \/ UserThrows \/ \E y \in Vars : TextReturned(y)
  PROVE  IInv'
<1>1. CallOK /\ HeapOK
  BY DEF IInv
<1>2. Working(call)
  BY DEF CoreReturned, CoreUseless, UserThrows, TextReturned, Working, Waiting
<1>3. call.step \in {"core", "text"} => Len(call.given) = Arity(call.fn) /\ call.args[1].kind = "object"
  BY <1>1, <1>2 DEF CallOK, StepOK
<1>4. CASE CoreReturned
  <2>1. Resolved(Format36(UuidValue)) /\ Format36(UuidValue) \in Text
    BY <1>4 DEF CoreReturned, Text
  <2> QED
    BY <1>2, <1>3, <1>4, <2>1, ResolvedKeeps DEF CoreReturned
<1>5. CASE CoreUseless
  <2>1. "text" \in Waiting
    BY DEF Waiting
  <2>2. CASE Asks("text", call.object)
    <3>1. PICK o \in Objects : call.object = <<o>>
      BY <1>5 DEF CoreUseless, IInv, ObjectOK
    <3>2. ~GivesCore(o)
      BY <1>5, <3>1 DEF CoreUseless, Gives, GivesCore
    <3> QED
      BY <1>2, <1>3, <1>5, <2>1, <2>2, <3>1, <3>2, AsksKeeps DEF CoreUseless
  <2>3. CASE Fail
    BY <1>2, <2>3, FailKeeps
  <2> QED
    BY <1>5, <2>2, <2>3 DEF CoreUseless
<1>6. CASE UserThrows
  BY <1>2, <1>6, FailKeeps DEF UserThrows
<1>7. ASSUME NEW y \in Vars, TextReturned(y) PROVE IInv'
  <2>1. TextOf(var[y]) \in Text /\ Resolved(TextOf(var[y])) /\ call.step = "text"
    BY <1>1, <1>7 DEF TextReturned, TextOf, HeapOK, Zvals, IsString, Kinds
  <2>2. ASSUME NEW o \in Objects, call.object = <<o>> PROVE ~GivesCore(o)
    <3>1. PICK p \in Objects : call.object = <<p>> /\ FoundOK(call, p)
      <4>1. call.object # << >>
        BY <2>2
      <4> QED
        BY <4>1 DEF IInv, ObjectOK
    <3>2. o = p
      BY <2>2, <3>1
    <3> QED
      BY <2>1, <3>1, <3>2 DEF FoundOK
  <2> QED
    BY <1>2, <1>3, <2>1, <2>2, ResolvedKeeps
<1> QED
  BY <1>4, <1>5, <1>6, <1>7

(* The work is done on the texts the call was given.                       *)
LEMMA FinishKeeps ==
  ASSUME IInv, Finish
  PROVE  IInv'
<1>1. CallOK /\ TextsOK
  BY DEF IInv
<1>2. Coerced /\ ~IsObject /\ Return(Work(call.fn, Read), call.given)
  BY DEF Finish
<1>3. Working(call) /\ Len(call.given) = Arity(call.fn)
  BY <1>1, <1>2, AllThere
<1>4. /\ Arity(call.fn) \in {1, 2} /\ DOMAIN call.args = 1 .. Arity(call.fn)
      /\ call.given \in Seq(Text) /\ \A i \in 1 .. Arity(call.fn) : call.args[i] \in Zvals
  BY <1>1, <1>3, WorkingCalls
<1>5. ASSUME NEW i \in 1 .. Arity(call.fn) PROVE Read[i] = call.given[i]
  <2>1. Read[i] = IF i = 1 /\ call.core # << >> THEN call.core[1] ELSE TextOf(call.args[i])
    BY <1>4 DEF Read
  <2>2. CASE i = 1 /\ call.core # << >>
    <3>1. call.core[1] = call.given[1]
      BY <1>1, <1>3, <2>2 DEF CallOK, StepOK
    <3> QED
      BY <2>1, <2>2, <3>1
  <2>3. CASE ~(i = 1 /\ call.core # << >>)
    <3>1. TextKept(call, i) /\ i <= Len(call.given)
      BY <1>1, <1>3, <1>4 DEF TextsOK
    <3>2. Read[i] = TextOf(call.args[i])
      BY <2>1, <2>3
    <3>3. ~(call.args[i].kind \in {"uuid", "object"} /\ i = 1)
      BY <1>2, <2>3 DEF IsObject
    <3> QED
      BY <3>1, <3>2, <3>3 DEF TextKept, TextOf, IsString
  <2> QED
    BY <2>2, <2>3
<1>6. DOMAIN call.given = 1 .. Arity(call.fn) /\ DOMAIN Read = 1 .. Arity(call.fn)
  BY <1>3, <1>4, LenProperties DEF Read
<1>7. Read = call.given
  <2>1. call.given = [i \in 1 .. Arity(call.fn) |-> call.given[i]]
    BY <1>4, <1>6
  <2>2. Read = [i \in 1 .. Arity(call.fn) |-> Read[i]]
    BY <1>4 DEF Read
  <2> QED
    BY <1>5, <2>1, <2>2
<1>8. call.given # << >>
  <2>1. Len(<< >>) = 0
    OBVIOUS
  <2>2. Len(call.given) # 0
    BY <1>3, <1>4
  <2> QED
    BY <2>1, <2>2
<1>9. Return(Work(call.fn, call.given), call.given) /\ call.step = "coerce"
  BY <1>2, <1>7 DEF Coerced
<1> QED
  BY <1>3, <1>8, <1>9, ReturnKeeps

-----------------------------------------------------------------------------
(* A literal is read when nothing is going on.                             *)
LEMMA LiteralKeeps ==
  ASSUME IInv, Fresh, NEW reader \in Readers, NEW a \in Literals(reader), Literal(reader, a)
  PROVE  IInv'
<1>1. /\ call = NoCall /\ UNCHANGED <<var, heap>>
      /\ call' = [fn |-> reader, by |-> "literal", strict |-> FALSE, step |-> "done",
                  args |-> << >>, held |-> {}, core |-> << >>, asked |-> << >>,
                  given |-> <<a>>, object |-> << >>, answer |-> ReadLiteral(reader, a)]
  BY DEF Literal, Fresh, NoCall
<1>2. HeapOK' /\ CallOK' /\ CountsOK' /\ TextsOK'
  BY <1>1, OutsideKeeps DEF Record, IdleOK, NoCall
<1>3. AnswersGiven' /\ ObjectOK'
  BY <1>1 DEF AnswersGiven, ObjectOK
<1> QED
  BY <1>2, <1>3 DEF IInv

-----------------------------------------------------------------------------
(* At the start nothing is held.                                           *)
LEMMA InitIInv == Init => IInv
<1> SUFFICES ASSUME Init PROVE IInv
  OBVIOUS
<1>1. HeapOK
  BY DEF Init, HeapOK, Zvals, Plain, Kinds, Text, Freed
<1>2. CallOK /\ TextsOK /\ AnswersGiven /\ ObjectOK
  BY DEF Init, NoCall, CallOK, Record, Working, Waiting, IdleOK, TextsOK, AnswersGiven, ObjectOK
<1>3. ASSUME NEW s \in Strings
      PROVE  refs[s] = Counted(var, Vars, s) + Counted(call.args, call.held, s)
  <2>1. Counted(call.args, call.held, s) = 0
    BY CountOfNone DEF Init, NoCall
  <2>2. {x \in Vars : var[x] = StringAt(s)} = {}
    BY DEF Init, Plain, Kinds, StringAt
  <2>3. Counted(var, Vars, s) = 0
    BY <2>2, FS_EmptySet DEF Counted
  <2> QED
    BY <2>1, <2>3 DEF Init
<1> QED
  BY <1>1, <1>2, <1>3 DEF IInv, CountsOK

(* Every step keeps the invariant.                                         *)
LEMMA NextIInv == IInv /\ [Next]_vars => IInv'
<1> SUFFICES ASSUME IInv, [Next]_vars PROVE IInv'
  OBVIOUS
<1>1. ASSUME NEW x \in Vars, UserCode(x) PROVE IInv'
  BY <1>1, UserCodeKeeps
<1>2. ASSUME NEW x \in Vars, StringReturned(x) PROVE IInv'
  BY <1>2, StringReturnedKeeps
<1>3. CASE CoreReturned \/ CoreUseless \/ UserThrows \/ \E y \in Vars : TextReturned(y)
  BY <1>3, UserAnsweredKeeps
<1>4. ASSUME NEW fn \in Functions, NEW xs \in [1 .. Arity(fn) -> Vars],
             NEW zs, zs = [i \in DOMAIN xs |-> var[xs[i]]],
             Direct(fn, zs) \/ \E by \in Entries(fn), strict \in BOOLEAN : Enter(fn, by, strict, zs)
      PROVE  IInv'
  <2>1. zs \in [1 .. Arity(fn) -> Zvals]
    BY <1>4 DEF IInv, HeapOK
  <2>2. CASE Direct(fn, zs)
    BY <2>1, <2>2, DirectKeeps
  <2>3. ASSUME NEW by \in Entries(fn), NEW strict \in BOOLEAN, Enter(fn, by, strict, zs)
        PROVE  IInv'
    BY <2>1, <2>3, EnterKeeps
  <2> QED
    BY <1>4, <2>2, <2>3
<1>5. CASE KeepsString
  BY <1>5, KeepsStringKeeps
<1>6. CASE KeepsObject \/ HandlerReturned
  BY <1>6, KeptKeeps
<1>7. CASE ConvertsUuid
  BY <1>7, ConvertsUuidKeeps
<1>8. CASE CallsUser
  BY <1>8, CallsUserKeeps
<1>9. CASE TypeError
  <2>1. Working(call) /\ Fail
    BY <1>9 DEF TypeError, Coercing, Working
  <2> QED
    BY <2>1, FailKeeps
<1>10. CASE ResolveUuid \/ ResolveObject
  BY <1>10, ResolveKeeps
<1>11. CASE Finish
  BY <1>11, FinishKeeps
<1>12. CASE Leave
  BY <1>12, LeaveKeeps
<1>13. ASSUME Fresh, NEW reader \in Readers, NEW a \in Literals(reader), Literal(reader, a)
       PROVE  IInv'
  BY <1>13, LiteralKeeps
<1>14. CASE UNCHANGED vars
  BY <1>14 DEF vars, heap, IInv, HeapOK, CallOK, CountsOK, TextsOK, TextKept, AnswersGiven,
               ObjectOK
<1> QED
  BY <1>1, <1>2, <1>3, <1>4, <1>5, <1>6, <1>7, <1>8, <1>9, <1>10, <1>11, <1>12, <1>13, <1>14
     DEF Next

(* Every reachable state of a call is one the lemmas above describe.       *)
THEOREM IInvHolds == Spec => []IInv
BY InitIInv, NextIInv, PTL DEF Spec

(* Every variable keeps its type, and a call in progress has as many       *)
(* arguments as its function takes.                                        *)
THEOREM TypeCorrect == Spec => []TypeOK
<1>1. IInv => TypeOK
  <2> SUFFICES ASSUME IInv PROVE TypeOK
    OBVIOUS
  <2>1. CASE Working(call)
    BY <2>1 DEF IInv, HeapOK, CallOK, WorkOK, TypeOK
  <2>2. CASE ~Working(call)
    BY <2>2 DEF IInv, HeapOK, CallOK, IdleOK, TypeOK, Working
  <2> QED
    BY <2>1, <2>2
<1> QED
  BY <1>1, IInvHolds, PTL

(* Whatever user code does to the variables inside a call, the call        *)
(* answers for the values it was given, through any of its entries.        *)
THEOREM AnswersWhatWasGiven == Spec => []AnswersGiven
<1>1. IInv => AnswersGiven
  BY DEF IInv
<1> QED
  BY <1>1, IInvHolds, PTL

(* No call leaks a string, and none is freed under a call that reads it.   *)
THEOREM CountsExact == Spec => []RefsExact
<1>1. IInv => RefsExact
  <2> SUFFICES ASSUME IInv PROVE RefsExact
    OBVIOUS
  <2>1. \A i \in DOMAIN call.args : IsString(call.args[i]) => refs[call.args[i].at] > 0
    <3> SUFFICES ASSUME NEW i \in DOMAIN call.args, IsString(call.args[i])
                 PROVE  refs[call.args[i].at] > 0
      OBVIOUS
    <3>1. refs[call.args[i].at] \in Nat \ {0}
      BY HeldCounted DEF IInv
    <3> QED
      BY <3>1
  <2> QED
    BY <2>1 DEF IInv, CountsOK, RefsExact
<1> QED
  BY <1>1, IInvHolds, PTL

(* The identity of a foreign object is the core it gives, whatever text it *)
(* presents, and no accessor is called that can give none: for any classes,*)
(* any types made of them and any user code in between.                    *)
THEOREM IdentityIsCore == Spec => []CoreIsIdentity
<1>1. ASSUME IInv, NEW i \in DOMAIN call.object, NEW o, o = call.object[i]
      PROVE  /\ call.step = "core" => CanGive(o.method, Required)
             /\ GivesCore(o) =>
                  /\ call.step # "text"
                  /\ call.step = "done" /\ call.given # << >> =>
                       call.answer = Work(call.fn, [call.given EXCEPT ![1] = Format36(UuidValue)])
  <2>1. PICK p \in Objects : call.object = <<p>> /\ FoundOK(call, p)
    <3>1. call.object # << >>
      BY <1>1
    <3> QED
      BY <1>1, <3>1 DEF IInv, ObjectOK
  <2>2. o = p
    BY <1>1, <2>1
  <2>3. Asked(o.method) => CanGive(o.method, Required)
    <3>1. \A part \in o.method.type.parts : part \subseteq DOMAIN Lookup
      BY <2>2, ObjectsAssumption
    <3>2. MayReturn(o.method.type) <=> Accepts(o.method.type, Required)
      BY <3>1, TypesDecided
    <3> QED
      BY <3>2 DEF Asked, CanGive
  <2>4. call.step = "done" /\ call.by # "literal" /\ call.given # << >> =>
          call.answer = Work(call.fn, call.given)
    BY <1>1 DEF IInv, AnswersGiven
  <2> QED
    BY <2>1, <2>2, <2>3, <2>4 DEF FoundOK
<1>2. IInv => CoreIsIdentity
  BY <1>1 DEF CoreIsIdentity, GivesCore
<1> QED
  BY <1>2, IInvHolds, PTL

-----------------------------------------------------------------------------
(* Division with remainder, for the digits of a byte in any base.          *)

(* The defining equation of \div and %.                                    *)
LEMMA DivMod ==
  ASSUME NEW n \in Int, NEW d \in Nat \ {0}
  PROVE  n = d * (n \div d) + (n % d) /\ n % d \in 0 .. d - 1 /\ n \div d \in Int
OBVIOUS

(* There is one quotient and one remainder.                                *)
LEMMA DivUnique ==
  ASSUME NEW d \in Nat \ {0}, NEW q \in Int, NEW r \in 0 .. d - 1
  PROVE  (d * q + r) \div d = q /\ (d * q + r) % d = r
<1> DEFINE n == d * q + r
           p == n \div d
           s == n % d
<1>1. n \in Int /\ r \in Int /\ d * q \in Int
  OBVIOUS
<1>2. n = d * p + s /\ s \in 0 .. d - 1 /\ p \in Int
  <2> HIDE DEF n
  <2> QED
    BY <1>1, DivMod
<1> HIDE DEF p, s
<1>3. d * (p - q) = r - s
  BY <1>2
<1>4. p = q
  <2>1. CASE p > q
    <3>1. d * (p - q) >= d
      BY <2>1, <1>2
    <3> QED
      BY <3>1, <1>3, <1>2
  <2>2. CASE p < q
    <3>1. d * (p - q) <= -d
      BY <2>2, <1>2
    <3> QED
      BY <3>1, <1>3, <1>2
  <2> QED
    BY <2>1, <2>2, <1>2
<1>5. s = r
  BY <1>4, <1>3, <1>2
<1> QED
  BY <1>4, <1>5 DEF n, p, s

-----------------------------------------------------------------------------
(* Texts, for hyphens anywhere.                                            *)

LEMMA Lengths ==
  /\ Base \in Nat \ {0} /\ Digits \in Nat \ {0} /\ UuidBytes \in Nat \ {0}
  /\ Digits = 2 * UuidBytes /\ UuidBytes < Base * Base
  /\ Cardinality(HyphenPlaces) \in Nat /\ Length \in Nat
  /\ Length = Digits + Cardinality(HyphenPlaces)
<1>1. /\ Base \in Nat /\ Ten \in 2 .. Base /\ Digits \in Nat \ {0} /\ Digits = 2 * UuidBytes
      /\ UuidBytes < Base * Base /\ IsFiniteSet(HyphenPlaces)
  BY SpellingAssumption
<1>2. Cardinality(HyphenPlaces) \in Nat
  BY <1>1, FS_CardinalityType
<1>3. UuidBytes = Digits \div 2
  BY DEF UuidBytes
<1>4. UuidBytes \in Int
  BY <1>1, <1>3
<1> QED
  BY <1>1, <1>2, <1>4 DEF Length

(* Where a digit can be.                                                   *)
Free36 == (1 .. Length) \ HyphenPlaces

(* Hyphens of a range are no more than its places.                         *)
LEMMA HyphensIn ==
  ASSUME NEW a \in Int, NEW b \in Int, a <= b + 1,
         NEW S, \A h \in S : h \in HyphenPlaces /\ h \in a .. b
  PROVE  IsFiniteSet(S) /\ Cardinality(S) \in Nat /\ Cardinality(S) <= b - a + 1
<1>1. IsFiniteSet(a .. b) /\ Cardinality(a .. b) = b - a + 1
  BY FS_Interval
<1>2. S \in SUBSET (a .. b)
  OBVIOUS
<1>3. IsFiniteSet(S) /\ Cardinality(S) <= Cardinality(a .. b)
  BY <1>1, <1>2, FS_Subset
<1>4. Cardinality(S) \in Nat
  BY <1>3, FS_CardinalityType
<1> QED
  BY <1>1, <1>3, <1>4

(* Two parts of a set.                                                     *)
LEMMA TwoParts ==
  ASSUME NEW U, NEW S, NEW T, IsFiniteSet(S), IsFiniteSet(T),
         \A x : x \in U <=> x \in S \/ x \in T, \A x : ~(x \in S /\ x \in T)
  PROVE  Cardinality(U) = Cardinality(S) + Cardinality(T)
<1>1. U = S \cup T /\ S \cap T = {}
  OBVIOUS
<1>2. Cardinality({}) = 0 /\ Cardinality(S) \in Nat /\ Cardinality(T) \in Nat
  BY FS_EmptySet, FS_CardinalityType
<1>3. Cardinality(S \cup T) = Cardinality(S) + Cardinality(T) - Cardinality(S \cap T)
  BY FS_Union, Zenon
<1>4. Cardinality(U) = Cardinality(S) + Cardinality(T) - 0
  BY <1>1, <1>2, <1>3, Zenon
<1> QED
  BY <1>2, <1>4

Until(p) == {h \in HyphenPlaces : h < p}
From(p) == {h \in HyphenPlaces : h >= p}

LEMMA UntilFrom ==
  ASSUME NEW p \in 1 .. Length + 1
  PROVE  /\ Before(p) \in Nat /\ Before(p) <= p - 1
         /\ Cardinality(HyphenPlaces) - Before(p) <= Length - p + 1
<1>1. HyphenPlaces \subseteq 1 .. Length /\ Length \in Nat
  BY Lengths, SpellingAssumption
<1>2. /\ IsFiniteSet(Until(p)) /\ Cardinality(Until(p)) \in Nat
      /\ Cardinality(Until(p)) <= p - 1
  <2>1. \A h \in Until(p) : h \in HyphenPlaces /\ h \in 1 .. p - 1
    BY <1>1 DEF Until
  <2>2. 1 \in Int /\ p - 1 \in Int /\ 1 <= (p - 1) + 1 /\ (p - 1) - 1 + 1 = p - 1
    BY <1>1
  <2> QED
    BY <2>1, <2>2, HyphensIn
<1>3. /\ IsFiniteSet(From(p)) /\ Cardinality(From(p)) \in Nat
      /\ Cardinality(From(p)) <= Length - p + 1
  <2>1. \A h \in From(p) : h \in HyphenPlaces /\ h \in p .. Length
    BY <1>1 DEF From
  <2>2. p \in Int /\ Length \in Int /\ p <= Length + 1
    BY <1>1
  <2> QED
    BY <2>1, <2>2, HyphensIn
<1>4. \A h \in HyphenPlaces : h \in Int /\ p \in Int
  BY <1>1
<1>5. \A h : h \in HyphenPlaces <=> h \in Until(p) \/ h \in From(p)
  BY <1>4 DEF Until, From
<1>6. Cardinality(HyphenPlaces) = Cardinality(Until(p)) + Cardinality(From(p))
  <2>1. \A h : ~(h \in Until(p) /\ h \in From(p))
    BY <1>4 DEF Until, From
  <2> QED
    BY <1>2, <1>3, <1>5, <2>1, TwoParts
<1>7. Before(p) = Cardinality(Until(p))
  BY DEF Before, Until
<1> QED
  BY <1>1, <1>2, <1>3, <1>6, <1>7

LEMMA RankIn ==
  ASSUME NEW p \in Free36
  PROVE  p - Before(p) \in 1 .. Digits
<1>1. p \in 1 .. Length /\ p + 1 \in 1 .. Length + 1 /\ p \in 1 .. Length + 1
  BY Lengths DEF Free36
<1>2. Until(p + 1) = Until(p)
  <2>1. HyphenPlaces \subseteq 1 .. Length /\ p \notin HyphenPlaces
    BY SpellingAssumption DEF Free36
  <2>2. \A h \in HyphenPlaces : h < p + 1 <=> h < p
    BY <1>1, <2>1
  <2> QED
    BY <2>2 DEF Until
<1>3. Before(p + 1) = Before(p)
  BY <1>2 DEF Before, Until
<1>4. /\ Before(p) \in Nat /\ Before(p) <= p - 1
      /\ Cardinality(HyphenPlaces) - Before(p) <= Length - (p + 1) + 1
  BY <1>1, <1>3, UntilFrom
<1> QED
  BY <1>1, <1>4, Lengths

(* Digits stay in their order.                                             *)
LEMMA RankGrows ==
  ASSUME NEW p \in Free36, NEW q \in Free36, p < q
  PROVE  p - Before(p) < q - Before(q)
<1>1. p \in 1 .. Length /\ q \in 1 .. Length /\ p \notin HyphenPlaces
  BY DEF Free36
<1>2. HyphenPlaces \subseteq 1 .. Length /\ Length \in Nat
  BY SpellingAssumption, Lengths
<1> DEFINE between == {h \in HyphenPlaces : p < h /\ h < q}
<1>3. /\ IsFiniteSet(between) /\ Cardinality(between) \in Nat
      /\ Cardinality(between) <= (q - 1) - (p + 1) + 1
  <2>1. \A h \in between : h \in HyphenPlaces /\ h \in p + 1 .. q - 1
    BY <1>1, <1>2
  <2>2. p + 1 \in Int /\ q - 1 \in Int /\ p + 1 <= (q - 1) + 1
    BY <1>1, <1>2
  <2> HIDE DEF between
  <2> QED
    BY <2>1, <2>2, HyphensIn
<1>4. \A h \in HyphenPlaces : h \in Int /\ h # p /\ p \in Int /\ q \in Int
  BY <1>1, <1>2
<1>5. \A h : h \in Until(q) <=> h \in Until(p) \/ h \in between
  BY <1>4 DEF Until
<1>6. \A h : ~(h \in Until(p) /\ h \in between)
  BY <1>4 DEF Until
<1> HIDE DEF between
<1>7. IsFiniteSet(Until(p))
  <2>1. \A h \in Until(p) : h \in HyphenPlaces /\ h \in 1 .. p - 1
    BY <1>1, <1>2 DEF Until
  <2>2. 1 \in Int /\ p - 1 \in Int /\ 1 <= (p - 1) + 1
    BY <1>1, <1>2
  <2> QED
    BY <2>1, <2>2, HyphensIn
<1>8. Cardinality(Until(p)) \in Nat
  BY <1>7, FS_CardinalityType
<1>9. Cardinality(Until(q)) = Cardinality(Until(p)) + Cardinality(between)
  BY <1>3, <1>7, <1>5, <1>6, TwoParts
<1>10. Before(p) = Cardinality(Until(p)) /\ Before(q) = Cardinality(Until(q))
  BY DEF Before, Until
<1> QED
  BY <1>1, <1>2, <1>3, <1>8, <1>9, <1>10

(* Every digit has its place: as many places are free as there are digits. *)
LEMMA RankOnto ==
  ASSUME NEW i \in 1 .. Digits
  PROVE  \E p \in Free36 : p - Before(p) = i
<1> DEFINE rank == [p \in Free36 |-> p - Before(p)]
<1>1. \A p \in Free36 : p - Before(p) \in 1 .. Digits /\ p \in Nat
  BY RankIn, Lengths DEF Free36
<1>2. rank \in [Free36 -> 1 .. Digits]
  BY <1>1
<1>3. ASSUME NEW p \in Free36, NEW q \in Free36, rank[p] = rank[q] PROVE p = q
  <2>1. p - Before(p) = q - Before(q) /\ p \in Nat /\ q \in Nat
    BY <1>1, <1>3
  <2>2. ~(p < q) /\ ~(q < p)
    <3>1. p < q => p - Before(p) < q - Before(q)
      BY RankGrows
    <3>2. q < p => q - Before(q) < p - Before(p)
      BY RankGrows
    <3>3. p - Before(p) \in Int /\ q - Before(q) \in Int
      BY <1>1
    <3> QED
      BY <2>1, <3>1, <3>2, <3>3
  <2> QED
    BY <2>1, <2>2
<1>4. rank \in Injection(Free36, 1 .. Digits)
  BY <1>2, <1>3 DEF Injection, IsInjective
<1>5. IsFiniteSet(1 .. Digits) /\ Cardinality(1 .. Digits) = Digits
  BY FS_Interval, Lengths
<1>6. Cardinality(Free36) = Digits
  <2>1. IsFiniteSet(1 .. Length) /\ Cardinality(1 .. Length) = Length
    BY FS_Interval, Lengths
  <2>2. HyphenPlaces \in SUBSET (1 .. Length) /\ IsFiniteSet(HyphenPlaces)
    BY SpellingAssumption
  <2>3. Free36 \in SUBSET (1 .. Length)
    BY DEF Free36
  <2>4. IsFiniteSet(Free36)
    BY <2>1, <2>3, FS_Subset
  <2>5. \A p : p \in 1 .. Length <=> p \in Free36 \/ p \in HyphenPlaces
    BY <2>2 DEF Free36
  <2>6. \A p : ~(p \in Free36 /\ p \in HyphenPlaces)
    BY DEF Free36
  <2>7. Cardinality(1 .. Length) = Cardinality(Free36) + Cardinality(HyphenPlaces)
    <3>1. IsFiniteSet(HyphenPlaces)
      BY <2>2
    <3> DEFINE all == 1 .. Length
    <3>2. \A p : p \in all <=> p \in Free36 \/ p \in HyphenPlaces
      BY <2>5
    <3> HIDE DEF all
    <3>3. Cardinality(all) = Cardinality(Free36) + Cardinality(HyphenPlaces)
      BY <2>4, <2>6, <3>1, <3>2, TwoParts
    <3> QED
      BY <3>3 DEF all
  <2>8. Cardinality(Free36) \in Nat
    BY <2>4, FS_CardinalityType
  <2> QED
    BY <2>1, <2>7, <2>8, Lengths
<1> HIDE DEF rank
<1>7. rank \in Surjection(Free36, 1 .. Digits)
  BY <1>4, <1>5, <1>6, FS_Injection
<1>8. \E p \in Free36 : rank[p] = i
  BY <1>7 DEF Surjection
<1> QED
  BY <1>8 DEF rank

LEMMA DigitHasPlace ==
  ASSUME NEW i \in 1 .. Digits
  PROVE  DigitPlace(i) \in Free36 /\ DigitPlace(i) - Before(DigitPlace(i)) = i
BY RankOnto DEF DigitPlace, Free36

(* The parser looks for a digit where the formatter puts it.               *)
LEMMA PlaceOfRank ==
  ASSUME NEW p \in Free36
  PROVE  p - Before(p) \in 1 .. Digits /\ DigitPlace(p - Before(p)) = p
<1> DEFINE i == p - Before(p)
           q == DigitPlace(i)
<1>1. i \in 1 .. Digits
  BY RankIn
<1>2. q \in Free36 /\ q - Before(q) = i
  BY <1>1, DigitHasPlace
<1>3. p \in Nat /\ q \in Nat
  BY <1>2, Lengths DEF Free36
<1>4. p < q => i < q - Before(q)
  BY <1>2, RankGrows
<1>5. q < p => q - Before(q) < i
  BY <1>2, RankGrows
<1> HIDE DEF q, i
<1>6. q = p
  BY <1>1, <1>2, <1>3, <1>4, <1>5
<1> QED
  BY <1>1, <1>6 DEF q, i

-----------------------------------------------------------------------------
Digit == 0 .. Base - 1
Symbol == Digit \cup {Hyphen, Open, Close, Urn, Other}

(* The halves of a byte, and a byte of its halves.                         *)
LEMMA HalvesOf ==
  ASSUME NEW b \in Byte
  PROVE  b \div Base \in Digit /\ b % Base \in Digit
<1> DEFINE q == b \div Base
           r == b % Base
<1>1. Base \in Nat \ {0} /\ b \in Int /\ 0 <= b /\ b < Base * Base /\ Base * Base \in Int
  BY Lengths DEF Byte
<1>2. b = Base * q + r /\ r \in 0 .. Base - 1 /\ q \in Int
  BY <1>1, DivMod
<1> HIDE DEF q, r
<1>3. ASSUME q < 0 PROVE FALSE
  <2>1. Base * q <= Base * (-1)
    BY <1>1, <1>2, <1>3
  <2> QED
    BY <1>1, <1>2, <2>1
<1>4. ASSUME q >= Base PROVE FALSE
  <2>1. Base * q >= Base * Base
    BY <1>1, <1>2, <1>4
  <2> QED
    BY <1>1, <1>2, <2>1
<1>5. q \in 0 .. Base - 1
  BY <1>1, <1>2, <1>3, <1>4
<1> QED
  BY <1>2, <1>5 DEF q, r, Digit

LEMMA ByteOf ==
  ASSUME NEW a \in Digit, NEW b \in Digit
  PROVE  /\ a * Base + b \in Byte
         /\ (a * Base + b) \div Base = a /\ (a * Base + b) % Base = b
<1>1. Base \in Nat \ {0} /\ a \in 0 .. Base - 1 /\ b \in 0 .. Base - 1
  BY Lengths DEF Digit
<1>2. (Base * a + b) \div Base = a /\ (Base * a + b) % Base = b
  BY <1>1, DivUnique
<1>3. a * Base = Base * a /\ Base * a \in Int /\ Base * Base \in Int
  BY <1>1
<1>4. Base * a <= Base * (Base - 1) /\ Base * a >= 0
  BY <1>1
<1>5. Base * (Base - 1) = Base * Base - Base
  BY <1>1
<1>6. a * Base + b \in 0 .. Base * Base - 1
  BY <1>1, <1>3, <1>4, <1>5
<1> QED
  BY <1>2, <1>3, <1>6 DEF Byte

(* The digits of a byte are the two at its place.                          *)
LEMMA DigitIndex ==
  ASSUME NEW i \in 1 .. Digits
  PROVE  \/ i % 2 = 1 /\ (i + 1) \div 2 \in 1 .. UuidBytes /\ i = 2 * ((i + 1) \div 2) - 1
         \/ i % 2 = 0 /\ i \div 2 \in 1 .. UuidBytes /\ i = 2 * (i \div 2)
<1>1. Digits \in Nat \ {0} /\ Digits = 2 * UuidBytes /\ UuidBytes \in Nat /\ i \in Nat
  BY Lengths
<1> QED
  BY <1>1

LEMMA DigitsOfUuid ==
  ASSUME NEW u \in Uuids, NEW i \in 1 .. Digits
  PROVE  DigitOf(u, i) \in Digit
<1>1. \A j \in 1 .. UuidBytes : u[j] \in Byte
  BY DEF Uuids
<1>2. CASE i % 2 = 1 /\ (i + 1) \div 2 \in 1 .. UuidBytes
  BY <1>1, <1>2, HalvesOf DEF DigitOf
<1>3. CASE i % 2 = 0 /\ i \div 2 \in 1 .. UuidBytes
  BY <1>1, <1>3, HalvesOf DEF DigitOf
<1> QED
  BY <1>2, <1>3, DigitIndex

(* Two UUIDs of the same digits are one.                                   *)
LEMMA DigitsDetermine ==
  ASSUME NEW u \in Uuids, NEW w \in Uuids, \A i \in 1 .. Digits : DigitOf(u, i) = DigitOf(w, i)
  PROVE  u = w
<1>1. Digits = 2 * UuidBytes /\ UuidBytes \in Nat /\ Base \in Nat \ {0}
  BY Lengths
<1>2. ASSUME NEW j \in 1 .. UuidBytes PROVE u[j] = w[j]
  <2>1. u[j] \in Int /\ w[j] \in Int
    BY DEF Uuids, Byte
  <2>2. 2 * j - 1 \in 1 .. Digits /\ 2 * j \in 1 .. Digits
    BY <1>1
  <2>3. (2 * j - 1) % 2 = 1 /\ ((2 * j - 1) + 1) \div 2 = j /\ (2 * j) % 2 = 0 /\ (2 * j) \div 2 = j
    BY <1>1
  <2>4. /\ DigitOf(u, 2 * j - 1) = u[j] \div Base /\ DigitOf(w, 2 * j - 1) = w[j] \div Base
        /\ DigitOf(u, 2 * j) = u[j] % Base /\ DigitOf(w, 2 * j) = w[j] % Base
    BY <2>3 DEF DigitOf
  <2>5. u[j] \div Base = w[j] \div Base /\ u[j] % Base = w[j] % Base
    BY <2>2, <2>4
  <2>6. u[j] = Base * (u[j] \div Base) + (u[j] % Base)
    BY <1>1, <2>1, DivMod
  <2>7. w[j] = Base * (w[j] \div Base) + (w[j] % Base)
    BY <1>1, <2>1, DivMod
  <2> QED
    BY <2>5, <2>6, <2>7
<1>3. u = [j \in 1 .. UuidBytes |-> u[j]] /\ w = [j \in 1 .. UuidBytes |-> w[j]]
  BY DEF Uuids
<1>4. [j \in 1 .. UuidBytes |-> u[j]] = [j \in 1 .. UuidBytes |-> w[j]]
  BY <1>2
<1> QED
  BY <1>3, <1>4, Zenon

(* Bytes made of digits have these digits.                                 *)
LEMMA BytesRead ==
  ASSUME NEW ds \in [1 .. Digits -> Symbol]
  PROVE  \/ BytesOf(ds) = NoUuid /\ \E i \in 1 .. Digits : ds[i] < 0
         \/ /\ BytesOf(ds) \in Uuids /\ BytesOf(ds) # NoUuid
            /\ \A i \in 1 .. Digits : DigitOf(BytesOf(ds), i) = ds[i] /\ ds[i] >= 0
<1>1. Digits \in Nat \ {0} /\ Digits = 2 * UuidBytes /\ UuidBytes \in Nat \ {0} /\ Base \in Nat
  BY Lengths
<1>2. DOMAIN ds = 1 .. Digits /\ Len(ds) = Digits
  BY <1>1
<1>3. CASE \E i \in 1 .. Digits : ds[i] < 0
  BY <1>2, <1>3 DEF BytesOf
<1>4. CASE \A i \in 1 .. Digits : ~(ds[i] < 0)
  <2> DEFINE u == [i \in 1 .. UuidBytes |-> ds[2 * i - 1] * Base + ds[2 * i]]
  <2>1. Digits \div 2 = UuidBytes
    BY <1>1
  <2>2. BytesOf(ds) = u
    BY <1>2, <1>4, <2>1 DEF BytesOf
  <2>3. \A i \in 1 .. Digits : ds[i] \in Digit /\ ds[i] >= 0
    BY <1>1, <1>4 DEF Symbol, Digit, Hyphen, Open, Close, Urn, Other
  <2>4. \A j \in 1 .. UuidBytes : 2 * j - 1 \in 1 .. Digits /\ 2 * j \in 1 .. Digits
    BY <1>1
  <2>5. \A j \in 1 .. UuidBytes :
          /\ u[j] \in Byte /\ u[j] \div Base = ds[2 * j - 1] /\ u[j] % Base = ds[2 * j]
    BY <2>3, <2>4, ByteOf
  <2>6. u \in Uuids
    BY <2>5 DEF Uuids
  <2>7. u # << >>
    <3>1. DOMAIN u = 1 .. UuidBytes /\ 1 \in 1 .. UuidBytes
      BY <1>1
    <3>2. DOMAIN << >> = {}
      OBVIOUS
    <3> QED
      BY <3>1, <3>2
  <2> HIDE DEF u
  <2>8. ASSUME NEW i \in 1 .. Digits PROVE DigitOf(u, i) = ds[i]
    <3>1. CASE i % 2 = 1 /\ (i + 1) \div 2 \in 1 .. UuidBytes /\ i = 2 * ((i + 1) \div 2) - 1
      <4> DEFINE j == (i + 1) \div 2
      <4>1. u[j] \div Base = ds[2 * j - 1]
        BY <2>5, <3>1
      <4> QED
        BY <3>1, <4>1 DEF DigitOf
    <3>2. CASE i % 2 = 0 /\ i \div 2 \in 1 .. UuidBytes /\ i = 2 * (i \div 2)
      <4> DEFINE j == i \div 2
      <4>1. u[j] % Base = ds[2 * j]
        BY <2>5, <3>2
      <4> QED
        BY <3>2, <4>1 DEF DigitOf
    <3> QED
      BY <3>1, <3>2, DigitIndex
  <2> QED
    BY <2>2, <2>3, <2>6, <2>7, <2>8 DEF NoUuid
<1> QED
  BY <1>3, <1>4

-----------------------------------------------------------------------------
(* A text without wrappers, as the parser reads it.                        *)
ReadBare(s) ==
  IF Len(s) = Length /\ \A h \in HyphenPlaces : s[h] = Hyphen
  THEN BytesOf([i \in 1 .. Digits |-> s[DigitPlace(i)]])
  ELSE IF Len(s) = Digits THEN BytesOf(s) ELSE NoUuid

LEMMA SymbolsApart ==
  ASSUME NEW d \in Digit
  PROVE  d # Hyphen /\ d # Urn /\ d # Open /\ d \in Symbol /\ d \in Int /\ d >= 0
BY Lengths DEF Digit, Symbol, Hyphen, Urn, Open

(* What is accepted is one of the forms of what it is taken for.           *)
LEMMA AcceptedIsForm ==
  ASSUME NEW s \in Seq(Symbol), ReadBare(s) # NoUuid
  PROVE  ReadBare(s) \in Uuids /\ s \in Forms(ReadBare(s))
<1>1. Len(s) \in Nat /\ s \in [1 .. Len(s) -> Symbol]
  BY LenProperties
<1>2. CASE Len(s) = Length /\ \A h \in HyphenPlaces : s[h] = Hyphen
  <2> DEFINE ds == [i \in 1 .. Digits |-> s[DigitPlace(i)]]
  <2>1. ReadBare(s) = BytesOf(ds)
    BY <1>2 DEF ReadBare
  <2>2. \A i \in 1 .. Digits : DigitPlace(i) \in 1 .. Length
    BY DigitHasPlace DEF Free36
  <2>3. s \in [1 .. Length -> Symbol]
    BY <1>1, <1>2
  <2>4. ds \in [1 .. Digits -> Symbol]
    BY <2>2, <2>3
  <2>5. \A i \in 1 .. Digits : ds[i] = s[DigitPlace(i)]
    OBVIOUS
  <2> HIDE DEF ds
  <2> DEFINE u == BytesOf(ds)
  <2>6. u \in Uuids /\ \A i \in 1 .. Digits : DigitOf(u, i) = ds[i]
    BY <2>1, <2>4, BytesRead
  <2> HIDE DEF u
  <2>7. ASSUME NEW p \in 1 .. Length
        PROVE  s[p] = IF p \in HyphenPlaces THEN Hyphen ELSE DigitOf(u, p - Before(p))
    <3>1. CASE p \in HyphenPlaces
      BY <1>2, <3>1
    <3>2. CASE p \notin HyphenPlaces
      <4>1. p \in Free36
        BY <3>2 DEF Free36
      <4>2. p - Before(p) \in 1 .. Digits /\ DigitPlace(p - Before(p)) = p
        BY <4>1, PlaceOfRank
      <4>3. DigitOf(u, p - Before(p)) = s[p]
        BY <2>5, <2>6, <4>2
      <4> QED
        BY <3>2, <4>3
    <3> QED
      BY <3>1, <3>2
  <2>8. s = Format36(u)
    BY <2>3, <2>7 DEF Format36
  <2> QED
    BY <2>1, <2>6, <2>8 DEF u, Forms
<1>3. CASE ~(Len(s) = Length /\ \A h \in HyphenPlaces : s[h] = Hyphen) /\ Len(s) = Digits
  <2>1. ReadBare(s) = BytesOf(s)
    BY <1>3 DEF ReadBare
  <2>2. s \in [1 .. Digits -> Symbol]
    BY <1>1, <1>3
  <2> DEFINE u == BytesOf(s)
  <2>3. u \in Uuids /\ \A i \in 1 .. Digits : DigitOf(u, i) = s[i]
    BY <2>1, <2>2, BytesRead
  <2> HIDE DEF u
  <2>4. s = Bare(u)
    BY <2>2, <2>3 DEF Bare
  <2> QED
    BY <2>1, <2>3, <2>4 DEF u, Forms
<1> QED
  BY <1>2, <1>3 DEF ReadBare

(* A form is a text whose first symbol is not a wrapper's.                 *)
Unwrappable(s) ==
  s \in Seq(Symbol) /\ Len(s) > 0 /\ s[1] # Urn /\ s[1] # Open

LEMMA BytesReadBack ==
  ASSUME NEW u \in Uuids, NEW ds \in [1 .. Digits -> Symbol],
         \A i \in 1 .. Digits : ds[i] = DigitOf(u, i)
  PROVE  BytesOf(ds) = u /\ u # NoUuid
<1>1. \A i \in 1 .. Digits : ~(ds[i] < 0)
  BY DigitsOfUuid, SymbolsApart
<1>2. /\ BytesOf(ds) \in Uuids /\ BytesOf(ds) # NoUuid
      /\ \A i \in 1 .. Digits : DigitOf(BytesOf(ds), i) = ds[i]
  BY <1>1, BytesRead
<1>3. BytesOf(ds) = u
  BY <1>2, DigitsDetermine
<1> QED
  BY <1>2, <1>3

LEMMA FormIsText ==
  ASSUME NEW u \in Uuids, NEW s \in Forms(u)
  PROVE  Unwrappable(s) /\ ReadBare(s) = u /\ u # NoUuid
<1>1. Digits \in Nat \ {0} /\ Length \in Nat \ {0}
  BY Lengths
<1>2. \A i \in 1 .. Digits : DigitOf(u, i) \in Digit
  BY DigitsOfUuid
<1>3. CASE s = Format36(u)
  <2>1. \A p \in 1 .. Length : p \notin HyphenPlaces => p - Before(p) \in 1 .. Digits
    BY RankIn DEF Free36
  <2>2. ASSUME NEW p \in 1 .. Length PROVE s[p] \in Symbol /\ s[p] # Urn /\ s[p] # Open
    <3>1. CASE p \in HyphenPlaces
      <4>1. s[p] = Hyphen
        BY <1>3, <3>1 DEF Format36
      <4> QED
        BY <4>1 DEF Symbol, Hyphen, Urn, Open
    <3>2. CASE p \notin HyphenPlaces
      <4>1. s[p] \in Digit
        BY <1>2, <1>3, <2>1, <3>2 DEF Format36
      <4> QED
        BY <4>1, SymbolsApart
    <3> QED
      BY <3>1, <3>2
  <2>3. s \in [1 .. Length -> Symbol]
    <3>1. s = [p \in 1 .. Length |-> s[p]]
      BY <1>3 DEF Format36
    <3> QED
      BY <2>2, <3>1
  <2>4. s \in Seq(Symbol) /\ Len(s) = Length
    BY <1>1, <2>3, SeqDef
  <2>5. Unwrappable(s)
    BY <1>1, <2>2, <2>4 DEF Unwrappable
  <2>6. \A h \in HyphenPlaces : h \in 1 .. Length /\ s[h] = Hyphen
    BY <1>3, SpellingAssumption DEF Format36
  <2> DEFINE ds == [i \in 1 .. Digits |-> s[DigitPlace(i)]]
  <2>7. ReadBare(s) = BytesOf(ds)
    BY <2>4, <2>6 DEF ReadBare
  <2>8. ASSUME NEW i \in 1 .. Digits
        PROVE  s[DigitPlace(i)] = DigitOf(u, i) /\ s[DigitPlace(i)] \in Symbol
    <3>1. DigitPlace(i) \in 1 .. Length /\ DigitPlace(i) \notin HyphenPlaces
          /\ DigitPlace(i) - Before(DigitPlace(i)) = i
      BY DigitHasPlace DEF Free36
    <3>2. s[DigitPlace(i)] = DigitOf(u, i)
      BY <1>3, <3>1 DEF Format36
    <3> QED
      BY <1>2, <3>2, SymbolsApart
  <2>9. ds \in [1 .. Digits -> Symbol] /\ \A i \in 1 .. Digits : ds[i] = DigitOf(u, i)
    BY <2>8
  <2> HIDE DEF ds
  <2>10. BytesOf(ds) = u /\ u # NoUuid
    BY <2>9, BytesReadBack
  <2> QED
    BY <2>5, <2>7, <2>10
<1>4. CASE s = Bare(u)
  <2>1. \A i \in 1 .. Digits : s[i] \in Digit
    BY <1>2, <1>4 DEF Bare
  <2>2. \A i \in 1 .. Digits :
          s[i] \in Symbol /\ ~(s[i] < 0) /\ s[i] # Hyphen /\ s[i] # Urn /\ s[i] # Open
    BY <2>1, SymbolsApart
  <2>3. s \in [1 .. Digits -> Symbol]
    <3>1. s = [i \in 1 .. Digits |-> s[i]]
      BY <1>4 DEF Bare
    <3> QED
      BY <2>2, <3>1
  <2>4. s \in Seq(Symbol) /\ Len(s) = Digits
    BY <1>1, <2>3, SeqDef
  <2>5. Unwrappable(s)
    BY <1>1, <2>2, <2>4 DEF Unwrappable
  <2>6. BytesOf(s) = u /\ u # NoUuid
    <3>1. \A i \in 1 .. Digits : s[i] = DigitOf(u, i)
      BY <1>4 DEF Bare
    <3> QED
      BY <2>3, <3>1, BytesReadBack
  <2>7. CASE ~(Len(s) = Length /\ \A h \in HyphenPlaces : s[h] = Hyphen)
    BY <2>4, <2>5, <2>6, <2>7 DEF ReadBare
  <2>8. CASE Len(s) = Length /\ \A h \in HyphenPlaces : s[h] = Hyphen
    <3> DEFINE ds == [i \in 1 .. Digits |-> s[DigitPlace(i)]]
    <3>1. ReadBare(s) = BytesOf(ds)
      BY <2>8 DEF ReadBare
    <3>2. Length = Digits /\ Cardinality(HyphenPlaces) = 0
      BY <2>4, <2>8, Lengths
    <3>3. HyphenPlaces = {}
      BY <3>2, SpellingAssumption, FS_EmptySet
    <3>4. \A i \in 1 .. Digits : i \in Free36 /\ Before(i) = 0
      BY <3>2, <3>3, FS_EmptySet DEF Free36, Before
    <3>5. \A i \in 1 .. Digits : i - Before(i) = i
      BY <3>4, Lengths
    <3>6. \A i \in 1 .. Digits : DigitPlace(i) = i
      BY <3>4, <3>5, PlaceOfRank
    <3>7. \A i \in 1 .. Digits : s[i] = DigitOf(u, i)
      BY <1>4 DEF Bare
    <3>8. ds \in [1 .. Digits -> Symbol] /\ \A i \in 1 .. Digits : ds[i] = DigitOf(u, i)
      BY <2>3, <3>6, <3>7
    <3> HIDE DEF ds
    <3>9. BytesOf(ds) = u
      BY <3>8, BytesReadBack
    <3> QED
      BY <2>5, <2>6, <3>1, <3>9
  <2> QED
    BY <2>7, <2>8
<1> QED
  BY <1>3, <1>4 DEF Forms

-----------------------------------------------------------------------------
(* Wrappers.                                                               *)

AfterUrn(t) == <<Urn>> \o t
InBraces(t) == <<Open>> \o t \o <<Close>>

LEMMA Prefixed ==
  ASSUME NEW t \in Seq(Symbol)
  PROVE  /\ AfterUrn(t) \in Seq(Symbol) /\ Len(AfterUrn(t)) = Len(t) + 1
         /\ AfterUrn(t)[1] = Urn /\ Tail(AfterUrn(t)) = t
BY DEF AfterUrn, Symbol

LEMMA Braced ==
  ASSUME NEW t \in Seq(Symbol)
  PROVE  /\ InBraces(t) \in Seq(Symbol) /\ Len(InBraces(t)) = Len(t) + 2
         /\ InBraces(t)[1] = Open /\ InBraces(t)[Len(InBraces(t))] = Close
         /\ SubSeq(InBraces(t), 2, Len(InBraces(t)) - 1) = t
<1> DEFINE b == InBraces(t)
<1>1. Open \in Symbol /\ Close \in Symbol
  BY DEF Symbol
<1>2. b \in Seq(Symbol) /\ Len(b) = Len(t) + 2 /\ Len(t) \in Nat
  BY <1>1 DEF InBraces
<1>3. b[1] = Open /\ b[Len(b)] = Close /\ \A i \in 1 .. Len(t) : b[i + 1] = t[i]
  BY <1>1 DEF InBraces
<1> HIDE DEF b
<1> DEFINE m == SubSeq(b, 2, Len(b) - 1)
<1>4. m \in Seq(Symbol) /\ Len(m) = Len(t) /\ \A i \in 1 .. Len(t) : m[i] = b[i + 1]
  BY <1>2
<1> HIDE DEF m
<1>5. m = t
  BY <1>2, <1>3, <1>4
<1> QED
  BY <1>2, <1>3, <1>5 DEF b, m

LEMMA UrnTaken ==
  ASSUME NEW t \in Seq(Symbol)
  PROVE  WithoutUrn(t) \in Seq(Symbol) /\ (t = WithoutUrn(t) \/ t = AfterUrn(WithoutUrn(t)))
<1>1. CASE t # << >> /\ t[1] = Urn
  <2>1. WithoutUrn(t) = Tail(t)
    BY <1>1 DEF WithoutUrn
  <2>2. Tail(t) \in Seq(Symbol)
    BY <1>1
  <2>3. t = <<Urn>> \o Tail(t)
    <3> DEFINE r == Tail(t)
               c == <<Urn>> \o r
    <3>1. Urn \in Symbol
      BY DEF Symbol
    <3>2. Len(t) \in Nat /\ Len(t) > 0 /\ Len(r) = Len(t) - 1 /\ \A i \in 1 .. Len(r) : r[i] = t[i + 1]
      BY <1>1
    <3> HIDE DEF r
    <3>3. r \in Seq(Symbol)
      BY <2>2 DEF r
    <3>4. /\ c \in Seq(Symbol) /\ Len(c) = Len(r) + 1 /\ c[1] = Urn
          /\ \A i \in 2 .. Len(c) : c[i] = r[i - 1]
      BY <3>1, <3>3
    <3> HIDE DEF c
    <3>5. \A i \in 1 .. Len(t) : c[i] = t[i]
      BY <1>1, <3>2, <3>4
    <3>6. c = t
      BY <3>2, <3>4, <3>5
    <3> QED
      BY <3>6 DEF c, r
  <2> QED
    BY <2>1, <2>2, <2>3 DEF AfterUrn
<1>2. CASE ~(t # << >> /\ t[1] = Urn)
  BY <1>2 DEF WithoutUrn
<1> QED
  BY <1>1, <1>2

LEMMA BracesTaken ==
  ASSUME NEW t \in Seq(Symbol)
  PROVE  WithoutBraces(t) \in Seq(Symbol) /\ (t = WithoutBraces(t) \/ t = InBraces(WithoutBraces(t)))
<1>1. CASE Len(t) >= 2 /\ t[1] = Open /\ t[Len(t)] = Close
  <2> DEFINE m == SubSeq(t, 2, Len(t) - 1)
             b == InBraces(m)
  <2>1. WithoutBraces(t) = m
    BY <1>1 DEF WithoutBraces
  <2>2. Len(t) \in Nat
    OBVIOUS
  <2>3. m \in Seq(Symbol) /\ Len(m) = Len(t) - 2 /\ \A i \in 1 .. Len(m) : m[i] = t[i + 1]
    <3> DEFINE e == Len(t) - 1
    <3>1. e \in Int /\ e >= 1 /\ e <= Len(t)
      BY <1>1, <2>2
    <3> HIDE DEF e
    <3> DEFINE r == SubSeq(t, 2, e)
    <3>2. r \in Seq(Symbol) /\ Len(r) = e - 1
      BY <2>2, <3>1
    <3>3. \A i \in 1 .. e - 1 : r[i] = t[i + 1]
      BY <2>2, <3>1
    <3> HIDE DEF r
    <3>4. r \in Seq(Symbol) /\ Len(r) = Len(t) - 2 /\ \A i \in 1 .. Len(r) : r[i] = t[i + 1]
      BY <2>2, <3>2, <3>3 DEF e
    <3> QED
      BY <3>4 DEF r, e
  <2> HIDE DEF m
  <2>4. Open \in Symbol /\ Close \in Symbol
    BY DEF Symbol
  <2>5. /\ b \in Seq(Symbol) /\ Len(b) = Len(m) + 2 /\ b[1] = Open /\ b[Len(m) + 2] = Close
        /\ \A i \in 1 .. Len(m) : b[i + 1] = m[i]
    BY <2>3, <2>4 DEF InBraces
  <2> HIDE DEF b
  <2>6. ASSUME NEW i \in 1 .. Len(t) PROVE b[i] = t[i]
    <3>1. CASE i = 1
      BY <1>1, <2>5, <3>1
    <3>2. CASE i = Len(t)
      BY <1>1, <2>2, <2>3, <2>5, <3>2
    <3>3. CASE i # 1 /\ i # Len(t)
      <4>1. i - 1 \in 1 .. Len(m) /\ (i - 1) + 1 = i
        BY <1>1, <2>2, <2>3, <3>3
      <4> QED
        BY <2>3, <2>5, <4>1
    <3> QED
      BY <3>1, <3>2, <3>3
  <2>7. b = t
    BY <1>1, <2>2, <2>3, <2>5, <2>6
  <2> QED
    BY <2>1, <2>3, <2>7 DEF b
<1>2. CASE ~(Len(t) >= 2 /\ t[1] = Open /\ t[Len(t)] = Close)
  BY <1>2 DEF WithoutBraces
<1> QED
  BY <1>1, <1>2

LEMMA InWrapperIs ==
  ASSUME NEW T, NEW t \in T
  PROVE  t \in InWrapper(T) /\ AfterUrn(t) \in InWrapper(T) /\ InBraces(t) \in InWrapper(T)
BY DEF InWrapper, Wraps, AfterUrn, InBraces

(* One pass takes at most two wrappers.                                    *)
LEMMA PassTakes ==
  ASSUME NEW t \in Seq(Symbol), NEW T, Unwrapped(t) \in T
  PROVE  Unwrapped(t) \in Seq(Symbol) /\ t \in InWrapper(InWrapper(T))
<1> DEFINE v == WithoutUrn(t)
           w == WithoutBraces(v)
<1>1. v \in Seq(Symbol) /\ (t = v \/ t = AfterUrn(v))
  BY UrnTaken
<1>2. Unwrapped(t) = w
  BY DEF Unwrapped
<1> HIDE DEF v
<1>3. w \in Seq(Symbol) /\ (v = w \/ v = InBraces(w))
  BY <1>1, BracesTaken
<1> HIDE DEF w
<1>4. v \in InWrapper(T)
  BY <1>2, <1>3, InWrapperIs
<1>5. t \in InWrapper(InWrapper(T))
  BY <1>1, <1>4, InWrapperIs
<1> QED
  BY <1>2, <1>3, <1>5

(* What one pass leaves of a text without wrappers, or in one or two.      *)
LEMMA PassBare ==
  ASSUME NEW s, Unwrappable(s)
  PROVE  Unwrapped(s) = s
BY DEF Unwrappable, Unwrapped, WithoutUrn, WithoutBraces

LEMMA UrnOff ==
  ASSUME NEW t \in Seq(Symbol)
  PROVE  WithoutUrn(AfterUrn(t)) = t
<1>1. AfterUrn(t) # << >> /\ AfterUrn(t)[1] = Urn /\ Tail(AfterUrn(t)) = t
  BY Prefixed
<1> QED
  BY <1>1 DEF WithoutUrn

LEMMA BracesOff ==
  ASSUME NEW t \in Seq(Symbol)
  PROVE  WithoutUrn(InBraces(t)) = InBraces(t) /\ WithoutBraces(InBraces(t)) = t
<1>1. /\ InBraces(t) \in Seq(Symbol) /\ Len(InBraces(t)) = Len(t) + 2 /\ Len(t) \in Nat
      /\ InBraces(t)[1] = Open /\ InBraces(t)[Len(InBraces(t))] = Close
      /\ SubSeq(InBraces(t), 2, Len(InBraces(t)) - 1) = t
  BY Braced
<1>2. Open # Urn
  BY DEF Open, Urn
<1> QED
  BY <1>1, <1>2 DEF WithoutUrn, WithoutBraces

LEMMA BracesKept ==
  ASSUME NEW t \in Seq(Symbol), Len(t) = 0 \/ t[1] # Open
  PROVE  WithoutBraces(t) = t
BY DEF WithoutBraces

LEMMA TwoWrappers ==
  ASSUME NEW T, NEW t \in InWrapper(InWrapper(T))
  PROVE  \E s \in T : \E v \in Wraps(s) : t \in Wraps(v)
BY DEF InWrapper

(* Two passes take any two wrappers.                                       *)
LEMMA PassesTakeTwo ==
  ASSUME NEW s, Unwrappable(s), NEW v \in Wraps(s), NEW t \in Wraps(v)
  PROVE  t \in Seq(Symbol) /\ Stripped(t) = s
<1>1. s \in Seq(Symbol) /\ Len(s) > 0 /\ s[1] # Urn /\ s[1] # Open
  BY DEF Unwrappable
<1>2. v \in {s, AfterUrn(s), InBraces(s)} /\ t \in {v, AfterUrn(v), InBraces(v)}
  BY DEF Wraps, AfterUrn, InBraces
<1>3. Urn # Open
  BY DEF Urn, Open
<1>4. Unwrapped(s) = s /\ WithoutBraces(s) = s
  BY <1>1, PassBare, BracesKept
<1>5. AfterUrn(s) \in Seq(Symbol) /\ WithoutBraces(AfterUrn(s)) = AfterUrn(s)
  BY <1>1, <1>3, Prefixed, BracesKept
<1>6. InBraces(s) \in Seq(Symbol)
  BY <1>1, Braced
<1>7. Unwrapped(AfterUrn(s)) = s /\ Unwrapped(InBraces(s)) = s
  BY <1>1, <1>4, UrnOff, BracesOff DEF Unwrapped
<1>8. /\ AfterUrn(AfterUrn(s)) \in Seq(Symbol) /\ InBraces(AfterUrn(s)) \in Seq(Symbol)
      /\ AfterUrn(InBraces(s)) \in Seq(Symbol) /\ InBraces(InBraces(s)) \in Seq(Symbol)
  BY <1>5, <1>6, Prefixed, Braced
<1>9. /\ Unwrapped(AfterUrn(AfterUrn(s))) = AfterUrn(s)
      /\ Unwrapped(InBraces(AfterUrn(s))) = AfterUrn(s)
  BY <1>5, UrnOff, BracesOff DEF Unwrapped
<1>10. /\ Unwrapped(AfterUrn(InBraces(s))) = s
       /\ Unwrapped(InBraces(InBraces(s))) = InBraces(s)
  BY <1>1, <1>6, UrnOff, BracesOff DEF Unwrapped
<1>11. CASE v = s
  BY <1>1, <1>2, <1>4, <1>5, <1>6, <1>7, <1>11 DEF Stripped
<1>12. CASE v = AfterUrn(s)
  BY <1>2, <1>4, <1>5, <1>7, <1>8, <1>9, <1>12 DEF Stripped
<1>13. CASE v = InBraces(s)
  BY <1>2, <1>4, <1>6, <1>7, <1>8, <1>10, <1>13 DEF Stripped
<1> QED
  BY <1>2, <1>11, <1>12, <1>13

(* fu_parse, on any text of any length: what it accepts spells the UUID it *)
(* returns, and it refuses nothing that is documented.                     *)
THEOREM ParserExact ==
  ASSUME NEW t \in Seq(Symbol)
  PROVE  /\ Parse(t) # NoUuid => Parse(t) \in Uuids /\ Spells(t, Parse(t))
         /\ Parse(t) = NoUuid => t \notin Documented
<1> DEFINE v == Unwrapped(t)
           s == Unwrapped(v)
<1>1. Parse(t) = ReadBare(s) /\ s = Stripped(t)
  BY DEF Parse, ReadBare, Stripped
<1>2. ASSUME ReadBare(s) # NoUuid
      PROVE  ReadBare(s) \in Uuids /\ Spells(t, ReadBare(s))
  <2>1. v \in Seq(Symbol)
    <3>1. v \in {v}
      OBVIOUS
    <3> QED
      BY <3>1, PassTakes
  <2>2. s \in Seq(Symbol)
    <3>1. s \in {s}
      OBVIOUS
    <3> HIDE DEF v
    <3> QED
      BY <2>1, <3>1, PassTakes
  <2> DEFINE u == ReadBare(s)
             F == Forms(u)
  <2>3. u \in Uuids /\ s \in F
    BY <1>2, <2>2, AcceptedIsForm
  <2> HIDE DEF u, F
  <2>4. v \in InWrapper(InWrapper(F))
    <3> HIDE DEF v
    <3> QED
      BY <2>1, <2>3, PassTakes
  <2> HIDE DEF s
  <2>5. t \in InWrapper(InWrapper(InWrapper(InWrapper(F))))
    BY <2>4, PassTakes
  <2> QED
    BY <2>3, <2>5 DEF Spells, u, F
<1>3. ASSUME t \in Documented PROVE ReadBare(s) # NoUuid
  <2> DEFINE F == UNION {Forms(u) : u \in Uuids}
  <2>1. PICK f \in F : \E w \in Wraps(f) : t \in Wraps(w)
    <3>1. t \in InWrapper(InWrapper(F))
      BY <1>3 DEF Documented
    <3> HIDE DEF F
    <3> QED
      BY <3>1, TwoWrappers
  <2>2. PICK u \in Uuids : f \in Forms(u)
    OBVIOUS
  <2>3. Unwrappable(f) /\ ReadBare(f) = u /\ u # NoUuid
    BY <2>2, FormIsText
  <2>4. Stripped(t) = f
    BY <2>1, <2>3, PassesTakeTwo
  <2> QED
    BY <1>1, <2>3, <2>4
<1> QED
  BY <1>1, <1>2, <1>3

(* And the UUID it returns is the one that was spelled, in either form and *)
(* any two wrappers: in particular it reads back what fu_format36 writes.  *)
THEOREM SpellingsRead ==
  ASSUME NEW u \in Uuids, NEW t \in InWrapper(InWrapper(Forms(u)))
  PROVE  Parse(t) = u /\ u # NoUuid
<1>1. PICK f \in Forms(u) : \E w \in Wraps(f) : t \in Wraps(w)
  BY TwoWrappers
<1>2. Unwrappable(f) /\ ReadBare(f) = u /\ u # NoUuid
  BY FormIsText
<1>3. Stripped(t) = f
  BY <1>1, <1>2, PassesTakeTwo
<1>4. Parse(t) = ReadBare(Stripped(t))
  BY DEF Parse, ReadBare
<1> QED
  BY <1>2, <1>3, <1>4


-----------------------------------------------------------------------------
(* Texts that are tried are texts.                                         *)
LEMMA OverSymbols ==
  ASSUME NEW S \in SUBSET Symbol, NEW n, NEW t \in TextsOver(S, n)
  PROVE  t \in Seq(Symbol)
<1>1. PICK k \in 0 .. n : t \in [1 .. k -> S]
  BY DEF TextsOver
<1>2. t \in [1 .. k -> Symbol] /\ k \in Nat
  BY <1>1
<1> QED
  BY <1>2, SeqDef

LEMMA JoinedTexts ==
  ASSUME NEW S \in SUBSET Seq(Symbol), NEW T \in SUBSET Seq(Symbol)
  PROVE  Joined(S, T) \in SUBSET Seq(Symbol)
<1> SUFFICES ASSUME NEW t \in Joined(S, T) PROVE t \in Seq(Symbol)
  OBVIOUS
<1>1. PICK pair \in S \X T : t = pair[1] \o pair[2]
  BY DEF Joined
<1>2. pair[1] \in Seq(Symbol) /\ pair[2] \in Seq(Symbol)
  OBVIOUS
<1> QED
  BY <1>1, <1>2

LEMMA TriedAreTexts == Tried \subseteq Seq(Symbol)
<1>1. {0, Base - 1, Hyphen, Open, Close, Urn} \in SUBSET Symbol
  BY Lengths DEF Symbol, Digit
<1>2. {Urn, Open} \in SUBSET Symbol /\ {Close, Other} \in SUBSET Symbol
  BY DEF Symbol
<1> DEFINE shown == [i \in 1 .. UuidBytes |-> i]
<1>3. shown \in Uuids
  BY Lengths DEF Uuids, Byte
<1> HIDE DEF shown
<1>4. Loose(shown) \subseteq Seq(Symbol)
  <2>1. TextsOver({Urn, Open}, 5) \in SUBSET Seq(Symbol)
    BY <1>2, OverSymbols
  <2>2. TextsOver({Close, Other}, 3) \in SUBSET Seq(Symbol)
    BY <1>2, OverSymbols
  <2>3. Forms(shown) \in SUBSET Seq(Symbol)
    BY <1>3, FormIsText DEF Unwrappable
  <2>4. Joined(TextsOver({Urn, Open}, 5), Forms(shown)) \in SUBSET Seq(Symbol)
    BY <2>1, <2>3, JoinedTexts, Zenon
  <2>5. Joined(Joined(TextsOver({Urn, Open}, 5), Forms(shown)), TextsOver({Close, Other}, 3))
          \in SUBSET Seq(Symbol)
    BY <2>2, <2>4, JoinedTexts, Zenon
  <2> QED
    BY <2>5, Zenon DEF Loose
<1>5. TextsOver({0, Base - 1, Hyphen, Open, Close, Urn}, Length + 1) \subseteq Seq(Symbol)
  BY <1>1, OverSymbols
<1> QED
  BY <1>4, <1>5, Zenon DEF Tried, shown

-----------------------------------------------------------------------------
(* What a literal was read as.                                             *)
LiteralOK ==
  call.by = "literal" =>
    /\ call.fn \in Readers /\ call.step = "done"
    /\ \E a \in Literals(call.fn) : call.given = <<a>> /\ call.answer = ReadLiteral(call.fn, a)

(* Every other call has an entry of its own, and it keeps that.            *)
LEMMA NextLiteral ==
  ASSUME IInv, LiteralOK, [Next]_vars
  PROVE  LiteralOK'
<1>1. CASE UNCHANGED call
  BY <1>1 DEF LiteralOK
<1>2. CASE call' = NoCall
  BY <1>2 DEF LiteralOK, NoCall
<1>3. ASSUME Working(call), call'.by = call.by PROVE LiteralOK'
  BY <1>3 DEF IInv, CallOK, WorkOK, LiteralOK
<1>4. ASSUME NEW x \in Vars, UserCode(x) PROVE LiteralOK'
  BY <1>1, <1>4 DEF UserCode
<1>5. ASSUME NEW x \in Vars, StringReturned(x) \/ TextReturned(x) PROVE LiteralOK'
  BY <1>3, <1>5 DEF StringReturned, TextReturned, Resolved, Working, Waiting, IInv, CallOK, Record
<1>6. ASSUME NEW fn, NEW zs, Direct(fn, zs) PROVE LiteralOK'
  BY <1>6 DEF Direct, LiteralOK, NoCall
<1>7. ASSUME NEW fn \in Functions, NEW by \in Entries(fn), NEW strict, NEW zs,
             Enter(fn, by, strict, zs)
      PROVE  LiteralOK'
  <2>1. by # "literal"
    BY DEF Entries
  <2>2. call'.by = by
    BY <1>7 DEF Enter, NoCall
  <2> QED
    BY <2>1, <2>2 DEF LiteralOK
<1>8. ASSUME Fresh, NEW reader \in Readers, NEW a \in Literals(reader), Literal(reader, a)
      PROVE  LiteralOK'
  <2>1. /\ call'.by = "literal" /\ call'.fn = reader /\ call'.step = "done"
        /\ call'.given = <<a>> /\ call'.answer = ReadLiteral(reader, a)
    BY <1>8 DEF Literal, NoCall
  <2> QED
    BY <2>1 DEF LiteralOK
<1>9. CASE Leave
  BY <1>2, <1>9 DEF Leave
<1>10. CASE KeepsString \/ KeepsObject \/ ConvertsUuid \/ CallsUser \/ HandlerReturned
  BY <1>3, <1>10 DEF KeepsString, KeepsObject, ConvertsUuid, CallsUser, HandlerReturned, Coercing,
                     Working, Waiting, IInv, CallOK, Record
<1>11. ASSUME Working(call), NEW answer, NEW given, Return(answer, given) PROVE LiteralOK'
  BY <1>3, <1>11 DEF Return, NoCall
<1>12. CASE TypeError \/ UserThrows \/ Finish
  BY <1>11, <1>12 DEF TypeError, UserThrows, Finish, Fail, Coercing, Coerced, Working, Waiting
<1>13. ASSUME Working(call), NEW step, NEW object, Asks(step, object) PROVE LiteralOK'
  BY <1>3, <1>13 DEF Asks, IInv, CallOK, Record
<1>14. CASE ResolveUuid \/ ResolveObject \/ CoreReturned \/ CoreUseless
  <2>1. Working(call)
    BY <1>14 DEF ResolveUuid, ResolveObject, CoreReturned, CoreUseless, Coerced, Working, Waiting
  <2>2. ASSUME NEW t, Resolved(t) PROVE LiteralOK'
    BY <1>3, <2>1, <2>2 DEF Resolved, IInv, CallOK, Record
  <2>3. CASE Fail
    BY <1>11, <2>1, <2>3 DEF Fail
  <2> QED
    BY <1>13, <1>14, <2>1, <2>2, <2>3 DEF ResolveUuid, ResolveObject, CoreReturned, CoreUseless
<1> QED
  BY <1>1, <1>4, <1>5, <1>6, <1>7, <1>8, <1>9, <1>10, <1>12, <1>14 DEF Next, vars

(* fu_parse() reads what is formatted, in any two wrappers, and whatever   *)
(* it accepts is the UUID it says, whatever the calls before it did.       *)
THEOREM ParserReadsExactly == Spec => []ParsesExactly
<1>1. Init => LiteralOK
  BY DEF Init, NoCall, LiteralOK
<1>2. IInv /\ LiteralOK /\ [Next]_vars => LiteralOK'
  BY NextLiteral
<1>3. LiteralOK => ParsesExactly
  <2> SUFFICES ASSUME LiteralOK, Reads("parse") PROVE /\ call.answer # Throws => Spells(Argument, Result)
                                                      /\ call.answer = Throws => Argument \notin Documented
    BY DEF ParsesExactly
  <2>1. PICK a \in Tried : call.given = <<a>> /\ call.answer = ReadLiteral("parse", a)
    BY DEF LiteralOK, Reads, Literals
  <2>2. a \in Seq(Symbol) /\ Argument = a
    BY <2>1, TriedAreTexts DEF Argument
  <2>3. call.answer = IF Parse(a) = NoUuid THEN Throws ELSE <<"uuid", "parse", Parse(a)>>
    BY <2>1 DEF ReadLiteral, OneText, Work, NameBased, UuidOf
  <2>4. CASE Parse(a) = NoUuid
    BY <2>2, <2>3, <2>4, ParserExact
  <2>5. CASE Parse(a) # NoUuid
    <3>1. call.answer = <<"uuid", "parse", Parse(a)>> /\ Spells(a, Parse(a))
      BY <2>2, <2>3, <2>5, ParserExact
    <3>2. call.answer # Throws /\ Result = Parse(a)
      BY <3>1 DEF Throws, Result
    <3> QED
      BY <2>2, <3>1, <3>2
  <2> QED
    BY <2>4, <2>5
<1> QED
  BY <1>1, <1>2, <1>3, IInvHolds, PTL DEF Spec

-----------------------------------------------------------------------------
(* The slot table, for any extensions, any php.ini and any number of loads.*)

(* What a slot may hold and what may be loaded.                            *)
Slots == [at : (Addresses \X Nat) \cup {Data}, function : (DOMAIN Sizes) \X Nat]
Modules == [name : DOMAIN Sizes, version : Versions \cup {NoVersion}, base : Addresses,
            first : Nat, temporary : BOOLEAN, frameless : BOOLEAN]
Entry(m, i) == [at |-> Handler(m, i), function |-> <<m.name, i>>]

(* Room for its slots, and only a copy of fast_uuid under dl() is disabled.*)
ModuleOK(m) ==
  /\ m \in Modules /\ m.version \in Build(m.name)
  /\ m.first + Sizes[m.name] <= Len(table)
  /\ m.frameless = (~Ours(m) \/ ~m.temporary)

LoadedOK ==
  /\ table \in Seq(Slots) /\ started \in BOOLEAN
  /\ \A m \in modules : ModuleOK(m)
  /\ \A m, l \in modules : m.base = l.base \/ m.name = l.name => m = l

(* What php.ini names is loaded once, and before anything dl() loads.      *)
PendingOK ==
  /\ pending \in Seq(DOMAIN Sizes) /\ IsInjective(pending)
  /\ started => pending = << >>
  /\ ~started => /\ \A m \in modules : ~m.temporary
                 /\ \A k \in 1 .. Len(pending) : ~Loaded(pending[k])

(* A frameless module has its slots.                                       *)
HeldOK == \A m \in modules : m.frameless =>
            \A i \in 1 .. Sizes[m.name] : table[m.first + i] = Entry(m, i)

(* Nothing else in the table is a handler of a persistent module.          *)
OnlyOK == \A m \in modules : ~m.temporary =>
            \A s \in 1 .. Len(table), i \in 1 .. Sizes[m.name] :
              table[s].at = Handler(m, i) => s = m.first + i

Owned(s, m) == \E i \in 1 .. Sizes[m.name] : table[s].at = Handler(m, i)

(* Until the MINITs every slot has its module in its place.                *)
AllOwned == ~started => \A s \in 1 .. Len(table) : \E m \in modules : Owned(s, m)

(* Slots of fast_uuid that can still be matched are those of the copy that *)
(* stays.                                                                  *)
LeftOK == \A s \in 1 .. Len(table) : table[s].function[1] = "fast_uuid" =>
            table[s].at = Data \/ \E m \in modules : Ours(m) /\ ~m.temporary /\ Owned(s, m)

KeyOf(m) == <<m.first, Sizes[m.name], m.version>>
IdOK ==
  /\ \A m \in modules : started /\ Ours(m) /\ ~m.temporary => id = KeyOf(m)
  /\ id # NoKey => started /\ \E m \in modules : Ours(m) /\ ~m.temporary /\ id = KeyOf(m)

(* The key of an opcode says where its slot is counted from.               *)
OpcodeOK(op) ==
  /\ op.function \in 1 .. Sizes["fast_uuid"] /\ op.version \in Versions
  /\ op.slot - op.function \in Nat
  /\ op.id = <<op.slot - op.function, Sizes["fast_uuid"], op.version>>
Opcodes == [id : {NoKey} \cup (Nat \X Nat \X Versions), version : Versions,
            function : Nat, slot : Nat]
CacheOK == cache \subseteq Opcodes /\ \A op \in cache : OpcodeOK(op)

FlfInv == LoadedOK /\ PendingOK /\ HeldOK /\ OnlyOK /\ AllOwned /\ LeftOK /\ IdOK /\ CacheOK

Newcomer(m) ==
  /\ m \in Modules /\ m.version \in Build(m.name) /\ m.first = Len(table)
  /\ m.frameless = (~Ours(m) \/ ~m.temporary)
  /\ Free(m.base) /\ ~Loaded(m.name)

(* What a slot of a module just loaded holds.                              *)
NewEntry(m, i) == IF m.frameless THEN Entry(m, i) ELSE [Entry(m, i) EXCEPT !.at = Data]

(* The table u is this one and the slots of m behind it.                   *)
Grown(u, m) ==
  /\ u \in Seq(Slots) /\ Len(u) = Len(table) + Sizes[m.name]
  /\ \A s \in 1 .. Len(table) : u[s] = table[s]
  /\ \A i \in 1 .. Sizes[m.name] : u[Len(table) + i] = NewEntry(m, i)

LEMMA SizeOf == ASSUME NEW name \in DOMAIN Sizes PROVE Sizes[name] \in Nat /\ Sizes[name] > 0
BY FlfAssumption

(* A number of slots is a number.                                          *)
LEMMA TableSize == ASSUME LoadedOK PROVE Len(table) \in Nat /\ DOMAIN table = 1 .. Len(table)
BY LenProperties DEF LoadedOK

LEMMA EntryIsSlot ==
  ASSUME NEW m \in Modules, NEW i \in 1 .. Sizes[m.name]
  PROVE  Entry(m, i) \in Slots /\ [Entry(m, i) EXCEPT !.at = Data] \in Slots
<1>1. m.name \in DOMAIN Sizes /\ m.base \in Addresses
  BY DEF Modules
<1>2. i \in Nat
  BY <1>1, SizeOf
<1> QED
  BY <1>1, <1>2 DEF Entry, Slots, Handler

(* Registration appends the handlers in order.                             *)
LEMMA RegisterAppends ==
  ASSUME LoadedOK, NEW m \in Modules
  PROVE  LET u == Register(table, m)
         IN  /\ u \in Seq(Slots) /\ Len(u) = Len(table) + Sizes[m.name]
             /\ \A s \in 1 .. Len(table) : u[s] = table[s]
             /\ \A i \in 1 .. Sizes[m.name] : u[Len(table) + i] = Entry(m, i)
<1> DEFINE n == Sizes[m.name]
           new == [i \in 1 .. n |-> Entry(m, i)]
           u == table \o new
<1>1. n \in Nat /\ n > 0
  BY SizeOf DEF Modules
<1>2. \A i \in 1 .. n : Entry(m, i) \in Slots
  BY EntryIsSlot
<1> HIDE DEF n
<1>3. new \in Seq(Slots)
  BY <1>1, <1>2, SeqDef
<1>4. DOMAIN new = 1 .. n
  OBVIOUS
<1>5. Len(new) = n
  BY <1>1, <1>3, <1>4, LenProperties
<1>6. \A i \in 1 .. n : new[i] = Entry(m, i)
  OBVIOUS
<1>7. table \in Seq(Slots) /\ Len(table) \in Nat
  BY TableSize DEF LoadedOK
<1> HIDE DEF new
<1>8. /\ u \in Seq(Slots) /\ Len(u) = Len(table) + Len(new)
      /\ \A s \in 1 .. Len(table) + Len(new) :
           u[s] = IF s <= Len(table) THEN table[s] ELSE new[s - Len(table)]
  BY <1>3, <1>7, ConcatProperties, Zenon
<1> HIDE DEF u
<1>9. \A s \in 1 .. Len(table) : u[s] = table[s]
  BY <1>1, <1>5, <1>7, <1>8
<1>10. ASSUME NEW i \in 1 .. n PROVE u[Len(table) + i] = Entry(m, i)
  <2>1. Len(table) + i \in 1 .. Len(table) + Len(new) /\ ~(Len(table) + i <= Len(table))
        /\ (Len(table) + i) - Len(table) = i
    BY <1>1, <1>5, <1>7
  <2>2. u[Len(table) + i] = new[i]
    BY <1>8, <2>1
  <2> QED
    BY <1>6, <2>2
<1>11. u = Register(table, m)
  BY DEF u, new, n, Register, Entry
<1> QED
  BY <1>5, <1>8, <1>9, <1>10, <1>11 DEF n

(* A module that stays frameless.                                          *)
LEMMA RegisterGrows ==
  ASSUME LoadedOK, NEW m \in Modules, m.frameless
  PROVE  Grown(Register(table, m), m)
BY RegisterAppends DEF Grown, NewEntry

(* fu_flf_first_slot finds the run that was just appended.                 *)
LEMMA TailFirst ==
  ASSUME LoadedOK, NEW m \in Modules
  PROVE  FirstSlot(Register(table, m), Handlers(m)) = Len(table)
<1> DEFINE n == Sizes[m.name]
           u == Register(table, m)
           hs == Handlers(m)
<1>1. n \in Nat /\ n > 0
  BY SizeOf DEF Modules
<1>2. /\ Len(u) = Len(table) + n
      /\ \A i \in 1 .. n : u[Len(table) + i] = Entry(m, i)
  BY RegisterAppends
<1>3. ASSUME NEW i \in 1 .. n PROVE u[Len(table) + i].at = Handler(m, i)
  <2>1. u[Len(table) + i] = Entry(m, i)
    BY <1>2
  <2>2. Entry(m, i).at = Handler(m, i)
    BY DEF Entry
  <2> QED
    BY <2>1, <2>2, Zenon
<1>4. hs = [i \in 1 .. n |-> Handler(m, i)]
  BY DEF Handlers
<1>5. Len(hs) = n /\ \A i \in 1 .. n : hs[i] = Handler(m, i)
  BY <1>1, <1>4
<1>6. Len(table) \in Nat
  BY TableSize
<1> HIDE DEF n, u, hs
<1>7. RunAt(u, Len(table), hs)
  BY <1>3, <1>5 DEF RunAt
<1>8. Len(u) - Len(hs) = Len(table) /\ Len(table) \in 0 .. Len(u) - Len(hs)
  BY <1>1, <1>2, <1>5, <1>6
<1>9. Len(table) \in Runs(u, hs)
  BY <1>7, <1>8 DEF Runs
<1>10. FirstSlot(u, hs) = Len(table)
  BY <1>8, <1>9 DEF FirstSlot
<1> QED
  BY <1>10 DEF u, hs

(* Under dl() exactly the slots of this load become data.                  *)
LEMMA BlankedGrows ==
  ASSUME LoadedOK, NEW m \in Modules, ~m.frameless
  PROVE  Grown(Blanked(Register(table, m), m), m)
<1> DEFINE n == Sizes[m.name]
           l == Len(table)
           u == Register(table, m)
           b == [s \in DOMAIN u |-> IF s \in l + 1 .. l + n THEN [u[s] EXCEPT !.at = Data] ELSE u[s]]
<1>1. n \in Nat /\ n > 0 /\ l \in Nat /\ l # NoSlot
  BY SizeOf, TableSize DEF Modules, NoSlot
<1>2. FirstSlot(u, Handlers(m)) = l
  BY TailFirst
<1>3. Blanked(u, m) = b
  BY <1>1, <1>2 DEF Blanked
<1>4. /\ u \in Seq(Slots) /\ Len(u) = l + n
      /\ \A s \in 1 .. l : u[s] = table[s]
      /\ \A i \in 1 .. n : u[l + i] = Entry(m, i)
  BY RegisterAppends
<1>5. \A i \in 1 .. n : [Entry(m, i) EXCEPT !.at = Data] \in Slots
  BY EntryIsSlot
<1> HIDE DEF n, l, u
<1>6. u \in [1 .. l + n -> Slots]
  BY <1>4, LenProperties
<1>7. \A s \in 1 .. l + n : IF s \in l + 1 .. l + n THEN [u[s] EXCEPT !.at = Data] \in Slots ELSE u[s] \in Slots
  BY <1>6 DEF Slots
<1>8. b \in [1 .. l + n -> Slots]
  BY <1>6, <1>7
<1>9. \A s \in 1 .. l : b[s] = u[s]
  BY <1>1, <1>6
<1>10. \A i \in 1 .. n : b[l + i] = [u[l + i] EXCEPT !.at = Data]
  BY <1>1, <1>6
<1> HIDE DEF b
<1>11. b \in Seq(Slots)
  BY <1>1, <1>8, SeqDef
<1>12. Len(b) = l + n
  BY <1>1, <1>8, <1>11, LenProperties
<1>13. \A s \in 1 .. l : b[s] = table[s]
  BY <1>4, <1>9
<1>14. \A i \in 1 .. n : b[l + i] = NewEntry(m, i)
  BY <1>4, <1>10 DEF NewEntry
<1> QED
  BY <1>3, <1>11, <1>12, <1>13, <1>14 DEF Grown, n, l, u

-----------------------------------------------------------------------------
(* A module is loaded, by php.ini before the MINITs or by dl() after them. *)
Adds(m) ==
  /\ Newcomer(m) /\ m.temporary = started
  /\ Grown(table', m)
  /\ modules' = modules \cup {m} /\ started' = started

LEMMA AddedLoaded ==
  ASSUME LoadedOK, NEW m, Adds(m)
  PROVE  LoadedOK'
<1>1. table' \in Seq(Slots) /\ Len(table') = Len(table) + Sizes[m.name] /\ started' \in BOOLEAN
  BY DEF Adds, Grown, LoadedOK
<1>2. m \in Modules /\ Len(table) \in Nat /\ Sizes[m.name] \in Nat
  BY TableSize, SizeOf DEF Adds, Newcomer, Modules
<1>3. ASSUME NEW l \in modules PROVE ModuleOK(l)'
  <2>1. ModuleOK(l)
    BY DEF LoadedOK
  <2>2. l.first \in Nat /\ Sizes[l.name] \in Nat
    BY <2>1, SizeOf DEF ModuleOK, Modules
  <2> QED
    BY <1>1, <1>2, <2>1, <2>2 DEF ModuleOK
<1>4. ModuleOK(m)'
  BY <1>1, <1>2 DEF ModuleOK, Adds, Newcomer
<1>5. \A l \in modules : l.base # m.base /\ l.name # m.name
  BY DEF Adds, Newcomer, Free, Loaded
<1>6. \A l, k \in modules' : l.base = k.base \/ l.name = k.name => l = k
  BY <1>5 DEF Adds, LoadedOK
<1> QED
  BY <1>1, <1>3, <1>4, <1>6 DEF LoadedOK, Adds

(* Slots there were stay.                                                  *)
LEMMA OldSlots ==
  ASSUME LoadedOK, NEW m, Adds(m), NEW s \in 1 .. Len(table)
  PROVE  table'[s] = table[s]
BY DEF Adds, Grown

(* A slot is an old one, or one of the newcomer.                           *)
LEMMA OldOrNew ==
  ASSUME LoadedOK, NEW m, Adds(m), NEW s \in 1 .. Len(table')
  PROVE  \/ s \in 1 .. Len(table)
         \/ \E i \in 1 .. Sizes[m.name] : s = Len(table) + i /\ table'[s] = NewEntry(m, i)
<1>1. m \in Modules /\ Len(table) \in Nat /\ Sizes[m.name] \in Nat
  BY TableSize, SizeOf DEF Adds, Newcomer, Modules
<1>2. Len(table') = Len(table) + Sizes[m.name]
  BY DEF Adds, Grown
<1>3. CASE s <= Len(table)
  BY <1>1, <1>2, <1>3
<1>4. CASE s > Len(table)
  <2>1. s - Len(table) \in 1 .. Sizes[m.name] /\ s = Len(table) + (s - Len(table))
    BY <1>1, <1>2, <1>4
  <2>2. table'[Len(table) + (s - Len(table))] = NewEntry(m, s - Len(table))
    BY <2>1 DEF Adds, Grown
  <2> QED
    BY <2>1, <2>2
<1> QED
  BY <1>1, <1>2, <1>3, <1>4

(* What a slot of the newcomer is called through.                          *)
LEMMA NewAt ==
  ASSUME NEW m, NEW i
  PROVE  /\ NewEntry(m, i).at = IF m.frameless THEN Handler(m, i) ELSE Data
         /\ NewEntry(m, i).function = <<m.name, i>>
BY DEF NewEntry, Entry

(* Handlers of modules at other places are others, and none is Data.       *)
LEMMA HandlersDiffer ==
  ASSUME NEW m, NEW l, NEW i \in Nat \ {0}, NEW j \in Nat
  PROVE  /\ Handler(m, i) # Data
         /\ m.base # l.base => Handler(m, i) # Handler(l, j)
         /\ Handler(m, i) = Handler(m, j) => i = j
BY DEF Handler, Data

LEMMA Index ==
  ASSUME NEW m \in Modules, NEW i \in 1 .. Sizes[m.name]
  PROVE  i \in Nat \ {0}
BY SizeOf DEF Modules

LEMMA AddedHeld ==
  ASSUME LoadedOK, HeldOK, NEW m, Adds(m)
  PROVE  HeldOK'
<1>1. ASSUME NEW l \in modules, l.frameless, NEW i \in 1 .. Sizes[l.name]
      PROVE  table'[l.first + i] = Entry(l, i)
  <2>1. l \in Modules /\ l.first + Sizes[l.name] <= Len(table)
    BY DEF LoadedOK, ModuleOK
  <2>2. l.first \in Nat /\ Sizes[l.name] \in Nat /\ Len(table) \in Nat
    BY <2>1, SizeOf, TableSize DEF Modules
  <2>3. l.first + i \in 1 .. Len(table)
    BY <2>1, <2>2
  <2> QED
    BY <1>1, <2>3, OldSlots DEF HeldOK
<1>2. ASSUME m.frameless, NEW i \in 1 .. Sizes[m.name]
      PROVE  table'[m.first + i] = Entry(m, i)
  BY <1>2 DEF Adds, Grown, Newcomer, NewEntry
<1> QED
  BY <1>1, <1>2 DEF HeldOK, Adds, Entry, Handler

LEMMA AddedOnly ==
  ASSUME LoadedOK, OnlyOK, AllOwned, NEW m, Adds(m)
  PROVE  OnlyOK'
<1> SUFFICES ASSUME NEW l \in modules', ~l.temporary,
                    NEW s \in 1 .. Len(table'), NEW i \in 1 .. Sizes[l.name],
                    table'[s].at = Handler(l, i)
             PROVE  s = l.first + i
  BY DEF OnlyOK, Handler
<1>1. \A k \in modules : k \in Modules /\ k.base # m.base
  BY DEF LoadedOK, ModuleOK, Adds, Newcomer, Free
<1>2. m \in Modules /\ m.first = Len(table) /\ (l \in modules \/ l = m)
  BY DEF Adds, Newcomer
<1>3. i \in Nat \ {0}
  BY <1>1, <1>2, Index
<1>4. CASE s \in 1 .. Len(table) /\ l \in modules
  <2>1. table[s].at = Handler(l, i)
    BY <1>4, OldSlots
  <2> QED
    BY <1>4, <2>1 DEF OnlyOK
<1>5. CASE s \in 1 .. Len(table) /\ l = m
  <2>1. ~started
    BY <1>5 DEF Adds
  <2>2. PICK k \in modules : Owned(s, k)
    BY <1>5, <2>1 DEF AllOwned
  <2>3. PICK j \in 1 .. Sizes[k.name] : table[s].at = Handler(k, j)
    BY <2>2 DEF Owned
  <2>4. j \in Nat /\ k.base # m.base
    BY <1>1, Index
  <2>5. table[s].at = Handler(m, i)
    BY <1>5, OldSlots
  <2>6. Handler(m, i) # Handler(k, j)
    BY <1>3, <2>4, HandlersDiffer
  <2> QED
    BY <2>3, <2>5, <2>6
<1>6. ASSUME NEW j \in 1 .. Sizes[m.name], s = Len(table) + j, table'[s] = NewEntry(m, j)
      PROVE  s = l.first + i
  <2>1. j \in Nat \ {0}
    BY <1>2, Index
  <2>2. table'[s].at = IF m.frameless THEN Handler(m, j) ELSE Data
    BY <1>6, NewAt
  <2>3. Handler(l, i) = Handler(m, j)
    BY <1>3, <2>2, HandlersDiffer
  <2>4. l = m
    BY <1>1, <1>2, <1>3, <2>1, <2>3, HandlersDiffer
  <2>5. i = j
    BY <1>3, <2>1, <2>3, <2>4, HandlersDiffer
  <2> QED
    BY <1>2, <1>6, <2>4, <2>5
<1> QED
  BY <1>2, <1>4, <1>5, <1>6, OldOrNew

LEMMA AddedOwned ==
  ASSUME LoadedOK, AllOwned, NEW m, Adds(m)
  PROVE  AllOwned'
<1> SUFFICES ASSUME ~started, NEW s \in 1 .. Len(table')
             PROVE  \E l \in modules' : Owned(s, l)'
  BY DEF AllOwned, Adds
<1>1. modules' = modules \cup {m} /\ m.frameless
  BY DEF Adds, Newcomer
<1>2. CASE s \in 1 .. Len(table)
  <2>1. PICK l \in modules : Owned(s, l)
    BY <1>2 DEF AllOwned
  <2>2. Owned(s, l)'
    BY <1>2, <2>1, OldSlots DEF Owned, Handler
  <2> QED
    BY <1>1, <2>2
<1>3. ASSUME NEW i \in 1 .. Sizes[m.name], table'[s] = NewEntry(m, i)
      PROVE  Owned(s, m)'
  <2>1. table'[s].at = Handler(m, i)
    BY <1>1, <1>3, NewAt
  <2> QED
    BY <2>1 DEF Owned, Handler
<1> QED
  BY <1>1, <1>2, <1>3, OldOrNew

LEMMA AddedLeft ==
  ASSUME LoadedOK, LeftOK, NEW m, Adds(m)
  PROVE  LeftOK'
<1> SUFFICES ASSUME NEW s \in 1 .. Len(table'), table'[s].function[1] = "fast_uuid"
             PROVE  table'[s].at = Data \/ \E l \in modules' : Ours(l) /\ ~l.temporary /\ Owned(s, l)'
  BY DEF LeftOK, Ours
<1>1. modules' = modules \cup {m} /\ m.frameless = (~Ours(m) \/ ~m.temporary)
  BY DEF Adds, Newcomer
<1>2. CASE s \in 1 .. Len(table)
  <2>1. table'[s] = table[s]
    BY <1>2, OldSlots
  <2>2. ASSUME NEW l \in modules, Owned(s, l) PROVE Owned(s, l)'
    BY <2>1, <2>2 DEF Owned, Handler
  <2> QED
    BY <1>1, <1>2, <2>1, <2>2 DEF LeftOK
<1>3. ASSUME NEW i \in 1 .. Sizes[m.name], table'[s] = NewEntry(m, i)
      PROVE  table'[s].at = Data \/ (Ours(m) /\ ~m.temporary /\ Owned(s, m)')
  <2>1. /\ table'[s].at = IF m.frameless THEN Handler(m, i) ELSE Data
        /\ table'[s].function = <<m.name, i>>
    BY <1>3, NewAt
  <2>2. Ours(m)
    BY <2>1 DEF Ours
  <2>3. CASE m.frameless
    BY <1>1, <2>1, <2>2, <2>3 DEF Owned, Handler
  <2> QED
    BY <2>1, <2>3
<1> QED
  BY <1>1, <1>2, <1>3, OldOrNew

LEMMA AddKeeps ==
  ASSUME FlfInv, NEW m, Adds(m)
  PROVE  LoadedOK' /\ HeldOK' /\ OnlyOK' /\ AllOwned' /\ LeftOK'
BY AddedLoaded, AddedHeld, AddedOnly, AddedOwned, AddedLeft DEF FlfInv

-----------------------------------------------------------------------------
(* One lemma for each action.                                              *)

LEMMA EmptyInjective == IsInjective(<< >>)
BY DEF IsInjective

(* Before anything registered the invariant holds, whatever the cache has. *)
LEMMA StartedAnew ==
  ASSUME NEW config \in Configs, pending' = config, started' = FALSE,
         table' = << >>, modules' = {}, id' = NoKey, CacheOK'
  PROVE  FlfInv'
<1>1. LoadedOK'
  BY EmptySeq DEF LoadedOK
<1>2. config \in Seq(DOMAIN Sizes) /\ IsInjective(config)
  BY FlfAssumption
<1>3. PendingOK'
  BY <1>2 DEF PendingOK, Loaded
<1>4. Len(table') = 0
  OBVIOUS
<1>5. HeldOK' /\ OnlyOK' /\ AllOwned' /\ LeftOK'
  BY <1>4 DEF HeldOK, OnlyOK, AllOwned, LeftOK
<1>6. IdOK'
  BY DEF IdOK, NoKey
<1> QED
  BY <1>1, <1>3, <1>5, <1>6 DEF FlfInv

LEMMA InitInv == ASSUME FlfInit PROVE FlfInv
<1>1. LoadedOK
  BY EmptySeq DEF LoadedOK, FlfInit
<1>2. pending \in Seq(DOMAIN Sizes) /\ IsInjective(pending)
  BY FlfAssumption DEF FlfInit
<1>3. PendingOK
  BY <1>2 DEF PendingOK, Loaded, FlfInit
<1>4. Len(table) = 0
  BY DEF FlfInit
<1>5. HeldOK /\ OnlyOK /\ AllOwned /\ LeftOK
  BY <1>4 DEF HeldOK, OnlyOK, AllOwned, LeftOK, FlfInit
<1>6. IdOK /\ CacheOK
  BY DEF IdOK, CacheOK, FlfInit
<1> QED
  BY <1>1, <1>3, <1>5, <1>6 DEF FlfInv

LEMMA StartKeeps == ASSUME FlfInv, NEW config \in Configs, Start(config) PROVE FlfInv'
<1>1. CacheOK'
  BY DEF FlfInv, CacheOK, Start
<1> QED
  BY <1>1, StartedAnew DEF Start

LEMMA NextPending ==
  ASSUME PendingOK, pending # << >>
  PROVE  /\ Head(pending) \in DOMAIN Sizes /\ ~Loaded(Head(pending))
         /\ Tail(pending) \in Seq(DOMAIN Sizes) /\ IsInjective(Tail(pending))
         /\ \A k \in 1 .. Len(Tail(pending)) :
              ~Loaded(Tail(pending)[k]) /\ Tail(pending)[k] # Head(pending)
<1> DEFINE tail == Tail(pending)
<1>1. /\ pending \in Seq(DOMAIN Sizes) /\ IsInjective(pending) /\ ~started
      /\ \A k \in 1 .. Len(pending) : ~Loaded(pending[k])
  BY DEF PendingOK
<1>2. /\ Head(pending) \in DOMAIN Sizes /\ tail \in Seq(DOMAIN Sizes)
      /\ Len(tail) = Len(pending) - 1
      /\ \A k \in 1 .. Len(tail) : tail[k] = pending[k + 1]
  BY <1>1, HeadTailProperties
<1>3. Len(pending) \in Nat /\ DOMAIN pending = 1 .. Len(pending) /\ Len(pending) > 0
  BY <1>1, LenProperties, EmptySeq
<1>4. Head(pending) = pending[1]
  BY <1>1
<1>5. \A k \in 1 .. Len(tail) : k + 1 \in 1 .. Len(pending) /\ k + 1 # 1
  BY <1>2, <1>3
<1>6. DOMAIN tail = 1 .. Len(tail) /\ Len(tail) \in Nat
  BY <1>2, LenProperties
<1> HIDE DEF tail
<1>7. \A j, k \in 1 .. Len(pending) : pending[j] = pending[k] => j = k
  BY <1>1, <1>3 DEF IsInjective
<1>8. ASSUME NEW j \in 1 .. Len(tail), NEW k \in 1 .. Len(tail), tail[j] = tail[k] PROVE j = k
  <2>1. j + 1 = k + 1
    BY <1>2, <1>5, <1>7, <1>8
  <2> QED
    BY <1>6, <2>1
<1>9. IsInjective(tail)
  BY <1>6, <1>8 DEF IsInjective
<1>10. ASSUME NEW k \in 1 .. Len(tail) PROVE ~Loaded(tail[k]) /\ tail[k] # Head(pending)
  <2>1. ~Loaded(tail[k])
    BY <1>1, <1>2, <1>5
  <2>2. 1 \in 1 .. Len(pending)
    BY <1>3
  <2>3. tail[k] # pending[1]
    BY <1>2, <1>5, <1>7, <2>2
  <2> QED
    BY <1>4, <2>1, <2>3
<1>11. ~Loaded(Head(pending))
  BY <1>1, <1>3, <1>4
<1> QED
  BY <1>2, <1>9, <1>10, <1>11 DEF tail

LEMMA RegistersKeeps ==
  ASSUME FlfInv, NEW base \in Addresses, NEW version, Registers(version, base)
  PROVE  FlfInv'
<1> DEFINE name == Head(pending)
           m == Module(name, version, base, Len(table), FALSE, TRUE)
<1>1. /\ pending # << >> /\ version \in Build(m.name) /\ Free(base)
      /\ modules' = modules \cup {m} /\ table' = Register(table, m) /\ pending' = Tail(pending)
      /\ started' = started /\ id' = id /\ cache' = cache
  BY DEF Registers
<1>2. LoadedOK /\ PendingOK /\ IdOK /\ CacheOK
  BY DEF FlfInv
<1>3. m.name = name
  BY DEF Module
<1>4. /\ name \in DOMAIN Sizes /\ ~Loaded(name)
      /\ Tail(pending) \in Seq(DOMAIN Sizes) /\ IsInjective(Tail(pending))
      /\ \A k \in 1 .. Len(Tail(pending)) :
           ~Loaded(Tail(pending)[k]) /\ Tail(pending)[k] # name
  BY <1>1, <1>2, NextPending
<1>5. Len(table) \in Nat /\ version \in Build(name) /\ started = FALSE
  BY <1>1, <1>2, <1>3, TableSize DEF PendingOK, LoadedOK
<1>6. /\ m \in Modules /\ m.version = version /\ m.base = base /\ m.first = Len(table)
      /\ m.temporary = FALSE /\ m.frameless = TRUE
  BY <1>4, <1>5 DEF Module, Modules, Build
<1> HIDE DEF m, name
<1>7. Newcomer(m)
  BY <1>1, <1>3, <1>4, <1>5, <1>6 DEF Newcomer
<1>8. Grown(table', m)
  BY <1>1, <1>2, <1>6, RegisterGrows
<1>9. Adds(m)
  BY <1>1, <1>5, <1>6, <1>7, <1>8 DEF Adds
<1>10. LoadedOK' /\ HeldOK' /\ OnlyOK' /\ AllOwned' /\ LeftOK'
  BY <1>9, AddKeeps
<1>11. PendingOK'
  <2>1. \A l \in modules' : ~l.temporary
    BY <1>1, <1>2, <1>5, <1>6 DEF PendingOK
  <2>2. (\A k \in 1 .. Len(pending) : ~Loaded(pending[k]))'
    BY <1>1, <1>3, <1>4 DEF Loaded
  <2> QED
    BY <1>1, <1>4, <1>5, <2>1, <2>2 DEF PendingOK
<1>12. IdOK' /\ CacheOK'
  BY <1>1, <1>2, <1>5 DEF IdOK, CacheOK
<1> QED
  BY <1>10, <1>11, <1>12 DEF FlfInv

LEMMA DlKeeps ==
  ASSUME FlfInv, NEW name \in DOMAIN Sizes, NEW base \in Addresses,
         NEW version \in Build(name), Dl(name, version, base)
  PROVE  FlfInv'
<1> DEFINE m == Module(name, version, base, Len(table), TRUE, StaysFrameless(name))
<1>1. /\ started /\ ~Loaded(name) /\ Free(base)
      /\ modules' = modules \cup {m}
      /\ table' = IF Ours(m) THEN Blanked(Register(table, m), m) ELSE Register(table, m)
      /\ pending' = pending /\ started' = started /\ id' = id /\ cache' = cache
  BY DEF Dl
<1>2. LoadedOK /\ PendingOK /\ IdOK /\ CacheOK
  BY DEF FlfInv
<1>3. Len(table) \in Nat /\ StaysFrameless(name) \in BOOLEAN /\ started = TRUE
  BY <1>1, <1>2, TableSize DEF LoadedOK, StaysFrameless
<1>4. /\ m \in Modules /\ m.name = name /\ m.version = version /\ m.base = base
      /\ m.first = Len(table) /\ m.temporary = TRUE /\ m.frameless = StaysFrameless(name)
  BY <1>3 DEF Module, Modules, Build
<1> HIDE DEF m
<1>5. m.frameless = ~Ours(m)
  BY <1>4 DEF StaysFrameless, Ours
<1>6. Newcomer(m)
  BY <1>1, <1>4, <1>5 DEF Newcomer
<1>7. Grown(table', m)
  BY <1>1, <1>2, <1>4, <1>5, RegisterGrows, BlankedGrows
<1>8. Adds(m)
  BY <1>1, <1>3, <1>4, <1>6, <1>7 DEF Adds
<1>9. LoadedOK' /\ HeldOK' /\ OnlyOK' /\ AllOwned' /\ LeftOK'
  BY <1>8, AddKeeps
<1>10. PendingOK'
  BY <1>1, <1>2, <1>3 DEF PendingOK
<1>11. IdOK'
  BY <1>1, <1>2, <1>4 DEF IdOK, Ours, KeyOf
<1>12. CacheOK'
  BY <1>1, <1>2 DEF CacheOK
<1> QED
  BY <1>9, <1>10, <1>11, <1>12 DEF FlfInv

LEMMA RequestEndsKeeps == ASSUME FlfInv, RequestEnds PROVE FlfInv'
<1>1. /\ modules' = {m \in modules : ~m.temporary}
      /\ table' = table /\ pending' = pending /\ started' = started /\ id' = id /\ cache' = cache
      /\ \E m \in modules : m.temporary
  BY DEF RequestEnds
<1>2. started
  BY <1>1 DEF FlfInv, PendingOK
<1>3. LoadedOK'
  BY <1>1 DEF FlfInv, LoadedOK, ModuleOK
<1>4. PendingOK'
  BY <1>1, <1>2 DEF FlfInv, PendingOK
<1>5. HeldOK'
  BY <1>1 DEF FlfInv, HeldOK
<1>6. OnlyOK'
  BY <1>1 DEF FlfInv, OnlyOK
<1>7. AllOwned'
  BY <1>1, <1>2 DEF FlfInv, AllOwned
<1>8. LeftOK'
  BY <1>1 DEF FlfInv, LeftOK, Owned
<1>9. IdOK' /\ CacheOK'
  BY <1>1 DEF FlfInv, IdOK, CacheOK
<1> QED
  BY <1>3, <1>4, <1>5, <1>6, <1>7, <1>8, <1>9 DEF FlfInv

(* The slots of a persistent module are found where they are.              *)
LEMMA OnlySlot ==
  ASSUME LoadedOK, HeldOK, OnlyOK, NEW m \in modules, ~m.temporary, NEW i \in 1 .. Sizes[m.name]
  PROVE  /\ m.first + i \in 1 .. Len(table) /\ table[m.first + i] = Entry(m, i)
         /\ \A s \in 1 .. Len(table) : table[s].at = Handler(m, i) <=> s = m.first + i
<1>1. m \in Modules /\ m.frameless /\ m.first + Sizes[m.name] <= Len(table)
  BY DEF LoadedOK, ModuleOK, Modules
<1>2. m.first \in Nat /\ Sizes[m.name] \in Nat /\ Len(table) \in Nat
  BY <1>1, TableSize, SizeOf DEF Modules
<1>3. m.first + i \in 1 .. Len(table)
  BY <1>1, <1>2
<1>4. table[m.first + i] = Entry(m, i)
  BY <1>1 DEF HeldOK
<1>5. Entry(m, i).at = Handler(m, i)
  BY DEF Entry
<1>6. \A s \in 1 .. Len(table) : table[s].at = Handler(m, i) => s = m.first + i
  BY DEF OnlyOK
<1>7. table[m.first + i].at = Handler(m, i)
  BY <1>4, <1>5
<1> QED
  BY <1>3, <1>4, <1>6, <1>7

LEMMA MinOfOne == ASSUME NEW n \in Int PROVE Min({n}) = n
BY DEF Min

LEMMA RunFound ==
  ASSUME LoadedOK, HeldOK, OnlyOK, NEW m \in modules, ~m.temporary
  PROVE  FirstSlot(table, Handlers(m)) = m.first
<1> DEFINE n == Sizes[m.name]
           hs == Handlers(m)
<1>1. m \in Modules /\ m.first + n <= Len(table)
  BY DEF LoadedOK, ModuleOK
<1>2. m.first \in Nat /\ n \in Nat /\ n > 0 /\ Len(table) \in Nat
  BY <1>1, TableSize, SizeOf DEF Modules
<1>3. hs = [i \in 1 .. n |-> Handler(m, i)]
  BY DEF Handlers
<1>4. Len(hs) = n /\ \A i \in 1 .. n : hs[i] = Handler(m, i)
  BY <1>2, <1>3
<1>5. \A i \in 1 .. n : m.first + i \in 1 .. Len(table) /\ table[m.first + i].at = Handler(m, i)
  BY OnlySlot
<1>6. \A s \in 1 .. Len(table) : table[s].at = Handler(m, 1) => s = m.first + 1
  BY <1>2, OnlySlot
<1> HIDE DEF n, hs
<1>7. m.first \in Runs(table, hs)
  BY <1>1, <1>2, <1>4, <1>5 DEF Runs, RunAt
<1>8. ASSUME NEW base \in Runs(table, hs) PROVE base = m.first
  <2>1. base \in 0 .. Len(table) - n /\ RunAt(table, base, hs)
    BY <1>4 DEF Runs
  <2>2. base + 1 \in 1 .. Len(table) /\ 1 \in 1 .. n
    BY <1>2, <2>1
  <2>3. table[base + 1].at = Handler(m, 1)
    BY <1>4, <2>1, <2>2 DEF RunAt
  <2>4. base + 1 = m.first + 1
    BY <1>6, <2>2, <2>3
  <2> QED
    BY <1>2, <2>1, <2>4
<1>9. Runs(table, hs) = {m.first}
  BY <1>7, <1>8
<1>10. Min({m.first}) = m.first
  BY <1>2, MinOfOne
<1>11. FirstSlot(table, hs) = m.first
  BY <1>9, <1>10 DEF FirstSlot
<1> QED
  BY <1>11 DEF hs

LEMMA KeysKnown ==
  ASSUME NEW m \in Modules
  PROVE  KeyOf(m) # NoKey
BY DEF KeyOf, NoKey, NoSlot, Modules

LEMMA MinitKeeps == ASSUME FlfInv, Minit PROVE FlfInv'
<1>1. /\ pending = << >> /\ ~started /\ started' = TRUE
      /\ table' = table /\ modules' = modules /\ pending' = pending /\ cache' = cache
      /\ IF Loaded("fast_uuid") THEN \E m \in modules : Ours(m) /\ id' = Key(table, m)
         ELSE id' = NoKey
  BY DEF Minit
<1>2. LoadedOK /\ HeldOK /\ OnlyOK /\ PendingOK
  BY DEF FlfInv
<1>3. LoadedOK'
  BY <1>1, <1>2 DEF LoadedOK, ModuleOK
<1>4. PendingOK'
  BY <1>1, <1>2 DEF PendingOK
<1>5. HeldOK' /\ OnlyOK' /\ CacheOK' /\ AllOwned'
  BY <1>1 DEF FlfInv, HeldOK, OnlyOK, CacheOK, AllOwned
<1>6. LeftOK'
  BY <1>1 DEF FlfInv, LeftOK, Owned
<1>7. ASSUME Loaded("fast_uuid") PROVE IdOK'
  <2>1. PICK m \in modules : Ours(m) /\ id' = Key(table, m)
    BY <1>1, <1>7
  <2>2. ~m.temporary
    BY <1>1, <1>2 DEF PendingOK
  <2>3. id' = KeyOf(m)
    BY <1>2, <2>1, <2>2, RunFound DEF Key, KeyOf
  <2>4. \A l \in modules : Ours(l) => l = m
    BY <1>2, <2>1 DEF LoadedOK, Ours
  <2> QED
    BY <1>1, <2>1, <2>2, <2>3, <2>4 DEF IdOK, KeyOf
<1>8. ASSUME ~Loaded("fast_uuid") PROVE IdOK'
  <2>1. \A m \in modules : ~Ours(m)
    BY <1>8 DEF Loaded, Ours
  <2> QED
    BY <1>1, <1>8, <2>1 DEF IdOK
<1> QED
  BY <1>3, <1>4, <1>5, <1>6, <1>7, <1>8 DEF FlfInv

(* What is compiled is the slot counted from where the module's start.     *)
LEMMA CompileKeeps ==
  ASSUME FlfInv, NEW m \in modules, NEW i \in 1 .. Sizes[m.name], Compile(m, i)
  PROVE  FlfInv'
<1> DEFINE op == [id |-> id, version |-> m.version, function |-> i, slot |-> Slot(m, i)]
<1>1. /\ started /\ Ours(m) /\ m.frameless
      /\ cache' = cache \cup {op}
      /\ table' = table /\ modules' = modules /\ pending' = pending
      /\ started' = started /\ id' = id
  BY DEF Compile
<1>2. LoadedOK /\ HeldOK /\ OnlyOK /\ PendingOK /\ IdOK /\ CacheOK
  BY DEF FlfInv
<1>3. /\ m \in Modules /\ m.version \in Versions /\ m.name = "fast_uuid"
      /\ m.first + Sizes[m.name] <= Len(table) /\ ~m.temporary
  BY <1>1, <1>2 DEF LoadedOK, ModuleOK, Ours, Build, Modules
<1>4. m.first \in Nat /\ Sizes[m.name] \in Nat /\ Len(table) \in Nat /\ DOMAIN table = 1 .. Len(table)
  BY <1>2, <1>3, SizeOf, TableSize DEF Modules
<1>5. /\ m.first + i \in 1 .. Len(table)
      /\ \A s \in 1 .. Len(table) : table[s].at = Handler(m, i) <=> s = m.first + i
  BY <1>2, <1>3, OnlySlot
<1>6. {s \in DOMAIN table : table[s].at = Handler(m, i)} = {m.first + i}
  BY <1>4, <1>5
<1>7. Min({m.first + i}) = m.first + i
  <2>1. m.first + i \in Int
    BY <1>4
  <2> QED
    BY <2>1, MinOfOne
<1>8. Slot(m, i) = m.first + i
  BY <1>6, <1>7 DEF Slot
<1>9. id = <<m.first, Sizes["fast_uuid"], m.version>>
  BY <1>1, <1>2, <1>3 DEF IdOK, KeyOf
<1>10. op.id = id /\ op.version = m.version /\ op.function = i /\ op.slot = m.first + i
  BY <1>8
<1>11. op \in Opcodes
  BY <1>3, <1>4, <1>8, <1>9 DEF Opcodes
<1> HIDE DEF op
<1>12. op.slot - op.function = m.first
  BY <1>4, <1>10
<1>13. OpcodeOK(op)
  BY <1>3, <1>4, <1>9, <1>10, <1>12 DEF OpcodeOK
<1>14. CacheOK'
  BY <1>1, <1>2, <1>11, <1>13 DEF CacheOK
<1>15. LoadedOK' /\ PendingOK' /\ HeldOK' /\ OnlyOK' /\ AllOwned' /\ LeftOK' /\ IdOK'
  BY <1>1 DEF FlfInv, LoadedOK, ModuleOK, PendingOK, HeldOK, OnlyOK, AllOwned, LeftOK, Owned, IdOK,
              Loaded
<1> QED
  BY <1>14, <1>15 DEF FlfInv

LEMMA StutterKeeps == ASSUME FlfInv, UNCHANGED flfVars PROVE FlfInv'
BY DEF flfVars, FlfInv, LoadedOK, ModuleOK, PendingOK, HeldOK, OnlyOK, AllOwned, LeftOK, Owned,
       IdOK, CacheOK, Loaded

LEMMA NextKeeps == ASSUME FlfInv, [FlfNext]_flfVars PROVE FlfInv'
<1>1. CASE \E config \in Configs : Start(config)
  BY <1>1, StartKeeps
<1>2. CASE \E base \in Addresses, version \in Versions \cup {NoVersion} : Registers(version, base)
  BY <1>2, RegistersKeeps
<1>3. CASE Minit
  BY <1>3, MinitKeeps
<1>4. CASE \E name \in DOMAIN Sizes, base \in Addresses :
             \E version \in Build(name) : Dl(name, version, base)
  BY <1>4, DlKeeps
<1>5. CASE RequestEnds
  BY <1>5, RequestEndsKeeps
<1>6. CASE \E m \in modules : \E i \in 1 .. Sizes[m.name] : Compile(m, i)
  BY <1>6, CompileKeeps
<1>7. CASE UNCHANGED flfVars
  BY <1>7, StutterKeeps
<1> QED
  BY <1>1, <1>2, <1>3, <1>4, <1>5, <1>6, <1>7 DEF FlfNext

(* The invariant of the slot table, whatever is loaded, unloaded, compiled *)
(* and started again.                                                      *)
THEOREM TableInvHolds == FlfSpec => []FlfInv
<1>1. FlfInit => FlfInv
  BY InitInv
<1>2. FlfInv /\ [FlfNext]_flfVars => FlfInv'
  BY NextKeeps
<1> QED
  BY <1>1, <1>2, PTL DEF FlfSpec

-----------------------------------------------------------------------------
(* zend_flf_handlers, the modules and the file cache have their types.     *)
THEOREM TableTyped == FlfSpec => []FlfTypeOK
<1>1. ASSUME FlfInv PROVE FlfTypeOK
  <2>1. LoadedOK /\ PendingOK /\ CacheOK
    BY <1>1 DEF FlfInv
  <2>2. ASSUME NEW m \in modules
        PROVE  /\ m.name \in DOMAIN Sizes /\ m.version \in Build(m.name) /\ m.base \in Addresses
               /\ m.first + Sizes[m.name] \in 0 .. Len(table)
    <3>1. m \in Modules /\ m.version \in Build(m.name) /\ m.first + Sizes[m.name] <= Len(table)
      BY <2>1 DEF LoadedOK, ModuleOK
    <3>2. m.first \in Nat /\ Sizes[m.name] \in Nat /\ Len(table) \in Nat
      BY <2>1, <3>1, SizeOf, TableSize DEF Modules
    <3> QED
      BY <3>1, <3>2 DEF Modules
  <2>3. cache \subseteq Opcodes
    BY <2>1 DEF CacheOK
  <2>4. table \in Seq(Slots) /\ pending \in Seq(DOMAIN Sizes) /\ started \in BOOLEAN
    BY <2>1 DEF LoadedOK, PendingOK
  <2> QED
    BY <2>2, <2>3, <2>4 DEF FlfTypeOK, Opcodes, Slots
<1> QED
  BY <1>1, TableInvHolds, PTL

(* Whatever frameless opcode the process may load from the file cache, the *)
(* slot it names is that of its function in the same build of fast_uuid:   *)
(* fu_flf_key_system_id is enough for any set and order of extensions.     *)
THEOREM CachedOpcodesDispatchRight == FlfSpec => []DispatchesRight
<1>1. ASSUME FlfInv, NEW op \in cache, op.id = id
      PROVE  \E m \in modules :
               /\ Ours(m) /\ m.version = op.version
               /\ op.slot = m.first + op.function
               /\ table[op.slot] = [at |-> Handler(m, op.function),
                                    function |-> <<m.name, op.function>>]
  <2>1. LoadedOK /\ HeldOK /\ OnlyOK /\ IdOK /\ CacheOK
    BY <1>1 DEF FlfInv
  <2>2. /\ op.function \in 1 .. Sizes["fast_uuid"]
        /\ op.slot - op.function \in Nat /\ op \in Opcodes
        /\ id = <<op.slot - op.function, Sizes["fast_uuid"], op.version>>
    BY <1>1, <2>1 DEF CacheOK, OpcodeOK
  <2>3. id # NoKey
    BY <2>2 DEF NoKey, NoSlot
  <2>4. PICK m \in modules : Ours(m) /\ ~m.temporary /\ id = KeyOf(m)
    BY <2>1, <2>3 DEF IdOK
  <2>5. m \in Modules /\ m.name = "fast_uuid"
    BY <2>1, <2>4 DEF LoadedOK, ModuleOK, Ours
  <2>6. m.first = op.slot - op.function /\ m.version = op.version
    BY <2>2, <2>4 DEF KeyOf
  <2>7. op.slot \in Nat /\ op.function \in Nat /\ m.first \in Nat
    BY <2>2, <2>5 DEF Opcodes, Modules
  <2>8. op.slot = m.first + op.function
    BY <2>6, <2>7
  <2>9. table[m.first + op.function] = Entry(m, op.function)
    BY <2>1, <2>2, <2>4, <2>5, OnlySlot
  <2> QED
    BY <2>4, <2>6, <2>8, <2>9 DEF Entry
<1>2. FlfInv => DispatchesRight
  BY <1>1 DEF DispatchesRight
<1> QED
  BY <1>2, TableInvHolds, PTL

LEMMA MinIsIn ==
  ASSUME NEW S \in SUBSET Nat, S # {}
  PROVE  Min(S) \in S
<1> DEFINE Less == {ss \in Nat \X Nat : ss[1] < ss[2]}
<1>1. IsWellFoundedOn(Less, Nat)
  BY NatLessThanWellFounded, Zenon DEF OpToRel
<1>2. \A j, k \in Nat : j < k => <<j, k>> \in Less
  OBVIOUS
<1> HIDE DEF Less
<1>3. PICK n \in S : \A k \in S : ~(<<k, n>> \in Less)
  BY <1>1, WFMin
<1>4. ASSUME NEW k \in S PROVE n =< k
  <2>1. k \in Nat /\ n \in Nat
    OBVIOUS
  <2>2. k < n => <<k, n>> \in Less
    BY <1>2, <2>1, Zenon
  <2>3. ~(k < n)
    BY <1>3, <2>2, Zenon
  <2> QED
    BY <2>1, <2>3
<1> QED
  BY <1>4 DEF Min

(* What dl() left of a copy of fast_uuid is never what the compiler finds  *)
(* for another extension mapped at the same place.                         *)
THEOREM StaleSlotsNeverBound == FlfSpec => []NoStaleBinding
<1>1. ASSUME FlfInv, NEW m \in modules, m.frameless, NEW i \in 1 .. Sizes[m.name],
             Slot(m, i) # NoSlot
      PROVE  table[Slot(m, i)].function[1] # "fast_uuid" \/ Ours(m)
  <2> DEFINE found == {s \in DOMAIN table : table[s].at = Handler(m, i)}
             s == Slot(m, i)
  <2>1. LoadedOK /\ LeftOK
    BY <1>1 DEF FlfInv
  <2>2. found # {} /\ s = Min(found)
    BY <1>1 DEF Slot
  <2>3. DOMAIN table = 1 .. Len(table) /\ Len(table) \in Nat
    BY <2>1, TableSize
  <2>4. found \in SUBSET Nat
    BY <2>3
  <2>5. s \in found
    BY <2>2, <2>4, MinIsIn
  <2>6. s \in 1 .. Len(table) /\ table[s].at = Handler(m, i)
    BY <2>3, <2>5
  <2> HIDE DEF s, found
  <2>7. \A l \in modules : l \in Modules
    BY <2>1 DEF LoadedOK, ModuleOK
  <2>8. i \in Nat \ {0}
    BY <2>7, Index
  <2>9. ASSUME table[s].function[1] = "fast_uuid" PROVE Ours(m)
    <3>1. table[s].at # Data
      BY <2>6, <2>8, HandlersDiffer
    <3>2. PICK l \in modules : Ours(l) /\ ~l.temporary /\ Owned(s, l)
      BY <2>1, <2>6, <2>9, <3>1 DEF LeftOK
    <3>3. PICK j \in 1 .. Sizes[l.name] : table[s].at = Handler(l, j)
      BY <3>2 DEF Owned
    <3>4. j \in Nat
      BY <2>7, Index
    <3>5. m.base # l.base => Handler(m, i) # Handler(l, j)
      BY <2>8, <3>4, HandlersDiffer
    <3>6. m.base = l.base
      BY <2>6, <3>3, <3>5
    <3> QED
      BY <2>1, <3>2, <3>6 DEF LoadedOK
  <2> QED
    BY <2>9 DEF s
<1>2. FlfInv => NoStaleBinding
  BY <1>1 DEF NoStaleBinding
<1> QED
  BY <1>2, TableInvHolds, PTL
=============================================================================
