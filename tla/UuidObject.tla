----------------------------- MODULE UuidObject -----------------------------
(***************************************************************************)
(* FastUuid\Uuid: an object keeps its bytes and, once it has been asked    *)
(* for it, its canonical string, which it shares with the callers by       *)
(* reference count.  The engine writes a string in place when its count is *)
(* one and copies it otherwise, so a count that is off by one lets user    *)
(* code change what an object returns.  equals() and compareTo() call user *)
(* methods of a foreign argument, which may do anything, this object       *)
(* included, before they return.  No two threads share any of this.        *)
(***************************************************************************)
EXTENDS UuidText, Sequences, FiniteSets

CONSTANTS
  Objects,   (* Uuid objects that may exist                                 *)
  Handles,   (* user variables that may hold a string                       *)
  Strings,   (* places of the heap for a string                             *)
  NoString,  (* the null pointer                                            *)
  Written,   (* texts user code writes                                      *)
  MaxDepth   (* bound: comparisons under way, one inside a callback of another *)

ASSUME ObjectAssumption ==
  /\ Values \subseteq Nat /\ Nil \in Values
  /\ Written \subseteq Texts
  /\ IsFiniteSet(Objects) /\ IsFiniteSet(Handles)
  /\ Objects \cap Handles = {}
  /\ NoString \notin Strings
  /\ MaxDepth \in Nat

VARIABLES
  bytes,       \* b of each object, None where there is no object
  str,         \* str of each object
  chars, refs, \* the heap: text of a string and its reference count
  handle,      \* the string each user variable holds
  calls,       \* comparisons that wait for user code, the innermost last
  phase,       \* what each of them waits for
  answer       \* what the comparison that returned last answered

heap == <<chars, refs>>
objects == <<bytes, str>>
comparing == <<calls, phase, answer>>
vars == <<objects, heap, handle, comparing>>

Init ==
  /\ bytes = [o \in Objects |-> None]
  /\ str = [o \in Objects |-> NoString]
  /\ chars = [s \in Strings |-> NoText]
  /\ refs = [s \in Strings |-> 0]
  /\ handle = [h \in Handles |-> NoString]
  /\ calls = << >> /\ phase = << >>
  /\ answer = "throws"

Alive(o) == bytes[o] # None
InCall(o) == \E i \in 1 .. Len(calls) : calls[i].self = o

-----------------------------------------------------------------------------
(* Strings: zend_string_alloc, zend_string_copy, zend_string_release.      *)
Alloc(s, t, n) ==
  /\ refs[s] = 0
  /\ refs' = [refs EXCEPT ![s] = n]
  /\ chars' = [chars EXCEPT ![s] = t]
AddRef(s) == refs' = [refs EXCEPT ![s] = @ + 1] /\ UNCHANGED chars
Release(s) ==
  /\ refs' = [refs EXCEPT ![s] = @ - 1]
  /\ chars' = IF refs[s] = 1 THEN [chars EXCEPT ![s] = NoText] ELSE chars
ReleaseIfAny(s) == IF s = NoString THEN UNCHANGED heap ELSE Release(s)

-----------------------------------------------------------------------------
(* A factory, a restore or __set_state() returns a new object; fu_create() *)
(* alone leaves the nil UUID.                                              *)
Create(o, v) ==
  /\ ~Alive(o)
  /\ bytes' = [bytes EXCEPT ![o] = v]
  /\ str' = [str EXCEPT ![o] = NoString]
  /\ UNCHANGED <<heap, handle, comparing>>

(* A clone has the bytes and builds a string of its own.                   *)
Clone(o, n) == Alive(o) /\ Create(n, bytes[o])

(* Mutant: the cached string leaks with the object.                        *)
FreeKeepsString(o) ==
  /\ Alive(o) /\ ~InCall(o)
  /\ bytes' = [bytes EXCEPT ![o] = None]
  /\ str' = [str EXCEPT ![o] = NoString]
  /\ UNCHANGED <<heap, handle, comparing>>

(* The engine frees an object nothing refers to; a call refers to its $this.*)
Free(o) ==
  /\ Alive(o) /\ ~InCall(o)
  /\ ReleaseIfAny(str[o])
  /\ bytes' = [bytes EXCEPT ![o] = None]
  /\ str' = [str EXCEPT ![o] = NoString]
  /\ UNCHANGED <<handle, comparing>>

(* Mutant: the cached string is given away, not copied.                    *)
CachedNotCopied(o, h) == handle' = [handle EXCEPT ![h] = str[o]] /\ UNCHANGED <<str, heap>>

(* fu_str: the cached string, or one built from the bytes and cached.      *)
Cached(o, h) ==
  /\ AddRef(str[o])
  /\ handle' = [handle EXCEPT ![h] = str[o]]
  /\ UNCHANGED str
Built(o, h) ==
  \E s \in Strings :
    /\ Alloc(s, Canonical(bytes[o]), 2)
    /\ str' = [str EXCEPT ![o] = s]
    /\ handle' = [handle EXCEPT ![h] = s]
FuStr(o, h) ==
  /\ Alive(o) /\ handle[h] = NoString
  /\ IF str[o] # NoString THEN Cached(o, h) ELSE Built(o, h)
  /\ UNCHANGED <<bytes, comparing>>

(* Mutant: the restored object keeps the string of its old bytes.          *)
RestoreKeepsString(o, v) ==
  /\ Alive(o)
  /\ bytes' = [bytes EXCEPT ![o] = v]
  /\ UNCHANGED <<str, heap, handle, comparing>>

(* __unserialize() on an object that lives; a bad payload changes nothing. *)
Unserialize(o, v) ==
  /\ Alive(o)
  /\ ReleaseIfAny(str[o])
  /\ str' = [str EXCEPT ![o] = NoString]
  /\ bytes' = [bytes EXCEPT ![o] = v]
  /\ UNCHANGED <<handle, comparing>>

-----------------------------------------------------------------------------
(* User code and the engine: a variable is copied, written, dropped.       *)
Copy(g, h) ==
  /\ handle[g] # NoString /\ handle[h] = NoString
  /\ AddRef(handle[g])
  /\ handle' = [handle EXCEPT ![h] = handle[g]]
  /\ UNCHANGED <<objects, comparing>>

WriteInPlace(h, t) ==
  /\ refs[handle[h]] = 1
  /\ chars' = [chars EXCEPT ![handle[h]] = t]
  /\ UNCHANGED <<refs, handle>>
WriteSeparated(h, t) ==
  /\ refs[handle[h]] # 1
  /\ \E s \in Strings :
       /\ refs[s] = 0
       /\ refs' = [refs EXCEPT ![handle[h]] = @ - 1, ![s] = 1]
       /\ chars' = [chars EXCEPT ![s] = t]
       /\ handle' = [handle EXCEPT ![h] = s]
Write(h, t) ==
  /\ handle[h] # NoString
  /\ WriteInPlace(h, t) \/ WriteSeparated(h, t)
  /\ UNCHANGED <<objects, comparing>>

Drop(h) ==
  /\ handle[h] # NoString
  /\ Release(handle[h])
  /\ handle' = [handle EXCEPT ![h] = NoString]
  /\ UNCHANGED <<objects, comparing>>

-----------------------------------------------------------------------------
(* fu_resolve_uuid() without user code: a Uuid, a string, neither.         *)
CompareNow(call, o, theirs) ==
  /\ Alive(o)
  /\ answer' = Answer(call, bytes[o], theirs)
  /\ UNCHANGED <<objects, heap, handle, calls, phase>>
CompareUuid(call, o, a) == Alive(a) /\ CompareNow(call, o, bytes[a])
CompareText(call, o, h) ==
  handle[h] # NoString /\ CompareNow(call, o, Parsed(chars[handle[h]]))
CompareOther(call, o) == CompareNow(call, o, None)

(* With it: getCore() of a class that has a usable one, else __toString(). *)
Inner == calls[Len(calls)]
Waits(p) == calls # << >> /\ phase[Len(phase)] = p
CallUser(call, o, p) ==
  /\ Alive(o) /\ Len(calls) < MaxDepth
  /\ calls' = Append(calls, [call |-> call, self |-> o, given |-> None])
  /\ phase' = Append(phase, p)
  /\ UNCHANGED <<objects, heap, handle, answer>>

(* Mutant: the bytes are kept in a static place and not on the C stack.    *)
CoreReturnsStatic(a) ==
  /\ Waits("core") /\ Alive(a)
  /\ calls' = [i \in DOMAIN calls |-> [calls[i] EXCEPT !.given = bytes[a]]]
  /\ phase' = [phase EXCEPT ![Len(phase)] = "release"]
  /\ UNCHANGED <<objects, heap, handle, answer>>

(* getCore() returned a Uuid: its bytes are copied, and giving it back may *)
(* run a destructor, that is user code, once more.                         *)
CoreReturns(a) ==
  /\ Waits("core") /\ Alive(a)
  /\ calls' = [calls EXCEPT ![Len(calls)].given = bytes[a]]
  /\ phase' = [phase EXCEPT ![Len(phase)] = "release"]
  /\ UNCHANGED <<objects, heap, handle, answer>>

(* It returned something else: the string is asked for, if there is one.   *)
CoreUseless ==
  /\ Waits("core")
  /\ phase' = [phase EXCEPT ![Len(phase)] = "string"]
  /\ UNCHANGED <<objects, heap, handle, calls, answer>>

Return(result) ==
  /\ calls' = SubSeq(calls, 1, Len(calls) - 1)
  /\ phase' = SubSeq(phase, 1, Len(phase) - 1)
  /\ answer' = result
  /\ UNCHANGED <<objects, heap, handle>>

Finish == Waits("release") /\ Return(Answer(Inner.call, bytes[Inner.self], Inner.given))
StringReturns(h) ==
  /\ Waits("string") /\ handle[h] # NoString
  /\ Return(Answer(Inner.call, bytes[Inner.self], Parsed(chars[handle[h]])))
NotStringable == Waits("core") /\ Return(Answer(Inner.call, bytes[Inner.self], None))

(* User code throws, in an accessor or in the destructor of what it gave.  *)
UserThrows == calls # << >> /\ Return("throws")

Next ==
  \/ \E o \in Objects, v \in Values : Create(o, v) \/ Unserialize(o, v)
  \/ \E o, n \in Objects : Clone(o, n)
  \/ \E o \in Objects : Free(o)
  \/ \E o \in Objects, h \in Handles : FuStr(o, h)
  \/ \E g, h \in Handles : Copy(g, h)
  \/ \E h \in Handles, t \in Written : Write(h, t)
  \/ \E h \in Handles : Drop(h)
  \/ \E call \in Comparisons, o, a \in Objects : CompareUuid(call, o, a)
  \/ \E call \in Foreign, o \in Objects, h \in Handles : CompareText(call, o, h)
  \/ \E call \in Foreign, o \in Objects : CompareOther(call, o)
  \/ \E call \in Foreign, o \in Objects, p \in {"core", "string"} : CallUser(call, o, p)
  \/ \E a \in Objects : CoreReturns(a)
  \/ CoreUseless \/ Finish \/ NotStringable \/ UserThrows
  \/ \E h \in Handles : StringReturns(h)

Spec == Init /\ [][Next]_vars

-----------------------------------------------------------------------------
(* Every variable has its type; a call that has its argument's bytes waits *)
(* for nothing but to give the argument back.                              *)
TypeOK ==
  /\ bytes \in [Objects -> Values \cup {None}]
  /\ str \in [Objects -> Strings \cup {NoString}]
  /\ chars \in [Strings -> Texts \cup {NoText}]
  /\ refs \in [Strings -> Nat]
  /\ handle \in [Handles -> Strings \cup {NoString}]
  /\ calls \in Seq([call : Foreign, self : Objects, given : Values \cup {None}])
  /\ phase \in Seq({"core", "string", "release"})
  /\ Len(phase) = Len(calls)
  /\ \A i \in 1 .. Len(calls) : (phase[i] = "release") = (calls[i].given # None)
  /\ answer \in Answers

(* The count of a string is the number of objects and variables that hold  *)
(* it: nothing leaks, and nothing points to memory that was given back.    *)
Owners(s) == {o \in Objects : str[o] = s} \cup {h \in Handles : handle[h] = s}
RefsExact == \A s \in Strings : refs[s] = Cardinality(Owners(s))

(* A cached string is the text of the bytes, whatever user code did to the *)
(* strings it was given, and to the object while a comparison was under way.*)
CacheIsText ==
  \A o \in Objects : str[o] # NoString => Alive(o) /\ chars[str[o]] = Canonical(bytes[o])

(* Cache, sharing and callbacks cannot be told from an object that is its  *)
(* bytes and nothing else.                                                 *)
Held == [h \in Handles |-> IF handle[h] = NoString THEN NoText ELSE chars[handle[h]]]
Plain == INSTANCE UuidPlain WITH value <- bytes, text <- Held
ImplementsPlain == Plain!Spec
=============================================================================
