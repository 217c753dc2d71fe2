----------------------------- MODULE UuidPlain -----------------------------
(***************************************************************************)
(* A Uuid object as user code may think of it: sixteen bytes.  Its string  *)
(* is the text of the bytes at the moment it is asked for; a string in a   *)
(* user variable changes only when that variable is written.  A comparison *)
(* whose argument is a foreign object calls user methods first: it learns  *)
(* the other bytes from them, and compares when it returns.                *)
(***************************************************************************)
EXTENDS UuidText, Sequences

CONSTANTS
  Objects,   (* Uuid objects that may exist                                 *)
  Handles,   (* user variables that may hold a string                       *)
  Written,   (* texts user code writes                                      *)
  MaxDepth   (* bound: comparisons under way, one inside a callback of another *)

VARIABLES
  value,     \* the bytes of each object, None where there is no object
  text,      \* the text each variable holds, NoText if none
  calls,     \* comparisons waiting for user code, the innermost last
  answer     \* what the comparison that returned last answered

vars == <<value, text, calls, answer>>

Init ==
  /\ value = [o \in Objects |-> None]
  /\ text = [h \in Handles |-> NoText]
  /\ calls = << >>
  /\ answer = "throws"

Alive(o) == value[o] # None
Inner == calls[Len(calls)]
Outer == SubSeq(calls, 1, Len(calls) - 1)
Learned == calls # << >> /\ Inner.given # None
Asking == calls # << >> /\ Inner.given = None
Under(o) == \E i \in 1 .. Len(calls) : calls[i].self = o

Create(o, v) ==
  /\ ~Alive(o)
  /\ value' = [value EXCEPT ![o] = v]
  /\ UNCHANGED <<text, calls, answer>>

Clone(o, n) == Alive(o) /\ Create(n, value[o])

Restore(o, v) ==
  /\ Alive(o)
  /\ value' = [value EXCEPT ![o] = v]
  /\ UNCHANGED <<text, calls, answer>>

Free(o) ==
  /\ Alive(o) /\ ~Under(o)
  /\ value' = [value EXCEPT ![o] = None]
  /\ UNCHANGED <<text, calls, answer>>

SetText(h, t) ==
  /\ text' = [text EXCEPT ![h] = t]
  /\ UNCHANGED <<value, calls, answer>>

AskText(o, h) == Alive(o) /\ text[h] = NoText /\ SetText(h, Canonical(value[o]))
Copy(g, h) == text[g] # NoText /\ text[h] = NoText /\ SetText(h, text[g])
Write(h, t) == text[h] # NoText /\ SetText(h, t)
Drop(h) == text[h] # NoText /\ SetText(h, NoText)

(* The comparison is answered at once, or waits for user code.             *)
CompareNow(call, o, theirs) ==
  /\ Alive(o)
  /\ answer' = Answer(call, value[o], theirs)
  /\ UNCHANGED <<value, text, calls>>

Begin(call, o) ==
  /\ Alive(o) /\ Len(calls) < MaxDepth
  /\ calls' = Append(calls, [call |-> call, self |-> o, given |-> None])
  /\ UNCHANGED <<value, text, answer>>

Learn(a) ==
  /\ Asking /\ Alive(a)
  /\ calls' = [calls EXCEPT ![Len(calls)].given = value[a]]
  /\ UNCHANGED <<value, text, answer>>

Return(result) ==
  /\ calls' = Outer
  /\ answer' = result
  /\ UNCHANGED <<value, text>>

(* Whatever was learned, this object's bytes are those of the return.      *)
Finish == Learned /\ Return(Answer(Inner.call, value[Inner.self], Inner.given))
FinishWith(theirs) == Asking /\ Return(Answer(Inner.call, value[Inner.self], theirs))
Throw == calls # << >> /\ Return("throws")

Next ==
  \/ \E o \in Objects, v \in Values : Create(o, v) \/ Restore(o, v)
  \/ \E o, n \in Objects : Clone(o, n)
  \/ \E o \in Objects : Free(o)
  \/ \E o \in Objects, h \in Handles : AskText(o, h)
  \/ \E g, h \in Handles : Copy(g, h)
  \/ \E h \in Handles, t \in Written : Write(h, t)
  \/ \E h \in Handles : Drop(h)
  \/ \E call \in Comparisons, o, a \in Objects : Alive(a) /\ CompareNow(call, o, value[a])
  \/ \E call \in Foreign, o \in Objects, h \in Handles :
       text[h] # NoText /\ CompareNow(call, o, Parsed(text[h]))
  \/ \E call \in Foreign, o \in Objects : CompareNow(call, o, None)
  \/ \E call \in Foreign, o \in Objects : Begin(call, o)
  \/ \E a \in Objects : Learn(a)
  \/ Finish
  \/ \E h \in Handles : text[h] # NoText /\ FinishWith(Parsed(text[h]))
  \/ FinishWith(None)
  \/ Throw

Spec == Init /\ [][Next]_vars
=============================================================================
