----------------------------- MODULE UuidProofs -----------------------------
(***************************************************************************)
(* The counts of UuidObject are exact for any number of objects, variables *)
(* and strings and any depth of callbacks; hence the cache is sound, and   *)
(* hence the object cannot be told from one without it.                    *)
(***************************************************************************)
EXTENDS UuidObject, FiniteSetTheorems, TLAPS

(* A string somebody holds has a text.                                     *)
LiveHasText == \A s \in Strings : refs[s] # 0 => chars[s] \in Texts

IInv == TypeOK /\ RefsExact /\ CacheIsText /\ LiveHasText

-----------------------------------------------------------------------------
(* Who holds a string.                                                     *)

(* The owners of a string are finitely many.                               *)
LEMMA OwnersFinite == \A s : IsFiniteSet(Owners(s))
<1> TAKE s
<1>1. IsFiniteSet({o \in Objects : str[o] = s})
  BY ObjectAssumption, FS_Subset
<1>2. IsFiniteSet({h \in Handles : handle[h] = s})
  BY ObjectAssumption, FS_Subset
<1> QED
  BY <1>1, <1>2, FS_Union DEF Owners

(* A string with a count of zero is pointed to by nobody, one with a count *)
(* of one by one.                                                          *)
LEMMA NoOwner ==
  ASSUME RefsExact, NEW s \in Strings, refs[s] = 0
  PROVE  Owners(s) = {}
<1>1. Cardinality(Owners(s)) = 0
  BY DEF RefsExact
<1> QED
  BY <1>1, OwnersFinite, FS_EmptySet

LEMMA OneOwner ==
  ASSUME RefsExact, NEW s \in Strings, refs[s] = 1, NEW x \in Owners(s)
  PROVE  Owners(s) = {x}
<1>1. Cardinality(Owners(s)) = 1
  BY DEF RefsExact
<1>2. PICK y : Owners(s) = {y}
  BY <1>1, OwnersFinite, FS_Singleton
<1> QED
  BY <1>2

(* Counting up and down.                                                   *)
LEMMA Gained ==
  ASSUME NEW S, IsFiniteSet(S), NEW x, x \notin S
  PROVE  Cardinality(S \cup {x}) = Cardinality(S) + 1
BY FS_AddElement

LEMMA Lost ==
  ASSUME NEW S, IsFiniteSet(S), NEW x \in S
  PROVE  Cardinality(S \ {x}) = Cardinality(S) - 1
BY FS_RemoveElement

-----------------------------------------------------------------------------
(* How the owners move, and the counts with them.                          *)

(* A variable that held nothing takes a string of which the count is raised.*)
LEMMA HandleTakes ==
  ASSUME TypeOK, RefsExact,
         NEW h \in Handles, handle[h] = NoString, NEW s \in Strings,
         handle' = [handle EXCEPT ![h] = s], str' = str,
         refs' = [refs EXCEPT ![s] = @ + 1]
  PROVE  RefsExact'
<1> SUFFICES ASSUME NEW r \in Strings
             PROVE  refs'[r] = Cardinality(Owners(r)')
  BY DEF RefsExact
<1>1. refs[r] = Cardinality(Owners(r)) /\ refs[r] \in Nat
  BY DEF RefsExact, TypeOK
<1>2. h \notin Objects
  BY ObjectAssumption
<1>3. CASE r = s
  <2>1. Owners(r)' = Owners(r) \cup {h} /\ h \notin Owners(r)
    BY <1>2, <1>3, ObjectAssumption DEF Owners, TypeOK
  <2>2. Cardinality(Owners(r)') = refs[r] + 1
    BY <2>1, <1>1, OwnersFinite, Gained
  <2> QED
    BY <2>2, <1>3 DEF TypeOK
<1>4. CASE r # s
  <2>1. Owners(r)' = Owners(r)
    BY <1>4, ObjectAssumption DEF Owners, TypeOK
  <2> QED
    BY <2>1, <1>1, <1>4 DEF TypeOK
<1> QED
  BY <1>3, <1>4

(* A variable gives its string back.                                       *)
LEMMA HandleDrops ==
  ASSUME TypeOK, RefsExact,
         NEW h \in Handles, handle[h] # NoString,
         handle' = [handle EXCEPT ![h] = NoString], str' = str,
         refs' = [refs EXCEPT ![handle[h]] = @ - 1]
  PROVE  RefsExact'
<1> SUFFICES ASSUME NEW r \in Strings
             PROVE  refs'[r] = Cardinality(Owners(r)')
  BY DEF RefsExact
<1>1. refs[r] = Cardinality(Owners(r)) /\ refs[r] \in Nat
  BY DEF RefsExact, TypeOK
<1>2. h \notin Objects
  BY ObjectAssumption
<1>3. CASE r = handle[h]
  <2>1. Owners(r)' = Owners(r) \ {h} /\ h \in Owners(r)
    BY <1>2, <1>3, ObjectAssumption DEF Owners, TypeOK
  <2>2. Cardinality(Owners(r)') = refs[r] - 1
    BY <2>1, <1>1, OwnersFinite, Lost
  <2> QED
    BY <2>2, <1>3 DEF TypeOK
<1>4. CASE r # handle[h]
  <2>1. Owners(r)' = Owners(r)
    BY <1>4, ObjectAssumption DEF Owners, TypeOK
  <2> QED
    BY <2>1, <1>1, <1>4 DEF TypeOK
<1> QED
  BY <1>3, <1>4

(* An object gives its string back, or had none.                           *)
LEMMA ObjectDrops ==
  ASSUME TypeOK, RefsExact,
         NEW o \in Objects,
         str' = [str EXCEPT ![o] = NoString], handle' = handle,
         ReleaseIfAny(str[o])
  PROVE  RefsExact'
<1> SUFFICES ASSUME NEW r \in Strings
             PROVE  refs'[r] = Cardinality(Owners(r)')
  BY DEF RefsExact
<1>1. refs[r] = Cardinality(Owners(r)) /\ refs[r] \in Nat
  BY DEF RefsExact, TypeOK
<1>2. o \notin Handles
  BY ObjectAssumption
<1>3. CASE r = str[o]
  <2>1. Owners(r)' = Owners(r) \ {o} /\ o \in Owners(r)
    BY <1>2, <1>3, ObjectAssumption DEF Owners, TypeOK
  <2>2. Cardinality(Owners(r)') = refs[r] - 1
    BY <2>1, <1>1, OwnersFinite, Lost
  <2>3. refs'[r] = refs[r] - 1
    BY <1>3, ObjectAssumption DEF TypeOK, ReleaseIfAny, Release
  <2> QED
    BY <2>2, <2>3
<1>4. CASE r # str[o]
  <2>1. Owners(r)' = Owners(r)
    BY <1>4, ObjectAssumption DEF Owners, TypeOK
  <2>2. refs'[r] = refs[r]
    BY <1>4, ObjectAssumption DEF TypeOK, ReleaseIfAny, Release, heap
  <2> QED
    BY <2>1, <2>2, <1>1
<1> QED
  BY <1>3, <1>4

-----------------------------------------------------------------------------
(* What the heap keeps.                                                    *)

(* An owner keeps the count of its string above zero.                      *)
LEMMA Counted ==
  ASSUME TypeOK, RefsExact, NEW s \in Strings, NEW x \in Owners(s)
  PROVE  refs[s] \in Nat \ {0}
<1>1. refs[s] # 0
  BY NoOwner
<1> QED
  BY <1>1 DEF TypeOK

(* A string released by one of its owners keeps its text for the others.   *)
LEMMA ReleaseKeeps ==
  ASSUME TypeOK, RefsExact,
         NEW s \in Strings, NEW x \in Owners(s), Release(s),
         NEW r \in Strings, NEW y \in Owners(r), y # x
  PROVE  chars'[r] = chars[r]
<1>1. CASE r = s
  <2>1. refs[s] # 1
    BY <1>1, OneOwner
  <2> QED
    BY <2>1 DEF Release
<1>2. CASE r # s
  BY <1>2 DEF Release, TypeOK
<1> QED
  BY <1>1, <1>2

(* A string allocated takes no text from anybody.                          *)
LEMMA AllocKeeps ==
  ASSUME TypeOK, RefsExact,
         NEW s \in Strings, refs[s] = 0, NEW t, chars' = [chars EXCEPT ![s] = t],
         NEW r \in Strings, NEW y \in Owners(r)
  PROVE  chars'[r] = chars[r]
<1>1. r # s
  BY NoOwner
<1> QED
  BY <1>1 DEF TypeOK

(* The heap stays well typed, and what is counted keeps a text.            *)
LEMMA ReleaseTyped ==
  ASSUME TypeOK, RefsExact, LiveHasText,
         NEW s \in Strings, NEW x \in Owners(s), Release(s)
  PROVE  /\ refs' \in [Strings -> Nat] /\ chars' \in [Strings -> Texts \cup {NoText}]
         /\ LiveHasText'
<1>1. refs[s] \in Nat \ {0}
  BY Counted
<1>2. refs' \in [Strings -> Nat]
  BY <1>1 DEF Release, TypeOK
<1>3. chars' \in [Strings -> Texts \cup {NoText}]
  BY DEF Release, TypeOK
<1>4. ASSUME NEW r \in Strings, refs'[r] # 0
      PROVE  chars'[r] \in Texts
  <2>1. refs[r] # 0 /\ chars'[r] = chars[r]
    BY <1>1, <1>4 DEF Release, TypeOK
  <2> QED
    BY <2>1 DEF LiveHasText
<1> QED
  BY <1>2, <1>3, <1>4 DEF LiveHasText

LEMMA AllocTyped ==
  ASSUME TypeOK, LiveHasText,
         NEW s \in Strings, NEW t \in Texts, NEW n \in Nat, Alloc(s, t, n)
  PROVE  /\ refs' \in [Strings -> Nat] /\ chars' \in [Strings -> Texts \cup {NoText}]
         /\ LiveHasText'
<1>1. refs' \in [Strings -> Nat] /\ chars' \in [Strings -> Texts \cup {NoText}]
  BY DEF Alloc, TypeOK
<1>2. ASSUME NEW r \in Strings, refs'[r] # 0
      PROVE  chars'[r] \in Texts
  BY <1>2 DEF Alloc, TypeOK, LiveHasText
<1> QED
  BY <1>1, <1>2 DEF LiveHasText

(* Texts, as the properties use them.                                      *)
LEMMA TextFacts ==
  /\ \A v \in Values : Canonical(v) \in Texts
  /\ NoText \notin Texts
  /\ None \notin Values
<1>1. \A v \in Values : Canonical(v) \in Texts
  BY DEF Canonical, Texts
<1>2. \A t \in Texts : t[1] # NoText[1]
  BY DEF Texts, NoText
<1>3. None \notin Values
  BY ObjectAssumption DEF None
<1> QED
  BY <1>1, <1>2, <1>3

(* What the comparisons leave alone, a part of TypeOK.                     *)
ComparingOK ==
  /\ calls \in Seq([call : Foreign, self : Objects, given : Values \cup {None}])
  /\ phase \in Seq({"core", "string", "release"})
  /\ Len(phase) = Len(calls)
  /\ \A i \in 1 .. Len(calls) : (phase[i] = "release") = (calls[i].given # None)
  /\ answer \in Answers

LEMMA ComparingKept ==
  ASSUME TypeOK, UNCHANGED comparing
  PROVE  ComparingOK'
BY DEF TypeOK, ComparingOK, comparing

-----------------------------------------------------------------------------
(* Objects.                                                                *)

(* An object that is not alive has no string: a new one starts without.    *)
LEMMA CreateKeeps ==
  ASSUME IInv, NEW o \in Objects, NEW v \in Values, Create(o, v)
  PROVE  IInv' /\ str' = str
<1> USE DEF IInv
<1>1. str[o] = NoString
  BY DEF Create, CacheIsText
<1>2. str' = str
  BY <1>1 DEF Create, TypeOK
<1>3. UNCHANGED <<chars, refs, handle>>
  BY DEF Create, heap
<1>4. TypeOK'
  BY <1>2, <1>3, ComparingKept DEF Create, TypeOK, ComparingOK
<1>5. RefsExact'
  BY <1>2, <1>3 DEF RefsExact, Owners
<1>6. CacheIsText'
  BY <1>1, <1>2, <1>3 DEF CacheIsText, Create, Alive, TypeOK
<1>7. LiveHasText'
  BY <1>3 DEF LiveHasText
<1> QED
  BY <1>2, <1>4, <1>5, <1>6, <1>7

(* __unserialize() and the end of an object give its string back.          *)
LEMMA GiveBackKeeps ==
  ASSUME IInv, NEW o \in Objects, NEW b \in Values \cup {None},
         ReleaseIfAny(str[o]),
         str' = [str EXCEPT ![o] = NoString], bytes' = [bytes EXCEPT ![o] = b],
         UNCHANGED <<handle, comparing>>
  PROVE  /\ IInv'
         /\ \A r \in Strings : \A y \in Owners(r) : y # o => chars'[r] = chars[r]
<1> USE DEF IInv
<1>1. str[o] # NoString => str[o] \in Strings /\ o \in Owners(str[o])
  BY DEF TypeOK, Owners
<1>2. /\ refs' \in [Strings -> Nat] /\ chars' \in [Strings -> Texts \cup {NoText}]
      /\ LiveHasText'
  <2>1. CASE str[o] = NoString
    BY <2>1 DEF ReleaseIfAny, heap, TypeOK, LiveHasText
  <2>2. CASE str[o] # NoString
    BY <2>2, <1>1, ReleaseTyped DEF ReleaseIfAny
  <2> QED
    BY <2>1, <2>2
<1>3. ASSUME NEW r \in Strings, NEW y \in Owners(r), y # o
      PROVE  chars'[r] = chars[r]
  <2>1. CASE str[o] = NoString
    BY <2>1 DEF ReleaseIfAny, heap
  <2>2. CASE str[o] # NoString
    BY <2>2, <1>1, <1>3, ReleaseKeeps DEF ReleaseIfAny
  <2> QED
    BY <2>1, <2>2
<1>4. TypeOK'
  BY <1>2, ComparingKept DEF TypeOK, ComparingOK
<1>5. RefsExact'
  BY ObjectDrops
<1>6. ASSUME NEW p \in Objects, str'[p] # NoString
      PROVE  Alive(p)' /\ chars'[str'[p]] = Canonical(bytes'[p])
  <2>1. p # o /\ str'[p] = str[p] /\ bytes'[p] = bytes[p]
    BY <1>6 DEF TypeOK
  <2>2. str[p] \in Strings /\ p \in Owners(str[p])
    BY <1>6, <2>1 DEF TypeOK, Owners
  <2>3. chars'[str[p]] = chars[str[p]]
    BY <2>1, <2>2, <1>3
  <2> QED
    BY <1>6, <2>1, <2>3 DEF CacheIsText, Alive
<1> QED
  BY <1>2, <1>3, <1>4, <1>5, <1>6 DEF CacheIsText

-----------------------------------------------------------------------------
(* Strings in user variables.                                              *)

(* fu_str with a cached string, and a variable copied: one owner more.     *)
LEMMA TakeKeeps ==
  ASSUME IInv, NEW h \in Handles, handle[h] = NoString,
         NEW s \in Strings, NEW x \in Owners(s),
         AddRef(s), handle' = [handle EXCEPT ![h] = s],
         UNCHANGED <<objects, comparing>>
  PROVE  IInv'
<1> USE DEF IInv
<1>1. refs' = [refs EXCEPT ![s] = @ + 1] /\ chars' = chars /\ bytes' = bytes /\ str' = str
  BY DEF AddRef, objects
<1>2. refs[s] \in Nat \ {0}
  BY Counted
<1>3. TypeOK'
  BY <1>1, <1>2, ComparingKept DEF TypeOK, ComparingOK
<1>4. RefsExact'
  BY <1>1, HandleTakes
<1>5. CacheIsText'
  BY <1>1 DEF CacheIsText, Alive
<1>6. LiveHasText'
  BY <1>1, <1>2 DEF LiveHasText, TypeOK
<1> QED
  BY <1>3, <1>4, <1>5, <1>6

(* fu_str that builds: two owners at once, the object and the variable.    *)
LEMMA BuiltKeeps ==
  ASSUME IInv, NEW o \in Objects, NEW h \in Handles, NEW s \in Strings,
         Alive(o), handle[h] = NoString, str[o] = NoString,
         Alloc(s, Canonical(bytes[o]), 2),
         str' = [str EXCEPT ![o] = s], handle' = [handle EXCEPT ![h] = s],
         UNCHANGED <<bytes, comparing>>
  PROVE  /\ IInv'
         /\ \A r \in Strings : \A y \in Owners(r) : chars'[r] = chars[r]
<1> USE DEF IInv
<1>1. Canonical(bytes[o]) \in Texts
  BY TextFacts DEF Alive, TypeOK
<1>2. /\ refs' \in [Strings -> Nat] /\ chars' \in [Strings -> Texts \cup {NoText}]
      /\ LiveHasText'
  BY <1>1, AllocTyped
<1>3. TypeOK'
  BY <1>2, ComparingKept DEF TypeOK, ComparingOK
<1>4. ASSUME NEW r \in Strings, NEW y \in Owners(r)
      PROVE  chars'[r] = chars[r]
  BY AllocKeeps DEF Alloc
<1>5. Owners(s) = {}
  BY NoOwner DEF Alloc
<1>6. o # h
  BY ObjectAssumption
<1>7. ASSUME NEW r \in Strings
      PROVE  refs'[r] = Cardinality(Owners(r)')
  <2>1. CASE r = s
    <3>1. Owners(r)' = {o, h}
      BY <2>1, <1>5, ObjectAssumption DEF Owners, TypeOK
    <3>2. Cardinality({o, h}) = 2
      <4>1. Cardinality({o}) = 1 /\ IsFiniteSet({o})
        BY FS_Singleton
      <4>2. Cardinality({o} \cup {h}) = 2
        BY <4>1, <1>6, Gained
      <4>3. {o} \cup {h} = {o, h}
        OBVIOUS
      <4> QED
        BY <4>2, <4>3
    <3> QED
      BY <2>1, <3>1, <3>2 DEF Alloc, TypeOK
  <2>2. CASE r # s
    <3>1. Owners(r)' = Owners(r)
      BY <2>2, ObjectAssumption DEF Owners, TypeOK
    <3> QED
      BY <2>2, <3>1 DEF Alloc, TypeOK, RefsExact
  <2> QED
    BY <2>1, <2>2
<1>8. ASSUME NEW p \in Objects, str'[p] # NoString
      PROVE  Alive(p)' /\ chars'[str'[p]] = Canonical(bytes'[p])
  <2>1. CASE p = o
    BY <2>1 DEF Alloc, TypeOK, Alive
  <2>2. CASE p # o
    <3>1. str'[p] = str[p] /\ str[p] \in Strings /\ p \in Owners(str[p])
      BY <2>2, <1>8 DEF TypeOK, Owners
    <3>2. chars'[str[p]] = chars[str[p]]
      BY <3>1, <1>4
    <3> QED
      BY <1>8, <3>1, <3>2 DEF CacheIsText, Alive
  <2> QED
    BY <2>1, <2>2
<1> QED
  BY <1>2, <1>3, <1>4, <1>7, <1>8 DEF RefsExact, CacheIsText

(* A variable is dropped: its string goes if nobody else has it.           *)
LEMMA DropKeeps ==
  ASSUME IInv, NEW h \in Handles, Drop(h)
  PROVE  /\ IInv'
         /\ \A r \in Strings : \A y \in Owners(r) : y # h => chars'[r] = chars[r]
<1> USE DEF IInv
<1>1. handle[h] \in Strings /\ h \in Owners(handle[h]) /\ Release(handle[h])
  BY DEF Drop, TypeOK, Owners
<1>2. /\ refs' \in [Strings -> Nat] /\ chars' \in [Strings -> Texts \cup {NoText}]
      /\ LiveHasText'
  BY <1>1, ReleaseTyped
<1>3. ASSUME NEW r \in Strings, NEW y \in Owners(r), y # h
      PROVE  chars'[r] = chars[r]
  BY <1>1, <1>3, ReleaseKeeps
<1>4. bytes' = bytes /\ str' = str
  BY DEF Drop, objects
<1>5. TypeOK'
  BY <1>2, <1>4, ComparingKept DEF TypeOK, ComparingOK, Drop
<1>6. RefsExact'
  BY <1>4, HandleDrops DEF Drop, Release
<1>7. ASSUME NEW p \in Objects, str[p] # NoString
      PROVE  chars'[str[p]] = chars[str[p]]
  <2>1. str[p] \in Strings /\ p \in Owners(str[p]) /\ p # h
    BY <1>7, ObjectAssumption DEF TypeOK, Owners
  <2> QED
    BY <2>1, <1>3
<1>8. CacheIsText'
  BY <1>4, <1>7 DEF CacheIsText, Alive
<1> QED
  BY <1>2, <1>3, <1>5, <1>6, <1>8

(* A string with one owner is written in place: only he sees it.           *)
LEMMA InPlaceKeeps ==
  ASSUME IInv, NEW h \in Handles, NEW t \in Texts, handle[h] # NoString,
         WriteInPlace(h, t), UNCHANGED <<objects, comparing>>
  PROVE  /\ IInv'
         /\ \A r \in Strings : \A y \in Owners(r) : y # h => chars'[r] = chars[r]
<1> USE DEF IInv
<1>1. handle[h] \in Strings /\ h \in Owners(handle[h])
  BY DEF TypeOK, Owners
<1>2. Owners(handle[h]) = {h}
  BY <1>1, OneOwner DEF WriteInPlace
<1>3. ASSUME NEW r \in Strings, NEW y \in Owners(r), y # h
      PROVE  chars'[r] = chars[r]
  BY <1>1, <1>2, <1>3 DEF WriteInPlace, TypeOK
<1>4. UNCHANGED <<bytes, str, refs, handle>>
  BY DEF WriteInPlace, objects
<1>5. TypeOK'
  BY <1>4, ComparingKept DEF TypeOK, ComparingOK, WriteInPlace
<1>6. RefsExact'
  BY <1>4 DEF RefsExact, Owners
<1>7. ASSUME NEW p \in Objects, str[p] # NoString
      PROVE  chars'[str[p]] = chars[str[p]]
  <2>1. str[p] \in Strings /\ p \in Owners(str[p]) /\ p # h
    BY <1>7, ObjectAssumption DEF TypeOK, Owners
  <2> QED
    BY <2>1, <1>3
<1>8. CacheIsText'
  BY <1>4, <1>7 DEF CacheIsText, Alive
<1>9. LiveHasText'
  BY <1>4 DEF LiveHasText, WriteInPlace, TypeOK
<1> QED
  BY <1>3, <1>5, <1>6, <1>8, <1>9

(* A shared string is copied before it is written.                         *)
LEMMA SeparatedKeeps ==
  ASSUME IInv, NEW h \in Handles, NEW t \in Texts, handle[h] # NoString,
         refs[handle[h]] # 1,
         NEW s \in Strings, refs[s] = 0,
         refs' = [refs EXCEPT ![handle[h]] = @ - 1, ![s] = 1],
         chars' = [chars EXCEPT ![s] = t], handle' = [handle EXCEPT ![h] = s],
         UNCHANGED <<objects, comparing>>
  PROVE  /\ IInv'
         /\ \A r \in Strings : \A y \in Owners(r) : chars'[r] = chars[r]
<1> USE DEF IInv
<1> DEFINE g == handle[h]
<1>1. g \in Strings /\ h \in Owners(g)
  BY DEF TypeOK, Owners
<1>2. refs[g] \in Nat \ {0} /\ g # s
  BY <1>1, Counted
<1>3. bytes' = bytes /\ str' = str
  BY DEF objects
<1>4. ASSUME NEW r \in Strings, NEW y \in Owners(r)
      PROVE  chars'[r] = chars[r]
  BY AllocKeeps
<1>5. TypeOK'
  <2>1. refs' \in [Strings -> Nat]
    BY <1>1, <1>2 DEF TypeOK
  <2>2. chars' \in [Strings -> Texts \cup {NoText}] /\ handle' \in [Handles -> Strings \cup {NoString}]
    BY DEF TypeOK
  <2> QED
    BY <2>1, <2>2, <1>3, ComparingKept DEF TypeOK, ComparingOK
<1>6. Owners(s) = {}
  BY NoOwner
<1>7. ASSUME NEW r \in Strings
      PROVE  refs'[r] = Cardinality(Owners(r)')
  <2>1. refs[r] = Cardinality(Owners(r)) /\ refs[r] \in Nat
    BY DEF RefsExact, TypeOK
  <2>2. CASE r = s
    <3>1. Owners(r)' = {h}
      BY <2>2, <1>3, <1>6, ObjectAssumption DEF Owners, TypeOK
    <3>2. refs'[r] = 1
      BY <2>2 DEF TypeOK
    <3> QED
      BY <3>1, <3>2, FS_Singleton
  <2>3. CASE r = g
    <3>1. Owners(r)' = Owners(r) \ {h} /\ h \in Owners(r)
      BY <2>3, <1>1, <1>2, <1>3, ObjectAssumption DEF Owners, TypeOK
    <3>2. Cardinality(Owners(r)') = refs[r] - 1
      BY <3>1, <2>1, OwnersFinite, Lost
    <3> QED
      BY <3>2, <2>3, <1>2 DEF TypeOK
  <2>4. CASE r # s /\ r # g
    <3>1. Owners(r)' = Owners(r)
      BY <2>4, <1>3, ObjectAssumption DEF Owners, TypeOK
    <3> QED
      BY <3>1, <2>1, <2>4 DEF TypeOK
  <2> QED
    BY <2>2, <2>3, <2>4
<1>8. ASSUME NEW p \in Objects, str[p] # NoString
      PROVE  chars'[str[p]] = chars[str[p]]
  <2>1. str[p] \in Strings /\ p \in Owners(str[p])
    BY <1>8 DEF TypeOK, Owners
  <2> QED
    BY <2>1, <1>4
<1>9. CacheIsText'
  BY <1>3, <1>8 DEF CacheIsText, Alive
<1>10. LiveHasText'
  BY <1>1, <1>2 DEF LiveHasText, TypeOK
<1> QED
  BY <1>4, <1>5, <1>7, <1>9, <1>10 DEF RefsExact

-----------------------------------------------------------------------------
(* Comparisons touch no string and no object.                              *)

LEMMA ComparingKeeps ==
  ASSUME IInv, UNCHANGED <<objects, heap, handle>>, ComparingOK'
  PROVE  IInv'
<1>1. UNCHANGED <<bytes, str, chars, refs, handle>>
  BY DEF objects, heap
<1>2. TypeOK'
  BY <1>1 DEF IInv, TypeOK, ComparingOK
<1>3. RefsExact' /\ CacheIsText' /\ LiveHasText'
  BY <1>1 DEF IInv, RefsExact, Owners, CacheIsText, Alive, LiveHasText
<1> QED
  BY <1>2, <1>3 DEF IInv

(* Every comparison gives an answer.                                       *)
LEMMA AnswerTyped ==
  ASSUME NEW call, NEW mine, NEW theirs
  PROVE  Answer(call, mine, theirs) \in Answers
BY DEF Answer, Sign, Answers

LEMMA CompareNowKeeps ==
  ASSUME IInv, NEW call, NEW o \in Objects, NEW theirs, CompareNow(call, o, theirs)
  PROVE  IInv'
<1>1. ComparingOK'
  BY AnswerTyped DEF CompareNow, IInv, TypeOK, ComparingOK
<1> QED
  BY <1>1, ComparingKeeps DEF CompareNow

LEMMA CallUserKeeps ==
  ASSUME IInv, NEW call \in Foreign, NEW o \in Objects, NEW p \in {"core", "string"},
         CallUser(call, o, p)
  PROVE  IInv'
<1> DEFINE frame == [call |-> call, self |-> o, given |-> None]
           n == Len(calls)
<1>1. frame \in [call : Foreign, self : Objects, given : Values \cup {None}]
  OBVIOUS
<1>2. calls' = Append(calls, frame) /\ phase' = Append(phase, p) /\ answer' = answer
  BY DEF CallUser
<1>3. /\ calls \in Seq([call : Foreign, self : Objects, given : Values \cup {None}])
      /\ phase \in Seq({"core", "string", "release"})
      /\ Len(phase) = n /\ n \in Nat /\ answer \in Answers
      /\ \A i \in 1 .. n : (phase[i] = "release") = (calls[i].given # None)
  BY DEF IInv, TypeOK
<1> HIDE DEF frame
<1>4. /\ calls' \in Seq([call : Foreign, self : Objects, given : Values \cup {None}])
      /\ phase' \in Seq({"core", "string", "release"})
      /\ Len(calls') = n + 1 /\ Len(phase') = n + 1
  BY <1>1, <1>2, <1>3
<1>5. ASSUME NEW i \in 1 .. n + 1
      PROVE  (phase'[i] = "release") = (calls'[i].given # None)
  <2>1. CASE i = n + 1
    <3>1. phase'[i] = p /\ calls'[i] = frame
      BY <2>1, <1>2, <1>3
    <3> QED
      BY <3>1 DEF frame
  <2>2. CASE i # n + 1
    <3>1. i \in 1 .. n /\ phase'[i] = phase[i] /\ calls'[i] = calls[i]
      BY <2>2, <1>2, <1>3
    <3> QED
      BY <3>1, <1>3
  <2> QED
    BY <2>1, <2>2
<1>6. ComparingOK'
  BY <1>2, <1>3, <1>4, <1>5 DEF ComparingOK
<1> QED
  BY <1>6, ComparingKeeps DEF CallUser

LEMMA CoreReturnsKeeps ==
  ASSUME IInv, NEW a \in Objects, CoreReturns(a)
  PROVE  IInv'
<1> DEFINE n == Len(calls)
           F == [call : Foreign, self : Objects, given : Values \cup {None}]
<1>1. /\ calls' = [calls EXCEPT ![n].given = bytes[a]]
      /\ phase' = [phase EXCEPT ![Len(phase)] = "release"]
      /\ answer' = answer /\ bytes[a] # None
  BY DEF CoreReturns, Alive
<1>2. /\ calls \in Seq(F) /\ phase \in Seq({"core", "string", "release"})
      /\ Len(phase) = n /\ n \in Nat /\ n # 0 /\ answer \in Answers
      /\ \A i \in 1 .. n : (phase[i] = "release") = (calls[i].given # None)
      /\ bytes[a] \in Values \cup {None}
  BY DEF IInv, TypeOK, CoreReturns, Waits
<1> HIDE DEF F
<1>3. n \in 1 .. n /\ calls[n] \in F
  BY <1>2
<1>4. [calls[n] EXCEPT !.given = bytes[a]] \in F
  BY <1>2, <1>3 DEF F
<1>5. calls' = [calls EXCEPT ![n] = [calls[n] EXCEPT !.given = bytes[a]]]
  BY <1>1
<1>6. calls' \in Seq(F) /\ Len(calls') = n
  BY <1>2, <1>3, <1>4, <1>5
<1>7. phase' \in Seq({"core", "string", "release"}) /\ Len(phase') = n
  BY <1>1, <1>2, <1>3
<1>8. ASSUME NEW i \in 1 .. n
      PROVE  (phase'[i] = "release") = (calls'[i].given # None)
  <2>1. CASE i = n
    <3>1. phase'[i] = "release" /\ calls'[i] = [calls[n] EXCEPT !.given = bytes[a]]
      BY <2>1, <1>1, <1>2, <1>5
    <3>2. calls'[i].given = bytes[a]
      BY <3>1, <1>3 DEF F
    <3> QED
      BY <3>1, <3>2, <1>1
  <2>2. CASE i # n
    <3>1. phase'[i] = phase[i] /\ calls'[i] = calls[i]
      BY <2>2, <1>1, <1>2, <1>5
    <3> QED
      BY <3>1, <1>2
  <2> QED
    BY <2>1, <2>2
<1>9. ComparingOK'
  BY <1>1, <1>2, <1>6, <1>7, <1>8 DEF ComparingOK, F
<1> QED
  BY <1>9, ComparingKeeps DEF CoreReturns

LEMMA CoreUselessKeeps ==
  ASSUME IInv, CoreUseless
  PROVE  IInv'
<1> DEFINE n == Len(calls)
<1>1. calls' = calls /\ answer' = answer /\ phase' = [phase EXCEPT ![n] = "string"]
  BY DEF CoreUseless, IInv, TypeOK
<1>2. /\ phase \in Seq({"core", "string", "release"})
      /\ Len(phase) = n /\ n \in Nat /\ n # 0 /\ phase[n] = "core"
      /\ \A i \in 1 .. n : (phase[i] = "release") = (calls[i].given # None)
  BY DEF IInv, TypeOK, CoreUseless, Waits
<1>3. phase' \in Seq({"core", "string", "release"}) /\ Len(phase') = n
  BY <1>1, <1>2
<1>4. ASSUME NEW i \in 1 .. n
      PROVE  (phase'[i] = "release") = (calls'[i].given # None)
  <2>1. (phase'[i] = "release") = (phase[i] = "release")
    BY <1>1, <1>2
  <2> QED
    BY <2>1, <1>1, <1>2
<1>5. ComparingOK'
  BY <1>1, <1>3, <1>4 DEF ComparingOK, IInv, TypeOK
<1> QED
  BY <1>5, ComparingKeeps DEF CoreUseless

LEMMA ReturnKeeps ==
  ASSUME IInv, calls # << >>, NEW result \in Answers, Return(result)
  PROVE  IInv'
<1> DEFINE n == Len(calls)
           F == [call : Foreign, self : Objects, given : Values \cup {None}]
<1>1. /\ calls' = SubSeq(calls, 1, n - 1) /\ phase' = SubSeq(phase, 1, n - 1)
      /\ answer' = result
  BY DEF Return, IInv, TypeOK
<1>2. /\ calls \in Seq(F) /\ phase \in Seq({"core", "string", "release"})
      /\ Len(phase) = n /\ n \in Nat /\ n # 0
      /\ \A i \in 1 .. n : (phase[i] = "release") = (calls[i].given # None)
  BY DEF IInv, TypeOK
<1> HIDE DEF F
<1>3. /\ calls' \in Seq(F) /\ Len(calls') = n - 1
      /\ \A i \in 1 .. n - 1 : calls'[i] = calls[i]
  BY <1>1, <1>2
<1>4. /\ phase' \in Seq({"core", "string", "release"}) /\ Len(phase') = n - 1
      /\ \A i \in 1 .. n - 1 : phase'[i] = phase[i]
  BY <1>1, <1>2
<1>5. ComparingOK'
  BY <1>1, <1>2, <1>3, <1>4 DEF ComparingOK, F
<1> QED
  BY <1>5, ComparingKeeps DEF Return

-----------------------------------------------------------------------------
(* The invariant.                                                          *)

(* A variable given a string it can read: fu_str, both ways.               *)
LEMMA FuStrKeeps ==
  ASSUME IInv, NEW o \in Objects, NEW h \in Handles, FuStr(o, h)
  PROVE  IInv'
<1>1. UNCHANGED <<bytes, comparing>> /\ Alive(o) /\ handle[h] = NoString
  BY DEF FuStr
<1>2. CASE str[o] # NoString
  <2>1. Cached(o, h)
    BY <1>2 DEF FuStr
  <2>2. str[o] \in Strings /\ o \in Owners(str[o])
    BY <1>2 DEF IInv, TypeOK, Owners
  <2> QED
    BY <1>1, <2>1, <2>2, TakeKeeps DEF Cached, objects
<1>3. CASE str[o] = NoString
  <2>1. Built(o, h)
    BY <1>3 DEF FuStr
  <2> QED
    BY <1>1, <1>3, <2>1, BuiltKeeps DEF Built
<1> QED
  BY <1>2, <1>3

LEMMA WriteKeeps ==
  ASSUME IInv, NEW h \in Handles, NEW t \in Written, Write(h, t)
  PROVE  IInv'
<1>1. t \in Texts
  BY ObjectAssumption
<1>2. CASE WriteInPlace(h, t)
  BY <1>1, <1>2, InPlaceKeeps DEF Write
<1>3. CASE WriteSeparated(h, t)
  BY <1>1, <1>3, SeparatedKeeps DEF Write, WriteSeparated
<1> QED
  BY <1>2, <1>3 DEF Write

LEMMA InitIInv == Init => IInv
<1> SUFFICES ASSUME Init PROVE IInv
  OBVIOUS
<1>1. TypeOK
  BY DEF Init, TypeOK, Answers
<1>2. \A s \in Strings : Owners(s) = {}
  BY ObjectAssumption DEF Init, Owners
<1>3. RefsExact
  BY <1>2, FS_EmptySet DEF Init, RefsExact
<1> QED
  BY <1>1, <1>3 DEF Init, IInv, CacheIsText, LiveHasText

LEMMA NextKeeps ==
  ASSUME IInv, [Next]_vars
  PROVE  IInv'
<1>1. CASE UNCHANGED vars
  <2>1. ComparingOK'
    BY <1>1, ComparingKept DEF IInv, vars, comparing
  <2> QED
    BY <1>1, <2>1, ComparingKeeps DEF vars
<1>2. ASSUME NEW o \in Objects, NEW v \in Values, Create(o, v)
      PROVE  IInv'
  BY <1>2, CreateKeeps
<1>3. ASSUME NEW o \in Objects, NEW v \in Values, Unserialize(o, v)
      PROVE  IInv'
  BY <1>3, GiveBackKeeps DEF Unserialize
<1>4. ASSUME NEW o \in Objects, NEW n \in Objects, Clone(o, n)
      PROVE  IInv'
  <2>1. bytes[o] \in Values
    BY <1>4 DEF Clone, Alive, IInv, TypeOK
  <2> QED
    BY <1>4, <2>1, CreateKeeps DEF Clone
<1>5. ASSUME NEW o \in Objects, Free(o)
      PROVE  IInv'
  BY <1>5, GiveBackKeeps DEF Free
<1>6. ASSUME NEW o \in Objects, NEW h \in Handles, FuStr(o, h)
      PROVE  IInv'
  BY <1>6, FuStrKeeps
<1>7. ASSUME NEW g \in Handles, NEW h \in Handles, Copy(g, h)
      PROVE  IInv'
  <2>1. handle[g] \in Strings /\ g \in Owners(handle[g])
    BY <1>7 DEF Copy, IInv, TypeOK, Owners
  <2> QED
    BY <1>7, <2>1, TakeKeeps DEF Copy
<1>8. ASSUME NEW h \in Handles, NEW t \in Written, Write(h, t)
      PROVE  IInv'
  BY <1>8, WriteKeeps
<1>9. ASSUME NEW h \in Handles, Drop(h)
      PROVE  IInv'
  BY <1>9, DropKeeps
<1>10. ASSUME NEW call, NEW o \in Objects,
              \/ \E a \in Objects : CompareUuid(call, o, a)
              \/ \E h \in Handles : CompareText(call, o, h)
              \/ CompareOther(call, o)
       PROVE  IInv'
  BY <1>10, CompareNowKeeps DEF CompareUuid, CompareText, CompareOther
<1>11. ASSUME NEW call \in Foreign, NEW o \in Objects, NEW p \in {"core", "string"},
              CallUser(call, o, p)
       PROVE  IInv'
  BY <1>11, CallUserKeeps
<1>12. ASSUME NEW a \in Objects, CoreReturns(a)
       PROVE  IInv'
  BY <1>12, CoreReturnsKeeps
<1>13. CASE CoreUseless
  BY <1>13, CoreUselessKeeps
<1>14. CASE Finish \/ NotStringable \/ UserThrows \/ \E h \in Handles : StringReturns(h)
  <2>1. calls # << >> /\ \E result \in Answers : Return(result)
    BY <1>14, AnswerTyped
       DEF Finish, NotStringable, UserThrows, StringReturns, Waits, Answers
  <2> QED
    BY <2>1, ReturnKeeps
<1> QED
  BY <1>1, <1>2, <1>3, <1>4, <1>5, <1>6, <1>7, <1>8, <1>9, <1>10, <1>11, <1>12, <1>13, <1>14
     DEF Next

THEOREM IInvHolds == Spec => []IInv
  BY InitIInv, NextKeeps, PTL DEF Spec

(* Every variable keeps its type, however user code reenters.              *)
THEOREM TypeCorrect == Spec => []TypeOK
  BY IInvHolds, PTL DEF IInv

(* The count of a string is the number of its holders: no leak, and no     *)
(* pointer to memory that was given back.                                  *)
THEOREM CountsExact == Spec => []RefsExact
  BY IInvHolds, PTL DEF IInv

(* The cached string of fu_str is always the text of the bytes.            *)
THEOREM CacheSound == Spec => []CacheIsText
  BY IInvHolds, PTL DEF IInv

-----------------------------------------------------------------------------
(* The refinement: what the variables hold, and one lemma per operation.   *)

(* Nobody's text moved.                                                    *)
LEMMA HeldSame ==
  ASSUME IInv, handle' = handle,
         \A r \in Strings : \A h \in Handles : h \in Owners(r) => chars'[r] = chars[r]
  PROVE  Held' = Held
<1>1. ASSUME NEW h \in Handles, handle[h] # NoString
      PROVE  chars'[handle[h]] = chars[handle[h]]
  BY <1>1 DEF IInv, TypeOK, Owners
<1> QED
  BY <1>1 DEF Held

(* One variable has a new text, the others keep theirs.                    *)
LEMMA HeldSet ==
  ASSUME IInv, NEW h \in Handles, NEW s \in Strings, handle' = [handle EXCEPT ![h] = s],
         \A r \in Strings : \A g \in Handles :
            g \in Owners(r) /\ g # h => chars'[r] = chars[r]
  PROVE  Held' = [Held EXCEPT ![h] = chars'[s]]
<1>1. ASSUME NEW g \in Handles, g # h, handle[g] # NoString
      PROVE  chars'[handle[g]] = chars[handle[g]]
  BY <1>1 DEF IInv, TypeOK, Owners
<1>2. s # NoString /\ handle'[h] = s /\ \A g \in Handles : g # h => handle'[g] = handle[g]
  BY ObjectAssumption DEF IInv, TypeOK
<1>3. ASSUME NEW g \in Handles
      PROVE  Held'[g] = IF g = h THEN chars'[s] ELSE Held[g]
  <2>1. Held'[g] = IF handle'[g] = NoString THEN NoText ELSE chars'[handle'[g]]
    BY DEF Held
  <2>2. Held[g] = IF handle[g] = NoString THEN NoText ELSE chars[handle[g]]
    BY DEF Held
  <2> QED
    BY <1>1, <1>2, <2>1, <2>2
<1>4. Held \in [Handles -> {Held[g] : g \in Handles}] /\ DOMAIN Held' = Handles
  BY DEF Held
<1>5. Held' = [g \in Handles |-> Held'[g]]
  BY DEF Held
<1> HIDE DEF Held
<1> QED
  BY <1>3, <1>4, <1>5

(* A variable holds a text when it holds a string.                         *)
LEMMA HeldText ==
  ASSUME IInv, NEW h \in Handles
  PROVE  /\ Held[h] = NoText <=> handle[h] = NoString
         /\ handle[h] # NoString => Held[h] = chars[handle[h]]
<1>1. ASSUME handle[h] # NoString
      PROVE  chars[handle[h]] \in Texts
  <2>1. handle[h] \in Strings /\ h \in Owners(handle[h])
    BY <1>1 DEF IInv, TypeOK, Owners
  <2>2. refs[handle[h]] # 0
    BY <2>1, Counted DEF IInv
  <2> QED
    BY <2>1, <2>2 DEF IInv, LiveHasText
<1> QED
  BY <1>1, TextFacts DEF Held

(* UuidText is the same module on both sides.                              *)
LEMMA SameText ==
  /\ Plain!None = None /\ Plain!NoText = NoText
  /\ \A v : Plain!Canonical(v) = Canonical(v)
  /\ \A t : Plain!Parsed(t) = Parsed(t)
  /\ \A call, mine, theirs : Plain!Answer(call, mine, theirs) = Answer(call, mine, theirs)
BY DEF None, NoText, Canonical, Parsed, Answer, Sign,
       Plain!None, Plain!NoText, Plain!Canonical, Plain!Parsed, Plain!Answer, Plain!Sign

LEMMA ObjectsImplement ==
  ASSUME IInv, NEW o \in Objects
  PROVE  /\ \A v \in Values : Create(o, v) => Plain!Create(o, v)
         /\ \A v \in Values : Unserialize(o, v) => Plain!Restore(o, v)
         /\ Free(o) => Plain!Free(o)
<1>1. ASSUME NEW v \in Values, Create(o, v)
      PROVE  Plain!Create(o, v)
  <2>1. Held' = Held
    BY <1>1 DEF Create, heap, Held
  <2> QED
    BY <1>1, <2>1, SameText DEF Create, comparing, Alive, Plain!Create, Plain!Alive
<1>2. ASSUME NEW v \in Values, Unserialize(o, v)
      PROVE  Plain!Restore(o, v)
  <2>1. \A r \in Strings : \A y \in Owners(r) : y # o => chars'[r] = chars[r]
    BY <1>2, GiveBackKeeps DEF Unserialize
  <2>2. Held' = Held
    BY <1>2, <2>1, HeldSame, ObjectAssumption DEF Unserialize
  <2> QED
    BY <1>2, <2>2, SameText DEF Unserialize, comparing, Alive, Plain!Restore, Plain!Alive
<1>3. ASSUME Free(o)
      PROVE  Plain!Free(o)
  <2>1. \A r \in Strings : \A y \in Owners(r) : y # o => chars'[r] = chars[r]
    BY <1>3, GiveBackKeeps DEF Free
  <2>2. Held' = Held
    BY <1>3, <2>1, HeldSame, ObjectAssumption DEF Free
  <2> QED
    BY <1>3, <2>2, SameText DEF Free, InCall, comparing, Alive, Plain!Free, Plain!Alive, Plain!Under
<1> QED
  BY <1>1, <1>2, <1>3

LEMMA FuStrImplements ==
  ASSUME IInv, NEW o \in Objects, NEW h \in Handles, FuStr(o, h)
  PROVE  Plain!AskText(o, h)
<1>1. UNCHANGED <<bytes, comparing>> /\ Alive(o) /\ handle[h] = NoString
  BY DEF FuStr
<1>2. Held' = [Held EXCEPT ![h] = Canonical(bytes[o])]
  <2>1. CASE str[o] # NoString
    <3>1. /\ str[o] \in Strings /\ chars' = chars /\ handle' = [handle EXCEPT ![h] = str[o]]
          /\ chars[str[o]] = Canonical(bytes[o])
      BY <2>1 DEF FuStr, Cached, AddRef, IInv, TypeOK, CacheIsText
    <3>2. Held' = [Held EXCEPT ![h] = chars'[str[o]]]
      BY <3>1, HeldSet
    <3> QED
      BY <3>1, <3>2
  <2>2. CASE str[o] = NoString
    <3>1. PICK s \in Strings : /\ Alloc(s, Canonical(bytes[o]), 2)
                               /\ str' = [str EXCEPT ![o] = s]
                               /\ handle' = [handle EXCEPT ![h] = s]
      BY <2>2 DEF FuStr, Built
    <3>2. \A r \in Strings : \A y \in Owners(r) : chars'[r] = chars[r]
      BY <1>1, <2>2, <3>1, BuiltKeeps
    <3>3. chars'[s] = Canonical(bytes[o])
      BY <3>1 DEF Alloc, IInv, TypeOK
    <3>4. Held' = [Held EXCEPT ![h] = chars'[s]]
      BY <3>1, <3>2, HeldSet
    <3> QED
      BY <3>3, <3>4
  <2> QED
    BY <2>1, <2>2
<1>3. Held[h] = NoText
  BY <1>1, HeldText
<1> QED
  BY <1>1, <1>2, <1>3, SameText DEF Alive, comparing, Plain!AskText, Plain!SetText, Plain!Alive

LEMMA VariablesImplement ==
  ASSUME IInv, NEW h \in Handles
  PROVE  /\ \A g \in Handles : Copy(g, h) => Plain!Copy(g, h)
         /\ \A t \in Written : Write(h, t) => Plain!Write(h, t)
         /\ Drop(h) => Plain!Drop(h)
<1>1. ASSUME NEW g \in Handles, Copy(g, h)
      PROVE  Plain!Copy(g, h)
  <2>1. handle[g] \in Strings /\ chars' = chars /\ handle' = [handle EXCEPT ![h] = handle[g]]
    BY <1>1 DEF Copy, AddRef, IInv, TypeOK
  <2>2. Held' = [Held EXCEPT ![h] = chars'[handle[g]]]
    BY <2>1, HeldSet
  <2>3. Held[g] # NoText /\ Held[h] = NoText /\ Held[g] = chars[handle[g]]
    BY <1>1, HeldText DEF Copy
  <2> QED
    BY <1>1, <2>1, <2>2, <2>3, SameText DEF Copy, objects, comparing, Plain!Copy, Plain!SetText
<1>2. ASSUME NEW t \in Written, Write(h, t)
      PROVE  Plain!Write(h, t)
  <2>1. t \in Texts /\ handle[h] # NoString /\ UNCHANGED <<objects, comparing>>
    BY <1>2, ObjectAssumption DEF Write
  <2>2. Held' = [Held EXCEPT ![h] = t]
    <3>1. CASE WriteInPlace(h, t)
      <4>1. \A r \in Strings : \A y \in Owners(r) : y # h => chars'[r] = chars[r]
        BY <2>1, <3>1, InPlaceKeeps
      <4>2. /\ handle[h] \in Strings /\ handle' = [handle EXCEPT ![h] = handle[h]]
            /\ chars'[handle[h]] = t
        BY <2>1, <3>1 DEF WriteInPlace, IInv, TypeOK
      <4>3. Held' = [Held EXCEPT ![h] = chars'[handle[h]]]
        BY <4>1, <4>2, HeldSet
      <4> QED
        BY <4>2, <4>3
    <3>2. CASE WriteSeparated(h, t)
      <4>1. PICK s \in Strings : /\ refs[s] = 0
                                 /\ refs' = [refs EXCEPT ![handle[h]] = @ - 1, ![s] = 1]
                                 /\ chars' = [chars EXCEPT ![s] = t]
                                 /\ handle' = [handle EXCEPT ![h] = s]
        BY <3>2 DEF WriteSeparated
      <4>2. \A r \in Strings : \A y \in Owners(r) : chars'[r] = chars[r]
        BY <2>1, <3>2, <4>1, SeparatedKeeps DEF WriteSeparated
      <4>3. chars'[s] = t /\ handle' = [handle EXCEPT ![h] = s]
        BY <4>1 DEF IInv, TypeOK
      <4>4. Held' = [Held EXCEPT ![h] = chars'[s]]
        BY <4>2, <4>3, HeldSet
      <4> QED
        BY <4>3, <4>4
    <3> QED
      BY <1>2, <3>1, <3>2 DEF Write
  <2>3. Held[h] # NoText
    BY <2>1, HeldText
  <2> QED
    BY <2>1, <2>2, <2>3, SameText DEF objects, comparing, Plain!Write, Plain!SetText
<1>3. ASSUME Drop(h)
      PROVE  Plain!Drop(h)
  <2>1. \A r \in Strings : \A y \in Owners(r) : y # h => chars'[r] = chars[r]
    BY <1>3, DropKeeps
  <2>2. ASSUME NEW g \in Handles, g # h, handle[g] # NoString
        PROVE  chars'[handle[g]] = chars[handle[g]]
    BY <2>1, <2>2 DEF IInv, TypeOK, Owners
  <2>3. handle' = [handle EXCEPT ![h] = NoString]
    BY <1>3 DEF Drop
  <2>4. Held' = [Held EXCEPT ![h] = NoText]
    BY <2>2, <2>3 DEF Held, IInv, TypeOK
  <2>5. Held[h] # NoText
    BY <1>3, HeldText DEF Drop
  <2> QED
    BY <1>3, <2>4, <2>5, SameText DEF Drop, objects, comparing, Plain!Drop, Plain!SetText
<1> QED
  BY <1>1, <1>2, <1>3

(* The comparisons read what the abstract ones read.                       *)
LEMMA NowImplements ==
  ASSUME IInv, NEW call, NEW o \in Objects, NEW theirs, CompareNow(call, o, theirs)
  PROVE  Plain!CompareNow(call, o, theirs)
<1>1. Held' = Held
  BY DEF CompareNow, heap, Held
<1> QED
  BY <1>1, SameText DEF CompareNow, objects, Alive, Plain!CompareNow, Plain!Alive

LEMMA WaitingImplements ==
  ASSUME IInv, UNCHANGED <<objects, heap, handle>>
  PROVE  /\ \A call \in Foreign, o \in Objects, p \in {"core", "string"} :
               CallUser(call, o, p) => Plain!Begin(call, o)
         /\ \A a \in Objects : CoreReturns(a) => Plain!Learn(a)
         /\ CoreUseless => UNCHANGED Plain!vars
         /\ Finish => Plain!Finish
         /\ \A h \in Handles :
               StringReturns(h) => Held[h] # NoText /\ Plain!FinishWith(Parsed(Held[h]))
         /\ NotStringable => Plain!FinishWith(None)
         /\ UserThrows => Plain!Throw
<1>1. bytes' = bytes /\ Held' = Held
  BY DEF objects, heap, Held
<1>2. ASSUME calls # << >>
      PROVE  (phase[Len(phase)] = "release") = (Inner.given # None)
  <2>1. Len(calls) \in 1 .. Len(calls) /\ Len(phase) = Len(calls)
    BY <1>2 DEF IInv, TypeOK
  <2> QED
    BY <2>1 DEF IInv, TypeOK, Inner
<1>3. /\ Waits("release") => Plain!Learned
      /\ Waits("core") => Plain!Asking
      /\ Waits("string") => Plain!Asking
  BY <1>2, SameText DEF Waits, Inner, Plain!Learned, Plain!Asking, Plain!Inner
<1>4. ASSUME NEW result, Return(result)
      PROVE  Plain!Return(result)
  BY <1>1, <1>4, SameText DEF Return, Plain!Return, Plain!Outer
<1>5. ASSUME NEW call \in Foreign, NEW o \in Objects, NEW p \in {"core", "string"},
             CallUser(call, o, p)
      PROVE  Plain!Begin(call, o)
  BY <1>1, <1>5, SameText DEF CallUser, Alive, Plain!Begin, Plain!Alive
<1>6. ASSUME NEW a \in Objects, CoreReturns(a)
      PROVE  Plain!Learn(a)
  BY <1>1, <1>3, <1>6, SameText DEF CoreReturns, Alive, Plain!Learn, Plain!Alive
<1>7. ASSUME CoreUseless
      PROVE  UNCHANGED Plain!vars
  BY <1>1, <1>7, SameText DEF CoreUseless, Plain!vars
<1>8. ASSUME Finish
      PROVE  Plain!Finish
  BY <1>3, <1>4, <1>8, SameText DEF Finish, Inner, Plain!Finish, Plain!Inner
<1>9. ASSUME NEW h \in Handles, StringReturns(h)
      PROVE  Held[h] # NoText /\ Plain!FinishWith(Parsed(Held[h]))
  <2>1. Held[h] # NoText /\ Held[h] = chars[handle[h]]
    BY <1>9, HeldText DEF StringReturns
  <2> QED
    BY <1>3, <1>4, <1>9, <2>1, SameText DEF StringReturns, Inner, Plain!FinishWith, Plain!Inner
<1>10. ASSUME NotStringable
       PROVE  Plain!FinishWith(None)
  BY <1>3, <1>4, <1>10, SameText DEF NotStringable, Inner, Plain!FinishWith, Plain!Inner
<1>11. ASSUME UserThrows
       PROVE  Plain!Throw
  BY <1>3, <1>4, <1>11, SameText DEF UserThrows, Plain!Throw
<1> QED
  BY <1>5, <1>6, <1>7, <1>8, <1>9, <1>10, <1>11

LEMMA InitImplements == Init => Plain!Init
<1> SUFFICES ASSUME Init PROVE Plain!Init
  OBVIOUS
<1>1. Held = [h \in Handles |-> NoText]
  BY DEF Init, Held
<1> QED
  BY <1>1, SameText DEF Init, Plain!Init

LEMMA StepImplements ==
  ASSUME IInv, [Next]_vars
  PROVE  [Plain!Next]_(Plain!vars)
<1>1. CASE UNCHANGED vars
  BY <1>1 DEF vars, objects, heap, comparing, Held, Plain!vars
<1>2. ASSUME NEW o \in Objects, NEW v \in Values, Create(o, v) \/ Unserialize(o, v)
      PROVE  Plain!Next
  BY <1>2, ObjectsImplement DEF Plain!Next
<1>3. ASSUME NEW o \in Objects, NEW n \in Objects, Clone(o, n)
      PROVE  Plain!Next
  <2>1. bytes[o] \in Values
    BY <1>3 DEF Clone, Alive, IInv, TypeOK
  <2>2. Plain!Create(n, bytes[o])
    BY <1>3, <2>1, ObjectsImplement DEF Clone
  <2> QED
    BY <2>1, <2>2 DEF Plain!Next
<1>4. ASSUME NEW o \in Objects, Free(o)
      PROVE  Plain!Next
  BY <1>4, ObjectsImplement DEF Plain!Next
<1>5. ASSUME NEW o \in Objects, NEW h \in Handles, FuStr(o, h)
      PROVE  Plain!Next
  BY <1>5, FuStrImplements DEF Plain!Next
<1>6. ASSUME NEW h \in Handles,
             \/ \E g \in Handles : Copy(g, h)
             \/ \E t \in Written : Write(h, t)
             \/ Drop(h)
      PROVE  Plain!Next
  BY <1>6, VariablesImplement DEF Plain!Next
<1>7. ASSUME NEW call \in Comparisons, NEW o \in Objects, NEW a \in Objects,
             CompareUuid(call, o, a)
      PROVE  Plain!Next
  <2>1. Plain!Alive(a) /\ Plain!CompareNow(call, o, bytes[a])
    BY <1>7, NowImplements, SameText DEF CompareUuid, Alive, Plain!Alive
  <2>2. call \in Plain!Comparisons
    BY DEF Comparisons, Foreign, Plain!Comparisons, Plain!Foreign
  <2> QED
    BY <2>1, <2>2 DEF Plain!Next
<1>8. ASSUME NEW call \in Foreign, NEW o \in Objects,
             (\E h \in Handles : CompareText(call, o, h)) \/ CompareOther(call, o)
      PROVE  Plain!Next
  <2>1. call \in Plain!Foreign
    BY DEF Foreign, Plain!Foreign
  <2>2. ASSUME NEW h \in Handles, CompareText(call, o, h)
        PROVE  Plain!Next
    <3>1. Held[h] # Plain!NoText /\ Held[h] = chars[handle[h]]
      BY <2>2, HeldText, SameText DEF CompareText
    <3>2. Plain!CompareNow(call, o, Plain!Parsed(Held[h]))
      BY <2>2, <3>1, NowImplements, SameText DEF CompareText
    <3> QED
      BY <2>1, <3>1, <3>2 DEF Plain!Next
  <2>3. ASSUME CompareOther(call, o)
        PROVE  Plain!Next
    <3>1. Plain!CompareNow(call, o, Plain!None)
      BY <2>3, NowImplements, SameText DEF CompareOther
    <3> QED
      BY <2>1, <3>1 DEF Plain!Next
  <2> QED
    BY <1>8, <2>2, <2>3
<1>9. ASSUME NEW call \in Foreign, NEW o \in Objects, NEW p \in {"core", "string"},
             CallUser(call, o, p)
      PROVE  Plain!Next
  <2>1. call \in Plain!Foreign
    BY DEF Foreign, Plain!Foreign
  <2>2. Plain!Begin(call, o)
    BY <1>9, WaitingImplements DEF CallUser
  <2> QED
    BY <2>1, <2>2 DEF Plain!Next
<1>10. ASSUME NEW a \in Objects, CoreReturns(a)
       PROVE  Plain!Next
  <2>1. Plain!Learn(a)
    BY <1>10, WaitingImplements DEF CoreReturns
  <2> QED
    BY <2>1 DEF Plain!Next
<1>11. CASE CoreUseless
  BY <1>11, WaitingImplements DEF CoreUseless
<1>12. CASE Finish
  <2>1. Plain!Finish
    BY <1>12, WaitingImplements DEF Finish, Return
  <2> QED
    BY <2>1 DEF Plain!Next
<1>13. CASE NotStringable
  <2>1. Plain!FinishWith(Plain!None)
    BY <1>13, WaitingImplements, SameText DEF NotStringable, Return
  <2> QED
    BY <2>1 DEF Plain!Next
<1>14. CASE UserThrows
  <2>1. Plain!Throw
    BY <1>14, WaitingImplements DEF UserThrows, Return
  <2> QED
    BY <2>1 DEF Plain!Next
<1>15. ASSUME NEW h \in Handles, StringReturns(h)
       PROVE  Plain!Next
  <2>1. Held[h] # Plain!NoText /\ Plain!FinishWith(Plain!Parsed(Held[h]))
    BY <1>15, WaitingImplements, SameText DEF StringReturns, Return
  <2> QED
    BY <2>1 DEF Plain!Next
<1> QED
  BY <1>1, <1>2, <1>3, <1>4, <1>5, <1>6, <1>7, <1>8, <1>9, <1>10, <1>11, <1>12, <1>13, <1>14, <1>15
     DEF Next

(* With its cache, its shared strings and its callbacks a Uuid behaves as  *)
(* sixteen bytes do.                                                       *)
THEOREM Implements == Spec => ImplementsPlain
<1>1. Init => Plain!Init
  BY InitImplements
<1>2. IInv /\ [Next]_vars => [Plain!Next]_(Plain!vars)
  BY StepImplements
<1> QED
  BY <1>1, <1>2, IInvHolds, PTL DEF Spec, ImplementsPlain, Plain!Spec
=============================================================================
