---------------------------- MODULE CompatProofs ----------------------------
(***************************************************************************)
(* CompatWrapper for any wrappers, UUIDs, codecs and generators: a wrapper *)
(* is of the class its core calls for, is the UUID it should be, and came  *)
(* from the right generator, which no class ever refuses.                  *)
(***************************************************************************)
EXTENDS CompatWrapper, SequenceTheorems, TLAPS

-----------------------------------------------------------------------------
(* The invariant.                                                          *)
Core16 == [Bytes -> 0 .. 255]
Sources == {"core", "custom"}
Marks == {"none", "default", "custom"}

FactoryOK ==
  /\ factory \in [kind : Kinds, codec : Codecs \cup {"unset"},
                  provider : [Providers -> Marks], custom : [Providers -> BOOLEAN]]
  /\ \A p \in Providers : factory.custom[p] <=> factory.provider[p] = "custom"

(* A wrapper w and what it should be.                                      *)
Wish == [core : Core16, codec : Codecs, source : Sources, due : Sources]
Right(w, m) ==
  /\ w \in Wrapper /\ m \in Wish
  /\ w.class = Class(w.core)
  /\ w.core = m.core /\ w.codec = m.codec
  /\ m.source = m.due

ObjectsOK ==
  /\ DOMAIN objects = Objects /\ DOMAIN meant = Objects
  /\ objects = [o \in Objects |-> objects[o]] /\ meant = [o \in Objects |-> meant[o]]
  /\ \A o \in Objects : \/ objects[o] = Absent /\ meant[o] = Absent
                        \/ Right(objects[o], meant[o])

(* A restore that waits has the UUID it was asked for, matched with the    *)
(* class of the object it is for.                                          *)
WaitingOK ==
  /\ waiting \in Seq([object : Objects, class : Classes, core : Core16, is : Core16])
  /\ Len(waiting) <= MaxDepth
  /\ \A k \in 1 .. Len(waiting) :
       waiting[k].class = Class(waiting[k].core) /\ waiting[k].is = waiting[k].core

(* What was written down is the UUID it was written from.                  *)
StoredOK ==
  \A s \in stored : s \in [class : Classes, bytes : Core16, is : Core16] /\ s.is = s.bytes

ShownOK ==
  \A s \in shown :
    /\ s \in [codec : Codecs, as : {"bytes", "text"}, is : Core16, out : Core16]
    /\ s.as = "text" => s.out = Encode(s.codec, s.is)
    /\ s.as = "bytes" => s.out = EncodeBinary(s.codec, s.is) /\ ~Refuses(s.codec, s.is)

IInv == FactoryOK /\ ObjectsOK /\ WaitingOK /\ StoredOK /\ ShownOK /\ ~misfit

-----------------------------------------------------------------------------
(* Bytes.                                                                  *)

(* Sequences as functions of a known length: joined, and cut.              *)
Join(s, m, t, n) == [i \in 1 .. m + n |-> IF i <= m THEN s[i] ELSE t[i - m]]
Part(s, a, b) == [i \in 1 .. b - a + 1 |-> s[a + i - 1]]

LEMMA RowIsSeq ==
  ASSUME NEW S, NEW n \in Nat, NEW s \in [1 .. n -> S]
  PROVE  s \in Seq(S) /\ Len(s) = n
<1>1. s \in Seq(S)
  BY SeqDef
<1>2. DOMAIN s = 1 .. n
  OBVIOUS
<1> QED
  BY <1>1, <1>2, LenProperties

LEMMA Joined ==
  ASSUME NEW S, NEW m \in Nat, NEW n \in Nat, NEW s \in [1 .. m -> S], NEW t \in [1 .. n -> S]
  PROVE  s \o t = Join(s, m, t, n)
<1>1. s \in Seq(S) /\ Len(s) = m /\ t \in Seq(S) /\ Len(t) = n
  BY RowIsSeq
<1>2. /\ s \o t \in Seq(S) /\ Len(s \o t) = Len(s) + Len(t)
      /\ \A i \in 1 .. Len(s) + Len(t) :
           (s \o t)[i] = IF i <= Len(s) THEN s[i] ELSE t[i - Len(s)]
  BY <1>1, ConcatProperties, Zenon
<1> DEFINE u == s \o t
<1>3. u \in Seq(S) /\ Len(u) = m + n
      /\ \A i \in 1 .. m + n : u[i] = IF i <= m THEN s[i] ELSE t[i - m]
  BY <1>1, <1>2
<1> HIDE DEF u
<1>4. u \in [1 .. m + n -> S]
  BY <1>3, LenProperties
<1>5. u = Join(s, m, t, n)
  BY <1>3, <1>4 DEF Join
<1> QED
  BY <1>5 DEF u

LEMMA Cut ==
  ASSUME NEW S, NEW s, NEW a \in Int, NEW b \in Int, \A i \in a .. b : s[i] \in S
  PROVE  SubSeq(s, a, b) = Part(s, a, b)
BY DEF Part

(* The tail of an order that leaves the clock sequence and the node alone. *)
LEMMA LastEight ==
  ASSUME NEW s \in [1 .. 8 -> Bytes]
  PROVE  s \o SubSeq(Plain, 9, 16) = [i \in Bytes |-> IF i <= 8 THEN s[i] ELSE i]
<1> DEFINE tail == SubSeq(Plain, 9, 16)
<1>1. tail = [i \in 1 .. 8 |-> 8 + i]
  BY DEF Plain, Bytes
<1>2. tail \in [1 .. 8 -> Bytes]
  <2>1. \A i \in 1 .. 8 : 8 + i \in Bytes
    BY DEF Bytes
  <2> QED
    BY <1>1, <2>1
<1> HIDE DEF tail
<1>3. 8 \in Nat
  OBVIOUS
<1>4. s \o tail = Join(s, 8, tail, 8)
  BY <1>2, <1>3, Joined, Zenon
<1>5. Join(s, 8, tail, 8) = [i \in Bytes |-> IF i <= 8 THEN s[i] ELSE i]
  BY <1>1 DEF Join, Bytes
<1> QED
  BY <1>4, <1>5 DEF tail

(* The order o is undone by the order p.                                   *)
Undoes(p, o) ==
  /\ o \in [Bytes -> Bytes] /\ p \in [Bytes -> Bytes]
  /\ \A i \in Bytes : o[p[i]] = i

LEMMA PlainUndoes == Undoes(Plain, Plain)
BY DEF Undoes, Plain

LEMMA GuidUndoes == Undoes(GuidSwap, GuidSwap)
<1> DEFINE s == <<4, 3, 2, 1, 6, 5, 8, 7>>
<1>1. s \in [1 .. 8 -> Bytes]
  BY DEF Bytes
<1>2. GuidSwap = [i \in Bytes |-> IF i <= 8 THEN s[i] ELSE i]
  BY <1>1, LastEight, Zenon DEF GuidSwap
<1>3. GuidSwap \in [Bytes -> Bytes] /\ \A i \in Bytes : GuidSwap[GuidSwap[i]] = i
  BY <1>2 DEF Bytes
<1> QED
  BY <1>3 DEF Undoes

LEMMA OrderedUndoes == Undoes(TimeLowFirst, TimeHiFirst)
<1> DEFINE s == <<7, 8, 5, 6, 1, 2, 3, 4>>
           u == <<5, 6, 7, 8, 3, 4, 1, 2>>
<1>1. s \in [1 .. 8 -> Bytes]
  BY DEF Bytes
<1>2. u \in [1 .. 8 -> Bytes]
  BY DEF Bytes
<1>3. TimeHiFirst = [i \in Bytes |-> IF i <= 8 THEN s[i] ELSE i]
  BY <1>1, LastEight, Zenon DEF TimeHiFirst
<1>4. TimeLowFirst = [i \in Bytes |-> IF i <= 8 THEN u[i] ELSE i]
  BY <1>2, LastEight, Zenon DEF TimeLowFirst
<1>5. TimeHiFirst \in [Bytes -> Bytes] /\ TimeLowFirst \in [Bytes -> Bytes]
  BY <1>3, <1>4 DEF Bytes
<1>6. \A i \in Bytes : TimeHiFirst[TimeLowFirst[i]] = i
  BY <1>3, <1>4 DEF Bytes
<1> QED
  BY <1>5, <1>6 DEF Undoes

LEMMA CombUndoes == Undoes(CombSwap, CombSwap)
<1> DEFINE a == SubSeq(Plain, 11, 16)
           b == SubSeq(Plain, 7, 10)
           c == SubSeq(Plain, 1, 6)
           ab == a \o b
<1>1. a = [i \in 1 .. 6 |-> 10 + i] /\ b = [i \in 1 .. 4 |-> 6 + i] /\ c = [i \in 1 .. 6 |-> i]
  BY DEF Plain, Bytes
<1> HIDE DEF a, b, c
<1>2. a \in [1 .. 6 -> Bytes]
  BY <1>1 DEF Bytes
<1>3. b \in [1 .. 4 -> Bytes]
  BY <1>1 DEF Bytes
<1>4. c \in [1 .. 6 -> Bytes]
  BY <1>1 DEF Bytes
<1>5. 4 \in Nat
  OBVIOUS
<1>6. 6 \in Nat
  OBVIOUS
<1>7. 10 \in Nat
  OBVIOUS
<1>8. ab = Join(a, 6, b, 4)
  BY <1>2, <1>3, <1>5, <1>6, Joined, Zenon
<1>9. ab = [i \in 1 .. 10 |-> IF i <= 6 THEN 10 + i ELSE i]
  BY <1>1, <1>8 DEF Join
<1> HIDE DEF ab
<1>10. ab \in [1 .. 10 -> Bytes]
  BY <1>9 DEF Bytes
<1>11. ab \o c = Join(ab, 10, c, 6)
  BY <1>4, <1>6, <1>7, <1>10, Joined, Zenon
<1>12. CombSwap = ab \o c
  BY DEF CombSwap, a, b, c, ab
<1>13. CombSwap = [i \in Bytes |-> IF i <= 6 THEN 10 + i ELSE IF i <= 10 THEN i ELSE i - 10]
  BY <1>1, <1>9, <1>11, <1>12 DEF Join, Bytes
<1>14. CombSwap \in [Bytes -> Bytes]
  BY <1>13 DEF Bytes
<1>15. \A i \in Bytes : CombSwap[CombSwap[i]] = i
  BY <1>13 DEF Bytes
<1> QED
  BY <1>14, <1>15 DEF Undoes

(* What was put in an order comes back.                                    *)
LEMMA InOrderBack ==
  ASSUME NEW o, NEW p, Undoes(p, o), NEW b \in Core16
  PROVE  InOrder(o, b) \in Core16 /\ InOrder(p, InOrder(o, b)) = b
<1>1. InOrder(o, b) \in Core16
  BY DEF InOrder, Undoes, Core16
<1>2. \A i \in Bytes : InOrder(p, InOrder(o, b))[i] = b[i]
  BY DEF InOrder, Undoes
<1>3. InOrder(p, InOrder(o, b)) = [i \in Bytes |-> b[i]]
  BY <1>2 DEF InOrder
<1>4. b = [i \in Bytes |-> b[i]]
  BY DEF Core16
<1> QED
  BY <1>1, <1>3, <1>4

(* Every codec reads what it wrote.                                        *)
LEMMA CodecReads ==
  ASSUME NEW codec \in Codecs, NEW b \in Core16
  PROVE  /\ Encode(codec, b) \in Core16 /\ Decode(codec, Encode(codec, b)) = b
         /\ ~Refuses(codec, b) =>
              /\ EncodeBinary(codec, b) \in Core16
              /\ DecodeBytes(codec, EncodeBinary(codec, b)) = b
<1>1. Undoes(TextOrder(codec), TextOrder(codec))
  BY PlainUndoes, CombUndoes DEF TextOrder
<1>2. Undoes(BinaryBack(codec), BinaryOrder(codec))
  BY PlainUndoes, GuidUndoes, CombUndoes, OrderedUndoes DEF BinaryBack, BinaryOrder
<1>3. Encode(codec, b) \in Core16 /\ Decode(codec, Encode(codec, b)) = b
  BY <1>1, InOrderBack DEF Encode, Decode
<1>4. ASSUME ~Refuses(codec, b)
      PROVE  /\ EncodeBinary(codec, b) \in Core16
             /\ DecodeBytes(codec, EncodeBinary(codec, b)) = b
  <2>1. EncodeBinary(codec, b) = InOrder(BinaryOrder(codec), b)
    BY <1>4 DEF EncodeBinary
  <2>2. InOrder(BinaryBack(codec), EncodeBinary(codec, b)) = b
    BY <1>2, <2>1, InOrderBack
  <2>3. DecodeBytes(codec, EncodeBinary(codec, b)) = b
    BY <1>4, <2>2 DEF DecodeBytes
  <2> QED
    BY <1>2, <2>1, <2>3, InOrderBack
<1> QED
  BY <1>3, <1>4

(* Whatever a codec reads is sixteen bytes, or an exception.               *)
LEMMA CodecTypes ==
  ASSUME NEW codec \in Codecs, NEW s \in Core16
  PROVE  Decode(codec, s) \in Core16 /\ DecodeBytes(codec, s) \in Core16 \cup {NoBytes}
<1>1. Undoes(TextOrder(codec), TextOrder(codec))
  BY PlainUndoes, CombUndoes DEF TextOrder
<1>2. BinaryBack(codec) \in [Bytes -> Bytes]
  BY PlainUndoes, GuidUndoes, CombUndoes, OrderedUndoes DEF BinaryBack, BinaryOrder, Undoes
<1>3. InOrder(BinaryBack(codec), s) \in Core16
  BY <1>2 DEF InOrder, Core16
<1> QED
  BY <1>1, <1>3, InOrderBack DEF Decode, DecodeBytes
-----------------------------------------------------------------------------
(* Versions and classes.                                                   *)
LEMMA VersionSays ==
  ASSUME NEW b \in Core16, NEW v \in Versioned, Version(b) = v
  PROVE  b[9] \div 64 = 2 /\ b[7] \div 16 = v /\ Class(b) = <<"v", v>>
<1>1. v # -1
  BY DEF Versioned
<1> QED
  BY <1>1 DEF Version, Class

LEMMA VersionIs ==
  ASSUME NEW b \in Core16, NEW v \in Versioned, b[9] \div 64 = 2, b[7] \div 16 = v
  PROVE  Version(b) = v /\ Class(b) = <<"v", v>>
<1>1. 9 \in Bytes /\ b[9] # 0 /\ b[9] # 255
  BY DEF Core16, Bytes
<1>2. ~Constant(b, 0) /\ ~Constant(b, 255)
  BY <1>1 DEF Constant
<1>3. Version(b) = v
  BY <1>2 DEF Version
<1> QED
  BY <1>3 DEF Class

LEMMA ClassIs ==
  ASSUME NEW b \in Core16, NEW v \in Versioned, Class(b) = <<"v", v>>
  PROVE  Version(b) = v
BY DEF Class

LEMMA ClassType ==
  ASSUME NEW b \in Core16
  PROVE  Class(b) \in Classes
BY DEF Class, Classes

(* The constructor's quick test admits the one class the core calls for.   *)
LEMMA FitsItsClass ==
  ASSUME NEW class \in Classes, NEW core \in Core16, Fits(class, core)
  PROVE  class = Class(core)
<1>1. ASSUME class[1] = "v", class[2] = Version(core)
      PROVE  class = Class(core)
  <2>1. class \in {"v"} \X Versioned
    BY <1>1 DEF Classes
  <2>2. class = <<"v", Version(core)>> /\ Version(core) \in Versioned
    BY <2>1, <1>1
  <2> QED
    BY <2>2 DEF Class
<1> QED
  BY <1>1 DEF Fits

(* What the version and the variant are written over is of that version.   *)
LEMMA StampIs ==
  ASSUME NEW b \in Core16, NEW v \in Versioned
  PROVE  /\ Stamp(b, v) \in Core16
         /\ Stamp(b, v)[9] \div 64 = 2 /\ Stamp(b, v)[7] \div 16 = v
<1>1. 7 \in Bytes /\ 9 \in Bytes
  BY DEF Bytes
<1>2. (b[7] % 16) + 16 * v \in 0 .. 255 /\ ((b[7] % 16) + 16 * v) \div 16 = v
  BY <1>1 DEF Core16, Versioned
<1>3. (b[9] % 64) + 128 \in 0 .. 255 /\ ((b[9] % 64) + 128) \div 64 = 2
  BY <1>1 DEF Core16
<1>4. Stamp(b, v) = [b EXCEPT ![7] = (b[7] % 16) + 16 * v, ![9] = (b[9] % 64) + 128]
  BY <1>1 DEF Stamp, Core16
<1>5. Stamp(b, v)[7] = (b[7] % 16) + 16 * v /\ Stamp(b, v)[9] = (b[9] % 64) + 128
  BY <1>1, <1>4 DEF Core16
<1>6. Stamp(b, v) \in Core16
  BY <1>2, <1>3, <1>4 DEF Core16
<1> QED
  BY <1>2, <1>3, <1>5, <1>6

-----------------------------------------------------------------------------
(* Hex digits, of which v1 and v6 have the same in another order.          *)
Digits == 0 .. 15

LEMMA HexIs ==
  ASSUME NEW b \in Core16
  PROVE  Hex(b) \in [1 .. 32 -> Digits] /\ Hex(b)[17] = b[9] \div 16 /\ Hex(b)[18] = b[9] % 16
<1>1. \A k \in 1 .. 32 : (k + 1) \div 2 \in Bytes /\ (k % 2 # 1 => k \div 2 \in Bytes)
  BY DEF Bytes
<1>2. \A i \in Bytes : b[i] \div 16 \in Digits /\ b[i] % 16 \in Digits
  BY DEF Core16, Digits
<1>3. Hex(b) \in [1 .. 32 -> Digits]
  BY <1>1, <1>2 DEF Hex
<1>4. 17 \in 1 .. 32 /\ 17 % 2 = 1 /\ (17 + 1) \div 2 = 9 /\ 18 \in 1 .. 32 /\ 18 % 2 # 1 /\ 18 \div 2 = 9
  OBVIOUS
<1> QED
  BY <1>3, <1>4 DEF Hex

LEMMA JoinRow ==
  ASSUME NEW S, NEW m \in Nat, NEW n \in Nat, NEW s \in [1 .. m -> S], NEW t \in [1 .. n -> S]
  PROVE  Join(s, m, t, n) \in [1 .. m + n -> S]
<1>1. \A i \in 1 .. m + n : IF i <= m THEN s[i] \in S ELSE t[i - m] \in S
  OBVIOUS
<1> QED
  BY <1>1 DEF Join

(* The digits of the second half stay; those of the first have the version *)
(* at their thirteenth.                                                    *)
LEMMA Reversioned ==
  ASSUME NEW b \in Core16, b[9] \div 64 = 2, NEW v \in Versioned,
         NEW g \in [1 .. 16 -> Digits], g[13] = v
  PROVE  LET core == FromHex(g \o SubSeq(Hex(b), 17, 32))
         IN  core \in Core16 /\ Version(core) = v /\ Class(core) = <<"v", v>>
<1> DEFINE h == Hex(b)
           rest == SubSeq(h, 17, 32)
           all == g \o rest
           core == FromHex(all)
<1>1. h \in [1 .. 32 -> Digits] /\ h[17] = b[9] \div 16 /\ h[18] = b[9] % 16
  BY HexIs
<1> HIDE DEF h
<1>2. rest = [i \in 1 .. 16 |-> h[16 + i]]
  BY <1>1 DEF Digits
<1> HIDE DEF rest
<1>3. rest \in [1 .. 16 -> Digits]
  BY <1>1, <1>2
<1>4. 16 \in Nat
  OBVIOUS
<1>5. all = Join(g, 16, rest, 16)
  BY <1>3, <1>4, Joined, Zenon
<1> HIDE DEF all
<1>6. all \in [1 .. 32 -> Digits]
  <2>1. Join(g, 16, rest, 16) \in [1 .. 16 + 16 -> Digits]
    BY <1>3, <1>4, JoinRow, Zenon
  <2> QED
    BY <2>1, <1>5
<1>7. all[13] = v /\ all[17] = b[9] \div 16 /\ all[18] = b[9] % 16
  BY <1>1, <1>2, <1>5 DEF Join
<1>8. \A i \in Bytes : 16 * all[2 * i - 1] + all[2 * i] \in 0 .. 255
  BY <1>6 DEF Bytes, Digits
<1>9. core \in Core16
  BY <1>8 DEF FromHex, Core16
<1>10. core[9] = 16 * all[17] + all[18] /\ core[7] = 16 * all[13] + all[14]
  BY DEF FromHex, Bytes
<1>11. b[9] \in 0 .. 255
  BY DEF Core16, Bytes
<1>12. core[9] \div 64 = 2
  BY <1>7, <1>10, <1>11
<1>13. core[7] \div 16 = v
  BY <1>6, <1>7, <1>10 DEF Digits, Versioned
<1> HIDE DEF core
<1>14. Version(core) = v /\ Class(core) = <<"v", v>>
  BY <1>9, <1>12, <1>13, VersionIs
<1> QED
  BY <1>9, <1>14 DEF core, all, rest, h

LEMMA V6Is ==
  ASSUME NEW b \in Core16, b[9] \div 64 = 2
  PROVE  V6OfV1(b) \in Core16 /\ Version(V6OfV1(b)) = 6 /\ Class(V6OfV1(b)) = <<"v", 6>>
<1> DEFINE h == Hex(b)
           x == SubSeq(h, 14, 16)
           y == SubSeq(h, 9, 12)
           z == SubSeq(h, 1, 8)
           xy == x \o y
           ts == xy \o z
           p == SubSeq(ts, 1, 12)
           q == SubSeq(ts, 13, 15)
           pv == p \o <<6>>
           g == pv \o q
<1>1. h \in [1 .. 32 -> Digits]
  BY HexIs
<1> HIDE DEF h
<1>2. x = [i \in 1 .. 3 |-> h[13 + i]] /\ y = [i \in 1 .. 4 |-> h[8 + i]] /\ z = [i \in 1 .. 8 |-> h[i]]
  BY <1>1 DEF Digits
<1> HIDE DEF x, y, z
<1>3. x \in [1 .. 3 -> Digits]
  BY <1>1, <1>2
<1>4. y \in [1 .. 4 -> Digits]
  BY <1>1, <1>2
<1>5. z \in [1 .. 8 -> Digits]
  BY <1>1, <1>2
<1>6. 1 \in Nat
  OBVIOUS
<1>7. 3 \in Nat
  OBVIOUS
<1>8. 4 \in Nat
  OBVIOUS
<1>9. 7 \in Nat
  OBVIOUS
<1>10. 8 \in Nat
  OBVIOUS
<1>11. 12 \in Nat
  OBVIOUS
<1>12. 13 \in Nat
  OBVIOUS
<1>13. xy \in [1 .. 7 -> Digits]
  <2>1. xy = Join(x, 3, y, 4)
    BY <1>3, <1>4, <1>7, <1>8, Joined, Zenon
  <2> HIDE DEF xy
  <2>2. Join(x, 3, y, 4) \in [1 .. 3 + 4 -> Digits]
    BY <1>3, <1>4, <1>7, <1>8, JoinRow, Zenon
  <2> QED
    BY <2>1, <2>2
<1> HIDE DEF xy
<1>14. ts \in [1 .. 15 -> Digits]
  <2>1. ts = Join(xy, 7, z, 8)
    BY <1>5, <1>9, <1>10, <1>13, Joined, Zenon
  <2> HIDE DEF ts
  <2>2. Join(xy, 7, z, 8) \in [1 .. 7 + 8 -> Digits]
    BY <1>5, <1>9, <1>10, <1>13, JoinRow, Zenon
  <2> QED
    BY <2>1, <2>2
<1> HIDE DEF ts
<1>15. p = [i \in 1 .. 12 |-> ts[i]] /\ q = [i \in 1 .. 3 |-> ts[12 + i]]
  BY <1>14 DEF Digits
<1> HIDE DEF p, q
<1>16. p \in [1 .. 12 -> Digits]
  BY <1>14, <1>15
<1>17. q \in [1 .. 3 -> Digits]
  BY <1>14, <1>15
<1>18. <<6>> \in [1 .. 1 -> Digits]
  BY DEF Digits
<1>19. pv = Join(p, 12, <<6>>, 1)
  BY <1>6, <1>11, <1>16, <1>18, Joined, Zenon
<1> HIDE DEF pv
<1>20. pv \in [1 .. 13 -> Digits] /\ pv[13] = 6
  <2>1. Join(p, 12, <<6>>, 1) \in [1 .. 12 + 1 -> Digits]
    BY <1>6, <1>11, <1>16, <1>18, JoinRow, Zenon
  <2>2. pv[13] = 6
    BY <1>19 DEF Join
  <2> QED
    BY <2>1, <2>2, <1>19
<1>21. pv \in [1 .. 13 -> Digits]
  BY <1>20
<1>22. g = Join(pv, 13, q, 3)
  BY <1>7, <1>12, <1>17, <1>21, Joined, Zenon
<1>23. g \in [1 .. 16 -> Digits] /\ g[13] = 6
  BY <1>17, <1>20, <1>22 DEF Join
<1> HIDE DEF g
<1>24. V6OfV1(b) = FromHex(g \o SubSeq(Hex(b), 17, 32))
  BY DEF V6OfV1, g, pv, p, q, ts, xy, x, y, z, h
<1>25. 6 \in Versioned
  BY DEF Versioned
<1> QED
  BY <1>23, <1>24, <1>25, Reversioned

LEMMA V1Is ==
  ASSUME NEW b \in Core16, b[9] \div 64 = 2
  PROVE  V1OfV6(b) \in Core16 /\ Version(V1OfV6(b)) = 1 /\ Class(V1OfV6(b)) = <<"v", 1>>
<1> DEFINE h == Hex(b)
           x == SubSeq(h, 1, 12)
           y == SubSeq(h, 14, 16)
           ts == x \o y
           low == SubSeq(ts, 8, 15)
           mid == SubSeq(ts, 4, 7)
           high == SubSeq(ts, 1, 3)
           lm == low \o mid
           lmv == lm \o <<1>>
           g == lmv \o high
<1>1. h \in [1 .. 32 -> Digits]
  BY HexIs
<1> HIDE DEF h
<1>2. x = [i \in 1 .. 12 |-> h[i]] /\ y = [i \in 1 .. 3 |-> h[13 + i]]
  BY <1>1 DEF Digits
<1> HIDE DEF x, y
<1>3. x \in [1 .. 12 -> Digits]
  BY <1>1, <1>2
<1>4. y \in [1 .. 3 -> Digits]
  BY <1>1, <1>2
<1>5. 1 \in Nat
  OBVIOUS
<1>6. 3 \in Nat
  OBVIOUS
<1>7. 4 \in Nat
  OBVIOUS
<1>8. 8 \in Nat
  OBVIOUS
<1>9. 12 \in Nat
  OBVIOUS
<1>10. 13 \in Nat
  OBVIOUS
<1>11. ts \in [1 .. 15 -> Digits]
  <2>1. ts = Join(x, 12, y, 3)
    BY <1>3, <1>4, <1>6, <1>9, Joined, Zenon
  <2> HIDE DEF ts
  <2>2. Join(x, 12, y, 3) \in [1 .. 12 + 3 -> Digits]
    BY <1>3, <1>4, <1>6, <1>9, JoinRow, Zenon
  <2> QED
    BY <2>1, <2>2
<1> HIDE DEF ts
<1>12. /\ low = [i \in 1 .. 8 |-> ts[7 + i]] /\ mid = [i \in 1 .. 4 |-> ts[3 + i]]
       /\ high = [i \in 1 .. 3 |-> ts[i]]
  BY <1>11 DEF Digits
<1> HIDE DEF low, mid, high
<1>13. low \in [1 .. 8 -> Digits]
  BY <1>11, <1>12
<1>14. mid \in [1 .. 4 -> Digits]
  BY <1>11, <1>12
<1>15. high \in [1 .. 3 -> Digits]
  BY <1>11, <1>12
<1>16. lm \in [1 .. 12 -> Digits]
  <2>1. lm = Join(low, 8, mid, 4)
    BY <1>7, <1>8, <1>13, <1>14, Joined, Zenon
  <2> HIDE DEF lm
  <2>2. Join(low, 8, mid, 4) \in [1 .. 8 + 4 -> Digits]
    BY <1>7, <1>8, <1>13, <1>14, JoinRow, Zenon
  <2> QED
    BY <2>1, <2>2
<1> HIDE DEF lm
<1>17. <<1>> \in [1 .. 1 -> Digits]
  BY DEF Digits
<1>18. lmv = Join(lm, 12, <<1>>, 1)
  BY <1>5, <1>9, <1>16, <1>17, Joined, Zenon
<1> HIDE DEF lmv
<1>19. lmv \in [1 .. 13 -> Digits] /\ lmv[13] = 1
  <2>1. Join(lm, 12, <<1>>, 1) \in [1 .. 12 + 1 -> Digits]
    BY <1>5, <1>9, <1>16, <1>17, JoinRow, Zenon
  <2>2. lmv[13] = 1
    BY <1>18 DEF Join
  <2> QED
    BY <2>1, <2>2, <1>18
<1>20. lmv \in [1 .. 13 -> Digits]
  BY <1>19
<1>21. g = Join(lmv, 13, high, 3)
  BY <1>6, <1>10, <1>15, <1>20, Joined, Zenon
<1>22. g \in [1 .. 16 -> Digits] /\ g[13] = 1
  BY <1>15, <1>19, <1>21 DEF Join
<1> HIDE DEF g
<1>23. V1OfV6(b) = FromHex(g \o SubSeq(Hex(b), 17, 32))
  BY DEF V1OfV6, g, lmv, lm, low, mid, high, ts, x, y, h
<1>24. 1 \in Versioned
  BY DEF Versioned
<1> QED
  BY <1>22, <1>23, <1>24, Reversioned
-----------------------------------------------------------------------------
(* Wrappers made.                                                          *)
LEMMA NormalCodec ==
  ASSUME NEW c \in Codecs \cup {"unset"}
  PROVE  Normal(c) \in Codecs
BY CompatAssumption DEF Normal

LEMMA MadeRight ==
  ASSUME NEW core \in Core16, NEW class, class = Class(core), NEW codec \in Codecs,
         NEW source \in Sources
  PROVE  Right([class |-> class, core |-> core, codec |-> codec],
               Meant(core, codec, source, source))
<1>1. class \in Classes
  BY ClassType
<1>2. [class |-> class, core |-> core, codec |-> codec] \in Wrapper
  BY <1>1 DEF Wrapper, Core16
<1>3. Meant(core, codec, source, source) \in Wish
  BY DEF Meant, Wish
<1> QED
  BY <1>2, <1>3 DEF Right, Meant

LEMMA RightLives ==
  ASSUME NEW w, NEW m, Right(w, m)
  PROVE  w # Absent /\ m # Absent
<1>1. w.class \in Classes /\ "core" \in DOMAIN m
  BY DEF Right, Wrapper, Wish
<1>2. Absent.class = <<"none", 0>> /\ "core" \notin DOMAIN Absent
  BY DEF Absent
<1>3. <<"none", 0>> \notin Classes
  BY DEF Classes
<1> QED
  BY <1>1, <1>2, <1>3

(* Wrappers are stored with what they should be, and go together.          *)
LEMMA PutKeeps ==
  ASSUME ObjectsOK, NEW o \in Objects, NEW class, NEW core, NEW codec, NEW m,
         Put(o, class, core, codec, m),
         Right([class |-> class, core |-> core, codec |-> codec], m)
  PROVE  ObjectsOK'
BY DEF ObjectsOK, Put

LEMMA LiveRight ==
  ASSUME ObjectsOK, NEW o \in Objects, Live(o)
  PROVE  Right(objects[o], meant[o])
BY DEF ObjectsOK, Live

-----------------------------------------------------------------------------
(* One step.                                                               *)
LEMMA InitOK == Init => IInv
<1> SUFFICES ASSUME Init PROVE IInv
  OBVIOUS
<1>1. FactoryOK
  BY DEF Init, NewFactory, FactoryOK, Kinds, Marks
<1>2. ObjectsOK
  BY DEF Init, ObjectsOK
<1>3. WaitingOK
  <2>1. waiting = << >> /\ Len(waiting) = 0
    BY DEF Init
  <2>2. waiting \in Seq([object : Objects, class : Classes, core : Core16, is : Core16])
    BY <2>1
  <2> QED
    BY <2>1, <2>2, CompatAssumption DEF WaitingOK
<1> QED
  BY <1>1, <1>2, <1>3 DEF Init, IInv, StoredOK, ShownOK

(* What a step leaves alone stays in order.                                *)
LEMMA FactorySame == ASSUME FactoryOK, UNCHANGED factory PROVE FactoryOK'
BY DEF FactoryOK
LEMMA ObjectsSame == ASSUME ObjectsOK, UNCHANGED <<objects, meant>> PROVE ObjectsOK'
BY DEF ObjectsOK
LEMMA WaitingSame == ASSUME WaitingOK, UNCHANGED waiting PROVE WaitingOK'
BY DEF WaitingOK
LEMMA StoredSame == ASSUME StoredOK, UNCHANGED stored PROVE StoredOK'
BY DEF StoredOK
LEMMA ShownSame == ASSUME ShownOK, UNCHANGED shown PROVE ShownOK'
BY DEF ShownOK

LEMMA ConstructOK ==
  ASSUME IInv, NEW o \in Objects, NEW class \in Classes, NEW core \in Cores, NEW codec \in Codecs,
         Construct(o, class, core, codec)
  PROVE  IInv'
<1>1. core \in Core16
  BY CompatAssumption DEF Core16
<1>2. class = Class(core)
  BY <1>1, FitsItsClass DEF Construct
<1>3. "core" \in Sources
  BY DEF Sources
<1>4. Right([class |-> class, core |-> core, codec |-> codec], Meant(core, codec, "core", "core"))
  BY <1>1, <1>2, <1>3, MadeRight, Zenon
<1>5. ObjectsOK'
  BY <1>4, PutKeeps DEF Construct, IInv
<1> QED
  BY <1>5, FactorySame, WaitingSame, StoredSame, ShownSame DEF IInv, Construct, Kept

LEMMA WrapOK ==
  ASSUME IInv, NEW o \in Objects, NEW core \in Cores, Wrap(o, core)
  PROVE  IInv'
<1> DEFINE codec == Normal(factory.codec)
<1>1. core \in Core16
  BY CompatAssumption DEF Core16
<1>2. codec \in Codecs
  BY NormalCodec DEF IInv, FactoryOK
<1>3. "core" \in Sources
  BY DEF Sources
<1> HIDE DEF codec
<1>4. Right([class |-> Class(core), core |-> core, codec |-> codec],
            Meant(core, codec, "core", "core"))
  BY <1>1, <1>2, <1>3, MadeRight
<1>5. Put(o, Class(core), core, codec, Meant(core, codec, "core", "core"))
  BY DEF Wrap, codec
<1>6. ObjectsOK'
  BY <1>4, <1>5, PutKeeps DEF IInv
<1> QED
  BY <1>6, FactorySame, WaitingSame, StoredSame, ShownSame DEF IInv, Wrap, Kept

(* A custom generator's bytes are of the version asked for.                *)
LEMMA LaidIs ==
  ASSUME NEW raw \in RawBytes, NEW version \in Versions
  PROVE  /\ Laid(raw, version) \in Core16 /\ version \in Versioned
         /\ Version(Laid(raw, version)) = version
         /\ Class(Laid(raw, version)) = <<"v", version>>
<1>1. raw \in Core16
  BY CompatAssumption DEF Core16
<1>2. version \in Versioned
  BY CompatAssumption DEF Versioned
<1>3. CASE version = 6
  <2>1. 1 \in Versioned
    BY DEF Versioned
  <2>2. Stamp(raw, 1) \in Core16 /\ Stamp(raw, 1)[9] \div 64 = 2
    BY <1>1, <2>1, StampIs
  <2> QED
    BY <2>2, <1>2, <1>3, V6Is DEF Laid
<1>4. CASE version = 2
  <2> DEFINE b == Stamp(raw, 2)
             c == [b EXCEPT ![1] = 0, ![2] = 0, ![3] = 0, ![4] = 1, ![10] = 0]
  <2>1. b \in Core16 /\ b[9] \div 64 = 2 /\ b[7] \div 16 = 2
    BY <1>1, <1>2, <1>4, StampIs
  <2> HIDE DEF b
  <2>2. c \in Core16 /\ c[9] = b[9] /\ c[7] = b[7]
    BY <2>1 DEF Core16, Bytes
  <2>3. Laid(raw, version) = c
    BY <1>4 DEF Laid, b
  <2> HIDE DEF c
  <2> QED
    BY <2>1, <2>2, <2>3, <1>2, <1>4, VersionIs
<1>5. CASE version # 6 /\ version # 2
  <2>1. Laid(raw, version) = Stamp(raw, version)
    BY <1>5 DEF Laid
  <2>2. /\ Stamp(raw, version) \in Core16
        /\ Stamp(raw, version)[9] \div 64 = 2 /\ Stamp(raw, version)[7] \div 16 = version
    BY <1>1, <1>2, StampIs
  <2> DEFINE b == Stamp(raw, version)
  <2> HIDE DEF b
  <2>3. Version(b) = version /\ Class(b) = <<"v", version>>
    BY <2>2, <1>2, VersionIs DEF b
  <2> QED
    BY <2>1, <2>2, <2>3, <1>2 DEF b
<1> QED
  BY <1>3, <1>4, <1>5

LEMMA GenerateOK ==
  ASSUME IInv, NEW o \in Objects, NEW version \in Versions, Generate(o, version)
  PROVE  IInv'
<1> DEFINE p == Provider(version)
           codec == Normal(factory.codec)
           source == IF IsCustom(p) THEN "custom" ELSE "core"
           made == IF IsCustom(p) THEN {Laid(raw, version) : raw \in RawBytes}
                   ELSE {c \in Cores : Version(c) = version}
           class == <<"v", version>>
<1>1. p \in Providers
  BY DEF Provider, Providers
<1>2. codec \in Codecs
  BY NormalCodec DEF IInv, FactoryOK
<1>3. source = Due(p) /\ source \in Sources
  BY <1>1 DEF IInv, FactoryOK, IsCustom, Due, Sources
<1>4. \A core \in made : core \in Core16 /\ Version(core) = version /\ Class(core) = class
  <2> SUFFICES ASSUME NEW core \in made
               PROVE  core \in Core16 /\ Version(core) = version /\ Class(core) = class
    OBVIOUS
  <2>1. CASE IsCustom(p)
    BY <2>1, LaidIs
  <2>2. CASE ~IsCustom(p)
    <3>1. core \in Cores /\ Version(core) = version
      BY <2>2
    <3>2. core \in Core16 /\ version \in Versioned
      BY <3>1, CompatAssumption DEF Core16, Versioned
    <3> QED
      BY <3>1, <3>2, VersionSays
  <2> QED
    BY <2>1, <2>2
<1>5. PICK core \in made :
        IF Fits(class, core)
        THEN Put(o, class, core, codec, Meant(core, codec, source, Due(p))) /\ UNCHANGED misfit
        ELSE misfit' = TRUE /\ UNCHANGED <<objects, meant>>
  BY Zenon DEF Generate
<1>6. UNCHANGED <<factory, waiting, stored, shown>>
  BY DEF Generate, Kept
<1>7. core \in Core16 /\ Version(core) = version /\ Class(core) = class
  BY <1>4
<1> HIDE DEF made
<1>8. Fits(class, core)
  BY <1>7 DEF Fits
<1>9. Put(o, class, core, codec, Meant(core, codec, source, source)) /\ UNCHANGED misfit
  BY <1>3, <1>5, <1>8
<1> HIDE DEF codec, source, class, p
<1>10. Right([class |-> class, core |-> core, codec |-> codec], Meant(core, codec, source, source))
  BY <1>2, <1>3, <1>7, MadeRight
<1>11. ObjectsOK'
  BY <1>9, <1>10, PutKeeps DEF IInv
<1> QED
  BY <1>6, <1>9, <1>11, FactorySame, WaitingSame, StoredSame, ShownSame DEF IInv

(* The factory's fields.                                                   *)
LEMMA FactoryStepsOK ==
  ASSUME IInv, \/ \E p \in Providers : GetProvider(p) \/ SetProvider(p)
               \/ \E codec \in Codecs : SetCodec(codec)
               \/ \E kind \in Kinds : SetFactory(kind)
  PROVE  IInv'
<1>1. FactoryOK
  BY DEF IInv
<1>2. ASSUME NEW p \in Providers, GetProvider(p) PROVE FactoryOK'
  BY <1>1, <1>2 DEF FactoryOK, GetProvider, Marks
<1>3. ASSUME NEW p \in Providers, SetProvider(p) PROVE FactoryOK'
  BY <1>1, <1>3 DEF FactoryOK, SetProvider, Marks
<1>4. ASSUME NEW codec \in Codecs, SetCodec(codec) PROVE FactoryOK'
  BY <1>1, <1>4 DEF FactoryOK, SetCodec
<1>5. ASSUME NEW kind \in Kinds, SetFactory(kind) PROVE FactoryOK'
  BY <1>5 DEF FactoryOK, SetFactory, NewFactory, Marks
<1>6. FactoryOK'
  BY <1>2, <1>3, <1>4, <1>5
<1>7. UNCHANGED <<objects, waiting, meant, misfit, stored, shown>>
  BY DEF GetProvider, SetProvider, SetCodec, SetFactory, Kept
<1> QED
  BY <1>6, <1>7, ObjectsSame, WaitingSame, StoredSame, ShownSame DEF IInv
LEMMA ConvertOK ==
  ASSUME IInv, NEW o \in Objects, NEW p \in Objects,
         \/ Convert(o, p, 1, 6, V6OfV1(objects[o].core))
         \/ Convert(o, p, 6, 1, V1OfV6(objects[o].core))
  PROVE  IInv'
<1> DEFINE w == objects[o]
           from == w.core
           codec == w.codec
<1>1. Right(w, meant[o])
  BY LiveRight DEF Convert, IInv
<1>2. from \in Core16 /\ codec \in Codecs /\ codec = meant[o].codec /\ w.class = Class(from)
  BY <1>1 DEF Right, Wrapper, Core16
<1>3. PICK v \in {1, 6}, core \in {V6OfV1(from), V1OfV6(from)} :
        /\ w.class = <<"v", v>>
        /\ core = IF v = 1 THEN V6OfV1(from) ELSE V1OfV6(from)
        /\ Put(p, <<"v", IF v = 1 THEN 6 ELSE 1>>, core, codec, Meant(core, codec, "core", "core"))
        /\ UNCHANGED <<factory, waiting, misfit, stored, shown>>
  <2>1. CASE Convert(o, p, 1, 6, V6OfV1(from))
    <3> WITNESS 1 \in {1, 6}, V6OfV1(from) \in {V6OfV1(from), V1OfV6(from)}
    <3> QED
      BY <2>1, <1>2 DEF Convert, Kept
  <2>2. CASE Convert(o, p, 6, 1, V1OfV6(from))
    <3> WITNESS 6 \in {1, 6}, V1OfV6(from) \in {V6OfV1(from), V1OfV6(from)}
    <3> QED
      BY <2>2, <1>2 DEF Convert, Kept
  <2> QED
    BY <2>1, <2>2
<1> DEFINE class == <<"v", IF v = 1 THEN 6 ELSE 1>>
<1>4. v \in Versioned /\ Class(from) = <<"v", v>>
  BY <1>2, <1>3 DEF Versioned
<1>5. Version(from) = v
  BY <1>2, <1>4, ClassIs
<1>6. from[9] \div 64 = 2
  BY <1>2, <1>4, <1>5, VersionSays
<1>7. core \in Core16 /\ class = Class(core)
  BY <1>2, <1>3, <1>6, V6Is, V1Is
<1>8. "core" \in Sources
  BY DEF Sources
<1>9. Put(p, class, core, codec, Meant(core, codec, "core", "core"))
  BY <1>3
<1> HIDE DEF class, codec
<1>10. Right([class |-> class, core |-> core, codec |-> codec], Meant(core, codec, "core", "core"))
  BY <1>2, <1>7, <1>8, MadeRight
<1>11. ObjectsOK'
  BY <1>9, <1>10, PutKeeps DEF IInv
<1> QED
  BY <1>3, <1>11, FactorySame, WaitingSame, StoredSame, ShownSame DEF IInv

LEMMA DropOK ==
  ASSUME IInv, NEW o \in Objects, Drop(o)
  PROVE  IInv'
<1>1. ObjectsOK'
  BY DEF IInv, ObjectsOK, Drop
<1> QED
  BY <1>1, FactorySame, WaitingSame, StoredSame, ShownSame DEF IInv, Drop, Kept

(* What is shown or stored is of the UUID the wrapper should be.           *)
LEMMA ShowOK ==
  ASSUME IInv, NEW o \in Objects, Show(o)
  PROVE  IInv'
<1> DEFINE w == objects[o]
           b == w.core
           codec == w.codec
           bytes == [codec |-> codec, as |-> "bytes", is |-> b, out |-> EncodeBinary(codec, b)]
           text == [codec |-> codec, as |-> "text", is |-> b, out |-> Encode(codec, b)]
<1>1. Right(w, meant[o])
  BY LiveRight DEF Show, IInv
<1>2. b \in Core16 /\ codec \in Codecs /\ b = meant[o].core
  BY <1>1 DEF Right, Wrapper, Core16
<1>3. /\ Encode(codec, b) \in Core16
      /\ ~Refuses(codec, b) => EncodeBinary(codec, b) \in Core16
  BY <1>2, CodecReads
<1>4. \/ EncodeBinary(codec, b) # NoBytes /\ shown' = shown \cup {bytes}
      \/ shown' = shown \cup {text}
  BY <1>2 DEF Show
<1>5. EncodeBinary(codec, b) # NoBytes => ~Refuses(codec, b)
  BY DEF EncodeBinary
<1> HIDE DEF b, codec, w
<1>6. ASSUME EncodeBinary(codec, b) # NoBytes, shown' = shown \cup {bytes}
      PROVE  ShownOK'
  BY <1>2, <1>3, <1>5, <1>6 DEF IInv, ShownOK
<1>7. ASSUME shown' = shown \cup {text}
      PROVE  ShownOK'
  BY <1>2, <1>3, <1>7 DEF IInv, ShownOK
<1>8. ShownOK'
  BY <1>4, <1>6, <1>7
<1> QED
  BY <1>8, FactorySame, ObjectsSame, WaitingSame, StoredSame DEF IInv, Show

LEMMA SerializeOK ==
  ASSUME IInv, NEW o \in Objects, Serialize(o)
  PROVE  IInv'
<1> DEFINE w == objects[o]
<1>1. Right(w, meant[o])
  BY LiveRight DEF Serialize, IInv
<1>2. w.core \in Core16 /\ w.class \in Classes /\ w.core = meant[o].core
  BY <1>1 DEF Right, Wrapper, Core16
<1>3. stored' = stored \cup {[class |-> w.class, bytes |-> w.core, is |-> w.core]}
  BY <1>2 DEF Serialize
<1>4. StoredOK'
  BY <1>2, <1>3 DEF IInv, StoredOK
<1> QED
  BY <1>4, FactorySame, ObjectsSame, WaitingSame, ShownSame DEF IInv, Serialize

(* A getter of the factory may make the default codec.                     *)
LEMMA DefaultCodecOK ==
  ASSUME FactoryOK,
         factory' = IF factory.codec = "unset" /\ factory.kind = "factory"
                    THEN [factory EXCEPT !.codec = "string"] ELSE factory
  PROVE  FactoryOK'
BY CompatAssumption DEF FactoryOK

LEMMA ReadOK ==
  ASSUME IInv, NEW o \in Objects, NEW s \in shown, Read(o, s)
  PROVE  IInv'
<1>1. PICK codec \in AnswersOf(factory) :
        LET core == IF s.as = "text" THEN Decode(codec, s.out) ELSE DecodeBytes(codec, s.out)
        IN  /\ core # NoBytes
            /\ Put(o, Class(core), core, codec,
                   Meant(IF codec = s.codec THEN s.is ELSE core, codec, "core", "core"))
  BY DEF Read
<1> DEFINE core == IF s.as = "text" THEN Decode(codec, s.out) ELSE DecodeBytes(codec, s.out)
<1>2. codec \in Codecs
  BY NormalCodec DEF AnswersOf, IInv, FactoryOK
<1>3. /\ s.codec \in Codecs /\ s.as \in {"bytes", "text"} /\ s.is \in Core16 /\ s.out \in Core16
      /\ s.as = "text" => s.out = Encode(s.codec, s.is)
      /\ s.as = "bytes" => s.out = EncodeBinary(s.codec, s.is) /\ ~Refuses(s.codec, s.is)
  BY DEF IInv, ShownOK
<1>4. core \in Core16
  BY <1>1, <1>2, <1>3, CodecTypes
<1>5. codec = s.codec => core = s.is
  BY <1>3, CodecReads
<1>6. Put(o, Class(core), core, codec, Meant(core, codec, "core", "core"))
  BY <1>1, <1>5
<1>7. "core" \in Sources
  BY DEF Sources
<1> HIDE DEF core
<1>8. Right([class |-> Class(core), core |-> core, codec |-> codec],
            Meant(core, codec, "core", "core"))
  BY <1>2, <1>4, <1>7, MadeRight
<1>9. ObjectsOK'
  BY <1>6, <1>8, PutKeeps DEF IInv
<1>10. FactoryOK'
  BY DefaultCodecOK DEF Read, IInv
<1> QED
  BY <1>9, <1>10, WaitingSame, StoredSame, ShownSame DEF IInv, Read, Kept

(* The class a restore is for is the one the core calls for.               *)
LEMMA AcceptsIts ==
  ASSUME StoredOK, NEW o \in Objects, NEW s \in stored, Accepts(o, s)
  PROVE  s.bytes \in Core16 /\ s.is = s.bytes /\ Target(o, s) = Class(s.bytes)
BY DEF StoredOK, Accepts, Matches

LEMMA RestoreOK ==
  ASSUME IInv, NEW o \in Objects, NEW s \in stored, Restore(o, s)
  PROVE  IInv'
<1> DEFINE codec == IF factory.kind = "foreign" THEN "string" ELSE Normal(factory.codec)
           core == s.bytes
           class == Target(o, s)
<1>1. core \in Core16 /\ s.is = core /\ class = Class(core)
  BY AcceptsIts DEF IInv, Restore
<1>2. codec \in Codecs
  BY NormalCodec, CompatAssumption DEF IInv, FactoryOK
<1>3. Put(o, class, core, codec, Meant(core, codec, "core", "core"))
  BY <1>1 DEF Restore
<1>4. "core" \in Sources
  BY DEF Sources
<1> HIDE DEF codec, core, class
<1>5. Right([class |-> class, core |-> core, codec |-> codec], Meant(core, codec, "core", "core"))
  BY <1>1, <1>2, <1>4, MadeRight
<1>6. ObjectsOK'
  BY <1>3, <1>5, PutKeeps DEF IInv
<1>7. FactoryOK'
  BY DefaultCodecOK DEF Restore, IInv
<1> QED
  BY <1>6, <1>7, WaitingSame, StoredSame, ShownSame DEF IInv, Restore, Kept

(* Restores that wait.                                                     *)
Waiters == [object : Objects, class : Classes, core : Core16, is : Core16]

LEMMA RestoreAsksOK ==
  ASSUME IInv, NEW o \in Objects, NEW s \in stored, RestoreAsks(o, s)
  PROVE  IInv'
<1> DEFINE new == [object |-> o, class |-> Target(o, s), core |-> s.bytes, is |-> s.is]
           n == Len(waiting)
<1>1. new \in Waiters /\ new.class = Class(new.core) /\ new.is = new.core
  BY AcceptsIts, ClassType DEF IInv, RestoreAsks, Waiters
<1>2. waiting \in Seq(Waiters) /\ n \in Nat /\ n < MaxDepth
      /\ \A k \in 1 .. n : waiting[k].class = Class(waiting[k].core) /\ waiting[k].is = waiting[k].core
  BY LenProperties DEF IInv, WaitingOK, RestoreAsks, Waiters
<1>3. waiting' = Append(waiting, new) /\ UNCHANGED objects
  BY DEF RestoreAsks, HoldBack, Wait
<1> HIDE DEF new
<1>4. /\ waiting' \in Seq(Waiters) /\ Len(waiting') = n + 1
      /\ \A k \in 1 .. n : waiting'[k] = waiting[k]
      /\ waiting'[n + 1] = new
  BY <1>1, <1>2, <1>3, AppendProperties
<1> HIDE DEF n
<1>5. Len(waiting') <= MaxDepth
  BY <1>2, <1>4, CompatAssumption
<1>6. \A k \in 1 .. Len(waiting') :
        waiting'[k].class = Class(waiting'[k].core) /\ waiting'[k].is = waiting'[k].core
  BY <1>1, <1>2, <1>4
<1>7. WaitingOK'
  BY <1>4, <1>5, <1>6 DEF WaitingOK, Waiters
<1> QED
  BY <1>3, <1>7, FactorySame, ObjectsSame, StoredSame, ShownSame DEF IInv, RestoreAsks, Kept

LEMMA PopOK ==
  ASSUME WaitingOK, waiting # << >>, Pop
  PROVE  /\ WaitingOK' /\ Top \in Waiters
         /\ Top.class = Class(Top.core) /\ Top.is = Top.core
<1> DEFINE n == Len(waiting)
<1>1. waiting \in Seq(Waiters) /\ n \in Nat /\ n <= MaxDepth /\ waiting \in [1 .. n -> Waiters]
      /\ \A k \in 1 .. n : waiting[k].class = Class(waiting[k].core) /\ waiting[k].is = waiting[k].core
  BY LenProperties DEF WaitingOK, Waiters
<1>2. n >= 1
  BY <1>1, EmptySeq
<1>3. waiting' = SubSeq(waiting, 1, n - 1)
  BY DEF Pop
<1>4. Top = waiting[n]
  BY DEF Top
<1> HIDE DEF n
<1>5. n - 1 \in Int
  BY <1>1
<1>6. \A i \in 1 .. n - 1 : waiting[i] \in Waiters
  BY <1>1, <1>5
<1>7. 1 \in Int
  OBVIOUS
<1>8. waiting' = Part(waiting, 1, n - 1)
  BY <1>3, <1>5, <1>6, <1>7, Cut, Zenon
<1>9. waiting' \in [1 .. n - 1 -> Waiters] /\ \A k \in 1 .. n - 1 : waiting'[k] = waiting[k]
  BY <1>1, <1>2, <1>8 DEF Part
<1>10. waiting' \in [1 .. n - 1 -> Waiters]
  BY <1>9
<1>11. n - 1 \in Nat
  BY <1>1, <1>2
<1>12. waiting' \in Seq(Waiters) /\ Len(waiting') = n - 1
  BY <1>10, <1>11, RowIsSeq, Zenon
<1>13. \A k \in 1 .. Len(waiting') :
         waiting'[k].class = Class(waiting'[k].core) /\ waiting'[k].is = waiting'[k].core
  BY <1>1, <1>9, <1>12
<1>14. Len(waiting') <= MaxDepth
  BY <1>1, <1>12, CompatAssumption
<1>15. WaitingOK'
  BY <1>12, <1>13, <1>14 DEF WaitingOK, Waiters
<1>16. n \in 1 .. n
  BY <1>1, <1>2
<1> QED
  BY <1>1, <1>4, <1>15, <1>16

LEMMA RestoreEndsOK ==
  ASSUME IInv, NEW codec \in Codecs, RestoreEnds(codec)
  PROVE  IInv'
<1> DEFINE top == Top
<1>1. /\ WaitingOK' /\ top \in Waiters
      /\ top.class = Class(top.core) /\ top.is = top.core
  BY PopOK DEF IInv, RestoreEnds
<1>2. Put(top.object, top.class, top.core, codec, Meant(top.core, codec, "core", "core"))
  BY <1>1 DEF RestoreEnds
<1> HIDE DEF top
<1>3. top.object \in Objects /\ top.core \in Core16
  BY <1>1 DEF Waiters
<1>4. "core" \in Sources
  BY DEF Sources
<1>5. Right([class |-> top.class, core |-> top.core, codec |-> codec],
            Meant(top.core, codec, "core", "core"))
  BY <1>1, <1>3, <1>4, MadeRight
<1>6. ObjectsOK'
  BY <1>2, <1>3, <1>5, PutKeeps DEF IInv
<1> QED
  BY <1>1, <1>6, FactorySame, StoredSame, ShownSame DEF IInv, RestoreEnds, Kept

LEMMA RestoreFailsOK ==
  ASSUME IInv, RestoreFails
  PROVE  IInv'
BY PopOK, FactorySame, ObjectsSame, StoredSame, ShownSame DEF IInv, RestoreFails, Kept

LEMMA NextOK == IInv /\ [Next]_vars => IInv'
<1> SUFFICES ASSUME IInv, [Next]_vars PROVE IInv'
  OBVIOUS
<1>1. CASE UNCHANGED vars
  BY <1>1, FactorySame, ObjectsSame, WaitingSame, StoredSame, ShownSame DEF IInv, vars
<1>2. CASE Next
  BY <1>2, WrapOK, ConstructOK, GenerateOK, DropOK, ShowOK, SerializeOK, ReadOK, RestoreOK,
     RestoreAsksOK, ConvertOK, FactoryStepsOK, RestoreEndsOK, RestoreFailsOK DEF Next
<1> QED
  BY <1>1, <1>2

-----------------------------------------------------------------------------
(* IInv is an invariant.                                                   *)
THEOREM IInvHolds == Spec => []IInv
BY InitOK, NextOK, PTL DEF Spec

(* The wrappers are well formed, and what each should be is known just as  *)
(* long as it is there.                                                    *)
THEOREM TypeCorrect == Spec => []TypeOK
<1>1. IInv => TypeOK
  <2> SUFFICES ASSUME IInv PROVE TypeOK
    OBVIOUS
  <2>1. factory.kind \in Kinds /\ factory.codec \in Codecs \cup {"unset"}
    BY DEF IInv, FactoryOK
  <2>2. ASSUME NEW o \in Objects
        PROVE  objects[o] \in Wrapper \cup {Absent} /\ (Live(o) <=> meant[o] # Absent)
    <3>1. CASE objects[o] = Absent /\ meant[o] = Absent
      BY <3>1 DEF Live
    <3>2. CASE Right(objects[o], meant[o])
      BY <3>2, RightLives DEF Live, Right
    <3> QED
      BY <3>1, <3>2 DEF IInv, ObjectsOK
  <2> QED
    BY <2>1, <2>2 DEF TypeOK, IInv, WaitingOK
<1> QED
  BY <1>1, IInvHolds, PTL

(* A wrapper is of the one class its core calls for.                       *)
THEOREM ClassOfCore == Spec => []ClassMatchesCore
<1>1. IInv => ClassMatchesCore
  BY LiveRight DEF IInv, ClassMatchesCore, Right
<1> QED
  BY <1>1, IInvHolds, PTL

(* A wrapper is the UUID it was made, read back or restored from, and has  *)
(* the codec of the factory it came from.                                  *)
THEOREM SameUuid == Spec => []IdentityKept
<1>1. IInv => IdentityKept
  BY LiveRight DEF IInv, IdentityKept, Right
<1> QED
  BY <1>1, IInvHolds, PTL

(* A custom generator is used just when it was set.                        *)
THEOREM RoutedAsSet == Spec => []RoutedBySetters
<1>1. IInv => RoutedBySetters
  BY LiveRight DEF IInv, RoutedBySetters, Right
<1> QED
  BY <1>1, IInvHolds, PTL

(* No factory refuses what its own generator made, whatever a custom one   *)
(* returns.                                                                *)
THEOREM NeverRefusesItsOwn == Spec => []NeverMisfit
<1>1. IInv => NeverMisfit
  BY DEF IInv, NeverMisfit
<1> QED
  BY <1>1, IInvHolds, PTL
=============================================================================
