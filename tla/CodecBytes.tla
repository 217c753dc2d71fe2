----------------------------- MODULE CodecBytes -----------------------------
(***************************************************************************)
(* The sixteen bytes of a UUID as the compat layer reads them: the wrapper *)
(* class they belong to, the order each codec shows them in, and the order *)
(* v1 and v6 have their time in.  Bytes are sequences of 0 .. 255, text is *)
(* the bytes it spells (formatting loses nothing and adds nothing).        *)
(***************************************************************************)
EXTENDS Integers, Sequences

Bytes == 1 .. 16
NoBytes == << >>   (* an exception *)

(* \FastUuid\Uuid::getVersion(): none for nil, max and foreign variants.   *)
Constant(b, v) == \A i \in Bytes : b[i] = v
Version(b) ==
  IF Constant(b, 0) \/ Constant(b, 255) \/ b[9] \div 64 # 2 THEN -1 ELSE b[7] \div 16

(* WrapperClass: UuidV1 to UuidV8 are named by their version.              *)
Versioned == 1 .. 8
Classes == ({"v"} \X Versioned) \cup ({"nil", "max", "nonstandard"} \X {0})
Class(b) ==
  IF Version(b) \in Versioned THEN <<"v", Version(b)>>
  ELSE IF Constant(b, 0) THEN <<"nil", 0>>
  ELSE IF Constant(b, 255) THEN <<"max", 0>>
  ELSE <<"nonstandard", 0>>

-----------------------------------------------------------------------------
(* The order a codec's bytes are in, and the way back.  The exchanges of   *)
(* Guid and TimestampFirstComb are their own inverses.                     *)
InOrder(order, b) == [i \in Bytes |-> b[order[i]]]
Plain == [i \in Bytes |-> i]
GuidSwap == <<4, 3, 2, 1, 6, 5, 8, 7>> \o SubSeq(Plain, 9, 16)
CombSwap == SubSeq(Plain, 11, 16) \o SubSeq(Plain, 7, 10) \o SubSeq(Plain, 1, 6)
TimeHiFirst == <<7, 8, 5, 6, 1, 2, 3, 4>> \o SubSeq(Plain, 9, 16)
TimeLowFirst == <<5, 6, 7, 8, 3, 4, 1, 2>> \o SubSeq(Plain, 9, 16)

BinaryOrder(codec) ==
  CASE codec = "guid" -> GuidSwap [] codec = "first" -> CombSwap
    [] codec = "ordered" -> TimeHiFirst [] OTHER -> Plain
TextOrder(codec) == IF codec = "first" THEN CombSwap ELSE Plain

BinaryBack(codec) == IF codec = "ordered" THEN TimeLowFirst ELSE BinaryOrder(codec)

(* OrderedTimeCodec refuses all but version 1, both ways.                  *)
Refuses(codec, b) == codec = "ordered" /\ Version(b) # 1
EncodeBinary(codec, b) == IF Refuses(codec, b) THEN NoBytes ELSE InOrder(BinaryOrder(codec), b)
Encode(codec, b) == InOrder(TextOrder(codec), b)
Decode(codec, s) == InOrder(TextOrder(codec), s)
DecodeBytes(codec, s) ==
  LET b == InOrder(BinaryBack(codec), s) IN IF Refuses(codec, b) THEN NoBytes ELSE b

-----------------------------------------------------------------------------
(* applyVersionAndVariant(), and the same two lines in uuid4 and uuid7.    *)
(* Mutant: the variant is left to the generator.                           *)
StampVersion(b, version) == [b EXCEPT ![7] = (@ % 16) + 16 * version]
Stamp(b, version) == [b EXCEPT ![7] = (@ % 16) + 16 * version, ![9] = (@ % 64) + 128]

(* UuidV6::fromUuidV1() and toUuidV1() cut and join hex digits.            *)
Hex(b) == [k \in 1 .. 32 |-> IF k % 2 = 1 THEN b[(k + 1) \div 2] \div 16 ELSE b[k \div 2] % 16]
FromHex(h) == [i \in Bytes |-> 16 * h[2 * i - 1] + h[2 * i]]
V6OfV1(b) ==
  LET h == Hex(b)
      ts == SubSeq(h, 14, 16) \o SubSeq(h, 9, 12) \o SubSeq(h, 1, 8)
  IN  FromHex(SubSeq(ts, 1, 12) \o <<6>> \o SubSeq(ts, 13, 15) \o SubSeq(h, 17, 32))
V1OfV6(b) ==
  LET h == Hex(b)
      ts == SubSeq(h, 1, 12) \o SubSeq(h, 14, 16)
  IN  FromHex(SubSeq(ts, 8, 15) \o SubSeq(ts, 4, 7) \o <<1>> \o SubSeq(ts, 1, 3) \o SubSeq(h, 17, 32))
=============================================================================
