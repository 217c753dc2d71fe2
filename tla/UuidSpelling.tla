---------------------------- MODULE UuidSpelling ----------------------------
(***************************************************************************)
(* How UUIDs, integers, nodes and local identifiers are spelled and read.  *)
(* A text is a sequence of symbols: a digit is its own value, as in        *)
(* fu_nib_lut, and every other symbol is negative.  Letter case is not     *)
(* kept: the table has both.                                               *)
(***************************************************************************)
EXTENDS Integers, Sequences, FiniteSets, SequencesExt

CONSTANTS
  Digits,      (* 32                                                        *)
  HyphenPlaces, (* {9, 14, 19, 24}, the groups being of 8, 4, 4, 4 and 12   *)
  Base,        (* 16, the hexadecimal digits                                *)
  Ten,         (* 10, the decimal ones                                      *)
  MaxDecimals, (* 39, the digits of the largest UUID                        *)
  NodeBytes,   (* 6                                                         *)
  LocalMax,    (* 2^32 - 1                                                  *)
  LocalDigits, (* 10                                                        *)
  SeqMax       (* 0x3fff                                                    *)

Length == Digits + Cardinality(HyphenPlaces)   (* 36 *)
UuidBytes == Digits \div 2           (* 16 *)
Byte == 0 .. Base * Base - 1
Uuids == [1 .. UuidBytes -> Byte]
NodeMax == (Base * Base) ^ NodeBytes - 1

ASSUME SpellingAssumption ==
  /\ Base \in Nat /\ Ten \in 2 .. Base
  /\ Digits \in Nat \ {0} /\ Digits = 2 * UuidBytes /\ UuidBytes < Base * Base
  /\ IsFiniteSet(HyphenPlaces) /\ HyphenPlaces \subseteq 1 .. Length
  /\ NodeBytes \in Nat /\ MaxDecimals \in Nat /\ SeqMax \in Nat
  /\ LocalMax < Ten ^ LocalDigits

Hyphen == -1
Open == -2
Close == -3
Urn == -4     (* the nine characters urn:uuid: *)
Other == -5
NoUuid == << >>

(* fu_format36: two digits to a byte, moved by the hyphens before them.    *)
Before(p) == Cardinality({h \in HyphenPlaces : h < p})
DigitOf(u, i) == IF i % 2 = 1 THEN u[(i + 1) \div 2] \div Base ELSE u[i \div 2] % Base
Format36(u) ==
  [p \in 1 .. Length |-> IF p \in HyphenPlaces THEN Hyphen ELSE DigitOf(u, p - Before(p))]
DigitPlace(i) == CHOOSE p \in (1 .. Length) \ HyphenPlaces : p - Before(p) = i

(* fu_parse.  Twice: a urn prefix, then a pair of braces.                  *)
WithoutUrn(t) == IF t # << >> /\ t[1] = Urn THEN Tail(t) ELSE t
WithoutBraces(t) ==
  IF Len(t) >= 2 /\ t[1] = Open /\ t[Len(t)] = Close THEN SubSeq(t, 2, Len(t) - 1) ELSE t
Unwrapped(t) == WithoutBraces(WithoutUrn(t))
(* Mutant: one pass.                                                       *)
StrippedOnce(t) == Unwrapped(t)
Stripped(t) == Unwrapped(Unwrapped(t))

BytesOf(digits) ==
  IF \E i \in DOMAIN digits : digits[i] < 0 THEN NoUuid
  ELSE [i \in 1 .. Len(digits) \div 2 |-> digits[2 * i - 1] * Base + digits[2 * i]]
Parse(t) ==
  LET s == Stripped(t)
  IN  IF Len(s) = Length /\ \A h \in HyphenPlaces : s[h] = Hyphen
      THEN BytesOf([i \in 1 .. Digits |-> s[DigitPlace(i)]])
      ELSE IF Len(s) = Digits THEN BytesOf(s) ELSE NoUuid

-----------------------------------------------------------------------------
(* fu_to_decimal: long division by ten, byte by byte, until nothing is left.*)
DivideBytes(u) ==
  FoldLeft(LAMBDA d, b :
             LET current == d.remainder * Base * Base + b
             IN  [quotient |-> Append(d.quotient, current \div Ten), remainder |-> current % Ten],
           [quotient |-> << >>, remainder |-> 0], u)
ToDecimal[u \in Uuids] ==
  LET d == DivideBytes(u)
  IN  IF \A i \in DOMAIN u : d.quotient[i] = 0 THEN <<d.remainder>>
      ELSE Append(ToDecimal[d.quotient], d.remainder)

(* fu_from_decimal: ten times what there is and a digit, from the last byte*)
(* on; what is carried out of the first is more than a UUID.               *)
TimesTen(u, digit) ==
  FoldRight(LAMBDA b, m :
              LET current == b * Ten + m.carry
              IN  [bytes |-> <<current % (Base * Base)>> \o m.bytes,
                   carry |-> current \div (Base * Base)],
            u, [bytes |-> << >>, carry |-> digit])
IsDecimal(t) == \A i \in DOMAIN t : t[i] \in 0 .. Ten - 1
(* Mutant: what is carried out is lost.                                    *)
AddDigitWraps(u, digit) == IF u = NoUuid THEN NoUuid ELSE TimesTen(u, digit).bytes
AddDigit(u, digit) ==
  IF u = NoUuid \/ TimesTen(u, digit).carry # 0 THEN NoUuid ELSE TimesTen(u, digit).bytes
Canonical(t) == t # << >> /\ (Len(t) > 1 => t[1] # 0)
FromDecimal(t) ==
  IF ~Canonical(t) \/ Len(t) > MaxDecimals \/ ~IsDecimal(t) THEN NoUuid
  ELSE FoldLeft(AddDigit, [i \in 1 .. UuidBytes |-> 0], t)

-----------------------------------------------------------------------------
(* Optional arguments that are given; an invalid one throws, nothing is cut*)
(* to fit.                                                                 *)
Invalid == [is |-> "invalid"]
Valid(v) == [is |-> "valid", value |-> v]

(* fu_parse_node: an integer, or exactly two digits for each byte.         *)
NodeOfInt(n) ==
  IF n < 0 \/ n > NodeMax THEN Invalid
  ELSE Valid([i \in 1 .. NodeBytes |-> (n \div (Base * Base) ^ (NodeBytes - i)) % (Base * Base)])
NodeOfText(t) ==
  IF Len(t) # 2 * NodeBytes \/ BytesOf(t) = NoUuid THEN Invalid ELSE Valid(BytesOf(t))
ClockSeq(n) == IF n < 0 \/ n > SeqMax THEN Invalid ELSE Valid(n)

(* fu_local_id_arg, for an identifier that is given.                       *)
LocalIdOfInt(n) == IF n < 0 \/ n > LocalMax THEN Invalid ELSE Valid(n)
Number(t) == FoldLeft(LAMBDA n, digit : n * Ten + digit, 0, t)   (* strtoull *)
LocalIdOfText(t) ==
  IF ~Canonical(t) \/ Len(t) > LocalDigits \/ ~IsDecimal(t) \/ Number(t) > LocalMax THEN Invalid
  ELSE Valid(Number(t))

-----------------------------------------------------------------------------
(* The two forms of a UUID, and texts in at most one wrapper more.         *)
Bare(u) == [i \in 1 .. Digits |-> DigitOf(u, i)]
Forms(u) == {Format36(u), Bare(u)}
Wraps(t) == {t, <<Urn>> \o t, <<Open>> \o t \o <<Close>>}
InWrapper(texts) == UNION {Wraps(t) : t \in texts}

(* What a text spells, said without the parser, and the numeral it is.     *)
Spells(t, u) == t \in InWrapper(InWrapper(InWrapper(InWrapper(Forms(u)))))
Documented == InWrapper(InWrapper(UNION {Forms(u) : u \in Uuids}))
ValueOf(bytes) == FoldLeft(LAMBDA n, b : n * Base * Base + b, 0, bytes)
IsNumeral(t, max) == Canonical(t) /\ IsDecimal(t) /\ Number(t) <= max

(* Texts tried: all the short ones, and a UUID in all manner of wrappers.  *)
TextsOver(symbols, n) == UNION {[1 .. k -> symbols] : k \in 0 .. n}
Joined(starts, ends) == {pair[1] \o pair[2] : pair \in starts \X ends}
Loose(u) == Joined(Joined(TextsOver({Urn, Open}, 5), Forms(u)), TextsOver({Close, Other}, 3))
Tried ==
  TextsOver({0, Base - 1, Hyphen, Open, Close, Urn}, Length + 1) \cup Loose([i \in 1 .. UuidBytes |-> i])
DecimalsTried == TextsOver(0 .. Ten \cup {Other}, MaxDecimals + 1)
=============================================================================
