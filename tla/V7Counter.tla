----------------------------- MODULE V7Counter -----------------------------
(***************************************************************************)
(* The arithmetic of the live UUIDv7 generator: the time key of a clock    *)
(* reading, the random step of rand_b with its carry, and what             *)
(* fu_v7_start() may hand back.  Pure operators only: V7Monotonic gives    *)
(* them a process.                                                         *)
(*                                                                         *)
(* A stamp is what the 128 bits of a live v7 carry besides version and     *)
(* variant: the 60-bit time key (ms << 12 | sub) and the 62-bit rand_b.    *)
(* fu_lay_v7() writes the fields most significant first, so the byte order *)
(* of two UUIDs is the lexicographic order of their stamps.                *)
(***************************************************************************)
EXTENDS Integers

CONSTANTS
  NsPerMs,   (* nanoseconds in a millisecond, 10^6 in the code             *)
  SubSlots,  (* values of the sub-millisecond field, 4096 in the code      *)
  KeyMax,    (* largest time key, 2^60 - 1 in the code                     *)
  RandMax,   (* largest rand_b, FU_RANDB_MASK = 2^62 - 1 in the code       *)
  MaxStep,   (* largest random step of a tie, 2^24 in the code             *)
  MaxNs      (* largest clock reading fu_unix_nanos() returns              *)

(* KeyMax is not tied to SubSlots: the code compares with the constant.    *)
(* A step never passes rand_b twice round (2^24 <= 2^62), which is why the *)
(* code may mask instead of dividing.                                      *)
ASSUME V7Assumption ==
  /\ NsPerMs \in Nat \ {0}
  /\ SubSlots \in Nat \ {0}
  /\ KeyMax \in Nat
  /\ RandMax \in Nat
  /\ MaxStep \in 1 .. (RandMax + 1)
  /\ MaxNs \in Nat

RandB == 0 .. RandMax
Steps == 1 .. MaxStep
Stamp == [key : 0 .. KeyMax, randb : RandB]

(* ms << 12 | floor(fraction of the millisecond * 4096).                   *)
TimeKey(ns) ==
  (ns \div NsPerMs) * SubSlots + ((ns % NsPerMs) * SubSlots) \div NsPerMs

(* The order of two laid-out UUIDs, byte by byte.                          *)
Before(s, t) == s.key < t.key \/ (s.key = t.key /\ s.randb < t.randb)

(* Mutant: the last time key is refused altogether.                        *)
ExhaustedByKey(s, step) == s.key = KeyMax

(* A step that would leave rand_b while the key is at its maximum.         *)
Exhausted(s, step) == s.randb + step > RandMax /\ s.key = KeyMax

(* Mutants of the carry: rand_b keeps its old value; the key does not move.*)
AdvanceKeepsLow(s, step) ==
  IF s.randb + step > RandMax
    THEN [key |-> s.key + 1, randb |-> s.randb]
    ELSE [key |-> s.key,     randb |-> s.randb + step]
AdvanceWraps(s, step) ==
  [key |-> s.key, randb |-> (s.randb + step) % (RandMax + 1)]

(* rand_b plus a step; an overflow carries into the time key.              *)
Advance(s, step) ==
  IF s.randb + step > RandMax
    THEN [key |-> s.key + 1, randb |-> (s.randb + step) % (RandMax + 1)]
    ELSE [key |-> s.key,     randb |-> s.randb + step]

(* fu_v7_start() takes the clock's key only when nothing was issued yet or *)
(* the key is later than the last one issued.                              *)
Fresh(initialized, mark, key) == ~initialized \/ key > mark.key

(* The stamps fu_v7_increment() can produce from s.                        *)
Increments(s) == {Advance(s, step) : step \in {x \in Steps : ~Exhausted(s, x)}}

(* The stamps fu_v7_start() can produce from a reading.                    *)
Starts(initialized, mark, key) ==
  IF Fresh(initialized, mark, key)
    THEN {[key |-> key, randb |-> r] : r \in RandB}
    ELSE Increments(mark)

MayExhaust(s) == \E step \in Steps : Exhausted(s, step)
=============================================================================
