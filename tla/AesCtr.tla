------------------------------- MODULE AesCtr -------------------------------
(***************************************************************************)
(* fu_aes_ctr(), x86 and ARM alike: eight blocks at a time while there are *)
(* eight, then two at a time with the last one cut, then two blocks for    *)
(* the new key.  The rounds of AES are left out: a block is named by its   *)
(* counter.  The counter lives in a local and is stored at the end.        *)
(***************************************************************************)
EXTENDS Integers

CONSTANTS
  Block,    (* bytes of a block, 16                                         *)
  Wide,     (* blocks of a pass of the first loop, 8                        *)
  Lane,     (* values of the counter's low 64-bit lane                      *)
  Lens,     (* lengths asked for                                            *)
  Counters, (* counters a call may find                                     *)
  OutSize   (* bytes of memory in view, the output and what follows it      *)

(* One call never runs once round the lane: a chunk is 514 blocks, and the *)
(* lane counts 2^64.                                                       *)
ASSUME AesAssumption ==
  /\ Block \in Nat \ {0} /\ Wide \in Nat \ {0} /\ Lane \in Nat \ {0}
  /\ OutSize \in Nat
  /\ Lens \subseteq 0 .. OutSize
  /\ Counters \subseteq 0 .. Lane - 1
  /\ OutSize + 2 < Lane

VARIABLES
  asked, from,    \* history: len and counter of the call
  out, key, ctr,  \* memory of the caller
  pos, len, c,    \* locals: bytes written, bytes left, the counter
  done

memory == <<out, key, ctr>>
vars == <<asked, from, memory, pos, len, c, done>>

Contract == INSTANCE AesContract

Call(n, start) ==
  /\ asked = n /\ from = start
  /\ out = [i \in 0 .. OutSize - 1 |-> Contract!Untouched]
  /\ key = Contract!OldKey
  /\ ctr = start
  /\ pos = 0 /\ len = n /\ c = start
  /\ done = FALSE

Init == \E n \in Lens, start \in Counters : Call(n, start)

(* _mm_add_epi64: only the low lane moves.                                 *)
Advanced(k) == (c + k) % Lane

(* The next n bytes of output, from the block at c on.                     *)
Written(n) ==
  [i \in 0 .. OutSize - 1 |->
     IF i \in pos .. pos + n - 1
       THEN Contract!Keystream(c + (i - pos) \div Block, i - pos)
       ELSE out[i]]

Move(n) == pos' = pos + n /\ len' = len - n

(* One turn of the eight-wide loop.                                        *)
WidePass ==
  /\ ~done /\ len >= Wide * Block
  /\ out' = Written(Wide * Block)
  /\ Move(Wide * Block)
  /\ c' = Advanced(Wide)
  /\ UNCHANGED <<asked, from, key, ctr, done>>

(* Mutant: a pair whose first block is just full counts as both.           *)
TwoFromFull(take) == IF take >= Block THEN 2 ELSE 1

(* The second block of a pair is spent only if some of it is used.         *)
Spent(take) == IF take > Block THEN 2 ELSE 1

(* Mutant: the last pair is not cut.                                       *)
PairUncut == 2 * Block

PairTake == IF len < 2 * Block THEN len ELSE 2 * Block

PairPass ==
  /\ ~done /\ len < Wide * Block /\ len > 0
  /\ out' = Written(PairTake)
  /\ Move(PairTake)
  /\ c' = Advanced(Spent(PairTake))
  /\ UNCHANGED <<asked, from, key, ctr, done>>

(* Mutant: the new key is made of the block before.                        *)
RekeyEarly ==
  /\ ~done /\ len = 0
  /\ key' = <<(c + Lane - 1) % Lane, c % Lane>>
  /\ ctr' = Advanced(2)
  /\ c' = Advanced(2)
  /\ done' = TRUE
  /\ UNCHANGED <<asked, from, out, pos, len>>

Rekey ==
  /\ ~done /\ len = 0
  /\ key' = <<c % Lane, Advanced(1)>>
  /\ ctr' = Advanced(2)
  /\ c' = Advanced(2)
  /\ done' = TRUE
  /\ UNCHANGED <<asked, from, out, pos, len>>

Next == WidePass \/ PairPass \/ Rekey

Spec == Init /\ [][Next]_vars

(* Both loops are run by the thread that called, and wait for nothing.     *)
FairSpec == Spec /\ WF_vars(Next)

-----------------------------------------------------------------------------
(* Every variable has its type; what is written and what is left add up.   *)
TypeOK ==
  /\ asked \in 0 .. OutSize /\ from \in 0 .. Lane - 1
  /\ DOMAIN out = 0 .. OutSize - 1
  /\ pos \in 0 .. asked /\ len = asked - pos
  /\ c \in 0 .. Lane - 1 /\ ctr \in 0 .. Lane - 1
  /\ done \in BOOLEAN

Counters1 == {out[i][1] : i \in {j \in DOMAIN out : out[j] # Contract!Untouched}}

(* No counter is encrypted for two purposes: the blocks of the new key are *)
(* not in the output, nor is the block the next call under it would begin  *)
(* with, wherever in the lane the call started.                            *)
CountersApart ==
  done => /\ key[1] # key[2]
          /\ {key[1], key[2], ctr} \cap Counters1 = {}
          /\ ctr \notin {key[1], key[2]}

(* The loops implement the contract; the caller sees the output only when  *)
(* the call returns.                                                       *)
Returned ==
  INSTANCE AesContract
    WITH out <- IF done THEN out ELSE [i \in DOMAIN out |-> Contract!Untouched]
ImplementsContract == Returned!Spec

(* A call of any length comes to its end: both loops count down to 0 and   *)
(* none steps over it.                                                     *)
Returns == <>done
=============================================================================
