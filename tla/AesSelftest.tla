---------------------------- MODULE AesSelftest ----------------------------
(***************************************************************************)
(* fu_aes_selftest(), which decides at MINIT whether the hardware path is  *)
(* used at all: for each case the counter is started blk blocks before the *)
(* one of a published vector, so that block blk of the call must be that   *)
(* vector's ciphertext.  The sizes are the code's own; only the lane is    *)
(* short.  A vector's ciphertext is named by its counter.  The last check, *)
(* a second vector with a key of its own, repeats the case <<16, 0>> and is*)
(* left out.                                                               *)
(***************************************************************************)
EXTENDS AesCtr, Sequences

CONSTANTS Vectors   (* what the low lane of the vector's plaintext may be   *)

VARIABLES
  vector,   \* the counter of the vector's plaintext
  at,       \* the case under way
  verdict,  \* what the self-test returns, once it is known
  lanes,    \* history: which part of the code made each block of the call
  covered   \* history: the parts whose block some case compared

selftestVars == <<vars, vector, at, verdict, lanes, covered>>

(* Mutant: without the one case that looks into a cut block.               *)
CasesUncut ==
  << <<128, 0>>, <<128, 1>>, <<128, 2>>, <<128, 3>>,
     <<128, 4>>, <<128, 5>>, <<128, 6>>, <<128, 7>>, <<256, 8>>, <<256, 15>>,
     <<16, 0>>, <<144, 8>>, <<160, 9>>, <<183, 10>>,
     <<48, 3>>, <<48, 4>>, <<183, 12>>, <<183, 13>> >>

(* {len, blk}                                                              *)
Cases ==
  << <<128, 0>>, <<128, 1>>, <<128, 2>>, <<128, 3>>,
     <<128, 4>>, <<128, 5>>, <<128, 6>>, <<128, 7>>, <<256, 8>>, <<256, 15>>,
     <<16, 0>>, <<144, 8>>, <<160, 9>>, <<183, 10>>, <<183, 11>>,
     <<48, 3>>, <<48, 4>>, <<183, 12>>, <<183, 13>> >>

CaseLen(i) == Cases[i][1]
CaseBlock(i) == Cases[i][2]
StartOf(v, i) == (v + Lane - CaseBlock(i)) % Lane

SelftestInit ==
  /\ vector \in Vectors
  /\ Call(CaseLen(1), StartOf(vector, 1))
  /\ at = 1
  /\ verdict = "none"
  /\ lanes = << >>
  /\ covered = {}

(* The call runs, and each block it makes is put down to its lane.         *)
Made(names) == lanes' = lanes \o names
PairNames(take) ==
  IF take <= Block
    THEN << <<"pair", 0, take = Block>> >>
    ELSE << <<"pair", 0, TRUE>>, <<"pair", 1, take = 2 * Block>> >>
KeyNames == << <<"key", 0, TRUE>>, <<"key", 1, TRUE>> >>

Run ==
  /\ \/ WidePass /\ Made([i \in 1 .. Wide |-> <<"wide", i - 1, pos > 0>>])
     \/ PairPass /\ Made(PairNames(PairTake))
     \/ Rekey /\ Made(KeyNames)
  /\ UNCHANGED <<vector, at, verdict, covered>>

(* The block of the case is the vector's, the length was kept, and the     *)
(* counter has moved by the blocks of the output and the two of the key.   *)
Compared(i) ==
  LET blk == CaseBlock(i)
      made == Contract!BlocksOf(CaseLen(i))
  IN IF blk < made
       THEN \A j \in blk * Block .. blk * Block + Block - 1 :
              j < CaseLen(i) => out[j] = Contract!Keystream(vector, j)
       ELSE key[blk - made + 1] = vector
Passes(i) ==
  /\ Compared(i)
  /\ out[CaseLen(i)] = Contract!Untouched
  /\ ctr = (from + Contract!BlocksOf(CaseLen(i)) + 2) % Lane

Compare == covered' = covered \cup {lanes[CaseBlock(at) + 1]}

NextCase ==
  /\ done /\ verdict = "none" /\ Passes(at) /\ at < Len(Cases)
  /\ at' = at + 1
  /\ Compare
  /\ lanes' = << >>
  /\ asked' = CaseLen(at + 1) /\ from' = StartOf(vector, at + 1)
  /\ out' = [i \in 0 .. OutSize - 1 |-> Contract!Untouched]
  /\ key' = Contract!OldKey
  /\ ctr' = StartOf(vector, at + 1)
  /\ pos' = 0 /\ len' = CaseLen(at + 1) /\ c' = StartOf(vector, at + 1)
  /\ done' = FALSE
  /\ UNCHANGED <<vector, verdict>>

Decide ==
  /\ done /\ verdict = "none"
  /\ Passes(at) => at = Len(Cases)
  /\ verdict' = IF Passes(at) THEN "passes" ELSE "fails"
  /\ Compare
  /\ UNCHANGED <<vars, vector, at, lanes>>

SelftestNext == Run \/ NextCase \/ Decide

(* MINIT waits for the verdict, and nothing else runs meanwhile.           *)
SelftestSpec ==
  SelftestInit /\ [][SelftestNext]_selftestVars /\ WF_selftestVars(SelftestNext)

-----------------------------------------------------------------------------
(* The self-test always comes to a verdict, and a block loop that is right *)
(* is accepted (the mutants of AesCtr that put a block in the wrong place, *)
(* or lose count of them, are not).                                        *)
AcceptsRight == <>(verdict = "passes")

(* What the comment at the cases says: between them they compare a block   *)
(* of every lane of the wide loop, first and later passes, of both places  *)
(* of a pair, whole and cut, and of both halves of the new key.            *)
CoversEveryLane ==
  verdict = "passes" =>
    /\ \A lane \in 0 .. Wide - 1 : <<"wide", lane, FALSE>> \in covered
    /\ \E lane \in 0 .. Wide - 1 : <<"wide", lane, TRUE>> \in covered
    /\ <<"pair", 0, TRUE>> \in covered /\ <<"pair", 1, TRUE>> \in covered
    /\ \E place \in {0, 1} : <<"pair", place, FALSE>> \in covered
    /\ {<<"key", 0, TRUE>>, <<"key", 1, TRUE>>} \subseteq covered
=============================================================================
