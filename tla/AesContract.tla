---------------------------- MODULE AesContract ----------------------------
(***************************************************************************)
(* What fu_drbg_fill() relies on, and Csprng takes for granted, of one     *)
(* fu_aes_ctr() call: the output is consecutive keystream blocks, the last *)
(* one cut; the next two become the key; the counter ends behind them.     *)
(* Key and counter afterwards depend on the number of blocks alone.        *)
(***************************************************************************)
EXTENDS Integers

CONSTANTS
  Block,   (* bytes of a block, 16                                          *)
  Lane,    (* values of the counter's low 64-bit lane, the one that counts  *)
  OutSize  (* bytes of memory in view, the output and what follows it       *)

VARIABLES
  asked, from,   \* len and counter of the call
  out, key, ctr

(* A byte of keystream: the counter of its block and its place in it.      *)
Keystream(c, i) == <<c % Lane, i % Block>>
Untouched == <<Lane, 0>>

(* The keys are named by the two blocks they are made of.                  *)
OldKey == <<Lane, Lane>>
KeyFrom(c) == <<c % Lane, (c + 1) % Lane>>

BlocksOf(len) == (len + Block - 1) \div Block
Stream(n) ==
  [i \in 0 .. OutSize - 1 |->
     IF i < n THEN Keystream(from + i \div Block, i) ELSE Untouched]

Init == out = Stream(0) /\ key = OldKey /\ ctr = from

Generate ==
  /\ key = OldKey
  /\ out' = Stream(asked)
  /\ key' = KeyFrom(from + BlocksOf(asked))
  /\ ctr' = (from + BlocksOf(asked) + 2) % Lane
  /\ UNCHANGED <<asked, from>>

Spec == Init /\ [][Generate]_<<asked, from, out, key, ctr>>
=============================================================================
