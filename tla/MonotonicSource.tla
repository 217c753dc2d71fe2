-------------------------- MODULE MonotonicSource --------------------------
(***************************************************************************)
(* What a live time-based generator promises, whatever the clock, the      *)
(* CSPRNG and the mix of single and batch calls do: the stamps one process *)
(* lays out come one at a time and each is strictly after all before it.   *)
(* V7Monotonic and GregorianClock are shown to implement it.               *)
(***************************************************************************)
EXTENDS Sequences, Integers

CONSTANTS
  Stamps,          (* the stamps a generator may lay out                    *)
  Precedes(_, _)   (* the order a reader of the UUIDs sees                  *)

VARIABLE issued    (* every stamp laid out so far, in order                 *)

Init == issued = << >>

Issue ==
  \E s \in Stamps :
    /\ \A i \in 1 .. Len(issued) : Precedes(issued[i], s)
    /\ issued' = Append(issued, s)

Spec == Init /\ [][Issue]_issued
=============================================================================
