--------------------------- MODULE GregorianClock ---------------------------
(***************************************************************************)
(* The live v1, v6 and v2 generators of one process (one thread under      *)
(* ZTS).  v1 and v6 share the 60-bit high-water mark greg_last; v2 keeps   *)
(* v2_last on the part of the timestamp its layout leaves visible, and     *)
(* only for calls that supply both node and clock sequence.  The mark is   *)
(* moved before the random fields are drawn, so a failed draw has already  *)
(* spent a tick.  CLOCK_REALTIME may stall, jump either way or fail.       *)
(***************************************************************************)
EXTENDS Integers, Sequences

CONSTANTS
  Epoch,       (* FU_GREG_UNIX_EPOCH: the least reading, above zero         *)
  MaxNow,      (* the largest reading fu_greg_now() returns                 *)
  TickMax,     (* largest 60-bit Gregorian timestamp                        *)
  LowSpan,     (* 2^32: values of time_low, which v2 overwrites             *)
  Nodes,       (* node values a caller may supply                           *)
  RandomNode,  (* a drawn 47-bit node: never equal to a supplied one (the   *)
               (* multicast bit), and not compared with another drawn one   *)
  CsMax,       (* largest clock sequence, 0x3fff                            *)
  CsLowSpan,   (* 2^8: values of clock_seq_low, which v2 overwrites         *)
  Owners,      (* local domain and local identifier, as one value           *)
  MaxGreg, MaxV2 (* bounds of the model: UUIDs laid out per clock           *)

ASSUME GregAssumption ==
  /\ Epoch \in Nat \ {0} /\ MaxNow \in Nat /\ TickMax \in Nat
  /\ MaxNow <= TickMax
  /\ LowSpan \in Nat \ {0} /\ CsMax \in Nat /\ CsLowSpan \in Nat \ {0}
  /\ RandomNode \notin Nodes
  /\ MaxGreg \in Nat /\ MaxV2 \in Nat

VARIABLES
  greg_last, v2_last,   \* FAST_UUID_G
  outcome,     \* how the last call ended
  gregLog,     \* history: timestamps of the live v1 and v6 UUIDs, in order
  v2Log,       \* history: the v2 UUIDs, in order
  clockTop,    \* history: the latest reading
  gregTies,    \* history: ticks taken since greg_last was last a reading
  v2Ties       \* history: the same for v2_last

vars == <<greg_last, v2_last, outcome, gregLog, v2Log, clockTop, gregTies, v2Ties>>

Readings == Epoch .. MaxNow
ClockSeqs == 0 .. CsMax

(* The visible part of a timestamp (time_mid and time_hi), and of a clock  *)
(* sequence (clock_seq_hi), in a v2.                                       *)
Visible(g) == g \div LowSpan
VisibleSeq(cs) == cs \div CsLowSpan
VisMax == Visible(TickMax)

Init ==
  /\ greg_last = 0 /\ v2_last = 0
  /\ outcome = "none"
  /\ gregLog = << >> /\ v2Log = << >>
  /\ clockTop = 0 /\ gregTies = 0 /\ v2Ties = 0

ReadClock(g) == clockTop' = IF g > clockTop THEN g ELSE clockTop

(* Mutants: a reading equal to the mark passes; a stalled call leaves it,  *)
(* or moves it by two.                                                     *)
StalledBehind(mark, now) == now < mark
StuckMark(mark, now) == IF now <= mark THEN mark ELSE now
LeapMark(mark, now) == IF now <= mark THEN mark + 2 ELSE now

(* A reading not above the mark is replaced by the mark's successor; at    *)
(* the end of the field there is none.                                     *)
Stalled(mark, now) == now <= mark
MarkExhausted(mark, now, max) == Stalled(mark, now) /\ mark = max
NextMark(mark, now) == IF Stalled(mark, now) THEN mark + 1 ELSE now
CountTie(ties, mark, now) == IF Stalled(mark, now) THEN ties + 1 ELSE 0

(* The node and clock sequence a UUID ends up with, drawn if not supplied. *)
LaidNode(given) == IF given = {} THEN {RandomNode} ELSE given
LaidSeq(given) == IF given = {} THEN ClockSeqs ELSE given

(* At most one value supplied: {} is a null argument.                      *)
NodeArgs == {{}} \cup {{n} : n \in Nodes}
SeqArgs == {{}} \cup {{c} : c \in ClockSeqs}

-----------------------------------------------------------------------------
(* fu_greg_monotonic() succeeds: the mark moves, whatever comes after.     *)
GregMark(g) ==
  /\ ~MarkExhausted(greg_last, g, TickMax)
  /\ greg_last' = NextMark(greg_last, g)
  /\ gregTies' = CountTie(gregTies, greg_last, g)
  /\ ReadClock(g)
  /\ UNCHANGED <<v2_last, v2Ties, v2Log>>

(* uuid1() or uuid6(), live: fu_gen_v1_ex() and fu_gen_v6_ex() differ only *)
(* in where they put the timestamp.                                        *)
GenTimeBased ==
  /\ Len(gregLog) < MaxGreg
  /\ \E g \in Readings :
       /\ GregMark(g)
       /\ gregLog' = Append(gregLog, NextMark(greg_last, g))
  /\ outcome' = "ok"

(* The same call when a defaulted node or clock sequence cannot be drawn.  *)
GenTimeBasedNoRandom ==
  /\ \E g \in Readings : GregMark(g)
  /\ outcome' = "rand"
  /\ UNCHANGED gregLog

(* Mutant: exhaustion starts the clock again at the reading.               *)
GregRestarts ==
  /\ \E g \in Readings :
       MarkExhausted(greg_last, g, TickMax) /\ ReadClock(g) /\ greg_last' = g
  /\ outcome' = "gregExhausted"
  /\ UNCHANGED <<v2_last, gregLog, v2Log, gregTies, v2Ties>>

(* The 60 bits are used up: uuid1() and uuid6() throw.                     *)
GregExhausted ==
  /\ \E g \in Readings :
       MarkExhausted(greg_last, g, TickMax) /\ ReadClock(g)
  /\ outcome' = "gregExhausted"
  /\ UNCHANGED <<greg_last, v2_last, gregLog, v2Log, gregTies, v2Ties>>

-----------------------------------------------------------------------------
(* What a v2 shows, and two facts of its call: the clock sequence it was   *)
(* laid out with, and whether that and the node were supplied.             *)
V2Uuid(vis, who, cs, node, full) ==
  [time |-> vis, owner |-> who, seq |-> VisibleSeq(cs), node |-> node,
   given |-> cs, full |-> full]
SameUuid(u, v) ==
  u.time = v.time /\ u.owner = v.owner /\ u.seq = v.seq /\ u.node = v.node

(* Mutant: no mark is consulted or moved here either.                      *)
GenV2Unmarked ==
  /\ Len(v2Log) < MaxV2
  /\ \E g \in Readings, who \in Owners, n \in Nodes, cs \in ClockSeqs :
       /\ v2Log' = Append(v2Log, V2Uuid(Visible(g), who, cs, n, TRUE))
       /\ ReadClock(g)
  /\ outcome' = "ok"
  /\ UNCHANGED <<greg_last, v2_last, gregLog, gregTies, v2Ties>>

(* uuid2() with node and clock sequence both supplied: the only monotonic  *)
(* case.  It draws nothing, so once the mark has moved it cannot fail.     *)
GenV2Monotonic ==
  /\ Len(v2Log) < MaxV2
  /\ \E g \in Readings, who \in Owners, n \in Nodes, cs \in ClockSeqs :
       LET now == Visible(g) IN
       /\ ~MarkExhausted(v2_last, now, VisMax)
       /\ v2_last' = NextMark(v2_last, now)
       /\ v2Ties' = CountTie(v2Ties, v2_last, now)
       /\ v2Log' = Append(v2Log, V2Uuid(NextMark(v2_last, now), who, cs, n, TRUE))
       /\ ReadClock(g)
  /\ outcome' = "ok"
  /\ UNCHANGED <<greg_last, gregLog, gregTies>>

(* uuid2() with a default: the reading goes out as it is, and no mark is   *)
(* consulted or moved.                                                     *)
GenV2Default ==
  /\ Len(v2Log) < MaxV2
  /\ \E g \in Readings, who \in Owners, nodeArg \in NodeArgs, seqArg \in SeqArgs :
       /\ nodeArg = {} \/ seqArg = {}
       /\ \E n \in LaidNode(nodeArg), cs \in LaidSeq(seqArg) :
            v2Log' = Append(v2Log, V2Uuid(Visible(g), who, cs, n, FALSE))
       /\ ReadClock(g)
  /\ outcome' = "ok"
  /\ UNCHANGED <<greg_last, v2_last, gregLog, gregTies, v2Ties>>

V2Exhausted ==
  /\ \E g \in Readings :
       MarkExhausted(v2_last, Visible(g), VisMax) /\ ReadClock(g)
  /\ outcome' = "v2Exhausted"
  /\ UNCHANGED <<greg_last, v2_last, gregLog, v2Log, gregTies, v2Ties>>

(* Any of them when the clock fails, or uuid2() with a default when the    *)
(* draw does: nothing has been written.                                    *)
FailsUnmarked ==
  /\ \/ outcome' = "clock" /\ UNCHANGED clockTop
     \/ outcome' = "rand" /\ \E g \in Readings : ReadClock(g)
  /\ UNCHANGED <<greg_last, v2_last, gregLog, v2Log, gregTies, v2Ties>>

Next ==
  \/ GenTimeBased \/ GenTimeBasedNoRandom \/ GregExhausted
  \/ GenV2Monotonic \/ GenV2Default \/ V2Exhausted
  \/ FailsUnmarked

Spec == Init /\ [][Next]_vars

-----------------------------------------------------------------------------
V2Record == [time : 0 .. VisMax, owner : Owners, seq : 0 .. VisibleSeq(CsMax),
             node : Nodes \cup {RandomNode}, given : ClockSeqs, full : BOOLEAN]

(* Every variable has its type; the marks stay inside 60 and 28 bits.      *)
TypeOK ==
  /\ greg_last \in 0 .. TickMax
  /\ v2_last \in 0 .. VisMax
  /\ outcome \in {"none", "ok", "clock", "rand", "gregExhausted", "v2Exhausted"}
  /\ gregLog \in Seq(0 .. TickMax)
  /\ v2Log \in Seq(V2Record)
  /\ clockTop \in Nat /\ gregTies \in Nat /\ v2Ties \in Nat

(* Live v1 and v6 UUIDs of a process have strictly increasing timestamps,  *)
(* both versions together, so no two are equal even with one fixed node    *)
(* and clock sequence and a clock that stalls or steps back.               *)
GregStrictlyIncreasing ==
  \A i, j \in 1 .. Len(gregLog) : i < j => gregLog[i] < gregLog[j]

(* v2 UUIDs with node and clock sequence supplied have strictly increasing *)
(* visible timestamps, so no two are equal although time_low and           *)
(* clock_seq_low are overwritten.                                          *)
V2SuppliedIncreasing ==
  \A i, j \in 1 .. Len(v2Log) :
    i < j /\ v2Log[i].full /\ v2Log[j].full => v2Log[i].time < v2Log[j].time

(* A mark is ahead of a reading by at most the given number of units.      *)
AheadBy(mark, now, units) == mark <= now + units

(* A mark is ahead of the clock by one unit per stalled call and no more,  *)
(* calls whose draw failed included.                                       *)
MarksWithinTies ==
  /\ AheadBy(greg_last, clockTop, gregTies)
  /\ AheadBy(v2_last, Visible(clockTop), v2Ties)

(* Exhaustion is final: once a call has thrown it, no later reading lays   *)
(* out another v1 or v6 (or supplied v2) in this process.                  *)
ExhaustionIsFinal ==
  [][/\ greg_last = TickMax => UNCHANGED <<greg_last, gregLog>>
     /\ v2_last = VisMax /\ v2Log' # v2Log => ~v2Log'[Len(v2Log')].full]_vars

(* What README.md and the comments at fu_gen_v2() and uuid2() say: a       *)
(* defaulted clock sequence is fresh per call, so such callers never       *)
(* repeat.  Asked only of calls whose draws did differ, and not of a drawn *)
(* node, which does carry 47 random bits.                                  *)
DefaultedNeverRepeats ==
  \A i, j \in 1 .. Len(v2Log) :
    /\ i < j /\ ~v2Log[i].full /\ ~v2Log[j].full
    /\ v2Log[i].node # RandomNode
    /\ v2Log[i].given # v2Log[j].given
    => ~SameUuid(v2Log[i], v2Log[j])

(* The v1/v6 clock implements the strictly increasing source.              *)
Earlier(s, t) == s < t
Source == INSTANCE MonotonicSource
            WITH Stamps <- 1 .. TickMax, Precedes <- Earlier, issued <- gregLog
ImplementsSource == Source!Spec
=============================================================================
