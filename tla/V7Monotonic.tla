---------------------------- MODULE V7Monotonic ----------------------------
(***************************************************************************)
(* The live UUIDv7 generator of one process (one thread under ZTS): the    *)
(* module globals v7_key, v7_randb, v7_initialized, the single call        *)
(* fu_gen_v7() and the batch fu_gen_v7_batch_n(), whose loop is a step per *)
(* UUID because each draw may fail.  CLOCK_REALTIME is not monotonic: every*)
(* call may read any value.  Either OS service may fail at any call.       *)
(***************************************************************************)
EXTENDS V7Counter, Sequences, SequencesExt

CONSTANTS
  MaxBatch,   (* largest batch; FU_MAX_BATCH_COUNT in the code              *)
  MaxIssued   (* bound of the model: stamps laid out in a behaviour         *)

ASSUME V7BatchAssumption == MaxBatch \in Nat \ {0} /\ MaxIssued \in Nat

(* A reading that fits 64 bits of nanoseconds (fu_unix_nanos() refuses any *)
(* other) has a time key below 2^57, well inside the 60 bits.              *)
ASSUME V7ClockAssumption == \A ns \in 0 .. MaxNs : TimeKey(ns) \in 0 .. KeyMax

VARIABLES
  v7_key, v7_randb, v7_initialized,   \* FAST_UUID_G
  batch,     \* a batch in progress: its clock key, its locals, UUIDs left
  outcome,   \* how the last call ended
  issued,    \* history: every stamp laid out, in order
  clockTop,  \* history: the largest time key the clock gave
  ties       \* history: increments taken since v7_key was last the clock's

globals == <<v7_key, v7_randb, v7_initialized>>
vars == <<globals, batch, outcome, issued, clockTop, ties>>

Mark == [key |-> v7_key, randb |-> v7_randb]
NoBatch ==
  [running |-> FALSE, tick |-> 0, at |-> [key |-> 0, randb |-> 0], left |-> 0]

Init ==
  /\ v7_key = 0 /\ v7_randb = 0 /\ v7_initialized = FALSE
  /\ batch = NoBatch
  /\ outcome = "none"
  /\ issued = << >>
  /\ clockTop = 0
  /\ ties = 0

Store(s) == v7_key' = s.key /\ v7_randb' = s.randb /\ v7_initialized' = TRUE

ReadClock(key) == clockTop' = IF key > clockTop THEN key ELSE clockTop

CountTie(fresh) == ties' = IF fresh THEN 0 ELSE ties + 1

-----------------------------------------------------------------------------
(* fu_gen_v7(): the globals are written only once the stamp is complete.   *)
GenV7 ==
  /\ ~batch.running
  /\ Len(issued) < MaxIssued
  /\ \E ns \in 0 .. MaxNs :
       \E s \in Starts(v7_initialized, Mark, TimeKey(ns)) :
         /\ Store(s)
         /\ issued' = Append(issued, s)
         /\ ReadClock(TimeKey(ns))
         /\ CountTie(Fresh(v7_initialized, Mark, TimeKey(ns)))
  /\ outcome' = "ok"
  /\ UNCHANGED batch

(* fu_gen_v7_batch_n() up to its first UUID: one clock read, fu_v7_start().*)
BatchStart ==
  /\ ~batch.running
  /\ Len(issued) < MaxIssued
  /\ \E n \in 1 .. MaxBatch, ns \in 0 .. MaxNs :
       \E s \in Starts(v7_initialized, Mark, TimeKey(ns)) :
         /\ batch' = [running |-> TRUE, tick |-> TimeKey(ns), at |-> s, left |-> n - 1]
         /\ issued' = Append(issued, s)
         /\ ReadClock(TimeKey(ns))
         /\ CountTie(Fresh(v7_initialized, Mark, TimeKey(ns)))
  /\ UNCHANGED <<globals, outcome>>

(* One more turn of the loop: increment, then lay out.                     *)
BatchNext ==
  /\ batch.running
  /\ batch.left > 0
  /\ Len(issued) < MaxIssued
  /\ \E s \in Increments(batch.at) :
       /\ batch' = [batch EXCEPT !.at = s, !.left = @ - 1]
       /\ issued' = Append(issued, s)
  /\ CountTie(FALSE)
  /\ UNCHANGED <<globals, outcome, clockTop>>

(* Mutant: a batch that breaks off returns before the globals are written. *)
BatchEndStoresOk(how) ==
  /\ IF how = "ok" THEN Store(batch.at) ELSE UNCHANGED globals
  /\ batch' = NoBatch
  /\ outcome' = how
  /\ UNCHANGED <<issued, clockTop, ties>>

(* After the loop, completed or broken off, the last good pair is stored.  *)
BatchEnd(how) ==
  /\ Store(batch.at)
  /\ batch' = NoBatch
  /\ outcome' = how
  /\ UNCHANGED <<issued, clockTop, ties>>

BatchDone == batch.running /\ batch.left = 0 /\ BatchEnd("ok")

BatchBreaks ==
  /\ batch.running
  /\ batch.left > 0
  /\ \/ BatchEnd("rand")
     \/ MayExhaust(batch.at) /\ BatchEnd("exhausted")

(* fu_gen_v7(), or a batch before its first UUID, fails: the clock, the    *)
(* draw, or a carry out of the last time key.  Nothing was written.        *)
StartFails ==
  /\ ~batch.running
  /\ \/ outcome' = "clock" /\ UNCHANGED clockTop
     \/ \E ns \in 0 .. MaxNs :
          /\ \/ outcome' = "rand"
             \/ /\ ~Fresh(v7_initialized, Mark, TimeKey(ns))
                /\ MayExhaust(Mark)
                /\ outcome' = "exhausted"
          /\ ReadClock(TimeKey(ns))
  /\ UNCHANGED <<globals, batch, issued, ties>>

Next == GenV7 \/ BatchStart \/ BatchNext \/ BatchDone \/ BatchBreaks \/ StartFails

Spec == Init /\ [][Next]_vars

-----------------------------------------------------------------------------
(* Every variable has its type; the clock's largest key fits the key.      *)
TypeOK ==
  /\ v7_key \in 0 .. KeyMax
  /\ v7_randb \in RandB
  /\ v7_initialized \in BOOLEAN
  /\ batch \in [running : BOOLEAN, tick : 0 .. KeyMax, at : Stamp, left : 0 .. MaxBatch]
  /\ outcome \in {"none", "ok", "clock", "rand", "exhausted"}
  /\ issued \in Seq(Stamp)
  /\ clockTop \in Nat
  /\ ties \in Nat

(* The stamps of one process are strictly increasing in layout order,      *)
(* across single and batch calls, stalls and backward clock steps, carries *)
(* and failed calls: no live v7 repeats or sorts below an earlier one.     *)
StrictlyIncreasing ==
  \A i, j \in 1 .. Len(issued) : i < j => Before(issued[i], issued[j])

(* Outside a batch the globals hold exactly the last stamp laid out, so a  *)
(* batch that broke off halfway cannot have its stamps handed out again.   *)
MarkIsLast ==
  issued # << >> /\ ~batch.running => v7_initialized /\ Mark = Last(issued)

(* The stamp in use: the batch's locals while one runs, else the globals.  *)
Current == IF batch.running THEN batch.at ELSE Mark

(* Stamp s is at most k random steps past the end of clock key c.          *)
WithinSteps(s, c, k) ==
  (s.key - c) * (RandMax + 1) + s.randb <= RandMax + k * MaxStep

(* The embedded time leaves the clock only through carries: with k ties    *)
(* since the clock's own key, it has travelled at most k largest steps.    *)
DriftBound == WithinSteps(Current, clockTop, ties)

(* The "exhausted" exception is raised only when the field really is: the  *)
(* mark is in the last time key, less than one largest step from its end.  *)
ExhaustedHonest ==
  outcome = "exhausted" /\ ~batch.running =>
    v7_key = KeyMax /\ v7_randb + MaxStep > RandMax

(* Nor is it raised early: the clock's latest key had too few stamps left  *)
(* above it for one more tie than were taken, each of them a largest step. *)
LateExhaustion ==
  outcome = "exhausted" /\ ~batch.running =>
    (KeyMax - clockTop) * (RandMax + 1) < (ties + 1) * MaxStep

(* A batch is what its comment calls it, n single calls within one tick:   *)
(* from the pair the loop has reached, the next turn can produce exactly   *)
(* what fu_gen_v7() could, called in the batch's tick with that mark.      *)
BatchLikeSingles ==
  batch.running =>
    Increments(batch.at) = Starts(TRUE, batch.at, batch.tick)

(* The generator implements the strictly increasing source.                *)
Source == INSTANCE MonotonicSource
            WITH Stamps <- Stamp, Precedes <- Before
ImplementsSource == Source!Spec
=============================================================================
