------------------------------ MODULE V7Proofs ------------------------------
(***************************************************************************)
(* Theorems about V7Monotonic, for every width of the fields, every batch  *)
(* size and every clock.                                                   *)
(***************************************************************************)
EXTENDS V7Monotonic, SequenceTheorems, TLAPS

(* The masked addition of fu_v7_increment(): a sum below two turns of the  *)
(* field loses exactly one turn.                                           *)
LEMMA MaskIsSubtraction ==
  ASSUME NEW W \in Nat \ {0}, NEW x \in Nat, x >= W, x < 2 * W
  PROVE  x % W = x - W
<1>1. x - W \in 0 .. (W - 1)
  OBVIOUS
<1>2. x = W * 1 + (x - W)
  OBVIOUS
<1> QED
  BY <1>1, <1>2, SMT

(* fu_v7_increment(): a step that does not exhaust the field yields a      *)
(* stamp, later than the one it started from, in the same or the next key. *)
LEMMA AdvanceMoves ==
  ASSUME NEW s \in Stamp, NEW step \in Steps, ~Exhausted(s, step)
  PROVE  /\ Advance(s, step) \in Stamp
         /\ Before(s, Advance(s, step))
         /\ Advance(s, step).key >= s.key
<1> USE V7Assumption DEF Stamp, Steps, RandB
<1>1. CASE s.randb + step > RandMax
  <2>1. (s.randb + step) % (RandMax + 1) \in RandB
    BY <1>1, SMT
  <2>2. s.key + 1 \in 0 .. KeyMax
    BY <1>1 DEF Exhausted
  <2> QED
    BY <1>1, <2>1, <2>2 DEF Advance, Before
<1>2. CASE ~(s.randb + step > RandMax)
  BY <1>2 DEF Advance, Before
<1> QED
  BY <1>1, <1>2

(* One more key is one more turn of rand_b.                                *)
LEMMA NextTurn == \A a, W \in Int : (a + 1) * W = a * W + W
OBVIOUS

(* On the line key * (RandMax + 1) + rand_b a step moves by itself: carry  *)
(* and mask lose nothing and add nothing.                                  *)
LEMMA AdvanceDistance ==
  ASSUME NEW s \in Stamp, NEW step \in Steps, NEW c \in Nat
  PROVE  (Advance(s, step).key - c) * (RandMax + 1) + Advance(s, step).randb
           = (s.key - c) * (RandMax + 1) + s.randb + step
<1> USE V7Assumption DEF Stamp, Steps, RandB
<1>1. CASE s.randb + step > RandMax
  <2> DEFINE W == RandMax + 1
  <2>1. (s.randb + step) % W = s.randb + step - W
    <3>1. W \in Nat \ {0} /\ s.randb + step \in Nat
      OBVIOUS
    <3>2. s.randb + step >= W /\ s.randb + step < 2 * W
      BY <1>1
    <3> QED
      BY <3>1, <3>2, MaskIsSubtraction
  <2>2. ((s.key + 1) - c) * W = (s.key - c) * W + W
    <3>1. s.key - c \in Int /\ W \in Int /\ (s.key + 1) - c = (s.key - c) + 1
      OBVIOUS
    <3> HIDE DEF W
    <3> QED
      BY ONLY <3>1, NextTurn
  <2>3. /\ Advance(s, step).key = s.key + 1
        /\ Advance(s, step).randb = s.randb + step - W
    BY <1>1, <2>1 DEF Advance
  <2>4. (s.key - c) * W \in Int /\ W \in Int
    OBVIOUS
  <2> QED
    BY <2>2, <2>3, <2>4
<1>2. CASE ~(s.randb + step > RandMax)
  BY <1>2 DEF Advance
<1> QED
  BY <1>1, <1>2

(* fu_v7_start(): whatever it hands back is a stamp, not before the        *)
(* reading and, once anything was issued, after the mark.                  *)
LEMMA StartMoves ==
  ASSUME NEW initialized \in BOOLEAN, NEW mark \in Stamp, NEW key \in 0 .. KeyMax,
         NEW s \in Starts(initialized, mark, key)
  PROVE  /\ s \in Stamp
         /\ initialized => Before(mark, s)
         /\ key <= s.key
<1>1. CASE Fresh(initialized, mark, key)
  BY <1>1, V7Assumption DEF Starts, Fresh, Stamp, RandB, Before
<1>2. CASE ~Fresh(initialized, mark, key)
  <2>1. PICK step \in Steps : ~Exhausted(mark, step) /\ s = Advance(mark, step)
    BY <1>2 DEF Starts, Increments
  <2>2. key <= mark.key
    BY <1>2, V7Assumption DEF Fresh, Stamp
  <2> QED
    BY <2>1, <2>2, AdvanceMoves, V7Assumption DEF Stamp
<1> QED
  BY <1>1, <1>2

(* A key no later than c is within no step of it.                          *)
LEMMA ClockKeyWithinSteps ==
  ASSUME NEW s \in Stamp, NEW c \in Nat, s.key <= c
  PROVE  WithinSteps(s, c, 0)
<1> DEFINE a == s.key - c
           W == RandMax + 1
<1>1. a \in Int /\ a <= 0 /\ W \in Nat /\ s.randb \in 0 .. RandMax /\ RandMax \in Nat
  BY V7Assumption DEF Stamp, RandB
<1>2. \A x \in Int, y \in Nat : x <= 0 => x * y <= 0 /\ x * y \in Int
  OBVIOUS
<1>3. a * W <= 0 /\ a * W \in Int
  <2> HIDE DEF a, W
  <2> QED
    BY <1>1, <1>2
<1>4. 0 * MaxStep = 0
  BY V7Assumption
<1> QED
  BY <1>1, <1>3, <1>4 DEF WithinSteps

(* Another tie is another step, and a later clock is no farther away.      *)
LEMMA AdvanceWithinSteps ==
  ASSUME NEW s \in Stamp, NEW step \in Steps, ~Exhausted(s, step),
         NEW c \in Nat, NEW d \in Nat, c <= d, NEW k \in Nat,
         WithinSteps(s, c, k)
  PROVE  WithinSteps(Advance(s, step), d, k + 1)
<1> DEFINE t == Advance(s, step)
           W == RandMax + 1
           a == t.key - c
           b == t.key - d
<1>1. t \in Stamp /\ W \in Nat /\ RandMax \in Nat /\ MaxStep \in Nat /\ step <= MaxStep
      /\ step \in Nat
  BY AdvanceMoves, V7Assumption DEF Steps
<1>2. a * W + t.randb = (s.key - c) * W + s.randb + step
  BY AdvanceDistance
<1>3. (s.key - c) * W + s.randb <= RandMax + k * MaxStep
  BY DEF WithinSteps
<1>4. a \in Int /\ b \in Int /\ b <= a /\ t.randb \in Nat
      /\ s.key - c \in Int /\ s.randb \in Nat
  <2> HIDE DEF t
  <2> QED
    BY <1>1, V7Assumption DEF Stamp, RandB
<1>5. \A x, y \in Int, z \in Nat : x <= y => x * z <= y * z
  OBVIOUS
<1>6. b * W <= a * W
  <2> HIDE DEF a, b, W
  <2> QED
    BY <1>1, <1>4, <1>5
<1>7. (k + 1) * MaxStep = k * MaxStep + MaxStep
  BY <1>1, NextTurn
<1>8. /\ a * W \in Int /\ b * W \in Int /\ (s.key - c) * W \in Int
      /\ k * MaxStep \in Int
  BY <1>1, <1>4
<1>9. b * W + t.randb <= RandMax + (k + 1) * MaxStep
  <2> HIDE DEF t, W, a, b
  <2> QED
    BY <1>1, <1>2, <1>3, <1>4, <1>6, <1>7, <1>8
<1> QED
  BY <1>9 DEF WithinSteps

(* Whatever fu_v7_start() hands back keeps the drift within the ties.      *)
LEMMA StartWithinSteps ==
  ASSUME NEW initialized \in BOOLEAN, NEW mark \in Stamp, NEW key \in 0 .. KeyMax,
         NEW s \in Starts(initialized, mark, key),
         NEW c \in Nat, NEW k \in Nat,
         initialized => WithinSteps(mark, c, k)
  PROVE  WithinSteps(s, IF key > c THEN key ELSE c,
                     IF Fresh(initialized, mark, key) THEN 0 ELSE k + 1)
<1> DEFINE d == IF key > c THEN key ELSE c
<1>1. d \in Nat /\ c <= d /\ key <= d
  BY V7Assumption
<1>2. CASE Fresh(initialized, mark, key)
  <2>1. s \in Stamp /\ s.key = key
    BY <1>2, V7Assumption DEF Starts, Stamp, RandB
  <2> QED
    BY <1>1, <1>2, <2>1, ClockKeyWithinSteps
<1>3. CASE ~Fresh(initialized, mark, key)
  <2>1. PICK step \in Steps : ~Exhausted(mark, step) /\ s = Advance(mark, step)
    BY <1>3 DEF Starts, Increments
  <2>2. WithinSteps(mark, c, k)
    BY <1>3 DEF Fresh
  <2>3. WithinSteps(s, d, k + 1)
    BY <1>1, <2>1, <2>2, AdvanceWithinSteps
  <2> QED
    BY <1>3, <2>3
<1> QED
  BY <1>2, <1>3

(* The order of layouts is transitive, as bytes are.                       *)
LEMMA BeforeTransitive ==
  ASSUME NEW r \in Stamp, NEW s \in Stamp, NEW t \in Stamp,
         Before(r, s), Before(s, t)
  PROVE  Before(r, t)
BY V7Assumption DEF Before, Stamp, RandB

(* A sequence of increasing stamps stays one when a later stamp is added.  *)
LEMMA AppendIncreasing ==
  ASSUME NEW log \in Seq(Stamp), NEW s \in Stamp,
         \A i, j \in 1 .. Len(log) : i < j => Before(log[i], log[j]),
         log # << >> => Before(Last(log), s)
  PROVE  /\ Append(log, s) \in Seq(Stamp)
         /\ \A i \in 1 .. Len(log) : Before(log[i], s)
         /\ \A i, j \in 1 .. Len(Append(log, s)) :
              i < j => Before(Append(log, s)[i], Append(log, s)[j])
         /\ Last(Append(log, s)) = s
         /\ Append(log, s) # << >>
<1>1. ASSUME NEW i \in 1 .. Len(log)
      PROVE  Before(log[i], s)
  <2>1. log # << >> /\ Last(log) = log[Len(log)] /\ log[i] \in Stamp /\ Last(log) \in Stamp
    BY DEF Last
  <2>2. CASE i = Len(log)
    BY <2>1, <2>2
  <2>3. CASE i < Len(log)
    <3>1. Before(log[i], Last(log))
      BY <2>1, <2>3
    <3> QED
      BY <2>1, <3>1, BeforeTransitive
  <2> QED
    BY <2>2, <2>3
<1>2. Append(log, s) \in Seq(Stamp) /\ Append(log, s) # << >> /\ Last(Append(log, s)) = s
  <2>1. /\ Append(log, s) \in Seq(Stamp)
        /\ Append(log, s) # << >>
        /\ Len(Append(log, s)) = Len(log) + 1
        /\ Append(log, s)[Len(log) + 1] = s
    BY AppendProperties
  <2> QED
    BY <2>1 DEF Last
<1>3. ASSUME NEW i \in 1 .. Len(Append(log, s)), NEW j \in 1 .. Len(Append(log, s)), i < j
      PROVE  Before(Append(log, s)[i], Append(log, s)[j])
  <2>1. i \in 1 .. Len(log) /\ Append(log, s)[i] = log[i]
    BY <1>3
  <2>2. CASE j = Len(log) + 1
    BY <1>1, <2>1, <2>2
  <2>3. CASE j \in 1 .. Len(log)
    BY <1>3, <2>1, <2>3
  <2> QED
    BY <2>2, <2>3
<1> QED
  BY <1>1, <1>2, <1>3

-----------------------------------------------------------------------------
(* The strengthening.  What was laid out ends in the stamp in use, so a    *)
(* later stamp is later than all; before the first stamp nothing is in use;*)
(* a batch never falls behind the reading it started from.                 *)
IInv ==
  /\ TypeOK
  /\ StrictlyIncreasing
  /\ issued # << >> => Current = Last(issued) /\ (batch.running \/ v7_initialized)
  /\ issued = << >> => ~batch.running /\ ~v7_initialized
  /\ batch.running => batch.tick <= batch.at.key
  /\ DriftBound
  /\ ExhaustedHonest

(* The three facts of every action that lays out a stamp s: it follows the *)
(* log, the log stays increasing, and its last stamp is s.                 *)
LEMMA IssueKeepsOrder ==
  ASSUME IInv, NEW s \in Stamp,
         issued # << >> => Before(Current, s),
         issued' = Append(issued, s)
  PROVE  /\ issued' \in Seq(Stamp)
         /\ issued' # << >>
         /\ Last(issued') = s
         /\ StrictlyIncreasing'
         /\ \A i \in 1 .. Len(issued) : Before(issued[i], s)
BY AppendIncreasing DEF IInv, TypeOK, StrictlyIncreasing

(* A step that changes no state but its outcome, and possibly reads the    *)
(* clock, keeps the drift.                                                 *)
LEMMA ClockReadKeepsDrift ==
  ASSUME IInv, NEW d \in Nat, clockTop <= d
  PROVE  WithinSteps(Current, d, ties)
<1> DEFINE s == Current
           W == RandMax + 1
           a == s.key - clockTop
           b == s.key - d
<1>1. a \in Int /\ b \in Int /\ b <= a /\ W \in Nat /\ s.randb \in Nat /\ RandMax \in Nat
      /\ ties \in Nat /\ MaxStep \in Nat
  BY V7Assumption DEF IInv, TypeOK, Current, Mark, Stamp, RandB
<1>2. a * W + s.randb <= RandMax + ties * MaxStep
  BY DEF IInv, DriftBound, WithinSteps
<1>3. \A x, y \in Int, z \in Nat : x <= y => x * z <= y * z
  OBVIOUS
<1>4. b * W <= a * W
  <2> HIDE DEF a, b, W
  <2> QED
    BY <1>1, <1>3
<1>5. a * W \in Int /\ b * W \in Int /\ ties * MaxStep \in Int
  BY <1>1
<1>6. b * W + s.randb <= RandMax + ties * MaxStep
  <2> HIDE DEF a, b, W, s
  <2> QED
    BY <1>1, <1>2, <1>4, <1>5
<1> QED
  BY <1>6 DEF WithinSteps

(* Every action keeps the strengthening.                                   *)
LEMMA Induction == IInv /\ [Next]_vars => IInv'
<1> SUFFICES ASSUME IInv, [Next]_vars
             PROVE  IInv'
  OBVIOUS
<1> USE DEF globals
<1>0. Mark \in Stamp /\ Current \in Stamp /\ TypeOK
  BY V7Assumption DEF IInv, TypeOK, Mark, Current, Stamp
<1>0a. \A ns \in 0 .. MaxNs : TimeKey(ns) \in 0 .. KeyMax
  BY V7ClockAssumption
<1>1. CASE GenV7
  <2>1. PICK ns \in 0 .. MaxNs :
          \E s \in Starts(v7_initialized, Mark, TimeKey(ns)) :
            /\ Store(s)
            /\ issued' = Append(issued, s)
            /\ ReadClock(TimeKey(ns))
            /\ CountTie(Fresh(v7_initialized, Mark, TimeKey(ns)))
    BY <1>1 DEF GenV7
  <2>2. PICK s \in Starts(v7_initialized, Mark, TimeKey(ns)) :
          /\ Store(s)
          /\ issued' = Append(issued, s)
          /\ ReadClock(TimeKey(ns))
          /\ CountTie(Fresh(v7_initialized, Mark, TimeKey(ns)))
    BY <2>1
  <2>3. ~batch.running /\ batch' = batch /\ outcome' = "ok"
    BY <1>1 DEF GenV7
  <2>4. s \in Stamp /\ (v7_initialized => Before(Mark, s))
    BY <1>0, <1>0a, <2>2, StartMoves DEF TypeOK
  <2>5. issued # << >> => Before(Current, s)
    BY <2>3, <2>4 DEF IInv, Current
  <2>6. /\ issued' \in Seq(Stamp) /\ issued' # << >> /\ Last(issued') = s
        /\ StrictlyIncreasing'
    BY <2>2, <2>4, <2>5, IssueKeepsOrder
  <2>7. Current' = s /\ v7_initialized' = TRUE
    BY <2>2, <2>3, <2>4, V7Assumption DEF Store, Current, Mark, Stamp
  <2>8. TypeOK'
    BY <1>0, <1>0a, <2>2, <2>3, <2>4, <2>6, V7Assumption
    DEF TypeOK, Store, ReadClock, CountTie, Stamp
  <2>9. DriftBound'
    <3>1. v7_initialized => WithinSteps(Mark, clockTop, ties)
      BY <2>3 DEF IInv, DriftBound, Current
    <3>2. WithinSteps(s, clockTop', ties')
      BY <1>0, <1>0a, <2>2, <3>1, StartWithinSteps DEF TypeOK, ReadClock, CountTie
    <3> QED
      BY <2>7, <3>2 DEF DriftBound
  <2> QED
    BY <2>3, <2>6, <2>7, <2>8, <2>9 DEF IInv, ExhaustedHonest
<1>2. CASE BatchStart
  <2>1. PICK n \in 1 .. MaxBatch, ns \in 0 .. MaxNs :
          \E s \in Starts(v7_initialized, Mark, TimeKey(ns)) :
            /\ batch' = [running |-> TRUE, tick |-> TimeKey(ns), at |-> s, left |-> n - 1]
            /\ issued' = Append(issued, s)
            /\ ReadClock(TimeKey(ns))
            /\ CountTie(Fresh(v7_initialized, Mark, TimeKey(ns)))
    BY <1>2 DEF BatchStart
  <2>2. PICK s \in Starts(v7_initialized, Mark, TimeKey(ns)) :
          /\ batch' = [running |-> TRUE, tick |-> TimeKey(ns), at |-> s, left |-> n - 1]
          /\ issued' = Append(issued, s)
          /\ ReadClock(TimeKey(ns))
          /\ CountTie(Fresh(v7_initialized, Mark, TimeKey(ns)))
    BY <2>1
  <2>3. ~batch.running /\ UNCHANGED <<globals, outcome>>
    BY <1>2 DEF BatchStart
  <2>4. s \in Stamp /\ (v7_initialized => Before(Mark, s)) /\ TimeKey(ns) <= s.key
    BY <1>0, <1>0a, <2>2, StartMoves DEF TypeOK
  <2>5. issued # << >> => Before(Current, s)
    BY <2>3, <2>4 DEF IInv, Current
  <2>6. /\ issued' \in Seq(Stamp) /\ issued' # << >> /\ Last(issued') = s
        /\ StrictlyIncreasing'
    BY <2>2, <2>4, <2>5, IssueKeepsOrder
  <2>7. Current' = s /\ batch'.running /\ batch'.tick <= batch'.at.key
    BY <2>2, <2>4 DEF Current
  <2>8. TypeOK'
    BY <1>0, <1>0a, <2>2, <2>3, <2>4, <2>6, V7Assumption, V7BatchAssumption
    DEF TypeOK, ReadClock, CountTie
  <2>9. DriftBound'
    <3>1. v7_initialized => WithinSteps(Mark, clockTop, ties)
      BY <2>3 DEF IInv, DriftBound, Current
    <3>2. WithinSteps(s, clockTop', ties')
      BY <1>0, <1>0a, <2>2, <3>1, StartWithinSteps DEF TypeOK, ReadClock, CountTie
    <3> QED
      BY <2>7, <3>2 DEF DriftBound
  <2> QED
    BY <2>6, <2>7, <2>8, <2>9 DEF IInv, ExhaustedHonest
<1>3. CASE BatchNext
  <2>1. PICK s \in Increments(batch.at) :
          /\ batch' = [batch EXCEPT !.at = s, !.left = @ - 1]
          /\ issued' = Append(issued, s)
    BY <1>3 DEF BatchNext
  <2>2. /\ batch.running /\ batch.left > 0 /\ CountTie(FALSE)
        /\ UNCHANGED <<globals, outcome, clockTop>>
    BY <1>3 DEF BatchNext
  <2>3. PICK step \in Steps : ~Exhausted(batch.at, step) /\ s = Advance(batch.at, step)
    BY <2>1 DEF Increments
  <2>4. batch.at \in Stamp /\ Current = batch.at
    BY <1>0, <2>2 DEF TypeOK, Current
  <2>5. s \in Stamp /\ Before(batch.at, s) /\ s.key >= batch.at.key
    BY <2>3, <2>4, AdvanceMoves
  <2>6. /\ issued' \in Seq(Stamp) /\ issued' # << >> /\ Last(issued') = s
        /\ StrictlyIncreasing'
    BY <2>1, <2>4, <2>5, IssueKeepsOrder
  <2>7. /\ batch'.running /\ batch'.at = s /\ Current' = s
        /\ batch'.tick = batch.tick
    BY <1>0, <2>1, <2>2 DEF TypeOK, Current
  <2>8. batch'.tick <= batch'.at.key
    BY <1>0, <2>2, <2>4, <2>5, <2>7, V7Assumption DEF IInv, TypeOK, Stamp
  <2>9. TypeOK'
    <3>1. batch' \in [running : BOOLEAN, tick : 0 .. KeyMax, at : Stamp,
                      left : 0 .. MaxBatch]
      <4>1. batch.left - 1 \in 0 .. MaxBatch
        BY <1>0, <2>2, V7BatchAssumption DEF TypeOK
      <4> QED
        BY <1>0, <2>1, <2>5, <4>1 DEF TypeOK
    <3> QED
      BY <1>0, <2>2, <2>6, <3>1 DEF TypeOK, CountTie
  <2>10. DriftBound'
    <3>1. WithinSteps(s, clockTop, ties + 1)
      BY <1>0, <2>3, <2>4, AdvanceWithinSteps DEF IInv, DriftBound, TypeOK
    <3> QED
      BY <2>2, <2>7, <3>1 DEF DriftBound, CountTie
  <2> QED
    BY <2>6, <2>7, <2>8, <2>9, <2>10 DEF IInv, ExhaustedHonest
<1>4. ASSUME NEW how \in {"ok", "rand", "exhausted"}, batch.running, BatchEnd(how),
             how = "exhausted" => MayExhaust(batch.at)
      PROVE  IInv'
  <2>1. /\ v7_key' = batch.at.key /\ v7_randb' = batch.at.randb
        /\ v7_initialized' = TRUE /\ batch' = NoBatch /\ outcome' = how
        /\ UNCHANGED <<issued, clockTop, ties>>
    BY <1>4 DEF BatchEnd, Store
  <2>2. batch.at \in Stamp
    BY <1>0 DEF TypeOK
  <2>3. Current' = batch.at /\ Current = batch.at
    BY <1>4, <2>1, <2>2 DEF Current, Mark, NoBatch, Stamp
  <2>4. TypeOK'
    BY <1>0, <2>1, <2>2, V7Assumption, V7BatchAssumption
    DEF TypeOK, NoBatch, Stamp, RandB
  <2>5. StrictlyIncreasing' /\ DriftBound'
    BY <2>1, <2>3 DEF IInv, StrictlyIncreasing, DriftBound
  <2>6. ExhaustedHonest'
    <3> SUFFICES ASSUME how = "exhausted"
                 PROVE  v7_key' = KeyMax /\ v7_randb' + MaxStep > RandMax
      BY <2>1 DEF ExhaustedHonest
    <3>1. PICK step \in Steps : batch.at.randb + step > RandMax /\ batch.at.key = KeyMax
      BY <1>4 DEF MayExhaust, Exhausted
    <3> QED
      BY <2>1, <2>2, <3>1, V7Assumption DEF Steps, Stamp, RandB
  <2>7. issued' # << >> => Current' = Last(issued') /\ v7_initialized'
    BY <1>4, <2>1, <2>3 DEF IInv
  <2>8. issued' # << >>
    BY <1>4, <2>1 DEF IInv
  <2> QED
    BY <2>1, <2>4, <2>5, <2>6, <2>7, <2>8 DEF IInv, NoBatch
<1>5. CASE StartFails
  <2>1. ~batch.running /\ UNCHANGED <<globals, batch, issued, ties>>
    BY <1>5 DEF StartFails
  <2>2. /\ outcome' \in {"clock", "rand", "exhausted"}
        /\ clockTop' \in Nat /\ clockTop <= clockTop'
        /\ outcome' = "exhausted" => MayExhaust(Mark)
    BY <1>0, <1>0a, <1>5, V7Assumption DEF StartFails, ReadClock, TypeOK
  <2>3. Current' = Current
    BY <2>1 DEF Current, Mark
  <2>4. TypeOK'
    BY <1>0, <2>1, <2>2 DEF TypeOK
  <2>5. DriftBound'
    BY <2>1, <2>2, <2>3, ClockReadKeepsDrift DEF DriftBound
  <2>6. ExhaustedHonest'
    <3> SUFFICES ASSUME outcome' = "exhausted"
                 PROVE  v7_key = KeyMax /\ v7_randb + MaxStep > RandMax
      BY <2>1 DEF ExhaustedHonest
    <3>1. PICK step \in Steps : v7_randb + step > RandMax /\ v7_key = KeyMax
      BY <2>2 DEF MayExhaust, Exhausted, Mark
    <3> QED
      BY <1>0, <3>1, V7Assumption DEF Steps, TypeOK, RandB
  <2> QED
    BY <2>1, <2>3, <2>4, <2>5, <2>6 DEF IInv, StrictlyIncreasing
<1>6. CASE UNCHANGED vars
  BY <1>6 DEF vars, IInv, TypeOK, StrictlyIncreasing, DriftBound, ExhaustedHonest,
              Current, Mark
<1> QED
  BY <1>1, <1>2, <1>3, <1>4, <1>5, <1>6 DEF Next, BatchDone, BatchBreaks

(* The strengthening is an invariant of the generator.                     *)
THEOREM IInvHolds == Spec => []IInv
<1>1. Init => IInv
  <2> SUFFICES ASSUME Init PROVE IInv
    OBVIOUS
  <2> USE DEF Init
  <2>1. TypeOK
    <3>1. NoBatch \in [running : BOOLEAN, tick : 0 .. KeyMax, at : Stamp,
                       left : 0 .. MaxBatch]
      BY V7Assumption, V7BatchAssumption DEF NoBatch, Stamp, RandB
    <3>2. << >> \in Seq(Stamp)
      BY EmptySeq
    <3>3. issued \in Seq(Stamp) /\ batch \in [running : BOOLEAN, tick : 0 .. KeyMax,
                                            at : Stamp, left : 0 .. MaxBatch]
      BY <3>1, <3>2
    <3>4. /\ v7_key \in 0 .. KeyMax /\ v7_randb \in 0 .. RandMax
          /\ clockTop \in Nat /\ ties \in Nat
      BY V7Assumption
    <3>5. v7_initialized \in BOOLEAN
      OBVIOUS
    <3> QED
      BY <3>3, <3>4, <3>5, Zenon DEF TypeOK, RandB
  <2>2. Current = [key |-> 0, randb |-> 0]
    BY DEF Current, Mark, NoBatch
  <2>3. DriftBound
    <3>1. [key |-> 0, randb |-> 0] \in Stamp
      BY V7Assumption DEF Stamp, RandB
    <3>2. WithinSteps([key |-> 0, randb |-> 0], 0, 0)
      BY <3>1, ClockKeyWithinSteps
    <3> QED
      BY <2>2, <3>2 DEF DriftBound
  <2> QED
    BY <2>1, <2>3 DEF IInv, StrictlyIncreasing, ExhaustedHonest, NoBatch
<1> QED
  BY <1>1, Induction, PTL DEF Spec

(* Type correctness: the globals stay inside 60 and 62 bits.               *)
THEOREM TypeCorrect == Spec => []TypeOK
<1>1. IInv => TypeOK
  BY DEF IInv
<1> QED
  BY <1>1, IInvHolds, PTL

(* No live v7 of a process repeats or sorts below an earlier one.          *)
THEOREM Monotonicity == Spec => []StrictlyIncreasing
<1>1. IInv => StrictlyIncreasing
  BY DEF IInv
<1> QED
  BY <1>1, IInvHolds, PTL

(* The globals hold the last stamp laid out, broken-off batches included.  *)
THEOREM MarkCoversLayouts == Spec => []MarkIsLast
<1>1. IInv => MarkIsLast
  BY DEF IInv, MarkIsLast, Current
<1> QED
  BY <1>1, IInvHolds, PTL

(* The embedded time is ahead of the clock by carries only.                *)
THEOREM BoundedDrift == Spec => []DriftBound
<1>1. IInv => DriftBound
  BY DEF IInv
<1> QED
  BY <1>1, IInvHolds, PTL

(* The exhaustion exception means the last key and less than one step left.*)
THEOREM HonestExhaustion == Spec => []ExhaustedHonest
<1>1. IInv => ExhaustedHonest
  BY DEF IInv
<1> QED
  BY <1>1, IInvHolds, PTL

(* It means that the ties since the clock's own key used up what was left. *)
THEOREM ExhaustionIsLate == Spec => []LateExhaustion
<1>1. ASSUME IInv, outcome = "exhausted", ~batch.running
      PROVE  (KeyMax - clockTop) * (RandMax + 1) < (ties + 1) * MaxStep
  <2> DEFINE a == (KeyMax - clockTop) * (RandMax + 1)
             b == ties * MaxStep
  <2>1. /\ MaxStep \in Nat /\ RandMax \in Nat /\ ties \in Nat /\ v7_randb \in Int
        /\ a \in Int /\ b \in Int
    BY <1>1, V7Assumption DEF IInv, TypeOK, RandB
  <2>2. a + v7_randb <= RandMax + b
    BY <1>1 DEF IInv, DriftBound, WithinSteps, Current, Mark, ExhaustedHonest
  <2>3. v7_randb + MaxStep > RandMax
    BY <1>1 DEF IInv, ExhaustedHonest
  <2>4. (ties + 1) * MaxStep = b + MaxStep
    BY <2>1, NextTurn
  <2> QED
    <3> HIDE DEF a, b
    <3>1. a < b + MaxStep
      BY <2>1, <2>2, <2>3
    <3> QED
      BY <2>4, <3>1 DEF a
<1>2. IInv => LateExhaustion
  BY <1>1 DEF LateExhaustion
<1> QED
  BY <1>2, IInvHolds, PTL

(* Inside a batch the next UUID is what a single call would give.          *)
THEOREM BatchIsSingles == Spec => []BatchLikeSingles
<1>1. IInv => BatchLikeSingles
  BY V7Assumption DEF IInv, TypeOK, Stamp, BatchLikeSingles, Starts, Fresh
<1> QED
  BY <1>1, IInvHolds, PTL

(* The generator implements the strictly increasing source.                *)
THEOREM Implements == Spec => ImplementsSource
<1>1. Init => Source!Init
  BY DEF Init, Source!Init
<1>2. IInv /\ [Next]_vars => [Source!Issue]_issued
  <2> SUFFICES ASSUME IInv, [Next]_vars
               PROVE  [Source!Issue]_issued
    OBVIOUS
  <2>0. Mark \in Stamp /\ batch.at \in Stamp /\ v7_initialized \in BOOLEAN
        /\ \A ns \in 0 .. MaxNs : TimeKey(ns) \in 0 .. KeyMax
    BY V7Assumption, V7ClockAssumption DEF IInv, TypeOK, Mark, Stamp
  <2>1. ASSUME NEW s \in Stamp, issued # << >> => Before(Current, s),
               issued' = Append(issued, s)
        PROVE  Source!Issue
    BY <2>1, IssueKeepsOrder DEF Source!Issue
  <2>2. ASSUME NEW ns \in 0 .. MaxNs,
               NEW s \in Starts(v7_initialized, Mark, TimeKey(ns)),
               ~batch.running, issued' = Append(issued, s)
        PROVE  Source!Issue
    <3>1. s \in Stamp /\ (v7_initialized => Before(Mark, s))
      BY <2>0, StartMoves
    <3>2. issued # << >> => Before(Current, s)
      BY <2>2, <3>1 DEF IInv, Current
    <3> QED
      BY <2>1, <2>2, <3>1, <3>2
  <2>3. CASE GenV7 \/ BatchStart
    BY <2>2, <2>3 DEF GenV7, BatchStart
  <2>4. CASE BatchNext
    <3>1. PICK s \in Increments(batch.at) : issued' = Append(issued, s)
      BY <2>4 DEF BatchNext
    <3>2. PICK step \in Steps : ~Exhausted(batch.at, step) /\ s = Advance(batch.at, step)
      BY <3>1 DEF Increments
    <3>3. s \in Stamp /\ Before(batch.at, s)
      BY <2>0, <3>2, AdvanceMoves
    <3>4. Current = batch.at
      BY <2>4 DEF BatchNext, Current
    <3> QED
      BY <2>1, <3>1, <3>3, <3>4
  <2>5. CASE BatchDone \/ BatchBreaks \/ StartFails \/ UNCHANGED vars
    BY <2>5 DEF BatchDone, BatchBreaks, BatchEnd, StartFails, vars
  <2> QED
    BY <2>3, <2>4, <2>5 DEF Next
<1> QED
  BY <1>1, <1>2, IInvHolds, PTL DEF Spec, ImplementsSource, Source!Spec
=============================================================================
