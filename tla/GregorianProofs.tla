-------------------------- MODULE GregorianProofs --------------------------
(***************************************************************************)
(* Theorems about GregorianClock, for every field width and every clock.   *)
(***************************************************************************)
EXTENDS GregorianClock, SequenceTheorems, TLAPS

(* The visible part keeps the order of timestamps and starts at zero.      *)
LEMMA VisibleMonotone ==
  \A a, b \in Nat : a <= b => Visible(a) <= Visible(b) /\ Visible(a) \in Nat
                              /\ Visible(b) \in Nat
<1> SUFFICES ASSUME NEW a \in Nat, NEW b \in Nat, a <= b
             PROVE  Visible(a) <= Visible(b) /\ Visible(a) \in Nat /\ Visible(b) \in Nat
  OBVIOUS
<1> DEFINE q == Visible(a)
           p == Visible(b)
           L == LowSpan
<1>1. L \in Nat \ {0}
  BY GregAssumption
<1>2. q \in Nat /\ p \in Nat /\ a >= L * q /\ b < L * (p + 1)
  BY <1>1 DEF Visible
<1>3. \A x, y \in Nat, z \in Nat \ {0} : z * x < z * y => x < y
  OBVIOUS
<1>4. L * q < L * (p + 1)
  <2>1. L * q \in Nat /\ L * (p + 1) \in Nat
    BY <1>1, <1>2
  <2> QED
    BY <1>2, <2>1
<1>5. q < p + 1
  <2> HIDE DEF q, p, L
  <2>1. p + 1 \in Nat
    BY <1>2
  <2> QED
    BY <1>1, <1>2, <1>3, <1>4, <2>1
<1> QED
  BY <1>2, <1>5

(* A reading, and its visible part, fit their fields.                      *)
LEMMA ReadingsFit ==
  \A g \in Readings : /\ g \in 1 .. TickMax
                      /\ Visible(g) \in 0 .. VisMax
                      /\ VisMax \in Nat
BY GregAssumption, VisibleMonotone DEF Readings, VisMax

(* The mark's successor is above the mark and inside the field, and is the *)
(* reading or one past the mark.                                           *)
LEMMA NextMarkMoves ==
  ASSUME NEW max \in Nat, NEW mark \in 0 .. max, NEW now \in 0 .. max,
         ~MarkExhausted(mark, now, max)
  PROVE  /\ NextMark(mark, now) \in 1 .. max
         /\ mark < NextMark(mark, now)
BY DEF MarkExhausted, NextMark, Stalled

-----------------------------------------------------------------------------
(* The strengthening: each mark covers everything laid out under it.       *)
GregCovered == \A i \in 1 .. Len(gregLog) : gregLog[i] <= greg_last
V2Covered == \A i \in 1 .. Len(v2Log) : v2Log[i].full => v2Log[i].time <= v2_last

IInv ==
  /\ TypeOK
  /\ GregStrictlyIncreasing /\ GregCovered
  /\ V2SuppliedIncreasing /\ V2Covered
  /\ MarksWithinTies

(* The latest reading never decreases and covers the one just taken; nor   *)
(* does its visible part.                                                  *)
LEMMA ClockTopGrows ==
  ASSUME IInv, NEW g \in Readings, ReadClock(g)
  PROVE  clockTop' \in Nat /\ g <= clockTop' /\ clockTop <= clockTop'
BY ReadingsFit, GregAssumption DEF IInv, TypeOK, ReadClock, Readings

(* The visible part of the latest reading follows the latest reading.      *)
LEMMA VisibleTopGrows ==
  ASSUME IInv, clockTop' \in Nat, clockTop <= clockTop'
  PROVE  /\ Visible(clockTop) <= Visible(clockTop')
         /\ Visible(clockTop) \in Nat /\ Visible(clockTop') \in Nat
         /\ \A g \in Readings : g <= clockTop' => Visible(g) <= Visible(clockTop')
<1>1. clockTop \in Nat /\ \A g \in Readings : g \in Nat
  BY GregAssumption DEF IInv, TypeOK, Readings
<1> QED
  BY <1>1, VisibleMonotone

(* A later clock covers a mark as well, and a mark that moves stays within *)
(* one unit more per tie.                                                  *)
LEMMA LaterClock ==
  \A mark, top, d, ties \in Nat :
    AheadBy(mark, top, ties) /\ top <= d => AheadBy(mark, d, ties)
BY DEF AheadBy

(* Moving a mark keeps it within its stalled calls of the clock.           *)
LEMMA MovedMark ==
  \A mark, now, top, d, ties \in Nat :
    AheadBy(mark, top, ties) /\ top <= d /\ now <= d
      => AheadBy(NextMark(mark, now), d, CountTie(ties, mark, now))
BY DEF AheadBy, NextMark, CountTie, Stalled

(* The drift bound of a step: each half from the old one.                  *)
LEMMA MarksKept ==
  ASSUME IInv, clockTop' \in Nat, clockTop <= clockTop'
  PROVE  /\ AheadBy(greg_last, clockTop', gregTies)
         /\ AheadBy(v2_last, Visible(clockTop'), v2Ties)
<1>1. /\ greg_last \in Nat /\ v2_last \in Nat /\ gregTies \in Nat /\ v2Ties \in Nat
      /\ clockTop \in Nat
      /\ AheadBy(greg_last, clockTop, gregTies)
      /\ AheadBy(v2_last, Visible(clockTop), v2Ties)
  BY GregAssumption, VisibleMonotone DEF IInv, TypeOK, MarksWithinTies, VisMax
<1>2. AheadBy(greg_last, clockTop', gregTies)
  BY <1>1, LaterClock
<1>3. AheadBy(v2_last, Visible(clockTop'), v2Ties)
  BY <1>1, LaterClock, VisibleTopGrows
<1> QED
  BY <1>2, <1>3

(* Moving the v1/v6 mark.                                                  *)
LEMMA GregMarkKeeps ==
  ASSUME IInv, NEW g \in Readings, GregMark(g)
  PROVE  /\ greg_last' \in 1 .. TickMax /\ greg_last < greg_last'
         /\ gregTies' \in Nat /\ clockTop' \in Nat
         /\ UNCHANGED <<v2_last, v2Ties, v2Log>>
         /\ greg_last' = NextMark(greg_last, g)
         /\ MarksWithinTies'
<1> USE DEF GregMark
<1>1. g \in 0 .. TickMax /\ TickMax \in Nat /\ greg_last \in 0 .. TickMax
      /\ gregTies \in Nat /\ v2Ties \in Nat /\ v2_last \in Nat /\ clockTop \in Nat
  BY ReadingsFit, GregAssumption DEF IInv, TypeOK
<1>2. greg_last' \in 1 .. TickMax /\ greg_last < greg_last'
  BY <1>1, NextMarkMoves
<1>3. gregTies' \in Nat
  BY <1>1 DEF CountTie
<1>4. clockTop' \in Nat /\ g <= clockTop' /\ clockTop <= clockTop'
  BY ClockTopGrows
<1>5. AheadBy(greg_last', clockTop', gregTies')
  <2>1. AheadBy(greg_last, clockTop, gregTies)
    BY DEF IInv, MarksWithinTies
  <2> QED
    BY <1>1, <1>4, <2>1, MovedMark
<1>6. AheadBy(v2_last', Visible(clockTop'), v2Ties')
  BY <1>4, MarksKept
<1>7. MarksWithinTies'
  BY <1>5, <1>6 DEF MarksWithinTies, Visible
<1> QED
  BY <1>2, <1>3, <1>4, <1>7

(* Every action keeps the strengthening.                                   *)
LEMMA Induction == IInv /\ [Next]_vars => IInv'
<1> SUFFICES ASSUME IInv, [Next]_vars
             PROVE  IInv'
  OBVIOUS
<1>0. TypeOK /\ TickMax \in Nat /\ VisMax \in Nat
  BY GregAssumption, VisibleMonotone DEF IInv, VisMax
<1>1. CASE GenTimeBased
  <2>1. PICK g \in Readings :
          GregMark(g) /\ gregLog' = Append(gregLog, NextMark(greg_last, g))
    BY <1>1 DEF GenTimeBased
  <2>2. outcome' = "ok"
    BY <1>1 DEF GenTimeBased
  <2>3. /\ greg_last' \in 1 .. TickMax /\ greg_last < greg_last'
        /\ gregTies' \in Nat /\ clockTop' \in Nat
        /\ UNCHANGED <<v2_last, v2Ties, v2Log>>
        /\ gregLog' = Append(gregLog, greg_last')
        /\ MarksWithinTies'
    BY <2>1, GregMarkKeeps
  <2>4. /\ gregLog' \in Seq(0 .. TickMax)
        /\ Len(gregLog') = Len(gregLog) + 1 /\ Len(gregLog) \in Nat
        /\ \A i \in 1 .. Len(gregLog) : gregLog'[i] = gregLog[i]
        /\ gregLog'[Len(gregLog) + 1] = greg_last'
    <3>1. gregLog \in Seq(0 .. TickMax) /\ greg_last' \in 0 .. TickMax
      BY <1>0, <2>3 DEF TypeOK
    <3> QED
      BY <2>3, <3>1, AppendProperties
  <2>5. \A i \in 1 .. Len(gregLog) : gregLog[i] \in 0 .. TickMax /\ gregLog[i] < greg_last'
    <3>1. \A i \in 1 .. Len(gregLog) : gregLog[i] \in 0 .. TickMax
      BY <1>0 DEF TypeOK
    <3> QED
      BY <1>0, <2>3, <3>1 DEF IInv, GregCovered, TypeOK
  <2>6. GregStrictlyIncreasing'
    BY <2>4, <2>5 DEF IInv, GregStrictlyIncreasing
  <2>7. GregCovered'
    BY <2>3, <2>4, <2>5 DEF GregCovered
  <2>8. TypeOK'
    BY <1>0, <2>2, <2>3, <2>4 DEF TypeOK
  <2> QED
    BY <2>3, <2>6, <2>7, <2>8 DEF IInv, V2SuppliedIncreasing, V2Covered
<1>2. CASE GenTimeBasedNoRandom
  <2>1. PICK g \in Readings : GregMark(g)
    BY <1>2 DEF GenTimeBasedNoRandom
  <2>2. outcome' = "rand" /\ gregLog' = gregLog
    BY <1>2 DEF GenTimeBasedNoRandom
  <2>3. /\ greg_last' \in 1 .. TickMax /\ greg_last < greg_last'
        /\ gregTies' \in Nat /\ clockTop' \in Nat
        /\ UNCHANGED <<v2_last, v2Ties, v2Log>>
        /\ MarksWithinTies'
    BY <2>1, GregMarkKeeps
  <2>4. GregCovered'
    <3>1. \A i \in 1 .. Len(gregLog) : gregLog[i] \in 0 .. TickMax
      BY <1>0 DEF TypeOK
    <3> QED
      BY <1>0, <2>2, <2>3, <3>1 DEF IInv, GregCovered, TypeOK
  <2>5. TypeOK'
    BY <1>0, <2>2, <2>3 DEF TypeOK
  <2> QED
    BY <2>2, <2>3, <2>4, <2>5 DEF IInv, GregStrictlyIncreasing, V2SuppliedIncreasing,
                                 V2Covered
<1>3. ASSUME UNCHANGED <<greg_last, v2_last, gregLog, v2Log, gregTies, v2Ties>>,
             \/ UNCHANGED clockTop
             \/ \E g \in Readings : ReadClock(g),
             outcome' \in {"none", "ok", "clock", "rand", "gregExhausted", "v2Exhausted"}
      PROVE  IInv'
  <2>1. clockTop' \in Nat /\ clockTop <= clockTop'
    <3>1. CASE UNCHANGED clockTop
      BY <1>0, <3>1 DEF TypeOK
    <3>2. CASE \E g \in Readings : ReadClock(g)
      BY <3>2, ClockTopGrows
    <3> QED
      BY <1>3, <3>1, <3>2
  <2>2. TypeOK'
    BY <1>0, <1>3, <2>1 DEF TypeOK
  <2>3. MarksWithinTies'
    BY <1>3, <2>1, MarksKept DEF MarksWithinTies, Visible
  <2> QED
    BY <1>3, <2>2, <2>3 DEF IInv, GregStrictlyIncreasing, GregCovered,
                            V2SuppliedIncreasing, V2Covered
<1>4. CASE GenV2Monotonic
  <2>1. PICK g \in Readings, who \in Owners, n \in Nodes, cs \in ClockSeqs :
          /\ ~MarkExhausted(v2_last, Visible(g), VisMax)
          /\ v2_last' = NextMark(v2_last, Visible(g))
          /\ v2Ties' = CountTie(v2Ties, v2_last, Visible(g))
          /\ v2Log' = Append(v2Log, V2Uuid(NextMark(v2_last, Visible(g)), who, cs, n, TRUE))
          /\ ReadClock(g)
    BY <1>4 DEF GenV2Monotonic
  <2>2. outcome' = "ok" /\ UNCHANGED <<greg_last, gregLog, gregTies>>
    BY <1>4 DEF GenV2Monotonic
  <2> DEFINE u == V2Uuid(v2_last', who, cs, n, TRUE)
  <2>3. Visible(g) \in 0 .. VisMax /\ v2_last \in 0 .. VisMax
    BY <1>0, ReadingsFit DEF TypeOK
  <2>4. v2_last' \in 1 .. VisMax /\ v2_last < v2_last' /\ v2Ties' \in Nat
    BY <1>0, <2>1, <2>3, NextMarkMoves DEF CountTie, TypeOK
  <2>5. u \in V2Record /\ u.full = TRUE /\ u.time = v2_last'
    <3>1. VisibleSeq(cs) \in 0 .. VisibleSeq(CsMax)
      BY GregAssumption DEF ClockSeqs, VisibleSeq
    <3> QED
      BY <2>4, <3>1 DEF V2Uuid, V2Record
  <2>6. /\ v2Log' \in Seq(V2Record)
        /\ Len(v2Log') = Len(v2Log) + 1 /\ Len(v2Log) \in Nat
        /\ \A i \in 1 .. Len(v2Log) : v2Log'[i] = v2Log[i]
        /\ v2Log'[Len(v2Log) + 1] = u
    <3>1. v2Log \in Seq(V2Record) /\ v2Log' = Append(v2Log, u)
      BY <1>0, <2>1 DEF TypeOK
    <3> HIDE DEF u
    <3> QED
      BY <2>5, <3>1, AppendProperties
  <2>7. \A i \in 1 .. Len(v2Log) :
          v2Log[i].time \in 0 .. VisMax /\ (v2Log[i].full => v2Log[i].time < v2_last')
    <3>1. \A i \in 1 .. Len(v2Log) : v2Log[i] \in V2Record
      BY <1>0 DEF TypeOK
    <3>2. \A i \in 1 .. Len(v2Log) : v2Log[i].time \in 0 .. VisMax
      BY <3>1 DEF V2Record
    <3> QED
      BY <1>0, <2>3, <2>4, <3>2 DEF IInv, V2Covered
  <2>8. V2SuppliedIncreasing' /\ V2Covered'
    <3> HIDE DEF u
    <3>1. V2SuppliedIncreasing'
      BY <2>5, <2>6, <2>7 DEF IInv, V2SuppliedIncreasing
    <3>2. V2Covered'
      BY <2>4, <2>5, <2>6, <2>7 DEF V2Covered
    <3> QED
      BY <3>1, <3>2
  <2>9. clockTop' \in Nat /\ clockTop <= clockTop' /\ g <= clockTop'
    BY <2>1, ClockTopGrows
  <2>10. MarksWithinTies'
    <3>1. AheadBy(v2_last, Visible(clockTop), v2Ties) /\ v2_last \in Nat
          /\ v2Ties \in Nat /\ Visible(g) \in Nat
      BY <1>0, <2>3 DEF IInv, MarksWithinTies, TypeOK
    <3>2. AheadBy(v2_last', Visible(clockTop'), v2Ties')
      BY <2>1, <2>9, <3>1, MovedMark, VisibleTopGrows
    <3>3. AheadBy(greg_last', clockTop', gregTies')
      BY <2>2, <2>9, MarksKept
    <3> QED
      BY <3>2, <3>3 DEF MarksWithinTies, Visible
  <2>11. TypeOK'
    BY <1>0, <2>2, <2>4, <2>6, <2>9 DEF TypeOK
  <2> QED
    BY <2>2, <2>8, <2>10, <2>11 DEF IInv, GregStrictlyIncreasing, GregCovered
<1>5. CASE GenV2Default
  <2>1. PICK g \in Readings, who \in Owners, nodeArg \in NodeArgs, seqArg \in SeqArgs :
          /\ \E n \in LaidNode(nodeArg), cs \in LaidSeq(seqArg) :
               v2Log' = Append(v2Log, V2Uuid(Visible(g), who, cs, n, FALSE))
          /\ ReadClock(g)
    BY <1>5 DEF GenV2Default
  <2>2. PICK n \in LaidNode(nodeArg), cs \in LaidSeq(seqArg) :
          v2Log' = Append(v2Log, V2Uuid(Visible(g), who, cs, n, FALSE))
    BY <2>1
  <2>3. outcome' = "ok" /\ UNCHANGED <<greg_last, v2_last, gregLog, gregTies, v2Ties>>
    BY <1>5 DEF GenV2Default
  <2> DEFINE u == V2Uuid(Visible(g), who, cs, n, FALSE)
  <2>4. u \in V2Record /\ u.full = FALSE
    <3>1. cs \in ClockSeqs /\ n \in Nodes \cup {RandomNode}
      BY DEF LaidNode, LaidSeq, NodeArgs, SeqArgs
    <3>2. VisibleSeq(cs) \in 0 .. VisibleSeq(CsMax)
      BY <3>1, GregAssumption DEF ClockSeqs, VisibleSeq
    <3> QED
      BY <3>1, <3>2, ReadingsFit DEF V2Uuid, V2Record
  <2>5. /\ v2Log' \in Seq(V2Record)
        /\ Len(v2Log') = Len(v2Log) + 1 /\ Len(v2Log) \in Nat
        /\ \A i \in 1 .. Len(v2Log) : v2Log'[i] = v2Log[i]
        /\ v2Log'[Len(v2Log) + 1] = u
    <3>1. v2Log \in Seq(V2Record) /\ v2Log' = Append(v2Log, u)
      BY <1>0, <2>2 DEF TypeOK
    <3> HIDE DEF u
    <3> QED
      BY <2>4, <3>1, AppendProperties
  <2>6. V2SuppliedIncreasing' /\ V2Covered'
    <3> HIDE DEF u
    <3> QED
      BY <2>3, <2>4, <2>5 DEF IInv, V2SuppliedIncreasing, V2Covered
  <2>7. clockTop' \in Nat /\ clockTop <= clockTop'
    BY <2>1, ClockTopGrows
  <2>8. MarksWithinTies'
    BY <2>3, <2>7, MarksKept DEF MarksWithinTies, Visible
  <2>9. TypeOK'
    BY <1>0, <2>3, <2>5, <2>7 DEF TypeOK
  <2> QED
    BY <2>3, <2>6, <2>8, <2>9 DEF IInv, GregStrictlyIncreasing, GregCovered
<1>6. CASE GregExhausted \/ V2Exhausted \/ FailsUnmarked
  BY <1>3, <1>6 DEF GregExhausted, V2Exhausted, FailsUnmarked
<1>7. CASE UNCHANGED vars
  BY <1>3, <1>7, <1>0 DEF vars, TypeOK
<1> QED
  BY <1>1, <1>2, <1>4, <1>5, <1>6, <1>7 DEF Next

(* The strengthening is an invariant of the clock.                         *)
THEOREM IInvHolds == Spec => []IInv
<1>1. Init => IInv
  <2> SUFFICES ASSUME Init PROVE IInv
    OBVIOUS
  <2> USE DEF Init
  <2>1. /\ TickMax \in Nat /\ VisMax \in Nat /\ Visible(0) \in Nat
        /\ << >> \in Seq(0 .. TickMax) /\ << >> \in Seq(V2Record)
    BY GregAssumption, VisibleMonotone, EmptySeq DEF VisMax
  <2> QED
    BY <2>1 DEF IInv, TypeOK, GregStrictlyIncreasing, GregCovered,
                V2SuppliedIncreasing, V2Covered, MarksWithinTies, AheadBy
<1> QED
  BY <1>1, Induction, PTL DEF Spec

(* Type correctness: the marks never leave 60 and 28 bits.                 *)
THEOREM TypeCorrect == Spec => []TypeOK
<1>1. IInv => TypeOK
  BY DEF IInv
<1> QED
  BY <1>1, IInvHolds, PTL

(* No two live v1 or v6 UUIDs of a process share a timestamp.              *)
THEOREM GregMonotonicity == Spec => []GregStrictlyIncreasing
<1>1. IInv => GregStrictlyIncreasing
  BY DEF IInv
<1> QED
  BY <1>1, IInvHolds, PTL

(* No two v2 UUIDs with node and clock sequence supplied are equal.        *)
THEOREM V2Monotonicity == Spec => []V2SuppliedIncreasing
<1>1. IInv => V2SuppliedIncreasing
  BY DEF IInv
<1> QED
  BY <1>1, IInvHolds, PTL

(* Both marks are ahead of the clock by stalled calls only.                *)
THEOREM BoundedDrift == Spec => []MarksWithinTies
<1>1. IInv => MarksWithinTies
  BY DEF IInv
<1> QED
  BY <1>1, IInvHolds, PTL

(* The v1/v6 clock implements the strictly increasing source.              *)
THEOREM Implements == Spec => ImplementsSource
<1>1. Init => Source!Init
  BY DEF Init, Source!Init
<1>2. IInv /\ [Next]_vars => [Source!Issue]_gregLog
  <2> SUFFICES ASSUME IInv, [Next]_vars
               PROVE  [Source!Issue]_gregLog
    OBVIOUS
  <2>1. CASE GenTimeBased
    <3>1. PICK g \in Readings :
            GregMark(g) /\ gregLog' = Append(gregLog, NextMark(greg_last, g))
      BY <2>1 DEF GenTimeBased
    <3>2. greg_last' \in 1 .. TickMax /\ greg_last < greg_last'
          /\ gregLog' = Append(gregLog, greg_last')
      BY <3>1, GregMarkKeeps
    <3>3. \A i \in 1 .. Len(gregLog) : gregLog[i] < greg_last'
      <4>1. gregLog \in Seq(0 .. TickMax) /\ greg_last \in 0 .. TickMax /\ TickMax \in Nat
        BY GregAssumption DEF IInv, TypeOK
      <4>2. \A i \in 1 .. Len(gregLog) : gregLog[i] \in 0 .. TickMax
        BY <4>1
      <4> QED
        BY <3>2, <4>1, <4>2 DEF IInv, GregCovered
    <3> QED
      BY <3>2, <3>3 DEF Source!Issue, Earlier
  <2>2. CASE ~GenTimeBased
    BY <2>2 DEF Next, vars, GenTimeBasedNoRandom, GregExhausted, GenV2Monotonic,
                GenV2Default, V2Exhausted, FailsUnmarked
  <2> QED
    BY <2>1, <2>2
<1> QED
  BY <1>1, <1>2, IInvHolds, PTL DEF Spec, ImplementsSource, Source!Spec
(* At the end of its field a mark is exhausted for every reading, so that  *)
(* no action that lays out under it is possible.                           *)
LEMMA ExhaustedFor ==
  ASSUME NEW max \in Nat, NEW now \in 0 .. max
  PROVE  MarkExhausted(max, now, max)
BY DEF MarkExhausted, Stalled

(* Exhaustion is final: no reading lays out a v1, v6 or supplied v2 again. *)
THEOREM NoRestart == Spec => ExhaustionIsFinal
<1> DEFINE Final ==
      /\ greg_last = TickMax => UNCHANGED <<greg_last, gregLog>>
      /\ v2_last = VisMax /\ v2Log' # v2Log => ~v2Log'[Len(v2Log')].full
<1>1. IInv /\ [Next]_vars => [Final]_vars
  <2> SUFFICES ASSUME IInv, Next PROVE Final
    OBVIOUS
  <2>1. /\ TickMax \in Nat /\ VisMax \in Nat
        /\ \A g \in Readings : g \in 0 .. TickMax /\ Visible(g) \in 0 .. VisMax
    <3>1. Epoch \in Nat
      BY GregAssumption
    <3> QED
      BY <3>1, GregAssumption, ReadingsFit, VisibleMonotone DEF VisMax
  <2>2. ASSUME NEW g \in Readings, GregMark(g)
        PROVE  greg_last # TickMax /\ UNCHANGED v2Log
    BY <2>1, <2>2, ExhaustedFor DEF GregMark
  <2>3. CASE GenTimeBased \/ GenTimeBasedNoRandom
    BY <2>2, <2>3 DEF GenTimeBased, GenTimeBasedNoRandom
  <2>4. CASE GenV2Monotonic
    <3>1. v2_last # VisMax
      BY <2>1, <2>4, ExhaustedFor DEF GenV2Monotonic
    <3> QED
      BY <3>1, <2>4 DEF GenV2Monotonic
  <2>5. CASE GenV2Default
    <3>1. PICK u : u.full = FALSE /\ v2Log' = Append(v2Log, u)
      BY <2>5 DEF GenV2Default, V2Uuid
    <3>2. v2Log'[Len(v2Log')] = u
      BY <3>1 DEF IInv, TypeOK
    <3> QED
      BY <3>1, <3>2, <2>5 DEF GenV2Default
  <2>6. CASE GregExhausted \/ V2Exhausted \/ FailsUnmarked
    BY <2>6 DEF GregExhausted, V2Exhausted, FailsUnmarked
  <2> QED
    BY <2>3, <2>4, <2>5, <2>6 DEF Next
<1>2. Spec => [][Final]_vars
  BY <1>1, IInvHolds, PTL DEF Spec
<1> QED
  BY <1>2 DEF ExhaustionIsFinal
=============================================================================
