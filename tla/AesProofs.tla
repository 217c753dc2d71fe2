----------------------------- MODULE AesProofs -----------------------------
(***************************************************************************)
(* The block loop of fu_aes_ctr() for every block size, loop width, length *)
(* and counter: what is written so far is the stream so far, the counter   *)
(* is as far along as the blocks spent on it, and only the last write may  *)
(* end inside a block.  fu_aes_selftest() at last, for the code's sizes:   *)
(* it never refuses this loop and looks at every part of it.               *)
(***************************************************************************)
EXTENDS AesSelftest, TLAPS

-----------------------------------------------------------------------------
(* Division with remainder by a divisor that is a variable, which the SMT  *)
(* solver does not decide by itself.                                       *)

(* The defining equation of \div and %.                                    *)
LEMMA DivMod ==
  ASSUME NEW n \in Int, NEW d \in Nat \ {0}
  PROVE  n = d * (n \div d) + (n % d) /\ n % d \in 0 .. d - 1 /\ n \div d \in Int
OBVIOUS

(* There is one quotient and one remainder.                                *)
LEMMA DivUnique ==
  ASSUME NEW d \in Nat \ {0}, NEW q \in Int, NEW r \in 0 .. d - 1
  PROVE  (d * q + r) \div d = q /\ (d * q + r) % d = r
<1> DEFINE n == d * q + r
           p == n \div d
           s == n % d
<1>1. n \in Int /\ r \in Int /\ d * q \in Int
  OBVIOUS
<1>2. n = d * p + s /\ s \in 0 .. d - 1 /\ p \in Int
  <2> HIDE DEF n
  <2> QED
    BY <1>1, DivMod
<1> HIDE DEF p, s
<1>3. d * (p - q) = r - s
  BY <1>2
<1>4. p = q
  <2>1. CASE p > q
    <3>1. d * (p - q) >= d
      BY <2>1, <1>2
    <3> QED
      BY <3>1, <1>3, <1>2
  <2>2. CASE p < q
    <3>1. d * (p - q) <= -d
      BY <2>2, <1>2
    <3> QED
      BY <3>1, <1>3, <1>2
  <2> QED
    BY <2>1, <2>2, <1>2
<1>5. s = r
  BY <1>4, <1>3, <1>2
<1> QED
  BY <1>4, <1>5 DEF n, p, s

(* A remainder may be taken before adding.                                 *)
LEMMA ModAdd ==
  ASSUME NEW d \in Nat \ {0}, NEW a \in Nat, NEW k \in Nat
  PROVE  ((a % d) + k) % d = (a + k) % d
<1> DEFINE q == a \div d
           r == a % d
           p == (r + k) \div d
           s == (r + k) % d
<1>1. a = d * q + r /\ q \in Int /\ r \in Nat
  BY DivMod
<1> HIDE DEF r
<1>2. r + k \in Int
  BY <1>1
<1>3. r + k = d * p + s /\ p \in Int /\ s \in 0 .. d - 1
  BY <1>2, DivMod
<1> HIDE DEF q, p, s
<1> DEFINE t == q + p
<1>4. a + k = d * t + s /\ t \in Int
  BY <1>1, <1>3
<1> HIDE DEF t
<1>5. (d * t + s) % d = s
  BY <1>3, <1>4, DivUnique
<1> QED
  BY <1>4, <1>5 DEF s, r

(* Numbers less than a divisor apart have different remainders.            *)
LEMMA ModApart ==
  ASSUME NEW d \in Nat \ {0}, NEW a \in Nat, NEW b \in Nat, a < b, b < a + d
  PROVE  a % d # b % d
<1> SUFFICES ASSUME a % d = b % d PROVE FALSE
  OBVIOUS
<1> DEFINE q == a \div d
           p == b \div d
           r == a % d
<1>1. a = d * q + r /\ b = d * p + r /\ q \in Int /\ p \in Int /\ r \in Int
  BY DivMod
<1> HIDE DEF q, p, r
<1>2. d * (p - q) = b - a /\ p - q \in Int
  BY <1>1
<1> DEFINE k == p - q
<1>3. d * k > 0 /\ d * k < d /\ k \in Int
  BY <1>2
<1> HIDE DEF k
<1>4. k > 0
  <2>1. ASSUME k <= 0 PROVE FALSE
    <3>1. d * k <= 0
      BY <2>1, <1>3
    <3> QED
      BY <3>1, <1>3
  <2> QED
    BY <2>1, <1>3
<1>5. d * k >= d
  BY <1>3, <1>4
<1> QED
  BY <1>3, <1>5

Stream(n) == Contract!Stream(n)
BlocksOf(n) == Contract!BlocksOf(n)

(* Calls that a caller can make, and how far each local has come.          *)
CallOK == asked \in 0 .. OutSize /\ from \in 0 .. Lane - 1
LocalsOK ==
  /\ pos \in 0 .. asked /\ len = asked - pos
  /\ len > 0 => \E q \in Nat : pos = Block * q
  /\ ~done => c = (from + BlocksOf(pos)) % Lane
ReturnOK ==
  IF done
    THEN /\ len = 0
         /\ key = Contract!KeyFrom(from + BlocksOf(asked))
         /\ ctr = (from + BlocksOf(asked) + 2) % Lane
         /\ c = ctr
    ELSE key = Contract!OldKey /\ ctr = from

IInv ==
  /\ done \in BOOLEAN
  /\ CallOK /\ LocalsOK /\ ReturnOK
  /\ out = Stream(pos)

-----------------------------------------------------------------------------
(* A length that is a number of blocks, or that number and part of another.*)
LEMMA BlocksOfWhole ==
  ASSUME NEW q \in Nat
  PROVE  BlocksOf(Block * q) = q
<1>1. Block \in Nat \ {0} /\ Block - 1 \in 0 .. Block - 1 /\ q \in Int
  BY AesAssumption
<1>2. (Block * q + (Block - 1)) \div Block = q
  BY <1>1, DivUnique
<1>3. Block * q + (Block - 1) = Block * q + Block - 1
  BY <1>1
<1> QED
  BY <1>2, <1>3 DEF BlocksOf, Contract!BlocksOf

(* What a pair adds: one block for up to a block of bytes, else two.       *)
LEMMA BlocksOfPair ==
  ASSUME NEW q \in Nat, NEW take \in 1 .. 2 * Block
  PROVE  BlocksOf(Block * q + take) = q + Spent(take)
<1>1. Block \in Nat \ {0} /\ take \in Nat
  BY AesAssumption
<1> DEFINE n == q + Spent(take)
           r == take + Block - 1 - Block * Spent(take)
<1>2. Spent(take) \in 1 .. 2 /\ n \in Int
  BY DEF Spent
<1>3. r \in 0 .. Block - 1
  BY <1>1 DEF Spent
<1>4. (Block * q + take) + Block - 1 = Block * n + r
  <2>1. Block * n = Block * q + Block * Spent(take)
    BY <1>1, <1>2
  <2> QED
    BY <1>1, <1>2, <2>1
<1> HIDE DEF n, r
<1>5. (Block * n + r) \div Block = n
  BY <1>1, <1>2, <1>3, DivUnique
<1> QED
  BY <1>4, <1>5 DEF BlocksOf, Contract!BlocksOf, n

(* Writing n bytes at the end of the stream so far extends the stream: the *)
(* counter is that of the block the write begins with.                     *)
LEMMA WriteExtends ==
  ASSUME CallOK, NEW q \in Nat, pos = Block * q, NEW n \in Nat, pos + n <= asked,
         c = (from + q) % Lane, out = Stream(pos)
  PROVE  Written(n) = Stream(pos + n)
<1>1. /\ Block \in Nat \ {0} /\ Lane \in Nat \ {0} /\ from \in Nat /\ OutSize \in Nat
      /\ pos \in Nat
  BY AesAssumption DEF CallOK
<1> SUFFICES ASSUME NEW i \in 0 .. OutSize - 1
             PROVE  (IF i \in pos .. pos + n - 1
                       THEN Contract!Keystream(c + (i - pos) \div Block, i - pos)
                       ELSE out[i])
                    = (IF i < pos + n
                         THEN Contract!Keystream(from + i \div Block, i)
                         ELSE Contract!Untouched)
  BY DEF Written, Stream, Contract!Stream
<1>2. CASE i < pos
  BY <1>1, <1>2 DEF Stream, Contract!Stream
<1>3. CASE i >= pos + n
  BY <1>1, <1>3 DEF Stream, Contract!Stream
<1>4. CASE pos <= i /\ i < pos + n
  <2> DEFINE d == i - pos
             e == d \div Block
             f == d % Block
  <2>1. d \in Nat /\ i = Block * q + d
    BY <1>1, <1>4
  <2>2. d = Block * e + f /\ f \in 0 .. Block - 1 /\ e \in Int
    <3> HIDE DEF d
    <3> QED
      BY <1>1, <2>1, DivMod
  <2>3. e \in Nat
    <3> HIDE DEF d, e, f
    <3>1. ASSUME e < 0 PROVE FALSE
      <4>1. Block * e <= -Block
        BY <1>1, <2>2, <3>1
      <4> QED
        BY <1>1, <2>1, <2>2, <4>1
    <3> QED
      BY <2>2, <3>1
  <2> HIDE DEF e, f
  <2>4. i = Block * (q + e) + f /\ q + e \in Int
    BY <1>1, <2>1, <2>2, <2>3
  <2> DEFINE m == q + e
  <2>5. i \div Block = m /\ i % Block = f
    <3> HIDE DEF m
    <3> QED
      BY <1>1, <2>2, <2>4, DivUnique DEF m
  <2>6. (c + e) % Lane = (from + m) % Lane
    <3> DEFINE a == from + q
    <3>1. a \in Nat /\ a + e = from + m /\ c = a % Lane
      BY <1>1, <2>3
    <3> HIDE DEF a, m
    <3>2. ((a % Lane) + e) % Lane = (a + e) % Lane
      BY <1>1, <2>3, <3>1, ModAdd
    <3> QED
      BY <3>1, <3>2
  <2>7. f % Block = f
    BY <1>1, <2>2
  <2>8. i \in pos .. pos + n - 1 /\ i < pos + n
    BY <1>1, <1>4
  <2> QED
    BY <2>5, <2>6, <2>7, <2>8 DEF Contract!Keystream, e, f
<1> QED
  BY <1>1, <1>2, <1>3, <1>4

(* The counter moves on by the blocks of the write.                        *)
LEMMA CounterMoves ==
  ASSUME CallOK, NEW q \in Nat, c = (from + q) % Lane, NEW k \in Nat
  PROVE  Advanced(k) = (from + (q + k)) % Lane
<1>1. Lane \in Nat \ {0} /\ from + q \in Nat /\ (from + q) + k = from + (q + k)
  BY AesAssumption DEF CallOK
<1> DEFINE a == from + q
<1>2. (a + k) % Lane = (from + (q + k)) % Lane
  BY <1>1
<1>3. Advanced(k) = ((a % Lane) + k) % Lane
  BY DEF Advanced
<1> HIDE DEF a
<1>4. ((a % Lane) + k) % Lane = (a + k) % Lane
  BY ONLY <1>1, ModAdd, k \in Nat DEF a
<1> QED
  BY <1>2, <1>3, <1>4

(* One write of either loop: n bytes, of which only the last block of the  *)
(* output may be cut.                                                      *)
LEMMA PassKeeps ==
  ASSUME IInv, ~done, NEW n \in Nat \ {0}, n <= len, NEW spent \in Nat,
         NEW q \in Nat, pos = Block * q, BlocksOf(Block * q + n) = q + spent,
         n < len => n = Block * spent,
         out' = Written(n), Move(n), c' = Advanced(spent),
         UNCHANGED <<asked, from, key, ctr, done>>
  PROVE  IInv'
<1>1. pos \in Nat /\ asked \in Nat /\ len = asked - pos /\ pos + n <= asked
  BY AesAssumption DEF IInv, CallOK, LocalsOK
<1>2. c = (from + q) % Lane
  BY BlocksOfWhole DEF IInv, LocalsOK
<1>3. out' = Stream(pos')
  BY <1>1, <1>2, WriteExtends DEF IInv, Move
<1>4. c' = (from + BlocksOf(pos')) % Lane
  BY <1>2, CounterMoves DEF IInv, Move
<1>5. pos' \in 0 .. asked' /\ len' = asked' - pos'
  BY <1>1 DEF Move
<1>6. len' > 0 => \E m \in Nat : pos' = Block * m
  <2> SUFFICES ASSUME len' > 0 PROVE \E m \in Nat : pos' = Block * m
    OBVIOUS
  <2>1. n = Block * spent
    BY <1>1 DEF Move
  <2>2. pos' = Block * (q + spent) /\ q + spent \in Nat
    BY <2>1, AesAssumption DEF Move
  <2> QED
    BY <2>2, Zenon
<1>7. Stream(pos)' = Contract!Stream(pos')
  BY DEF Stream, Contract!Stream, Contract!Keystream
<1> QED
  BY <1>3, <1>4, <1>5, <1>6, <1>7
     DEF IInv, CallOK, LocalsOK, ReturnOK, Stream, BlocksOf, Contract!BlocksOf

(* A turn of the eight-wide loop keeps the invariant.                      *)
LEMMA WidePassKeeps == IInv /\ WidePass => IInv'
<1> SUFFICES ASSUME IInv, WidePass PROVE IInv'
  OBVIOUS
<1> DEFINE n == Block * Wide
<1>1. Block \in Nat \ {0} /\ Wide \in Nat \ {0} /\ n \in Nat \ {0} /\ n = Wide * Block
  BY AesAssumption
<1>2. n <= len /\ len > 0
  BY <1>1 DEF WidePass, IInv, CallOK, LocalsOK
<1>3. PICK q \in Nat : pos = Block * q
  BY <1>2 DEF IInv, LocalsOK
<1>4. BlocksOf(Block * q + n) = q + Wide
  <2>1. Block * q + n = Block * (q + Wide) /\ q + Wide \in Nat
    BY <1>1
  <2> QED
    BY <2>1, BlocksOfWhole
<1> HIDE DEF n
<1>5. out' = Written(n) /\ Move(n) /\ c' = Advanced(Wide)
  BY <1>1 DEF WidePass
<1> QED
  BY <1>1, <1>2, <1>3, <1>4, <1>5, PassKeeps DEF WidePass, n

(* A pair of blocks, the last one cut, keeps the invariant.                *)
LEMMA PairPassKeeps == IInv /\ PairPass => IInv'
<1> SUFFICES ASSUME IInv, PairPass PROVE IInv'
  OBVIOUS
<1> DEFINE n == PairTake
<1>1. Block \in Nat \ {0} /\ len \in Nat /\ len > 0
  BY AesAssumption DEF PairPass, IInv, CallOK, LocalsOK
<1>2. n \in 1 .. 2 * Block /\ n <= len /\ (n < len => n = Block * 2 /\ Spent(n) = 2)
  BY <1>1 DEF PairTake, Spent
<1>3. PICK q \in Nat : pos = Block * q
  BY <1>1 DEF IInv, LocalsOK
<1>4. BlocksOf(Block * q + n) = q + Spent(n) /\ Spent(n) \in Nat
  BY <1>2, BlocksOfPair DEF Spent
<1> HIDE DEF n
<1>5. n \in Nat \ {0}
  BY <1>1, <1>2
<1>6. n < len => n = Block * Spent(n)
  BY <1>2
<1> QED
  BY <1>2, <1>3, <1>4, <1>5, <1>6, PassKeeps DEF PairPass, n

(* Replacing the key and storing the counter keep the invariant.           *)
LEMMA RekeyKeeps == IInv /\ Rekey => IInv'
<1> SUFFICES ASSUME IInv, Rekey PROVE IInv'
  OBVIOUS
<1> DEFINE n == BlocksOf(asked)
<1>1. pos = asked /\ asked \in Nat /\ Lane \in Nat \ {0} /\ Block \in Nat \ {0} /\ from \in Nat
  BY AesAssumption DEF Rekey, IInv, CallOK, LocalsOK
<1>2. c = (from + n) % Lane
  BY <1>1 DEF Rekey, IInv, LocalsOK
<1>3. n \in Nat
  BY <1>1 DEF BlocksOf, Contract!BlocksOf
<1> HIDE DEF n
<1>4. from + n \in Nat /\ (from + n) + 1 = from + n + 1 /\ (from + n) + 2 = from + n + 2
      /\ from + (n + 1) = from + n + 1 /\ from + (n + 2) = from + n + 2
  BY <1>1, <1>3
<1>5. c % Lane = (from + n) % Lane
  BY <1>1, <1>2, <1>4
<1>6. Advanced(1) = (from + n + 1) % Lane
  BY <1>2, <1>3, <1>4, CounterMoves DEF IInv
<1>7. Advanced(2) = (from + n + 2) % Lane
  BY <1>2, <1>3, <1>4, CounterMoves DEF IInv
<1>8. Stream(pos)' = Stream(pos)
  BY DEF Rekey, Stream, Contract!Stream, Contract!Keystream
<1>9. BlocksOf(asked)' = n
  BY DEF Rekey, n, BlocksOf, Contract!BlocksOf
<1> QED
  BY <1>1, <1>4, <1>5, <1>6, <1>7, <1>8, <1>9
     DEF Rekey, IInv, CallOK, LocalsOK, ReturnOK, n, Contract!KeyFrom

-----------------------------------------------------------------------------
(* The invariant holds when the call begins.                               *)
LEMMA InitIInv == Init => IInv
<1> SUFFICES ASSUME NEW n \in Lens, NEW start \in Counters, Call(n, start)
             PROVE  IInv
  BY DEF Init
<1>1. /\ Block \in Nat \ {0} /\ Lane \in Nat \ {0} /\ OutSize \in Nat
      /\ n \in 0 .. OutSize /\ start \in 0 .. Lane - 1
  BY AesAssumption
<1>2. Block * 0 = 0
  BY <1>1
<1>3. BlocksOf(0) = 0
  BY <1>2, BlocksOfWhole
<1>4. start % Lane = start /\ from + 0 = start
  BY <1>1 DEF Call
<1>5. out = Stream(0)
  BY <1>1 DEF Call, Stream, Contract!Stream
<1>6. CallOK /\ ReturnOK
  BY <1>1 DEF Call, CallOK, ReturnOK
<1>7. pos \in 0 .. asked /\ len = asked - pos /\ c = (from + BlocksOf(pos)) % Lane
  BY <1>1, <1>3, <1>4 DEF Call
<1>8. \E q \in Nat : pos = Block * q
  BY <1>2 DEF Call
<1> QED
  BY <1>5, <1>6, <1>7, <1>8 DEF Call, IInv, LocalsOK

(* Every step of the call keeps the invariant.                             *)
LEMMA NextIInv == IInv /\ [Next]_vars => IInv'
<1> SUFFICES ASSUME IInv, [Next]_vars PROVE IInv'
  OBVIOUS
<1>1. CASE UNCHANGED vars
  BY <1>1 DEF vars, memory, IInv, CallOK, LocalsOK, ReturnOK, Stream, BlocksOf,
              Contract!Stream, Contract!Keystream, Contract!BlocksOf
<1> QED
  BY <1>1, WidePassKeeps, PairPassKeeps, RekeyKeeps DEF Next

(* The loop invariant holds between any two steps of the call.             *)
THEOREM IInvHolds == Spec => []IInv
BY InitIInv, NextIInv, PTL DEF Spec

(* The locals stay in their ranges and never pass the end of the output.   *)
THEOREM TypeCorrect == Spec => []TypeOK
<1>1. IInv => TypeOK
  <2> SUFFICES ASSUME IInv PROVE TypeOK
    OBVIOUS
  <2>1. Lane \in Nat \ {0} /\ Block \in Nat \ {0} /\ from \in Nat /\ OutSize \in Nat
    BY AesAssumption DEF IInv, CallOK
  <2>2. \A n \in 0 .. OutSize : BlocksOf(n) \in Nat
    BY <2>1 DEF BlocksOf, Contract!BlocksOf
  <2>3. \A a \in Nat : a % Lane \in 0 .. Lane - 1
    BY <2>1
  <2>4. BlocksOf(asked) \in Nat /\ BlocksOf(pos) \in Nat
    BY <2>1, <2>2 DEF IInv, CallOK, LocalsOK
  <2>5. c \in 0 .. Lane - 1 /\ ctr \in 0 .. Lane - 1
    BY <2>1, <2>3, <2>4 DEF IInv, CallOK, LocalsOK, ReturnOK
  <2>6. DOMAIN out = 0 .. OutSize - 1
    BY DEF IInv, Stream, Contract!Stream
  <2> QED
    BY <2>5, <2>6 DEF IInv, CallOK, LocalsOK, TypeOK
<1> QED
  BY <1>1, IInvHolds, PTL

(* Every byte of output lies in a block before the last one counted, and a *)
(* length never takes more blocks than bytes.                              *)
LEMMA ByteBlocks ==
  ASSUME NEW n \in Nat
  PROVE  /\ BlocksOf(n) \in 0 .. n
         /\ \A i \in 0 .. n - 1 : i \div Block \in 0 .. BlocksOf(n) - 1
<1> DEFINE m == n + Block - 1
           p == m \div Block
           s == m % Block
<1>1. Block \in Nat \ {0} /\ m \in Nat
  BY AesAssumption
<1> HIDE DEF m
<1>2. m = Block * p + s /\ s \in 0 .. Block - 1 /\ p \in Int
  BY <1>1, DivMod
<1>3. BlocksOf(n) = p
  BY DEF BlocksOf, Contract!BlocksOf, m
<1> HIDE DEF p, s
<1>4. m = n + Block - 1
  BY DEF m
<1>5. p >= 0
  <2>1. ASSUME p < 0 PROVE FALSE
    <3>1. Block * p <= -Block
      BY <1>1, <1>2, <2>1
    <3> QED
      BY <1>1, <1>2, <3>1
  <2> QED
    BY <1>2, <2>1
<1>6. p <= n
  <2>1. ASSUME p > n PROVE FALSE
    <3>1. Block * p >= Block * (n + 1)
      BY <1>1, <1>2, <2>1
    <3>2. Block * (n + 1) >= n + Block
      BY <1>1
    <3>3. Block * p \in Int /\ Block * (n + 1) \in Int
      BY <1>1, <1>2
    <3> QED
      BY <1>1, <1>2, <1>4, <3>1, <3>2, <3>3
  <2> QED
    BY <1>2, <2>1
<1>7. ASSUME NEW i \in 0 .. n - 1 PROVE i \div Block \in 0 .. p - 1
  <2> DEFINE e == i \div Block
             f == i % Block
  <2>1. i = Block * e + f /\ f \in 0 .. Block - 1 /\ e \in Int
    BY <1>1, DivMod
  <2> HIDE DEF e, f
  <2>2. e >= 0
    <3>1. ASSUME e < 0 PROVE FALSE
      <4>1. Block * e <= -Block
        BY <1>1, <2>1, <3>1
      <4> QED
        BY <1>1, <2>1, <4>1
    <3> QED
      BY <2>1, <3>1
  <2>3. e < p
    <3>1. ASSUME e >= p PROVE FALSE
      <4>1. Block * e >= Block * p /\ Block * e \in Int /\ Block * p \in Int
        BY <1>1, <1>2, <2>1, <3>1
      <4> QED
        BY <1>1, <1>2, <1>4, <2>1, <4>1
    <3> QED
      BY <1>2, <2>1, <3>1
  <2> QED
    BY <1>2, <2>1, <2>2, <2>3 DEF e
<1> QED
  BY <1>2, <1>3, <1>5, <1>6, <1>7

(* The key blocks and the next counter are none of the output's.           *)
THEOREM KeyBlocksApart == Spec => []CountersApart
<1>1. IInv => CountersApart
  <2> SUFFICES ASSUME IInv, done PROVE
        /\ key[1] # key[2] /\ {key[1], key[2], ctr} \cap Counters1 = {}
        /\ ctr \notin {key[1], key[2]}
    BY DEF CountersApart
  <2> DEFINE n == BlocksOf(asked)
             k == from + n
  <2>1. Lane \in Nat \ {0} /\ from \in Nat /\ OutSize \in Nat /\ asked \in Nat /\ OutSize + 2 < Lane
        /\ asked <= OutSize
    BY AesAssumption DEF IInv, CallOK
  <2>2. n \in Nat /\ n + 2 < Lane
    BY <2>1, ByteBlocks
  <2>3. k \in Nat /\ k + 1 \in Nat /\ k + 2 \in Nat
    BY <2>1, <2>2
  <2>4. key[1] = k % Lane /\ key[2] = (k + 1) % Lane /\ ctr = (k + 2) % Lane
    BY DEF IInv, ReturnOK, Contract!KeyFrom
  <2>5. ASSUME NEW i \in DOMAIN out, out[i] # Contract!Untouched
        PROVE  \E b \in 0 .. n - 1 : out[i][1] = (from + b) % Lane
    <3>1. i \in 0 .. asked - 1 /\ out[i][1] = (from + i \div Block) % Lane
      BY <2>1, <2>5 DEF IInv, ReturnOK, LocalsOK, Stream, Contract!Stream, Contract!Keystream
    <3>2. i \div Block \in 0 .. n - 1
      BY <2>1, <3>1, ByteBlocks
    <3> QED
      BY <3>1, <3>2
  <2>6. \A x \in Counters1 : \E b \in 0 .. n - 1 : x = (from + b) % Lane
    BY <2>5 DEF Counters1
  <2> HIDE DEF n
  <2>7. k = from + n
    OBVIOUS
  <2> HIDE DEF k
  <2>8. k % Lane # (k + 1) % Lane /\ k % Lane # (k + 2) % Lane /\ (k + 1) % Lane # (k + 2) % Lane
    <3>1. k < k + 1 /\ k + 1 < k + Lane /\ k < k + 2 /\ k + 2 < k + Lane
          /\ k + 1 < k + 2 /\ k + 2 < (k + 1) + Lane
      BY <2>1, <2>2, <2>3
    <3> QED
      BY <2>1, <2>3, <3>1, ModApart
  <2>9. ASSUME NEW b \in 0 .. n - 1, NEW y \in {k, k + 1, k + 2}
        PROVE  (from + b) % Lane # y % Lane
    <3> DEFINE a == from + b
    <3>1. a \in Nat /\ y \in Nat /\ a < y /\ y < a + Lane
      BY <2>1, <2>2, <2>3, <2>7
    <3> HIDE DEF a
    <3>2. a % Lane # y % Lane
      BY <2>1, <3>1, ModApart
    <3> QED
      BY <3>2 DEF a
  <2>10. {key[1], key[2], ctr} \cap Counters1 = {}
    <3>1. ASSUME NEW x \in Counters1 PROVE x \notin {key[1], key[2], ctr}
      <4>1. PICK b \in 0 .. n - 1 : x = (from + b) % Lane
        BY <2>6
      <4> QED
        BY <2>4, <2>9, <4>1
    <3> QED
      BY <3>1
  <2> QED
    BY <2>4, <2>8, <2>10
<1> QED
  BY <1>1, IInvHolds, PTL

(* The loops implement the contract: nothing is visible before the call    *)
(* returns, and then all of it is.                                         *)
THEOREM Implements == Spec => ImplementsContract
<1> DEFINE shown == IF done THEN out ELSE [i \in DOMAIN out |-> Contract!Untouched]
<1>1. Init => Returned!Init
  BY AesAssumption DEF Init, Call, Returned!Init, Returned!Stream, Contract!Untouched,
        Contract!OldKey, Returned!OldKey, Returned!Untouched
<1>2. IInv /\ [Next]_vars => [Returned!Generate]_<<asked, from, shown, key, ctr>>
  <2> SUFFICES ASSUME IInv, [Next]_vars
               PROVE  [Returned!Generate]_<<asked, from, shown, key, ctr>>
    OBVIOUS
  <2>1. DOMAIN out = 0 .. OutSize - 1
    BY DEF IInv, Stream, Contract!Stream
  <2>2. CASE WidePass \/ PairPass
    <3>1. DOMAIN out' = 0 .. OutSize - 1
      BY <2>2 DEF WidePass, PairPass, Written
    <3> QED
      BY <2>1, <2>2, <3>1 DEF WidePass, PairPass
  <2>3. CASE Rekey
    <3>1. IInv'
      BY RekeyKeeps, <2>3
    <3>2. done' /\ ~done /\ asked' = asked /\ from' = from /\ out' = out /\ pos = asked /\ pos' = pos
      BY <2>3, AesAssumption DEF Rekey, IInv, CallOK, LocalsOK
    <3>3. key = Returned!OldKey
      BY <3>2 DEF IInv, ReturnOK, Contract!OldKey, Returned!OldKey
    <3>4. shown' = Returned!Stream(asked)
      BY <3>2 DEF IInv, Stream, Contract!Stream, Returned!Stream, Contract!Keystream,
            Returned!Keystream, Contract!Untouched, Returned!Untouched
    <3>5. BlocksOf(asked)' = Returned!BlocksOf(asked)
      BY <3>2 DEF BlocksOf, Contract!BlocksOf, Returned!BlocksOf
    <3>6. key' = Returned!KeyFrom(from + Returned!BlocksOf(asked))
          /\ ctr' = (from + Returned!BlocksOf(asked) + 2) % Lane
      BY <3>1, <3>2, <3>5 DEF IInv, ReturnOK, Contract!KeyFrom, Returned!KeyFrom
    <3> QED
      BY <3>2, <3>3, <3>4, <3>6 DEF Returned!Generate
  <2>4. CASE UNCHANGED vars
    BY <2>4 DEF vars, memory
  <2> QED
    BY <2>2, <2>3, <2>4 DEF Next
<1> QED
  BY <1>1, <1>2, IInvHolds, PTL DEF Spec, ImplementsContract, Returned!Spec

-----------------------------------------------------------------------------
(* fu_aes_selftest(), whose cases are written for blocks of 16 bytes and   *)
(* eight of them a pass: the code's sizes, memory beyond the longest case  *)
(* and vectors that are counters.  The lane may have any width.            *)
CodeSizes == Block = 16 /\ Wide = 8 /\ OutSize > 256 /\ Vectors \subseteq 0 .. Lane - 1

(* The part of the code that makes block b of a call of length n.          *)
WideBlocks(n) == 8 * (n \div 128)
LaneOf(n, b) ==
  IF b < WideBlocks(n) THEN <<"wide", b % 8, b >= 8>>
  ELSE IF b < BlocksOf(n) THEN <<"pair", (b - WideBlocks(n)) % 2, 16 * (b + 1) <= n>>
  ELSE <<"key", b - BlocksOf(n), TRUE>>
LaneNames == {"wide", "pair", "key"} \X Nat \X BOOLEAN

(* The wide loop stays on its own multiples, the other on pairs.           *)
PlaceOK ==
  /\ len > 0 => pos % 32 = 0
  /\ pos < 128 * (asked \div 128) => pos % 128 = 0
LanesOK ==
  /\ lanes \in Seq(LaneNames)
  /\ Len(lanes) = IF done THEN BlocksOf(asked) + 2 ELSE BlocksOf(pos)
  /\ \A b \in 0 .. Len(lanes) - 1 : lanes[b + 1] = LaneOf(asked, b)

(* The case under way, and what the cases before it compared.              *)
CaseOK ==
  /\ at \in 1 .. Len(Cases) /\ vector \in Vectors
  /\ asked = CaseLen(at) /\ from = StartOf(vector, at)
Compared1(n) == {LaneOf(CaseLen(i), CaseBlock(i)) : i \in 1 .. n}
CoveredOK ==
  IF verdict = "none" THEN covered = Compared1(at - 1)
  ELSE verdict = "passes" /\ done /\ at = Len(Cases) /\ covered = Compared1(at)

SelftestInv == IInv /\ PlaceOK /\ LanesOK /\ CaseOK /\ CoveredOK

(* The nineteen cases: no length beyond the memory, no block beyond the    *)
(* output and the new key.                                                 *)
LEMMA CaseBounds ==
  /\ Len(Cases) = 19
  /\ \A i \in 1 .. 19 : CaseLen(i) \in 1 .. 256 /\ CaseBlock(i) \in 0 .. 15
                        /\ 16 * (CaseBlock(i) - 1) < CaseLen(i) + 15
<1>1. Len(Cases) = 19
  BY DEF Cases
<1>2. ASSUME NEW i \in 1 .. 19
      PROVE  /\ Cases[i][1] \in 1 .. 256 /\ Cases[i][2] \in 0 .. 15
             /\ 16 * (Cases[i][2] - 1) < Cases[i][1] + 15
  BY DEF Cases
<1> QED
  BY <1>1, <1>2 DEF CaseLen, CaseBlock

(* Names that are those of the next blocks.                                *)
LEMMA LanesGrow ==
  ASSUME LanesOK, UNCHANGED asked,
         NEW names \in Seq(LaneNames), Made(names), NEW m \in Nat, Len(lanes) = m,
         NEW n \in Nat, Len(names) = n,
         m + n = IF done' THEN BlocksOf(asked) + 2 ELSE BlocksOf(pos'),
         \A i \in 1 .. n : names[i] = LaneOf(asked, m + i - 1)
  PROVE  LanesOK'
<1>1. lanes' = lanes \o names /\ lanes \in Seq(LaneNames)
  BY DEF Made, LanesOK
<1> DEFINE t == lanes'
<1> HIDE DEF t
<1>2. /\ t \in Seq(LaneNames) /\ Len(t) = m + n
      /\ \A i \in 1 .. m : t[i] = lanes[i]
      /\ \A i \in 1 .. n : t[m + i] = names[i]
  <2>1. t = lanes \o names
    BY <1>1 DEF t
  <2>3. lanes \in Seq(LaneNames)
    BY <1>1
  <2>4. names \in Seq(LaneNames)
    OBVIOUS
  <2>2. /\ t \in Seq(LaneNames) /\ Len(t) = Len(lanes) + Len(names)
        /\ \A i \in 1 .. Len(lanes) : t[i] = lanes[i]
        /\ \A i \in 1 .. Len(names) : t[Len(lanes) + i] = names[i]
    BY ONLY <2>1, <2>3, <2>4
  <2> QED
    BY <2>2
<1>3. ASSUME NEW b \in 0 .. m + n - 1 PROVE t[b + 1] = LaneOf(asked, b)
  <2>1. CASE b < m
    <3>1. b + 1 \in 1 .. m
      BY <2>1
    <3> QED
      BY <1>2, <2>1, <3>1 DEF LanesOK
  <2>2. CASE b >= m
    <3> DEFINE i == b + 1 - m
    <3>1. i \in 1 .. n /\ m + i = b + 1 /\ m + i - 1 = b
      BY <2>2
    <3> HIDE DEF i
    <3> QED
      BY <1>2, <3>1
  <2> QED
    BY <2>1, <2>2
<1>4. \A b \in 0 .. Len(lanes') - 1 : lanes'[b + 1] = LaneOf(asked', b)
  BY <1>1, <1>2, <1>3 DEF t
<1>5. (\A b \in 0 .. Len(lanes) - 1 : lanes[b + 1] = LaneOf(asked, b))'
  BY <1>4 DEF LaneOf, WideBlocks, BlocksOf, Contract!BlocksOf
<1>6. /\ lanes' \in Seq(LaneNames)
      /\ Len(lanes') = IF done' THEN BlocksOf(asked') + 2 ELSE BlocksOf(pos')
  BY <1>1, <1>2 DEF t
<1>7. (Len(lanes) = IF done THEN BlocksOf(asked) + 2 ELSE BlocksOf(pos))'
  BY <1>6 DEF BlocksOf, Contract!BlocksOf
<1> QED
  BY <1>5, <1>6, <1>7 DEF LanesOK

(* Blocks of the output past the wide loop.                                *)
LEMMA PairLane ==
  ASSUME NEW n, NEW b, ~(b < WideBlocks(n)), b < BlocksOf(n)
  PROVE  LaneOf(n, b) = <<"pair", (b - WideBlocks(n)) % 2, 16 * (b + 1) <= n>>
BY Zenon DEF LaneOf

(* Blocks of the wide loop.                                                *)
LEMMA WideLane ==
  ASSUME NEW n, NEW b, b < WideBlocks(n)
  PROVE  LaneOf(n, b) = <<"wide", b % 8, b >= 8>>
BY Zenon DEF LaneOf

(* Blocks past the output.                                                 *)
LEMMA KeyLane ==
  ASSUME NEW n, NEW b, ~(b < WideBlocks(n)), ~(b < BlocksOf(n))
  PROVE  LaneOf(n, b) = <<"key", b - BlocksOf(n), TRUE>>
BY Zenon DEF LaneOf

(* A wide pass makes eight blocks, each in the lane it is named for.       *)
LEMMA WideNames ==
  ASSUME CodeSizes, IInv, PlaceOK, LanesOK, WidePass,
         Made([i \in 1 .. Wide |-> <<"wide", i - 1, pos > 0>>])
  PROVE  PlaceOK' /\ LanesOK'
<1> DEFINE whole == asked \div 128
           later == pos > 0
           names == [i \in 1 .. 8 |-> <<"wide", i - 1, later>>]
<1>1. /\ asked \in Nat /\ pos \in Nat /\ len = asked - pos /\ pos <= asked /\ len >= 128 /\ ~done
      /\ pos' = pos + 128 /\ len' = len - 128 /\ asked' = asked /\ done' = done
  BY AesAssumption DEF CodeSizes, WidePass, Move, IInv, CallOK, LocalsOK
<1>2. /\ whole \in Nat /\ 128 * whole <= asked /\ asked < 128 * whole + 128
      /\ WideBlocks(asked) = 8 * whole
  BY <1>1 DEF WideBlocks
<1> HIDE DEF whole
<1>3. pos < 128 * whole /\ pos % 128 = 0
  BY <1>1, <1>2 DEF PlaceOK, whole
<1>4. PICK k \in Nat : pos = 128 * k
  BY <1>1, <1>3
<1>5. k < whole /\ pos' = 128 * (k + 1)
  BY <1>1, <1>3, <1>4, <1>2
<1>6. BlocksOf(pos) = 8 * k /\ BlocksOf(pos') = 8 * k + 8
  BY <1>4, <1>5 DEF CodeSizes, BlocksOf, Contract!BlocksOf
<1>7. PlaceOK'
  BY <1>1, <1>5 DEF PlaceOK
<1>8. later \in BOOLEAN
  OBVIOUS
<1>9. Len(lanes) = 8 * k /\ Made(names)
  BY <1>1, <1>6 DEF LanesOK, CodeSizes
<1>10. ASSUME NEW i \in 1 .. 8 PROVE <<"wide", i - 1, later>> = LaneOf(asked, 8 * k + i - 1)
  <2> DEFINE b == 8 * k + i - 1
  <2>1. i - 1 = b % 8 /\ later = (b >= 8)
    BY <1>4
  <2>2. b < WideBlocks(asked)
    BY <1>2, <1>5
  <2> HIDE DEF b, later
  <2>3. <<"wide", i - 1, later>> = LaneOf(asked, b)
    BY <2>1, <2>2 DEF LaneOf
  <2> QED
    BY <2>3 DEF b
<1> HIDE DEF later
<1>11. names \in Seq(LaneNames) /\ Len(names) = 8
  <2>1. \A i \in 1 .. 8 : <<"wide", i - 1, later>> \in LaneNames
    BY <1>8 DEF LaneNames
  <2> QED
    BY <2>1
<1>12. \A i \in 1 .. 8 : names[i] = LaneOf(asked, 8 * k + i - 1)
  BY <1>10
<1>13. 8 * k \in Nat /\ 8 \in Nat /\ UNCHANGED asked
       /\ 8 * k + 8 = IF done' THEN BlocksOf(asked) + 2 ELSE BlocksOf(pos')
  BY <1>1, <1>6
<1> HIDE DEF names
<1>14. LanesOK'
  BY <1>9, <1>11, <1>12, <1>13, LanesGrow, Zenon
<1> QED
  BY <1>7, <1>14

(* A pair makes one block or two, and only the last of a call is cut.      *)
LEMMA PairNamed ==
  ASSUME CodeSizes, IInv, PlaceOK, LanesOK, PairPass, Made(PairNames(PairTake))
  PROVE  PlaceOK' /\ LanesOK'
<1> DEFINE whole == asked \div 128
           take == PairTake
           n == IF take <= 16 THEN 1 ELSE 2
           full == take = 16
           both == take = 32
<1>1. /\ asked \in Nat /\ pos \in Nat /\ len = asked - pos /\ pos <= asked /\ len > 0 /\ len < 128
      /\ ~done /\ asked' = asked /\ done' = done
  BY AesAssumption DEF CodeSizes, PairPass, IInv, CallOK, LocalsOK
<1>2. /\ take \in 1 .. 32 /\ take <= len /\ (take < len => take = 32)
      /\ pos' = pos + take /\ len' = len - take
  BY <1>1 DEF CodeSizes, PairPass, PairTake, Move
<1>3. /\ whole \in Nat /\ 128 * whole <= asked /\ asked < 128 * whole + 128
      /\ WideBlocks(asked) = 8 * whole
  BY <1>1 DEF WideBlocks
<1> HIDE DEF take
<1>4. PICK k \in Nat : pos = 32 * k
  BY <1>1 DEF PlaceOK
<1>5. 128 * whole <= pos
  <2>1. pos < 128 * whole => pos % 128 = 0
    BY DEF PlaceOK
  <2> HIDE DEF whole
  <2> QED
    BY <1>1, <1>3, <2>1
<1>6. PlaceOK'
  <2>1. len' > 0 => pos' = 32 * (k + 1)
    BY <1>1, <1>2, <1>4
  <2>2. pos' >= 128 * whole
    BY <1>2, <1>3, <1>4, <1>5
  <2>3. len' > 0 => pos' % 32 = 0
    BY <2>1, <1>4
  <2>4. (asked \div 128)' = whole
    BY <1>1
  <2> QED
    BY <1>2, <1>3, <1>4, <2>2, <2>3, <2>4 DEF PlaceOK
<1> HIDE DEF whole
<1>7. BlocksOf(pos) = 2 * k /\ BlocksOf(pos') = 2 * k + n
  BY <1>2, <1>4 DEF CodeSizes, BlocksOf, Contract!BlocksOf
<1>8. Len(lanes) = 2 * k
  BY <1>1, <1>7 DEF LanesOK
<1>9. 2 * k + n <= BlocksOf(asked)
  BY <1>1, <1>2, <1>4 DEF CodeSizes, BlocksOf, Contract!BlocksOf
<1>10. /\ full \in BOOLEAN /\ both \in BOOLEAN
       /\ n = 1 => full = (16 * (2 * k + 1) <= asked)
       /\ n = 2 => 16 * (2 * k + 1) <= asked /\ both = (16 * (2 * k + 1 + 1) <= asked)
  BY <1>1, <1>2, <1>4
<1>11. 2 * k >= 8 * whole /\ (2 * k - 8 * whole) % 2 = 0 /\ (2 * k + 1 - 8 * whole) % 2 = 1
  BY <1>3, <1>4, <1>5
<1>12. 2 * k < BlocksOf(asked) /\ (n = 2 => 2 * k + 1 < BlocksOf(asked))
  BY <1>1, <1>2, <1>4 DEF CodeSizes, BlocksOf, Contract!BlocksOf
<1>13. LaneOf(asked, 2 * k) = <<"pair", 0, 16 * (2 * k + 1) <= asked>>
  <2>1. ~(2 * k < WideBlocks(asked)) /\ (2 * k - WideBlocks(asked)) % 2 = 0
    BY <1>3, <1>4, <1>11
  <2> QED
    BY <1>12, <2>1, PairLane
<1>14. n = 2 => LaneOf(asked, 2 * k + 1) = <<"pair", 1, 16 * (2 * k + 1 + 1) <= asked>>
  <2> SUFFICES ASSUME n = 2
               PROVE  LaneOf(asked, 2 * k + 1) = <<"pair", 1, 16 * (2 * k + 1 + 1) <= asked>>
    OBVIOUS
  <2> DEFINE b == 2 * k + 1
  <2>1. ~(b < WideBlocks(asked)) /\ (b - WideBlocks(asked)) % 2 = 1
    BY <1>3, <1>4, <1>11
  <2>2. b < BlocksOf(asked)
    BY <1>12
  <2>3. LaneOf(asked, b) = <<"pair", (b - WideBlocks(asked)) % 2, 16 * (b + 1) <= asked>>
    <3> HIDE DEF b
    <3> QED
      BY <2>1, <2>2, PairLane, Zenon
  <2> QED
    BY <2>1, <2>3, Zenon
<1> DEFINE names == IF n = 1 THEN << <<"pair", 0, full>> >>
                    ELSE << <<"pair", 0, TRUE>>, <<"pair", 1, both>> >>
<1>15. Made(names)
  BY <1>2 DEF PairNames, CodeSizes, take
<1>16. n \in {1, 2}
  OBVIOUS
<1> HIDE DEF n, full, both
<1>17. names \in Seq(LaneNames) /\ Len(names) = n
  <2>1. <<"pair", 0, full>> \in LaneNames /\ <<"pair", 0, TRUE>> \in LaneNames
        /\ <<"pair", 1, both>> \in LaneNames
    BY <1>10 DEF LaneNames
  <2> HIDE DEF LaneNames
  <2> QED
    BY <1>16, <2>1
<1>18. \A i \in 1 .. n : names[i] = LaneOf(asked, 2 * k + i - 1)
  <2> SUFFICES ASSUME NEW i \in 1 .. n PROVE names[i] = LaneOf(asked, 2 * k + i - 1)
    OBVIOUS
  <2>1. CASE i = 1
    <3>1. 2 * k + i - 1 = 2 * k
      BY <2>1
    <3> QED
      BY <1>10, <1>13, <1>16, <2>1, <3>1
  <2>2. CASE i = 2
    <3>1. 2 * k + i - 1 = 2 * k + 1 /\ n = 2
      BY <1>16, <2>2
    <3> QED
      BY <1>10, <1>14, <2>2, <3>1
  <2> QED
    BY <1>16, <2>1, <2>2
<1> HIDE DEF names
<1>19. 2 * k \in Nat /\ n \in Nat /\ UNCHANGED asked
       /\ 2 * k + n = IF done' THEN BlocksOf(asked) + 2 ELSE BlocksOf(pos')
  BY <1>1, <1>7, <1>16
<1>20. LanesOK'
  BY <1>8, <1>15, <1>17, <1>18, <1>19, LanesGrow, Zenon
<1> QED
  BY <1>6, <1>20

(* What is left makes the key.                                             *)
LEMMA KeyNamed ==
  ASSUME CodeSizes, IInv, PlaceOK, LanesOK, Rekey, Made(KeyNames)
  PROVE  PlaceOK' /\ LanesOK'
<1> DEFINE m == BlocksOf(asked)
<1>1. /\ asked \in Nat /\ pos = asked /\ len = 0 /\ ~done /\ done'
      /\ asked' = asked /\ pos' = pos /\ len' = len
  BY AesAssumption DEF CodeSizes, Rekey, IInv, CallOK, LocalsOK
<1>2. m \in Nat /\ 8 * (asked \div 128) <= m
  BY <1>1 DEF CodeSizes, BlocksOf, Contract!BlocksOf
<1>3. Len(lanes) = m
  BY <1>1 DEF LanesOK
<1>4. PlaceOK'
  BY <1>1 DEF PlaceOK
<1> HIDE DEF m
<1>5. /\ LaneOf(asked, m) = <<"key", 0, TRUE>>
      /\ LaneOf(asked, m + 1) = <<"key", 1, TRUE>>
  <2>1. ~(m < 8 * (asked \div 128)) /\ ~(m + 1 < 8 * (asked \div 128)) /\ ~(m < m) /\ ~(m + 1 < m)
        /\ m - m = 0 /\ (m + 1) - m = 1
    BY <1>1, <1>2
  <2>2. BlocksOf(asked) = m /\ WideBlocks(asked) = 8 * (asked \div 128)
    BY DEF m, WideBlocks
  <2>3. LaneOf(asked, m) = <<"key", m - BlocksOf(asked), TRUE>>
    BY <2>1, <2>2, KeyLane
  <2>4. LaneOf(asked, m + 1) = <<"key", (m + 1) - BlocksOf(asked), TRUE>>
    BY <2>1, <2>2, KeyLane
  <2> QED
    BY <2>1, <2>2, <2>3, <2>4
<1>6. KeyNames \in Seq(LaneNames) /\ Len(KeyNames) = 2
  <2>1. <<"key", 0, TRUE>> \in LaneNames /\ <<"key", 1, TRUE>> \in LaneNames
    BY DEF LaneNames
  <2> QED
    BY <2>1 DEF KeyNames
<1>7. \A i \in 1 .. 2 : KeyNames[i] = LaneOf(asked, m + i - 1)
  <2>1. KeyNames[1] = LaneOf(asked, m) /\ KeyNames[2] = LaneOf(asked, m + 1)
    BY <1>5 DEF KeyNames
  <2>2. m + 1 - 1 = m /\ m + 2 - 1 = m + 1
    BY <1>2
  <2> QED
    BY <2>1, <2>2
<1>8. 2 \in Nat /\ UNCHANGED asked
      /\ m + 2 = IF done' THEN BlocksOf(asked) + 2 ELSE BlocksOf(pos')
  BY <1>1 DEF m
<1>9. LanesOK'
  BY <1>2, <1>3, <1>6, <1>7, <1>8, LanesGrow, Zenon
<1> QED
  BY <1>4, <1>9

(* The next call begins as the first did.                                  *)
LEMMA CallBegins ==
  ASSUME NEW n \in 0 .. OutSize, NEW start \in 0 .. Lane - 1
  PROVE  /\ (start + BlocksOf(0)) % Lane = start
         /\ [i \in 0 .. OutSize - 1 |-> Contract!Untouched]
              = [i \in 0 .. OutSize - 1 |->
                   IF i < 0 THEN Contract!Keystream(start + i \div Block, i)
                   ELSE Contract!Untouched]
<1>1. Lane \in Nat \ {0} /\ Block \in Nat \ {0} /\ OutSize \in Nat
  BY AesAssumption
<1>2. BlocksOf(0) = 0
  <2>1. Block * 0 = 0
    BY <1>1
  <2> QED
    BY <2>1, BlocksOfWhole
<1> QED
  BY <1>1, <1>2

(* A case is started on a counter and asks for no more than there is.      *)
LEMMA StartIsCounter ==
  ASSUME CodeSizes, NEW v \in Vectors, NEW i \in 1 .. 19
  PROVE  StartOf(v, i) \in 0 .. Lane - 1 /\ CaseLen(i) \in 0 .. OutSize
<1>1. Lane \in Nat \ {0} /\ Lane > 258 /\ OutSize \in Nat
  BY AesAssumption DEF CodeSizes
<1>2. CaseLen(i) \in 1 .. 256 /\ CaseBlock(i) \in 0 .. 15
  BY CaseBounds
<1>3. v \in Nat
  BY <1>1 DEF CodeSizes
<1> DEFINE n == v + Lane - CaseBlock(i)
<1>4. n \in Nat
  BY <1>1, <1>2, <1>3
<1> HIDE DEF n
<1>5. n % Lane \in 0 .. Lane - 1
  BY <1>1, <1>4
<1> QED
  BY <1>1, <1>2, <1>5 DEF CodeSizes, StartOf, n

(* The first case, before its call.                                        *)
LEMMA InitSelftest == ASSUME CodeSizes, SelftestInit PROVE SelftestInv
<1>1. PICK start \in 0 .. Lane - 1 : start = StartOf(vector, 1) /\ vector \in Vectors
  <2>1. 1 \in 1 .. 19 /\ vector \in Vectors
    BY DEF SelftestInit
  <2>2. StartOf(vector, 1) \in 0 .. Lane - 1
    BY <2>1, StartIsCounter
  <2> QED
    BY <2>1, <2>2
<1>2. CaseLen(1) = 128 /\ CaseBlock(1) = 0
  BY DEF CaseLen, CaseBlock, Cases
<1>3. /\ asked = 128 /\ from = start /\ ctr = start /\ c = start /\ pos = 0 /\ len = 128 /\ ~done
      /\ done \in BOOLEAN /\ key = Contract!OldKey
      /\ out = [i \in 0 .. OutSize - 1 |-> Contract!Untouched]
  BY <1>1, <1>2 DEF SelftestInit, Call
<1>4. Block \in Nat \ {0} /\ OutSize \in Nat /\ OutSize > 256 /\ BlocksOf(0) = 0
  BY AesAssumption DEF CodeSizes, BlocksOf, Contract!BlocksOf
<1>5. IInv
  <2>1. CallOK /\ ReturnOK
    BY <1>3, <1>4 DEF CallOK, ReturnOK
  <2>2. LocalsOK
    <3>1. c = (from + BlocksOf(pos)) % Lane
      BY <1>3, CallBegins, <1>4
    <3>2. pos = Block * 0 /\ 0 \in Nat
      BY <1>3, <1>4
    <3> QED
      BY <1>3, <3>1, <3>2 DEF LocalsOK
  <2>3. out = Stream(pos)
    BY <1>3, <1>4, CallBegins DEF Stream, Contract!Stream
  <2> QED
    BY <1>3, <2>1, <2>2, <2>3 DEF IInv
<1>6. PlaceOK
  BY <1>3 DEF PlaceOK
<1>7. LanesOK
  BY <1>3, <1>4 DEF SelftestInit, LanesOK
<1>8. CaseOK
  BY <1>1, <1>2, <1>3, CaseBounds DEF SelftestInit, CaseOK
<1>9. CoveredOK
  <2>1. Compared1(0) = {}
    BY DEF Compared1
  <2> QED
    BY <2>1 DEF SelftestInit, CoveredOK
<1> QED
  BY <1>5, <1>6, <1>7, <1>8, <1>9 DEF SelftestInv

(* A right loop passes each case.                                          *)
LEMMA RightPasses == ASSUME CodeSizes, SelftestInv, done PROVE Passes(at)
<1> DEFINE n == CaseLen(at)
           blk == CaseBlock(at)
           made == BlocksOf(n)
<1>1. n \in 1 .. 256 /\ blk \in 0 .. 15 /\ 16 * (blk - 1) < n + 15 /\ n = asked
  BY CaseBounds DEF SelftestInv, CaseOK
<1>2. /\ Lane \in Nat \ {0} /\ Lane > 258 /\ OutSize \in Nat /\ OutSize > 256 /\ Block = 16
      /\ vector \in 0 .. Lane - 1
  BY AesAssumption DEF CodeSizes, SelftestInv, CaseOK
<1>3. /\ pos = n /\ out = Stream(n) /\ key = Contract!KeyFrom(from + made)
      /\ ctr = (from + made + 2) % Lane
  BY <1>1, <1>2 DEF SelftestInv, IInv, CallOK, LocalsOK, ReturnOK
<1>4. made \in Nat /\ made = Contract!BlocksOf(n) /\ blk < made + 2 /\ made <= 16
  BY <1>1, <1>2 DEF BlocksOf, Contract!BlocksOf
<1> HIDE DEF n, blk, made
<1>5. from \in Nat /\ (from + blk) % Lane = vector
  <2>1. from = (vector + Lane - blk) % Lane
    BY DEF SelftestInv, CaseOK, StartOf, blk
  <2> DEFINE a == vector + Lane - blk
  <2>2. a \in Nat /\ a + blk = vector + Lane
    BY <1>1, <1>2
  <2> HIDE DEF a
  <2>3. ((a % Lane) + blk) % Lane = (a + blk) % Lane
    BY <1>1, <1>2, <2>2, ModAdd
  <2>4. (vector + Lane) % Lane = vector
    <3>1. (Lane * 1 + vector) % Lane = vector
      BY <1>2, DivUnique
    <3>2. Lane * 1 + vector = vector + Lane
      BY <1>2
    <3> QED
      BY <3>1, <3>2
  <2>5. a % Lane \in Nat
    BY <1>2, <2>2
  <2> QED
    BY <2>1, <2>2, <2>3, <2>4, <2>5 DEF a
<1>6. out[n] = Contract!Untouched
  <2>1. n \in 0 .. OutSize - 1 /\ ~(n < n)
    BY <1>1, <1>2
  <2> QED
    BY <1>3, <2>1, Zenon DEF Stream, Contract!Stream
<1>7. ASSUME NEW j \in blk * Block .. blk * Block + Block - 1, j < n
      PROVE  out[j] = Contract!Keystream(vector, j)
  <2>1. j \div 16 = blk /\ j \in 0 .. OutSize - 1 /\ j \in Nat
    BY <1>1, <1>2, <1>7
  <2>2. out[j] = Contract!Keystream(from + blk, j)
    BY <1>2, <1>3, <1>7, <2>1 DEF Stream, Contract!Stream
  <2>3. vector % Lane = vector
    BY <1>2
  <2> QED
    BY <1>5, <2>2, <2>3 DEF Contract!Keystream
<1>8. ASSUME ~(blk < made) PROVE key[blk - made + 1] = vector
  <2>1. CASE blk = made
    <3>1. key[1] = (from + made) % Lane /\ blk - made + 1 = 1
      BY <1>3, <1>4, <2>1 DEF Contract!KeyFrom
    <3> QED
      BY <1>5, <2>1, <3>1
  <2>2. CASE blk = made + 1
    <3>1. key[2] = (from + made + 1) % Lane /\ blk - made + 1 = 2
      BY <1>3, <1>4, <2>2 DEF Contract!KeyFrom
    <3>2. from + made + 1 = from + blk
      BY <1>4, <1>5, <2>2
    <3> QED
      BY <1>5, <3>1, <3>2
  <2> QED
    BY <1>1, <1>4, <1>8, <2>1, <2>2
<1>9. Compared(at)
  BY <1>4, <1>7, <1>8 DEF Compared, n, blk
<1> QED
  BY <1>3, <1>4, <1>6, <1>9 DEF Passes, n

(* The block a case looks at is the one it is there for.                   *)
LEMMA ComparedNow ==
  ASSUME CodeSizes, SelftestInv, done, verdict = "none", Compare
  PROVE  covered' = Compared1(at)
<1> DEFINE b == CaseBlock(at)
<1>1. at \in 1 .. 19 /\ asked = CaseLen(at) /\ covered = Compared1(at - 1)
  BY CaseBounds DEF SelftestInv, CaseOK, CoveredOK
<1>2. b \in 0 .. 15 /\ CaseLen(at) \in 1 .. 256 /\ 16 * (b - 1) < CaseLen(at) + 15
  BY <1>1, CaseBounds
<1>3. b < BlocksOf(CaseLen(at)) + 2
  BY <1>2 DEF CodeSizes, BlocksOf, Contract!BlocksOf
<1> HIDE DEF b
<1>4. b \in 0 .. Len(lanes) - 1
  BY <1>1, <1>2, <1>3 DEF SelftestInv, LanesOK
<1>5. lanes[b + 1] = LaneOf(CaseLen(at), b)
  BY <1>1, <1>4 DEF SelftestInv, LanesOK
<1>6. covered' = Compared1(at - 1) \cup {LaneOf(CaseLen(at), CaseBlock(at))}
  BY <1>1, <1>5 DEF Compare, b
<1>7. \A i : i \in 1 .. at <=> i \in 1 .. at - 1 \/ i = at
  BY <1>1
<1> QED
  BY <1>6, <1>7, Zenon DEF Compared1

(* A step of a call.                                                       *)
LEMMA RunKeeps == ASSUME CodeSizes, SelftestInv, Run PROVE SelftestInv'
<1>1. IInv /\ PlaceOK /\ LanesOK
  BY DEF SelftestInv
<1>2. IInv'
  BY <1>1, WidePassKeeps, PairPassKeeps, RekeyKeeps DEF Run
<1>3. PlaceOK' /\ LanesOK'
  BY <1>1, WideNames, PairNamed, KeyNamed DEF Run
<1>4. ~done /\ UNCHANGED <<asked, from, vector, at, verdict, covered>>
  BY DEF Run, WidePass, PairPass, Rekey
<1>5. CaseOK'
  BY <1>4 DEF SelftestInv, CaseOK, CaseLen, StartOf, CaseBlock
<1>6. CoveredOK'
  BY <1>4 DEF SelftestInv, CoveredOK, Compared1
<1> QED
  BY <1>2, <1>3, <1>5, <1>6 DEF SelftestInv

(* The next case.                                                          *)
LEMMA NextCaseKeeps == ASSUME CodeSizes, SelftestInv, NextCase PROVE SelftestInv'
<1> DEFINE n == CaseLen(at + 1)
           start == StartOf(vector, at + 1)
<1>1. /\ at \in 1 .. 18 /\ at' = at + 1 /\ at + 1 \in 1 .. 19 /\ verdict = "none" /\ done
      /\ vector \in Vectors /\ vector' = vector /\ verdict' = verdict
  BY CaseBounds DEF NextCase, SelftestInv, CaseOK
<1>2. start \in 0 .. Lane - 1 /\ n \in 0 .. OutSize /\ n \in 1 .. 256
  BY <1>1, StartIsCounter, CaseBounds
<1>3. /\ asked' = n /\ from' = start /\ ctr' = start /\ c' = start /\ pos' = 0 /\ len' = n
      /\ done' = FALSE /\ key' = Contract!OldKey /\ lanes' = << >>
      /\ out' = [i \in 0 .. OutSize - 1 |-> Contract!Untouched]
  BY DEF NextCase
<1> HIDE DEF n, start
<1>4. Block \in Nat \ {0} /\ OutSize \in Nat /\ OutSize > 256 /\ BlocksOf(0) = 0
  BY AesAssumption DEF CodeSizes, BlocksOf, Contract!BlocksOf
<1>5. BlocksOf(pos)' = 0
  BY <1>3, <1>4 DEF BlocksOf, Contract!BlocksOf
<1>6. IInv'
  <2>1. CallOK' /\ ReturnOK'
    BY <1>2, <1>3, <1>4 DEF CallOK, ReturnOK
  <2>2. LocalsOK'
    <3>1. c' = (from' + BlocksOf(0)) % Lane
      BY <1>2, <1>3, CallBegins
    <3>2. c' = (from' + BlocksOf(pos)') % Lane
      BY <3>1, <1>4, <1>5
    <3>3. pos' = Block * 0 /\ 0 \in Nat
      BY <1>3, <1>4
    <3> QED
      BY <1>2, <1>3, <3>2, <3>3 DEF LocalsOK
  <2>3. out' = Stream(pos)'
    BY <1>2, <1>3, <1>4, CallBegins DEF Stream, Contract!Stream, Contract!Keystream
  <2> QED
    BY <1>3, <2>1, <2>2, <2>3 DEF IInv
<1>7. PlaceOK'
  BY <1>2, <1>3 DEF PlaceOK
<1>8. LanesOK'
  BY <1>3, <1>5 DEF LanesOK
<1>9. CaseOK'
  BY <1>1, <1>3, CaseBounds DEF CaseOK, n, start, CaseLen, StartOf, CaseBlock
<1>10. CoveredOK'
  <2>1. covered' = Compared1(at)
    BY <1>1, ComparedNow DEF NextCase
  <2>2. at' - 1 = at
    BY <1>1
  <2> QED
    BY <1>1, <2>1, <2>2 DEF CoveredOK, Compared1
<1> QED
  BY <1>6, <1>7, <1>8, <1>9, <1>10 DEF SelftestInv

(* The verdict on a right loop.                                            *)
LEMMA DecideKeeps == ASSUME CodeSizes, SelftestInv, Decide PROVE SelftestInv'
<1>1. done /\ verdict = "none" /\ Passes(at)
  BY RightPasses DEF Decide
<1>2. /\ at = Len(Cases) /\ verdict' = "passes" /\ at' = at
      /\ UNCHANGED <<vars, vector, at, lanes>>
  BY <1>1 DEF Decide
<1>3. covered' = Compared1(at)
  BY <1>1, ComparedNow DEF Decide
<1>4. IInv'
  BY <1>2, NextIInv DEF SelftestInv
<1>5. PlaceOK' /\ LanesOK' /\ CaseOK'
  BY <1>2 DEF vars, memory, SelftestInv, PlaceOK, LanesOK, CaseOK, CaseLen, CaseBlock, StartOf, LaneOf,
              WideBlocks, BlocksOf, Contract!BlocksOf
<1>6. CoveredOK'
  BY <1>1, <1>2, <1>3 DEF vars, CoveredOK, Compared1
<1> QED
  BY <1>4, <1>5, <1>6 DEF SelftestInv

(* At every step of fu_aes_selftest() the block loop is where its contract *)
(* says, each block of the call was made by the part of the code that its  *)
(* number and the length tell, and each case behind was compared.          *)
THEOREM SelftestHolds ==
  ASSUME CodeSizes
  PROVE  SelftestSpec => []SelftestInv
<1>1. SelftestInit => SelftestInv
  BY InitSelftest
<1>2. SelftestInv /\ [SelftestNext]_selftestVars => SelftestInv'
  <2> SUFFICES ASSUME SelftestInv, [SelftestNext]_selftestVars PROVE SelftestInv'
    OBVIOUS
  <2>1. CASE UNCHANGED selftestVars
    <3>1. UNCHANGED <<vars, vector, at, verdict, lanes, covered>>
      BY <2>1 DEF selftestVars
    <3>2. IInv'
      BY <3>1, NextIInv DEF SelftestInv
    <3>3. PlaceOK' /\ LanesOK' /\ CaseOK' /\ CoveredOK'
      BY <3>1 DEF vars, memory, SelftestInv, PlaceOK, LanesOK, CaseOK, CoveredOK, Compared1,
                  CaseLen, CaseBlock, StartOf, LaneOf, WideBlocks, BlocksOf, Contract!BlocksOf
    <3> QED
      BY <3>2, <3>3 DEF SelftestInv
  <2> QED
    BY <2>1, RunKeeps, NextCaseKeeps, DecideKeeps DEF SelftestNext
<1> QED
  BY <1>1, <1>2, PTL DEF SelftestSpec

(* fu_aes_selftest() never refuses a block loop that is right, so MINIT    *)
(* never gives up hardware AES that works, whatever the vector's counter.  *)
THEOREM RightNeverRefused ==
  ASSUME CodeSizes
  PROVE  SelftestSpec => [](verdict # "fails")
<1>1. SelftestInv => verdict # "fails"
  BY DEF SelftestInv, CoveredOK
<1> QED
  BY <1>1, SelftestHolds, PTL

(* What the comment at the cases of fu_aes_selftest() says: when it passes *)
(* it has looked at a block of every lane of the wide loop, first and      *)
(* later passes, of both places of a pair, and of both key blocks.         *)
THEOREM LanesCovered ==
  ASSUME CodeSizes
  PROVE  SelftestSpec => []CoversEveryLane
<1>1. SelftestInv => CoversEveryLane
  <2> SUFFICES ASSUME SelftestInv, verdict = "passes"
               PROVE  /\ \A lane \in 0 .. Wide - 1 : <<"wide", lane, FALSE>> \in covered
                      /\ \E lane \in 0 .. Wide - 1 : <<"wide", lane, TRUE>> \in covered
                      /\ <<"pair", 0, TRUE>> \in covered /\ <<"pair", 1, TRUE>> \in covered
                      /\ \E place \in {0, 1} : <<"pair", place, FALSE>> \in covered
                      /\ {<<"key", 0, TRUE>>, <<"key", 1, TRUE>>} \subseteq covered
    BY DEF CoversEveryLane
  <2>1. covered = {LaneOf(CaseLen(i), CaseBlock(i)) : i \in 1 .. 19}
    BY CaseBounds DEF SelftestInv, CoveredOK, Compared1
  <2>2. ASSUME NEW i \in 1 .. 19, NEW name, LaneOf(CaseLen(i), CaseBlock(i)) = name
        PROVE  name \in covered
    BY <2>1, <2>2, Zenon
  <2>3. /\ \A i \in 1 .. 8 : CaseLen(i) = 128 /\ CaseBlock(i) = i - 1
        /\ CaseLen(9) = 256 /\ CaseBlock(9) = 8
        /\ CaseLen(12) = 144 /\ CaseBlock(12) = 8
        /\ CaseLen(13) = 160 /\ CaseBlock(13) = 9
        /\ CaseLen(15) = 183 /\ CaseBlock(15) = 11
        /\ CaseLen(16) = 48 /\ CaseBlock(16) = 3
        /\ CaseLen(17) = 48 /\ CaseBlock(17) = 4
    BY DEF CaseLen, CaseBlock, Cases
  <2>4. /\ WideBlocks(128) = 8 /\ WideBlocks(256) = 16 /\ WideBlocks(144) = 8 /\ WideBlocks(160) = 8
        /\ WideBlocks(183) = 8 /\ WideBlocks(48) = 0
        /\ BlocksOf(144) = 9 /\ BlocksOf(160) = 10 /\ BlocksOf(183) = 12 /\ BlocksOf(48) = 3
    BY DEF CodeSizes, WideBlocks, BlocksOf, Contract!BlocksOf
  <2>5. ASSUME NEW lane \in 0 .. 7 PROVE <<"wide", lane, FALSE>> \in covered
    <3>1. lane < WideBlocks(128) /\ lane % 8 = lane /\ (lane >= 8) = FALSE
      BY <2>4
    <3>2. LaneOf(128, lane) = <<"wide", lane, FALSE>>
      BY <3>1, WideLane, Zenon
    <3>3. lane + 1 \in 1 .. 19 /\ CaseLen(lane + 1) = 128 /\ CaseBlock(lane + 1) = lane
      BY <2>3
    <3>4. LaneOf(CaseLen(lane + 1), CaseBlock(lane + 1)) = <<"wide", lane, FALSE>>
      BY <3>2, <3>3
    <3> QED
      BY <2>2, <3>3, <3>4, Zenon
  <2>6. <<"wide", 0, TRUE>> \in covered
    <3>1. 8 < WideBlocks(256) /\ 8 % 8 = 0 /\ (8 >= 8) = TRUE
      BY <2>4
    <3>2. LaneOf(256, 8) = <<"wide", 0, TRUE>>
      BY <3>1, WideLane, Zenon
    <3>3. PICK i \in 1 .. 19 : CaseLen(i) = 256 /\ CaseBlock(i) = 8
      BY <2>3
    <3>4. LaneOf(CaseLen(i), CaseBlock(i)) = <<"wide", 0, TRUE>>
      BY <3>2, <3>3
    <3> QED
      BY <2>2, <3>4, Zenon
  <2>7. <<"pair", 0, TRUE>> \in covered
    <3>1. ~(8 < WideBlocks(144)) /\ 8 < BlocksOf(144) /\ (8 - WideBlocks(144)) % 2 = 0
          /\ (16 * (8 + 1) <= 144) = TRUE
      BY <2>4
    <3>2. LaneOf(144, 8) = <<"pair", 0, TRUE>>
      BY <3>1, PairLane, Zenon
    <3>3. PICK i \in 1 .. 19 : CaseLen(i) = 144 /\ CaseBlock(i) = 8
      BY <2>3
    <3>4. LaneOf(CaseLen(i), CaseBlock(i)) = <<"pair", 0, TRUE>>
      BY <3>2, <3>3
    <3> QED
      BY <2>2, <3>4, Zenon
  <2>8. <<"pair", 1, TRUE>> \in covered
    <3>1. ~(9 < WideBlocks(160)) /\ 9 < BlocksOf(160) /\ (9 - WideBlocks(160)) % 2 = 1
          /\ (16 * (9 + 1) <= 160) = TRUE
      BY <2>4
    <3>2. LaneOf(160, 9) = <<"pair", 1, TRUE>>
      BY <3>1, PairLane, Zenon
    <3>3. PICK i \in 1 .. 19 : CaseLen(i) = 160 /\ CaseBlock(i) = 9
      BY <2>3
    <3>4. LaneOf(CaseLen(i), CaseBlock(i)) = <<"pair", 1, TRUE>>
      BY <3>2, <3>3
    <3> QED
      BY <2>2, <3>4, Zenon
  <2>9. <<"pair", 1, FALSE>> \in covered
    <3>1. ~(11 < WideBlocks(183)) /\ 11 < BlocksOf(183) /\ (11 - WideBlocks(183)) % 2 = 1
          /\ (16 * (11 + 1) <= 183) = FALSE
      BY <2>4
    <3>2. LaneOf(183, 11) = <<"pair", 1, FALSE>>
      BY <3>1, PairLane, Zenon
    <3>3. PICK i \in 1 .. 19 : CaseLen(i) = 183 /\ CaseBlock(i) = 11
      BY <2>3
    <3>4. LaneOf(CaseLen(i), CaseBlock(i)) = <<"pair", 1, FALSE>>
      BY <3>2, <3>3
    <3> QED
      BY <2>2, <3>4, Zenon
  <2>10. <<"key", 0, TRUE>> \in covered
    <3>1. ~(3 < WideBlocks(48)) /\ ~(3 < BlocksOf(48)) /\ 3 - BlocksOf(48) = 0
      BY <2>4
    <3>2. LaneOf(48, 3) = <<"key", 0, TRUE>>
      BY <3>1, KeyLane, Zenon
    <3>3. PICK i \in 1 .. 19 : CaseLen(i) = 48 /\ CaseBlock(i) = 3
      BY <2>3
    <3>4. LaneOf(CaseLen(i), CaseBlock(i)) = <<"key", 0, TRUE>>
      BY <3>2, <3>3
    <3> QED
      BY <2>2, <3>4, Zenon
  <2>11. <<"key", 1, TRUE>> \in covered
    <3>1. ~(4 < WideBlocks(48)) /\ ~(4 < BlocksOf(48)) /\ 4 - BlocksOf(48) = 1
      BY <2>4
    <3>2. LaneOf(48, 4) = <<"key", 1, TRUE>>
      BY <3>1, KeyLane, Zenon
    <3>3. PICK i \in 1 .. 19 : CaseLen(i) = 48 /\ CaseBlock(i) = 4
      BY <2>3
    <3>4. LaneOf(CaseLen(i), CaseBlock(i)) = <<"key", 1, TRUE>>
      BY <3>2, <3>3
    <3> QED
      BY <2>2, <3>4, Zenon
  <2> QED
    BY <2>5, <2>6, <2>7, <2>8, <2>9, <2>10, <2>11 DEF CodeSizes
<1> QED
  BY <1>1, SelftestHolds, PTL
=============================================================================
