----------------------------- MODULE TimeProofs -----------------------------
(***************************************************************************)
(* ExplicitTime for any spans, limbs and integers and any times: what is   *)
(* refused, what is read back, and what the products on the way need.      *)
(***************************************************************************)
EXTENDS ExplicitTime, TLAPS

-----------------------------------------------------------------------------
(* Division with remainder by a divisor that is a variable, which the SMT  *)
(* solver does not decide by itself.                                       *)

(* The defining equation of \div and %.                                    *)
LEMMA DivMod ==
  ASSUME NEW n \in Int, NEW d \in Nat \ {0}
  PROVE  n = d * (n \div d) + (n % d) /\ n % d \in 0 .. d - 1 /\ n \div d \in Int
OBVIOUS

(* There is one quotient and one remainder.                                *)
LEMMA DivUnique ==
  ASSUME NEW d \in Nat \ {0}, NEW q \in Int, NEW r \in 0 .. d - 1
  PROVE  (d * q + r) \div d = q /\ (d * q + r) % d = r
<1> DEFINE n == d * q + r
           p == n \div d
           s == n % d
<1>1. n \in Int /\ r \in Int /\ d * q \in Int
  OBVIOUS
<1>2. n = d * p + s /\ s \in 0 .. d - 1 /\ p \in Int
  <2> HIDE DEF n
  <2> QED
    BY <1>1, DivMod
<1> HIDE DEF p, s
<1>3. d * (p - q) = r - s
  BY <1>2
<1>4. p = q
  <2>1. CASE p > q
    <3>1. d * (p - q) >= d
      BY <2>1, <1>2
    <3> QED
      BY <3>1, <1>3, <1>2
  <2>2. CASE p < q
    <3>1. d * (p - q) <= -d
      BY <2>2, <1>2
    <3> QED
      BY <3>1, <1>3, <1>2
  <2> QED
    BY <2>1, <2>2, <1>2
<1>5. s = r
  BY <1>4, <1>3, <1>2
<1> QED
  BY <1>4, <1>5 DEF n, p, s

-----------------------------------------------------------------------------
(* Division.                                                               *)

(* A quotient of a quotient.                                               *)
LEMMA DivDiv ==
  ASSUME NEW n \in Nat, NEW d \in Nat \ {0}, NEW e \in Nat \ {0}
  PROVE  (n \div d) \div e = n \div (d * e) /\ n \div (d * e) \in Nat /\ n \div d \in Nat
<1> DEFINE q == n \div d
           r == n % d
           p == q \div e
           s == q % e
<1>1. n = d * q + r /\ r \in 0 .. d - 1 /\ q \in Int
  BY DivMod
<1>2. q \in Nat
  <2> HIDE DEF q, r
  <2>1. ASSUME q < 0 PROVE FALSE
    <3>1. d * q <= -d
      BY <1>1, <2>1
    <3> QED
      BY <1>1, <3>1
  <2> QED
    BY <1>1, <2>1
<1> HIDE DEF q, r
<1>3. q = e * p + s /\ s \in 0 .. e - 1 /\ p \in Int
  BY <1>2, DivMod
<1>4. p \in Nat
  <2> HIDE DEF p, s
  <2>1. ASSUME p < 0 PROVE FALSE
    <3>1. e * p <= -e
      BY <1>3, <2>1
    <3> QED
      BY <1>2, <1>3, <3>1
  <2> QED
    BY <1>3, <2>1
<1> HIDE DEF p, s
<1> DEFINE de == d * e
           rest == d * s + r
<1>5. de \in Nat \ {0}
  BY Z3
<1>6. n = de * p + rest
  <2>1. d * q = d * (e * p) + d * s
    BY <1>1, <1>3
  <2>2. d * (e * p) = de * p
    BY <1>4
  <2>3. d * s \in Int /\ d * (e * p) \in Int /\ d * q \in Int
    BY <1>1, <1>3
  <2> HIDE DEF de
  <2> QED
    BY <1>1, <2>1, <2>2, <2>3
<1>7. rest \in 0 .. de - 1
  <2>1. d * s <= d * (e - 1) /\ d * s >= 0 /\ d * s \in Int
    BY <1>3
  <2>2. d * (e - 1) = de - d
    OBVIOUS
  <2> HIDE DEF de
  <2> QED
    BY <1>1, <1>5, <2>1, <2>2
<1> HIDE DEF de, rest
<1>8. n \div de = p
  BY <1>4, <1>5, <1>6, <1>7, DivUnique
<1> QED
  BY <1>2, <1>4, <1>8 DEF de, p, q

(* A quotient is as small as its number, and a whole.                      *)
LEMMA DivBelow ==
  ASSUME NEW n \in Nat, NEW d \in Nat \ {0}, NEW e \in Nat
  PROVE  /\ n \div d \in Nat
         /\ n < d * e <=> n \div d < e
<1> DEFINE q == n \div d
           r == n % d
<1>1. n = d * q + r /\ r \in 0 .. d - 1 /\ q \in Int
  BY DivMod
<1> HIDE DEF q, r
<1>2. q \in Nat
  <2>1. ASSUME q < 0 PROVE FALSE
    <3>1. d * q <= -d
      BY <1>1, <2>1
    <3> QED
      BY <1>1, <3>1
  <2> QED
    BY <1>1, <2>1
<1>3. ASSUME q < e PROVE n < d * e
  <2>1. d * (q + 1) <= d * e
    BY <1>2, <1>3
  <2>2. d * (q + 1) = d * q + d
    BY <1>2
  <2>3. d * q \in Int /\ d * e \in Int
    BY <1>2
  <2> QED
    BY <1>1, <2>1, <2>2, <2>3
<1>4. ASSUME n < d * e PROVE q < e
  <2>1. ASSUME q >= e PROVE FALSE
    <3>1. d * q >= d * e /\ d * q \in Int /\ d * e \in Int
      BY <1>2, <2>1
    <3> QED
      BY <1>1, <1>4, <3>1
  <2> QED
    BY <1>2, <2>1
<1> QED
  BY <1>2, <1>3, <1>4 DEF q

(* One limb of a product: its carry goes to the next.                      *)
Carried(s, k, c) == s * k + c

LEMMA LimbOfProduct ==
  ASSUME NEW L \in Nat \ {0}, NEW s \in Nat, NEW k \in Nat, NEW c \in Nat
  PROVE  /\ Carried(s, k, c) % L = Carried(s % L, k, c) % L
         /\ Carried(s, k, c) \div L = Carried(s \div L, k, Carried(s % L, k, c) \div L)
         /\ Carried(s % L, k, c) \div L \in Nat
<1> DEFINE q == s \div L
           l == s % L
           p == l * k + c
           a == p \div L
           b == p % L
           t == q * k + a
           n == s * k + c
<1>1. s = L * q + l /\ l \in 0 .. L - 1 /\ q \in Int
  BY DivMod
<1> HIDE DEF q, l
<1>2. p \in Nat
  BY <1>1
<1> HIDE DEF p
<1>3. p = L * a + b /\ b \in 0 .. L - 1 /\ a \in Int
  BY <1>2, DivMod
<1>4. a \in Nat
  BY <1>2, DivBelow
<1> HIDE DEF a, b
<1>5. t \in Int
  BY <1>1, <1>3
<1>6. n = L * t + b
  <2>1. s * k = (L * q) * k + l * k
    BY <1>1
  <2>2. (L * q) * k = L * (q * k)
    BY <1>1
  <2>3. L * t = L * (q * k) + L * a
    BY <1>1, <1>3
  <2> QED
    BY <1>1, <1>3, <2>1, <2>2, <2>3 DEF p
<1> HIDE DEF t, n
<1>7. n \div L = t /\ n % L = b
  BY <1>3, <1>5, <1>6, DivUnique
<1> QED
  BY <1>2, <1>4, <1>7 DEF n, t, a, b, p, l, q, Carried

LEMMA DivNat ==
  ASSUME NEW n \in Nat, NEW d \in Nat \ {0}
  PROVE  n \div d \in Nat
<1>1. 0 \in Nat
  OBVIOUS
<1> QED
  BY <1>1, DivBelow

(* What is less than the divisor is its own remainder.                     *)
LEMMA ModSmall ==
  ASSUME NEW d \in Nat \ {0}, NEW n \in 0 .. d - 1
  PROVE  n % d = n
<1>1. d * 0 + n = n
  OBVIOUS
<1>2. (d * 0 + n) % d = n
  BY DivUnique
<1> QED
  BY <1>1, <1>2

-----------------------------------------------------------------------------
(* Spans and bounds.                                                       *)
LEMMA Spans ==
  /\ MsPerSec \in Nat \ {0} /\ MicrosPerMs \in Nat \ {0} /\ TicksPerMicro \in Nat \ {0}
  /\ Limb \in Nat \ {0} /\ LowSpan \in Nat \ {0} /\ MidSpan \in Nat \ {0} /\ HiSpan \in Nat \ {0}
  /\ SubSlots \in Nat \ {0} /\ MicrosPerMs <= SubSlots /\ MsPerSec <= Limb
  /\ EpochSecs \in Nat /\ SecGuard \in Nat
BY TimeAssumption

LEMMA Bounds ==
  /\ MicrosPerSec \in Nat \ {0} /\ TicksPerSec \in Nat \ {0} /\ TicksPerMicro <= TicksPerSec
  /\ MsMax \in Nat /\ TickMax \in Nat /\ Epoch \in Nat
  /\ MsMax = MsPerSec * SecMax + (MsMax % MsPerSec)
  /\ MsMax % MsPerSec \in 0 .. MsPerSec - 1 /\ SecMax \in Nat
<1>1. MicrosPerSec \in Nat \ {0}
  BY Spans DEF MicrosPerSec
<1>2. TicksPerSec \in Nat \ {0} /\ TicksPerMicro <= TicksPerSec
  BY <1>1, Spans DEF TicksPerSec
<1>3. Epoch \in Nat
  BY <1>2, Spans DEF Epoch
<1>4. MsMax \in Nat
  <2>1. Limb * Limb \in Nat \ {0}
    BY Spans
  <2>2. (Limb * Limb) * Limb \in Nat \ {0}
    BY <2>1, Spans
  <2> QED
    BY <2>2 DEF MsMax
<1>5. TickMax \in Nat
  <2>1. LowSpan * MidSpan \in Nat \ {0}
    BY Spans
  <2>2. (LowSpan * MidSpan) * HiSpan \in Nat \ {0}
    BY <2>1, Spans
  <2> QED
    BY <2>2 DEF TickMax
<1>6. /\ MsMax = MsPerSec * SecMax + (MsMax % MsPerSec)
      /\ MsMax % MsPerSec \in 0 .. MsPerSec - 1 /\ SecMax \in Nat
  <2>1. MsMax \in Int /\ MsPerSec \in Nat \ {0}
    BY <1>4, Spans
  <2>2. /\ MsMax = MsPerSec * (MsMax \div MsPerSec) + (MsMax % MsPerSec)
        /\ MsMax % MsPerSec \in 0 .. MsPerSec - 1
    BY <2>1, DivMod, Zenon
  <2>3. MsMax \div MsPerSec \in Nat
    BY <1>4, <2>1, DivNat
  <2> QED
    BY <2>2, <2>3 DEF SecMax
<1> QED
  BY <1>1, <1>2, <1>3, <1>4, <1>5, <1>6

-----------------------------------------------------------------------------
(* The layouts lose nothing.                                               *)

(* Three limbs hold every number of milliseconds that is not refused.      *)
LEMMA LimbsExact ==
  ASSUME NEW ms \in 0 .. MsMax
  PROVE  LET l == Limbs3(ms)
         IN  /\ l \in [1 .. 3 -> 0 .. Limb - 1]
             /\ (l[1] * Limb + l[2]) * Limb + l[3] = ms
<1> DEFINE m == ms \div Limb
           h == ms \div (Limb * Limb)
<1>1. Limb \in Nat \ {0} /\ ms \in Nat /\ Limb * Limb \in Nat \ {0}
  BY Spans, Bounds
<1>2. ms = Limb * m + (ms % Limb) /\ ms % Limb \in 0 .. Limb - 1 /\ m \in Nat
  <2>1. ms \in Int
    BY <1>1
  <2>2. ms = Limb * m + (ms % Limb) /\ ms % Limb \in 0 .. Limb - 1
    BY <1>1, <2>1, DivMod, Zenon
  <2> QED
    BY <1>1, <2>2, DivNat
<1>3. h = m \div Limb /\ h \in Nat
  BY <1>1, DivDiv
<1>4. h < Limb
  <2> DEFINE LL == Limb * Limb
  <2>1. ms < LL * Limb /\ LL \in Nat \ {0}
    BY <1>1, Bounds DEF MsMax
  <2> HIDE DEF LL
  <2>2. ms \div LL < Limb
    BY <1>1, <2>1, DivBelow
  <2> QED
    BY <2>2 DEF LL
<1> HIDE DEF h
<1>5. m = Limb * h + (m % Limb) /\ m % Limb \in 0 .. Limb - 1
  <2> HIDE DEF m
  <2> QED
    BY <1>1, <1>2, <1>3, DivMod
<1> DEFINE low == ms % Limb
           mid == m % Limb
<1>6. Limbs3(ms) = <<h, mid, low>>
  BY DEF Limbs3, h
<1> HIDE DEF m, low, mid
<1>7. (h * Limb + mid) * Limb + low = ms
  <2>1. h * Limb + mid = m
    BY <1>1, <1>3, <1>5 DEF mid
  <2> QED
    BY <1>1, <1>2, <2>1 DEF low
<1>8. <<h, mid, low>> \in [1 .. 3 -> 0 .. Limb - 1]
  BY <1>1, <1>2, <1>3, <1>4, <1>5 DEF low, mid
<1> QED
  BY <1>6, <1>7, <1>8

(* A limb of seconds in milliseconds.                                      *)
LEMMA MsProduct ==
  ASSUME NEW s \in Nat, NEW c \in Nat
  PROVE  /\ Carried(s, MsPerSec, c) % Limb = Carried(s % Limb, MsPerSec, c) % Limb
         /\ Carried(s, MsPerSec, c) \div Limb
              = Carried(s \div Limb, MsPerSec, Carried(s % Limb, MsPerSec, c) \div Limb)
         /\ Carried(s % Limb, MsPerSec, c) \div Limb \in Nat
<1>1. Limb \in Nat \ {0}
  BY Spans
<1>2. MsPerSec \in Nat
  BY Spans
<1>3. Carried(s, MsPerSec, c) % Limb = Carried(s % Limb, MsPerSec, c) % Limb
  BY <1>1, <1>2, LimbOfProduct, Zenon
<1>4. Carried(s, MsPerSec, c) \div Limb
        = Carried(s \div Limb, MsPerSec, Carried(s % Limb, MsPerSec, c) \div Limb)
  BY <1>1, <1>2, LimbOfProduct, Zenon
<1>5. Carried(s % Limb, MsPerSec, c) \div Limb \in Nat
  BY <1>1, <1>2, LimbOfProduct, Zenon
<1> QED
  BY <1>3, <1>4, <1>5, Zenon

(* packV7Milliseconds, packV7DecimalSeconds: the limbs of seconds and the  *)
(* milliseconds are packed to the limbs of both together.                  *)
LEMMA PackExact ==
  ASSUME NEW secs \in Nat, NEW ms \in Nat, secs * MsPerSec + ms <= MsMax
  PROVE  Pack(IntLimbs(secs), ms) = Limbs3(secs * MsPerSec + ms)
<1> DEFINE n == Carried(secs, MsPerSec, ms)
           s1 == secs \div Limb
           s2 == secs \div (Limb * Limb)
           p1 == Carried(secs % Limb, MsPerSec, ms)
           c1 == p1 \div Limb
           p2 == Carried(s1 % Limb, MsPerSec, c1)
           c2 == p2 \div Limb
           p3 == Carried(s2, MsPerSec, c2)
<1>1. Limb \in Nat \ {0} /\ MsPerSec \in Nat /\ Limb * Limb \in Nat \ {0}
  BY Spans
<1>2. n % Limb = p1 % Limb /\ n \div Limb = Carried(s1, MsPerSec, c1) /\ c1 \in Nat
  BY MsProduct, Zenon
<1>3. s2 = s1 \div Limb /\ s1 \in Nat /\ s2 \in Nat
  BY <1>1, DivDiv
<1>4. Pack(IntLimbs(secs), ms) = <<p3 % Limb, p2 % Limb, p1 % Limb>>
  BY DEF Pack, Products, IntLimbs, Carried
<1> HIDE DEF s1, s2, p1, c1
<1>5. /\ Carried(s1, MsPerSec, c1) % Limb = p2 % Limb
      /\ Carried(s1, MsPerSec, c1) \div Limb = Carried(s1 \div Limb, MsPerSec, c2)
  BY <1>2, <1>3, MsProduct, Zenon
<1> HIDE DEF p2, c2
<1>6. n \in Nat /\ n < (Limb * Limb) * Limb
  BY <1>1, Bounds DEF MsMax, Carried
<1>7. Limbs3(n) = <<n \div (Limb * Limb), (n \div Limb) % Limb, n % Limb>>
  BY DEF Limbs3
<1> HIDE DEF n, p3
<1>8. n \div (Limb * Limb) = (n \div Limb) \div Limb
  BY <1>1, <1>6, DivDiv
<1>9. n \div (Limb * Limb) = p3 /\ (n \div Limb) % Limb = p2 % Limb
  BY <1>2, <1>3, <1>5, <1>8 DEF p3
<1>10. p3 \in 0 .. Limb - 1
  <2> DEFINE LL == Limb * Limb
  <2> HIDE DEF LL
  <2>1. LL \in Nat \ {0} /\ n < LL * Limb
    BY <1>1, <1>6 DEF LL
  <2>2. n \div LL \in Nat /\ n \div LL < Limb
    BY <1>1, <1>6, <2>1, DivBelow
  <2> QED
    BY <1>1, <1>9, <2>2 DEF LL
<1>11. p3 % Limb = p3
  BY <1>1, <1>10, ModSmall
<1> QED
  BY <1>2, <1>4, <1>7, <1>9, <1>11 DEF n, Carried

(* Sixty bits of ticks are the ticks, in either order of the fields.       *)
LEMMA TicksExact ==
  ASSUME NEW g \in 0 .. TickMax
  PROVE  /\ LayV1(g) \in [version : {1}, low : 0 .. LowSpan - 1, mid : 0 .. MidSpan - 1,
                          hi : 0 .. HiSpan - 1]
         /\ LayV6(g) \in [version : {6}, top : 0 .. LowSpan * MidSpan - 1, low : 0 .. HiSpan - 1]
         /\ Ticks(LayV1(g)) = g /\ Ticks(LayV6(g)) = g
         /\ LayV1(g).low = g % LowSpan
<1> DEFINE LM == LowSpan * MidSpan
           a == g \div LowSpan
           b == g \div LM
           t == g \div HiSpan
<1>1. g \in Nat /\ LM \in Nat \ {0}
  BY Bounds, Spans
<1>2. b = a \div MidSpan /\ a \in Nat /\ b \in Nat
  BY <1>1, Spans, DivDiv
<1>3. /\ g = LowSpan * a + (g % LowSpan) /\ g % LowSpan \in 0 .. LowSpan - 1
      /\ g = HiSpan * t + (g % HiSpan) /\ g % HiSpan \in 0 .. HiSpan - 1
  BY <1>1, Spans, DivMod
<1>4. g < LM * HiSpan /\ g < HiSpan * LM
  BY <1>1, Spans, Bounds DEF TickMax
<1> HIDE DEF LM
<1>5. b < HiSpan /\ t < LM /\ t \in Nat
  BY <1>1, <1>4, Spans, DivBelow
<1>6. LayV1(g) = [version |-> 1, low |-> g % LowSpan, mid |-> a % MidSpan, hi |-> b % HiSpan]
  BY DEF LayV1, LM
<1>7. LayV6(g) = [version |-> 6, top |-> t % LM, low |-> g % HiSpan]
  BY DEF LayV6, LM
<1> HIDE DEF a, b, t
<1>8. a = MidSpan * b + (a % MidSpan) /\ a % MidSpan \in 0 .. MidSpan - 1
  BY <1>2, Spans, DivMod
<1>9. b % HiSpan = b /\ t % LM = t
  BY <1>1, <1>2, <1>5, Spans, ModSmall
<1> DEFINE low == g % LowSpan
           mid == a % MidSpan
           last == g % HiSpan
<1>10. LayV1(g) = [version |-> 1, low |-> low, mid |-> mid, hi |-> b]
  BY <1>6, <1>9
<1>11. LayV6(g) = [version |-> 6, top |-> t, low |-> last]
  BY <1>7, <1>9
<1>12. low \in 0 .. LowSpan - 1 /\ mid \in 0 .. MidSpan - 1 /\ last \in 0 .. HiSpan - 1
  BY <1>3, <1>8
<1>13. g = LowSpan * a + low /\ a = MidSpan * b + mid /\ g = HiSpan * t + last
  BY <1>3, <1>8
<1> HIDE DEF low, mid, last
<1>14. Ticks(LayV1(g)) = g
  <2>1. Ticks(LayV1(g)) = (b * MidSpan + mid) * LowSpan + low
    BY <1>10 DEF Ticks
  <2>2. b * MidSpan + mid = a
    BY <1>2, <1>12, <1>13, Spans
  <2> QED
    BY <1>2, <1>12, <1>13, <2>1, <2>2, Spans
<1>15. Ticks(LayV6(g)) = g
  <2>1. Ticks(LayV6(g)) = t * HiSpan + last
    BY <1>11 DEF Ticks
  <2> QED
    BY <1>5, <1>12, <1>13, <2>1, Spans
<1>16. b \in 0 .. HiSpan - 1 /\ t \in 0 .. LowSpan * MidSpan - 1
  BY <1>1, <1>2, <1>5, Spans DEF LM
<1> QED
  BY <1>10, <1>11, <1>12, <1>14, <1>15, <1>16 DEF low

-----------------------------------------------------------------------------
(* What the bounds mean.                                                   *)

(* The milliseconds of a second: the whole of it when it is no time.       *)
LEMMA PartOfSecond ==
  ASSUME NEW micros \in 0 .. MicrosPerSec
  PROVE  /\ micros \div MicrosPerMs \in 0 .. MsPerSec
         /\ micros # MicrosPerSec => micros \div MicrosPerMs \in 0 .. MsPerSec - 1
<1>1. micros \in Nat /\ MicrosPerMs \in Nat \ {0} /\ MsPerSec \in Nat /\ MsPerSec + 1 \in Nat
  BY Spans, Bounds
<1>2. MicrosPerSec = MicrosPerMs * MsPerSec
  BY <1>1 DEF MicrosPerSec
<1>3. MicrosPerMs * (MsPerSec + 1) = MicrosPerMs * MsPerSec + MicrosPerMs
  BY <1>1
<1> DEFINE whole == MicrosPerMs * MsPerSec
           more == MicrosPerMs * (MsPerSec + 1)
           part == micros \div MicrosPerMs
<1>4. part \in Nat /\ (micros < whole <=> part < MsPerSec) /\ (micros < more <=> part < MsPerSec + 1)
  BY <1>1, DivBelow
<1>5. whole \in Nat /\ more = whole + MicrosPerMs /\ micros <= whole
  BY <1>1, <1>2, <1>3
<1> HIDE DEF whole, more, part
<1>6. MicrosPerSec = whole
  BY <1>2 DEF whole
<1> QED
  BY <1>1, <1>4, <1>5, <1>6 DEF part

(* The tests of seconds and milliseconds are a test of both together.      *)
LEMMA MsRange ==
  ASSUME NEW secs \in Int, NEW ms \in 0 .. MsPerSec - 1
  PROVE  LET n == secs * MsPerSec + ms
         IN  /\ n \in Int
             /\ n >= 0 <=> secs >= 0
             /\ secs > SecMax => n > MsMax
             /\ secs < SecMax => n <= MsMax
             /\ secs = SecMax => (n > MsMax <=> ms > MsMax % MsPerSec)
             /\ secs > (MsMax - ms) \div MsPerSec <=> n > MsMax
<1> DEFINE n == secs * MsPerSec + ms
           left == MsMax % MsPerSec
           q == (MsMax - ms) \div MsPerSec
           r == (MsMax - ms) % MsPerSec
           top == MsPerSec * SecMax
           sec == secs * MsPerSec
<1>1. MsPerSec \in Nat \ {0} /\ SecMax \in Nat /\ MsMax \in Nat
  BY Spans, Bounds
<1>2. MsMax = top + left /\ left \in 0 .. MsPerSec - 1
  BY Bounds
<1>3. MsMax - ms = MsPerSec * q + r /\ r \in 0 .. MsPerSec - 1 /\ q \in Int
  <2> DEFINE m == MsMax - ms
  <2>1. m \in Int
    BY <1>1
  <2> HIDE DEF m
  <2>2. m = MsPerSec * (m \div MsPerSec) + (m % MsPerSec) /\ m % MsPerSec \in 0 .. MsPerSec - 1
        /\ m \div MsPerSec \in Int
    BY <1>1, <2>1, DivMod
  <2> QED
    BY <2>2 DEF m
<1> HIDE DEF left, q, r
<1>4. sec \in Int /\ top \in Int /\ n = sec + ms
  BY <1>1
<1>5. /\ secs >= 0 => sec >= 0
      /\ secs < 0 => sec <= -MsPerSec
  BY <1>1, Z3
<1>6. secs > SecMax => sec >= top + MsPerSec
  <2> SUFFICES ASSUME secs > SecMax PROVE sec >= top + MsPerSec
    OBVIOUS
  <2>1. (secs - SecMax - 1) * MsPerSec >= 0
    BY <1>1
  <2>2. (secs - SecMax - 1) * MsPerSec = sec - top - MsPerSec
    BY <1>1
  <2> HIDE DEF sec, top
  <2> QED
    BY <1>1, <1>4, <2>1, <2>2
<1>7. secs < SecMax => sec <= top - MsPerSec
  <2> SUFFICES ASSUME secs < SecMax PROVE sec <= top - MsPerSec
    OBVIOUS
  <2>1. (SecMax - secs - 1) * MsPerSec >= 0
    BY <1>1
  <2>2. (SecMax - secs - 1) * MsPerSec = top - sec - MsPerSec
    BY <1>1
  <2> HIDE DEF sec, top
  <2> QED
    BY <1>1, <1>4, <2>1, <2>2
<1>8. secs = SecMax => sec = top
  BY <1>1
<1> DEFINE quo == MsPerSec * q
<1>9. secs > q => sec >= quo + MsPerSec
  <2> SUFFICES ASSUME secs > q PROVE sec >= quo + MsPerSec
    OBVIOUS
  <2>1. (secs - q - 1) * MsPerSec >= 0
    BY <1>1, <1>3
  <2>2. (secs - q - 1) * MsPerSec = sec - quo - MsPerSec
    BY <1>1, <1>3
  <2>3. quo \in Int
    BY <1>1, <1>3
  <2> HIDE DEF sec, quo
  <2> QED
    BY <1>1, <1>4, <2>1, <2>2, <2>3
<1>10. secs <= q => sec <= quo
  <2> SUFFICES ASSUME secs <= q PROVE sec <= quo
    OBVIOUS
  <2>1. (q - secs) * MsPerSec >= 0
    BY <1>1, <1>3
  <2>2. (q - secs) * MsPerSec = quo - sec
    BY <1>1, <1>3
  <2>3. quo \in Int
    BY <1>1, <1>3
  <2> HIDE DEF sec, quo
  <2> QED
    BY <1>1, <1>4, <2>1, <2>2, <2>3
<1>11. quo \in Int /\ MsMax - ms = quo + r
  BY <1>1, <1>3
<1> HIDE DEF sec, top, quo, n
<1> SUFFICES /\ n \in Int
             /\ n >= 0 <=> secs >= 0
             /\ secs > SecMax => n > MsMax
             /\ secs < SecMax => n <= MsMax
             /\ secs = SecMax => (n > MsMax <=> ms > left)
             /\ secs > q <=> n > MsMax
  BY DEF n, left, q
<1>12. n \in Int /\ (n >= 0 <=> secs >= 0)
  BY <1>1, <1>4, <1>5
<1>13. secs > SecMax => n > MsMax
  BY <1>1, <1>2, <1>4, <1>6
<1>14. secs < SecMax => n <= MsMax
  BY <1>1, <1>2, <1>4, <1>7
<1>15. secs = SecMax => (n > MsMax <=> ms > left)
  BY <1>1, <1>2, <1>4, <1>8
<1>16. secs > q => n > MsMax
  BY <1>1, <1>3, <1>4, <1>9, <1>11
<1>17. secs <= q => n <= MsMax
  BY <1>1, <1>3, <1>4, <1>10, <1>11
<1> QED
  BY <1>1, <1>3, <1>12, <1>13, <1>14, <1>15, <1>16, <1>17

(* The seconds of a 32-bit integer are never too late for the field.       *)
LEMMA NarrowFits ==
  ASSUME NEW secs \in Nat, secs < Limb * Limb, NEW ms \in 0 .. MsPerSec - 1
  PROVE  secs * MsPerSec + ms <= MsMax
<1> DEFINE LL == Limb * Limb
<1>1. LL \in Nat /\ Limb \in Nat /\ MsPerSec \in Nat \ {0} /\ MsPerSec <= Limb
  BY Spans
<1>2. MsMax = LL * Limb - 1 /\ secs < LL
  BY DEF MsMax
<1> HIDE DEF LL
<1>3. (LL - 1 - secs) * MsPerSec >= 0 /\ LL * (Limb - MsPerSec) >= 0
  BY <1>1, <1>2
<1>4. (LL - 1 - secs) * MsPerSec = LL * MsPerSec - MsPerSec - secs * MsPerSec
  BY <1>1
<1>5. LL * (Limb - MsPerSec) = LL * Limb - LL * MsPerSec
  BY <1>1
<1>6. LL * Limb \in Int /\ LL * MsPerSec \in Int /\ secs * MsPerSec \in Int
  BY <1>1
<1> DEFINE a == LL * Limb
           b == LL * MsPerSec
           c == secs * MsPerSec
<1> HIDE DEF a, b, c
<1>7. b - MsPerSec - c >= 0 /\ a - b >= 0 /\ MsMax = a - 1 /\ a \in Int /\ b \in Int /\ c \in Int
  BY <1>2, <1>3, <1>4, <1>5, <1>6 DEF a, b, c
<1>8. c + ms <= MsMax
  BY <1>1, <1>7
<1> QED
  BY <1>8 DEF c

(* Ticks since 1582 tell the second and the microsecond, and those of a    *)
(* second past the guard are no 60 bits.                                   *)
LEMMA TickRange ==
  ASSUME NEW secs \in Int, NEW micros \in 0 .. MicrosPerSec - 1
  PROVE  LET g == Greg(secs, micros)
         IN  /\ g \in Int
             /\ (g \div TicksPerSec) - EpochSecs = secs
             /\ (g % TicksPerSec) \div TicksPerMicro = micros
             /\ ~Guarded(secs) => g \notin 0 .. TickMax
             /\ secs >= 0 => g >= 0
<1> DEFINE g == Greg(secs, micros)
           T == TicksPerSec
           t == micros * TicksPerMicro
<1>1. /\ T \in Nat \ {0} /\ EpochSecs \in Nat /\ SecGuard \in Nat /\ TicksPerMicro \in Nat \ {0}
      /\ MicrosPerSec \in Nat \ {0} /\ TickMax \in Nat
  BY Spans, Bounds
<1>2. t \in 0 .. T - 1 /\ t \in Nat
  <2>1. T = MicrosPerSec * TicksPerMicro
    BY DEF TicksPerSec
  <2>2. (MicrosPerSec - 1 - micros) * TicksPerMicro >= 0 /\ t \in Nat
    BY <1>1
  <2>3. (MicrosPerSec - 1 - micros) * TicksPerMicro = T - TicksPerMicro - t
    BY <1>1, <2>1
  <2> HIDE DEF T, t
  <2> QED
    BY <1>1, <2>2, <2>3
<1>3. Epoch = EpochSecs * T /\ Epoch \in Nat
  BY Bounds DEF Epoch
<1>4. g = secs * T + t + Epoch
  BY DEF Greg
<1>5. Epoch <= SecGuard * T /\ TickMax < (SecGuard + EpochSecs) * T
  BY TimeAssumption
<1>6. t \div TicksPerMicro = micros
  <2>1. TicksPerMicro * micros + 0 = t
    BY <1>1
  <2>2. (TicksPerMicro * micros + 0) \div TicksPerMicro = micros
    BY <1>1, DivUnique
  <2> QED
    BY <2>1, <2>2
<1> HIDE DEF T, t, g
<1> DEFINE s == secs * T
           e == EpochSecs * T
           p == SecGuard * T
<1>7. g = T * (secs + EpochSecs) + t
  <2>1. T * (secs + EpochSecs) = secs * T + EpochSecs * T
    BY <1>1
  <2>2. secs * T \in Int /\ EpochSecs * T \in Int
    BY <1>1
  <2> QED
    BY <1>2, <1>3, <1>4, <2>1, <2>2
<1>8. g \div T = secs + EpochSecs /\ g % T = t
  <2>1. secs + EpochSecs \in Int
    BY <1>1
  <2> QED
    BY <1>1, <1>2, <1>7, <2>1, DivUnique
<1>9. s \in Int /\ e \in Nat /\ p \in Nat
  BY <1>1
<1>10. secs < -SecGuard => s <= -p - T
  <2> SUFFICES ASSUME secs < -SecGuard PROVE s <= -p - T
    OBVIOUS
  <2>1. (-SecGuard - secs - 1) * T >= 0
    BY <1>1
  <2>2. (-SecGuard - secs - 1) * T = -p - s - T
    BY <1>1
  <2> HIDE DEF s, p
  <2> QED
    BY <1>1, <1>9, <2>1, <2>2
<1>11. secs > SecGuard => s >= p + T
  <2> SUFFICES ASSUME secs > SecGuard PROVE s >= p + T
    OBVIOUS
  <2>1. (secs - SecGuard - 1) * T >= 0
    BY <1>1
  <2>2. (secs - SecGuard - 1) * T = s - p - T
    BY <1>1
  <2> HIDE DEF s, p
  <2> QED
    BY <1>1, <1>9, <2>1, <2>2
<1>12. secs >= 0 => s >= 0
  BY <1>1
<1>13. g = s + t + e /\ e <= p
  BY <1>3, <1>4, <1>5
<1>14. TickMax < p + e
  <2>1. (SecGuard + EpochSecs) * T = p + e
    BY <1>1
  <2>2. TickMax < (SecGuard + EpochSecs) * T
    BY <1>5 DEF T
  <2> QED
    BY <2>1, <2>2
<1> HIDE DEF s, e, p
<1>15. ~Guarded(secs) => g \notin 0 .. TickMax
  <2>1. ASSUME secs < -SecGuard PROVE g < 0
    BY <1>1, <1>2, <1>9, <1>10, <1>13, <2>1
  <2>2. ASSUME secs > SecGuard PROVE g > TickMax
    BY <1>1, <1>2, <1>9, <1>11, <1>13, <1>14, <2>2
  <2>3. g \in Int
    BY <1>2, <1>9, <1>13
  <2> QED
    BY <1>1, <2>1, <2>2, <2>3 DEF Guarded
<1>16. g \in Int /\ (secs >= 0 => g >= 0)
  BY <1>2, <1>9, <1>12, <1>13
<1>17. (g \div T) - EpochSecs = secs /\ (g % T) \div TicksPerMicro = micros
  BY <1>1, <1>6, <1>8
<1> QED
  BY <1>15, <1>16, <1>17 DEF g, T

-----------------------------------------------------------------------------
(* What a call is for, and what it may return.                             *)

(* MsAsked of the call c.                                                  *)
MsOf(c) ==
  IF c.by \in {"int", "compatInt"} THEN c.at ELSE c.at * MsPerSec + c.micros \div MicrosPerMs

Fits(c) ==
  /\ SixDigits(c.micros)
  /\ IF c.by \in {"v1", "v2"} THEN Greg(c.at, c.micros) \in 0 .. TickMax ELSE MsOf(c) \in 0 .. MsMax

(* An exception for what does not fit, and nothing else for what does.     *)
Ranged(c, u) == IF Fits(c) THEN u.version \in {1, 2, 6, 7} ELSE u = Refused

(* The fields are those of the time.                                       *)
Exact(c, u) ==
  Fits(c) =>
    IF c.by = "v1" THEN u \in {LayV1(Greg(c.at, c.micros)), LayV6(Greg(c.at, c.micros))}
    ELSE IF c.by = "v2"
    THEN \E low \in 0 .. LowSpan - 1 :
           u = [LayV1(Greg(c.at, c.micros)) EXCEPT !.version = 2, !.low = low]
    ELSE \E sub \in 0 .. SubSlots - 1 : u = LayV7(Limbs3(MsOf(c)), sub)

(* A slot of a millisecond.                                                *)
LEMMA SubFits ==
  ASSUME NEW micros \in Nat
  PROVE  Sub(micros) \in 0 .. SubSlots - 1
<1> DEFINE r == micros % MicrosPerMs
           n == r * SubSlots
<1>1. MicrosPerMs \in Nat \ {0} /\ SubSlots \in Nat \ {0}
  BY Spans
<1>2. r \in 0 .. MicrosPerMs - 1
  <2>1. micros \in Int
    OBVIOUS
  <2> QED
    BY <1>1, <2>1, DivMod, Zenon
<1> HIDE DEF r
<1>3. n \in Nat /\ n < MicrosPerMs * SubSlots
  <2>1. (MicrosPerMs - 1 - r) * SubSlots >= 0 /\ n \in Nat
    BY <1>1, <1>2
  <2>2. (MicrosPerMs - 1 - r) * SubSlots = MicrosPerMs * SubSlots - SubSlots - n
    BY <1>1, <1>2
  <2>3. MicrosPerMs * SubSlots \in Nat
    BY <1>1
  <2> HIDE DEF n
  <2> QED
    BY <1>1, <2>1, <2>2, <2>3
<1> HIDE DEF n
<1>4. n \div MicrosPerMs \in Nat /\ n \div MicrosPerMs < SubSlots
  BY <1>1, <1>3, DivBelow
<1>5. Sub(micros) = n \div MicrosPerMs
  BY DEF Sub, n, r
<1> QED
  BY <1>1, <1>4, <1>5

(* The parts of a call.                                                    *)
LEMMA CallParts ==
  ASSUME NEW c \in Calls, Passable(c)
  PROVE  /\ c.at \in Int /\ c.micros \in 0 .. MicrosPerSec
         /\ c.intMax \in IntMaxes /\ c.intMax \in Nat
         /\ c.by \in {"int", "compatInt"} => c.micros = 0
         /\ c.by \notin {"datetime", "v1", "compatOther"} => SixDigits(c.micros)
         /\ SixDigits(c.micros) => c.micros \in 0 .. MicrosPerSec - 1
         /\ c.by \in {"int", "compatInt", "compatOther"} => c.at <= c.intMax
<1>1. IntMaxes \subseteq Nat /\ Seconds \subseteq Int /\ Millis \subseteq Int
  BY TimeAssumption
<1>2. MicrosPerSec \in Nat \ {0}
  BY Bounds
<1>3. Malformed = MicrosPerSec
  BY DEF Malformed
<1>4. \/ c \in [by : {"int", "compatInt"}, at : Millis, micros : {0}, intMax : IntMaxes]
      \/ c \in [by : {"datetime", "v1", "v2", "compatBuiltIn", "compatOther"}, at : Seconds,
                micros : 0 .. MicrosPerSec, intMax : IntMaxes]
  BY <1>3 DEF Calls
<1>5. /\ c.at \in Int /\ c.micros \in 0 .. MicrosPerSec
      /\ c.intMax \in IntMaxes /\ c.intMax \in Nat
      /\ c.by \in {"int", "compatInt"} => c.micros = 0
  <2>1. CASE c \in [by : {"int", "compatInt"}, at : Millis, micros : {0}, intMax : IntMaxes]
    <3>1. c.at \in Millis /\ c.micros = 0 /\ c.intMax \in IntMaxes
      BY <2>1
    <3>2. 0 \in 0 .. MicrosPerSec
      BY <1>2
    <3>3. c.micros \in 0 .. MicrosPerSec
      BY <3>1, <3>2, Zenon
    <3> QED
      BY <1>1, <3>1, <3>3, Zenon
  <2>2. CASE c \in [by : {"datetime", "v1", "v2", "compatBuiltIn", "compatOther"}, at : Seconds,
                    micros : 0 .. MicrosPerSec, intMax : IntMaxes]
    <3>1. /\ c.at \in Seconds /\ c.micros \in 0 .. MicrosPerSec /\ c.intMax \in IntMaxes
          /\ c.by \notin {"int", "compatInt"}
      BY <2>2
    <3> QED
      BY <1>1, <1>2, <3>1
  <2> QED
    BY <1>4, <2>1, <2>2
<1>6. c.by \notin {"datetime", "v1", "compatOther"} => c.micros # MicrosPerSec
  BY <1>3 DEF Passable, Overriding
<1>7. c.by \in {"int", "compatInt", "compatOther"} => c.at <= c.intMax
  BY DEF Passable
<1>8. SixDigits(c.micros) <=> c.micros # MicrosPerSec
  BY <1>3 DEF SixDigits
<1>9. SixDigits(c.micros) => c.micros \in 0 .. MicrosPerSec - 1
  <2>1. \A n \in 0 .. MicrosPerSec : n # MicrosPerSec => n \in 0 .. MicrosPerSec - 1
    BY <1>2
  <2>2. c.micros \in 0 .. MicrosPerSec
    BY <1>5
  <2> QED
    BY <1>8, <2>1, <2>2, Zenon
<1> QED
  BY <1>5, <1>6, <1>7, <1>8, <1>9

(* A record of version 7 is what its two fields say.                       *)
LEMMA LaidOut ==
  ASSUME NEW c, c.by \notin {"v1", "v2"}, NEW ms, ms = MsOf(c), Fits(c),
         NEW sub \in 0 .. SubSlots - 1, NEW u, u = LayV7(Limbs3(ms), sub)
  PROVE  Ranged(c, u) /\ Exact(c, u)
<1>1. u.version = 7
  BY DEF LayV7
<1>2. Ranged(c, u)
  BY <1>1 DEF Ranged
<1>3. \E s \in 0 .. SubSlots - 1 : u = LayV7(Limbs3(MsOf(c)), s)
  OBVIOUS
<1>4. Exact(c, u)
  BY <1>3 DEF Exact
<1> QED
  BY <1>2, <1>4

LEMMA NotLaidOut ==
  ASSUME NEW c, ~Fits(c)
  PROVE  Ranged(c, Refused) /\ Exact(c, Refused)
BY DEF Ranged, Exact

(* uuid7(int).                                                             *)
LEMMA IntAnswer ==
  ASSUME NEW c \in Calls, Passable(c), c.by = "int"
  PROVE  Ranged(c, V7AtMs(c.at)) /\ Exact(c, V7AtMs(c.at))
<1>1. c.at \in Int /\ SixDigits(c.micros) /\ MsMax \in Nat
  BY CallParts, Bounds
<1>2. MsOf(c) = c.at /\ (Fits(c) <=> c.at \in 0 .. MsMax)
  BY <1>1 DEF MsOf, Fits
<1>3. CASE Fits(c)
  <2>1. V7AtMs(c.at) = LayV7(Limbs3(c.at), 0)
    BY <1>1, <1>2, <1>3 DEF V7AtMs
  <2>2. 0 \in 0 .. SubSlots - 1
    BY Spans
  <2>3. c.by \notin {"v1", "v2"}
    OBVIOUS
  <2> QED
    BY <1>2, <1>3, <2>1, <2>2, <2>3, LaidOut
<1>4. CASE ~Fits(c)
  <2>1. V7AtMs(c.at) = Refused
    BY <1>1, <1>2, <1>4 DEF V7AtMs
  <2> QED
    BY <1>4, <2>1, NotLaidOut
<1> QED
  BY <1>3, <1>4

(* uuid7(DateTimeInterface).                                               *)
LEMMA DateTimeAnswer ==
  ASSUME NEW c \in Calls, Passable(c), c.by = "datetime"
  PROVE  Ranged(c, V7AtDateTime(c.at, c.micros)) /\ Exact(c, V7AtDateTime(c.at, c.micros))
<1> DEFINE ms == c.micros \div MicrosPerMs
           n == c.at * MsPerSec + ms
           u == V7AtDateTime(c.at, c.micros)
<1>1. c.at \in Int /\ c.micros \in 0 .. MicrosPerSec /\ MsMax \in Nat /\ SecMax \in Nat
  BY CallParts, Bounds
<1>2. MsOf(c) = n
  BY DEF MsOf
<1>3. Fits(c) <=> SixDigits(c.micros) /\ n \in 0 .. MsMax
  BY <1>2 DEF Fits
<1>4. u = IF ~SixDigits(c.micros) \/ c.at < 0 \/ c.at > SecMax \/ n > MsMax THEN Refused
          ELSE LayV7(Limbs3(n), Sub(c.micros))
  BY DEF V7AtDateTime
<1>5. SixDigits(c.micros) => ms \in 0 .. MsPerSec - 1
  BY <1>1, PartOfSecond, CallParts DEF SixDigits, Malformed
<1>6. ASSUME SixDigits(c.micros)
      PROVE  n \in Int /\ (n >= 0 <=> c.at >= 0) /\ (c.at > SecMax => n > MsMax)
  BY <1>1, <1>5, <1>6, MsRange
<1> HIDE DEF n, u, ms
<1>7. CASE Fits(c)
  <2>1. u = LayV7(Limbs3(n), Sub(c.micros))
    BY <1>1, <1>3, <1>4, <1>6, <1>7
  <2>2. Sub(c.micros) \in 0 .. SubSlots - 1
    <3>1. c.micros \in Nat
      BY <1>1, Bounds
    <3> QED
      BY <3>1, SubFits
  <2>3. c.by \notin {"v1", "v2"}
    OBVIOUS
  <2>4. Ranged(c, u) /\ Exact(c, u)
    BY <1>2, <1>7, <2>1, <2>2, <2>3, LaidOut
  <2> QED
    BY <2>4 DEF u
<1>8. CASE ~Fits(c)
  <2>1. u = Refused
    BY <1>1, <1>3, <1>4, <1>6, <1>8
  <2>2. Ranged(c, u) /\ Exact(c, u)
    BY <1>8, <2>1, NotLaidOut
  <2> QED
    BY <2>2 DEF u
<1> QED
  BY <1>7, <1>8

(* fromDateTime().                                                         *)
LEMMA V1Answer ==
  ASSUME NEW c \in Calls, Passable(c), c.by = "v1"
  PROVE  Ranged(c, FromDateTime(c.at, c.micros)) /\ Exact(c, FromDateTime(c.at, c.micros))
<1> DEFINE g == Greg(c.at, c.micros)
           u == FromDateTime(c.at, c.micros)
<1>1. c.at \in Int /\ TickMax \in Nat
  BY CallParts, Bounds
<1>2. Fits(c) <=> SixDigits(c.micros) /\ g \in 0 .. TickMax
  BY DEF Fits
<1>3. u = IF ~SixDigits(c.micros) \/ ~Guarded(c.at) \/ g < 0 \/ g > TickMax THEN Refused
          ELSE LayV1(g)
  BY DEF FromDateTime
<1>4. SixDigits(c.micros) => g \in Int /\ (~Guarded(c.at) => g \notin 0 .. TickMax)
  BY <1>1, CallParts, TickRange
<1> HIDE DEF g, u
<1>5. CASE Fits(c)
  <2>1. u = LayV1(g)
    BY <1>1, <1>2, <1>3, <1>4, <1>5
  <2>2. u.version = 1
    BY <2>1 DEF LayV1
  <2>3. Ranged(c, u) /\ Exact(c, u)
    BY <1>5, <2>1, <2>2 DEF Ranged, Exact, g
  <2> QED
    BY <2>3 DEF u
<1>6. CASE ~Fits(c)
  <2>1. u = Refused
    BY <1>1, <1>2, <1>3, <1>4, <1>6
  <2>2. Ranged(c, u) /\ Exact(c, u)
    BY <1>6, <2>1, NotLaidOut
  <2> QED
    BY <2>2 DEF u
<1> QED
  BY <1>5, <1>6

(* v2: the clock's time with a local identifier in the low field.          *)
LEMMA V2Answer ==
  ASSUME NEW c \in Calls, Passable(c), c.by = "v2", NEW localId \in {0, LowSpan - 1},
         NEW u, u = [LayV1(Greg(c.at, c.micros)) EXCEPT !.version = 2, !.low = localId]
  PROVE  Fits(c) /\ Ranged(c, u) /\ Exact(c, u)
<1>1. c.at \in Int /\ c.at >= 0 /\ SixDigits(c.micros) /\ TickMax \in Nat
      /\ Greg(c.at, c.micros) <= TickMax
  BY CallParts, Bounds DEF Passable
<1>2. Greg(c.at, c.micros) \in 0 .. TickMax
  <2>1. c.micros \in 0 .. MicrosPerSec - 1
    BY <1>1, CallParts
  <2>2. Greg(c.at, c.micros) \in Int /\ Greg(c.at, c.micros) >= 0
    BY <1>1, <2>1, TickRange
  <2> QED
    BY <1>1, <2>2
<1>3. Fits(c)
  BY <1>1, <1>2 DEF Fits
<1>4. u.version = 2
  BY DEF LayV1
<1>5. localId \in 0 .. LowSpan - 1
  BY Spans
<1>6. Exact(c, u)
  BY <1>5 DEF Exact
<1> QED
  BY <1>3, <1>4, <1>6 DEF Ranged

(* A custom generator's uuid7(int).                                        *)
LEMMA CompatIntAnswer ==
  ASSUME NEW c \in Calls, Passable(c), c.by = "compatInt", NEW sub \in 0 .. SubSlots - 1
  PROVE  LET u == CompatInt(c.at, sub)
         IN  Ranged(c, u) /\ Exact(c, u)
<1> DEFINE u == CompatInt(c.at, sub)
           ms == c.at
           q == ms \div MsPerSec
           r == ms % MsPerSec
<1>1. ms \in Int /\ SixDigits(c.micros) /\ MsMax \in Nat /\ MsPerSec \in Nat \ {0}
  BY CallParts, Bounds, Spans
<1>2. MsOf(c) = ms /\ (Fits(c) <=> ms \in 0 .. MsMax)
  BY <1>1 DEF MsOf, Fits
<1>3. u = IF ms < 0 \/ ms > MsMax THEN Refused ELSE LayV7(Pack(IntLimbs(q), r), sub)
  BY DEF CompatInt
<1> HIDE DEF u, ms
<1> SUFFICES Ranged(c, u) /\ Exact(c, u)
  BY DEF u
<1>4. CASE Fits(c)
  <2>1. u = LayV7(Pack(IntLimbs(q), r), sub) /\ ms \in 0 .. MsMax
    BY <1>1, <1>2, <1>3, <1>4
  <2>2. ms = MsPerSec * q + r /\ r \in 0 .. MsPerSec - 1 /\ q \in Nat
    <3>1. ms = MsPerSec * q + r /\ r \in 0 .. MsPerSec - 1
      BY <1>1, DivMod, Zenon
    <3>2. ms \in Nat
      BY <1>1, <2>1
    <3> QED
      BY <1>1, <3>1, <3>2, DivNat
  <2> HIDE DEF q, r
  <2>3. q * MsPerSec + r = ms /\ r \in Nat
    BY <1>1, <2>2
  <2>4. q * MsPerSec + r <= MsMax
    BY <1>1, <2>1, <2>3
  <2>5. Pack(IntLimbs(q), r) = Limbs3(q * MsPerSec + r)
    BY <2>2, <2>3, <2>4, PackExact
  <2>6. u = LayV7(Limbs3(ms), sub)
    BY <2>1, <2>3, <2>5
  <2>7. c.by \notin {"v1", "v2"}
    OBVIOUS
  <2> QED
    BY <1>2, <1>4, <2>6, <2>7, LaidOut
<1>5. CASE ~Fits(c)
  <2>1. u = Refused
    BY <1>1, <1>2, <1>3, <1>5
  <2> QED
    BY <1>5, <2>1, NotLaidOut
<1> QED
  BY <1>4, <1>5

(* A built-in DateTime: with the limbs that the divisions are to leave.    *)
LEMMA CompatBuiltInAnswer ==
  ASSUME NEW c \in Calls, Passable(c), c.by = "compatBuiltIn", NEW sub \in 0 .. SubSlots - 1
  PROVE  LET u == CompatBuiltIn(c.at, c.micros \div MicrosPerMs, sub)
         IN  Ranged(c, u) /\ (DivisionExact => Exact(c, u))
<1> DEFINE u == CompatBuiltIn(c.at, c.micros \div MicrosPerMs, sub)
           secs == c.at
           ms == c.micros \div MicrosPerMs
           n == secs * MsPerSec + ms
           l == DigitLimbs(Digits[secs])
<1>1. /\ secs \in Int /\ SixDigits(c.micros) /\ c.micros \in 0 .. MicrosPerSec
      /\ MsMax \in Nat /\ SecMax \in Nat /\ MsPerSec \in Nat \ {0}
      /\ MsMax % MsPerSec \in 0 .. MsPerSec - 1
  BY CallParts, Bounds, Spans
<1>2. MsOf(c) = n /\ (Fits(c) <=> n \in 0 .. MsMax)
  BY <1>1 DEF MsOf, Fits
<1>3. u = IF secs < 0 \/ secs > SecMax \/ (secs = SecMax /\ ms > MsMax % MsPerSec)
          THEN Refused ELSE LayV7(Pack(l, ms), sub)
  BY DEF CompatBuiltIn
<1>4. ms \in 0 .. MsPerSec - 1
  BY <1>1, PartOfSecond, CallParts DEF SixDigits, Malformed
<1>5. secs \in Seconds
  BY DEF Calls
<1> HIDE DEF u, secs, ms, l
<1> SUFFICES Ranged(c, u) /\ (DivisionExact => Exact(c, u))
  BY DEF u
<1>6. /\ n \in Int /\ (n >= 0 <=> secs >= 0)
      /\ secs > SecMax => n > MsMax
      /\ secs < SecMax => n <= MsMax
      /\ secs = SecMax => (n > MsMax <=> ms > MsMax % MsPerSec)
  BY <1>1, <1>4, MsRange
<1> HIDE DEF n
<1>7. CASE Fits(c)
  <2>1. n \in 0 .. MsMax /\ secs \in Nat /\ secs <= SecMax
    BY <1>1, <1>2, <1>6, <1>7
  <2>2. u = LayV7(Pack(l, ms), sub)
    BY <1>1, <1>3, <1>4, <1>6, <2>1
  <2>3. Ranged(c, u)
    BY <1>7, <2>2 DEF Ranged, LayV7
  <2>4. ASSUME DivisionExact PROVE Exact(c, u)
    <3>1. l = <<secs % Limb, (secs \div Limb) % Limb, (secs \div (Limb * Limb)) % Limb>>
      BY <1>5, <2>1, <2>4 DEF DivisionExact, l
    <3>2. (secs \div (Limb * Limb)) % Limb = secs \div (Limb * Limb)
      <4> DEFINE LL == Limb * Limb
      <4>1. Limb \in Nat \ {0} /\ LL \in Nat \ {0} /\ MsMax = LL * Limb - 1
        BY Spans DEF MsMax
      <4>2. secs <= MsMax
        <5>1. secs * MsPerSec >= secs
          BY <1>1, <2>1
        <5>2. secs * MsPerSec + ms <= MsMax /\ secs * MsPerSec \in Int
          BY <1>1, <2>1 DEF n
        <5> QED
          BY <1>1, <1>4, <2>1, <5>1, <5>2
      <4> HIDE DEF LL
      <4>3. secs < LL * Limb
        BY <2>1, <4>1, <4>2
      <4>4. secs \div LL \in Nat /\ secs \div LL < Limb
        BY <2>1, <4>1, <4>3, DivBelow
      <4> DEFINE h == secs \div LL
      <4>5. h \in 0 .. Limb - 1
        BY <4>1, <4>4
      <4> HIDE DEF h
      <4>6. h % Limb = h
        BY <4>1, <4>5, ModSmall
      <4> QED
        BY <4>6 DEF h, LL
    <3>3. l = IntLimbs(secs)
      BY <3>1, <3>2 DEF IntLimbs
    <3>4. ms \in Nat /\ secs * MsPerSec + ms <= MsMax
      BY <1>1, <1>4, <2>1 DEF n
    <3>5. Pack(l, ms) = Limbs3(n)
      BY <2>1, <3>3, <3>4, PackExact DEF n
    <3>6. u = LayV7(Limbs3(n), sub)
      BY <2>2, <3>5
    <3>7. c.by \notin {"v1", "v2"}
      OBVIOUS
    <3> QED
      BY <1>2, <1>7, <3>6, <3>7, LaidOut
  <2> QED
    BY <2>3, <2>4
<1>8. CASE ~Fits(c)
  <2>1. u = Refused
    BY <1>1, <1>2, <1>3, <1>4, <1>6, <1>8
  <2> QED
    BY <1>8, <2>1, NotLaidOut
<1> QED
  BY <1>7, <1>8

(* An overriding time object of the compat layer, on any build.            *)
LEMMA CompatOtherAnswer ==
  ASSUME NEW c \in Calls, Passable(c), c.by = "compatOther", NEW sub \in 0 .. SubSlots - 1
  PROVE  LET u == CompatOther(c.at, c.micros, sub, c.intMax)
         IN  Ranged(c, u) /\ Exact(c, u)
<1> DEFINE u == CompatOther(c.at, c.micros, sub, c.intMax)
           secs == c.at
           ms == c.micros \div MicrosPerMs
           n == secs * MsPerSec + ms
<1>1. /\ secs \in Int /\ c.micros \in 0 .. MicrosPerSec /\ secs <= c.intMax
      /\ c.intMax \in IntMaxes /\ c.intMax \in Nat
      /\ MsMax \in Nat /\ MsPerSec \in Nat \ {0}
  BY CallParts, Bounds, Spans
<1>2. MsOf(c) = n
  BY DEF MsOf
<1>3. Fits(c) <=> SixDigits(c.micros) /\ n \in 0 .. MsMax
  BY <1>2 DEF Fits
<1>4. u = IF \/ ~SixDigits(c.micros) \/ secs < 0
             \/ c.intMax = WideIntMax /\ secs > (MsMax - ms) \div MsPerSec
          THEN Refused ELSE LayV7(Pack(IntLimbs(secs), ms), sub)
  BY DEF CompatOther
<1> HIDE DEF u, secs
<1> SUFFICES Ranged(c, u) /\ Exact(c, u)
  BY DEF u
<1>5. ASSUME SixDigits(c.micros) PROVE ms \in 0 .. MsPerSec - 1
  BY <1>1, <1>5, PartOfSecond, CallParts DEF SixDigits, Malformed
<1> HIDE DEF ms
<1>6. ASSUME SixDigits(c.micros)
      PROVE  /\ n \in Int /\ (n >= 0 <=> secs >= 0)
             /\ secs > (MsMax - ms) \div MsPerSec <=> n > MsMax
  BY <1>1, <1>5, <1>6, MsRange
<1>7. ASSUME SixDigits(c.micros), secs >= 0, c.intMax # WideIntMax PROVE n <= MsMax
  <2>1. c.intMax < Limb * Limb
    BY <1>1, <1>7, TimeAssumption
  <2>2. Limb * Limb \in Nat
    BY Spans
  <2>3. secs \in Nat /\ secs < Limb * Limb
    BY <1>1, <1>7, <2>1, <2>2
  <2>4. ms \in 0 .. MsPerSec - 1
    BY <1>5, <1>7
  <2> QED
    BY <2>3, <2>4, NarrowFits
<1> HIDE DEF n
<1>8. CASE Fits(c)
  <2>1. SixDigits(c.micros) /\ n \in 0 .. MsMax /\ secs \in Nat
    BY <1>1, <1>3, <1>6, <1>8
  <2>2. ~(secs > (MsMax - ms) \div MsPerSec)
    BY <1>1, <1>6, <2>1
  <2>3. u = LayV7(Pack(IntLimbs(secs), ms), sub)
    BY <1>1, <1>4, <2>1, <2>2
  <2>4. ms \in Nat /\ secs * MsPerSec + ms <= MsMax
    BY <1>1, <1>5, <2>1 DEF n
  <2>5. Pack(IntLimbs(secs), ms) = Limbs3(n)
    BY <2>1, <2>4, PackExact DEF n
  <2>6. u = LayV7(Limbs3(n), sub)
    BY <2>3, <2>5
  <2>7. c.by \notin {"v1", "v2"}
    OBVIOUS
  <2> QED
    BY <1>2, <1>8, <2>6, <2>7, LaidOut
<1>9. CASE ~Fits(c)
  <2>1. u = Refused
    <3>1. CASE SixDigits(c.micros) /\ secs >= 0
      <4>1. n > MsMax
        BY <1>1, <1>3, <1>6, <1>9, <3>1
      <4>2. c.intMax = WideIntMax
        BY <1>1, <1>6, <1>7, <3>1, <4>1
      <4>3. secs > (MsMax - ms) \div MsPerSec
        BY <1>6, <3>1, <4>1
      <4> QED
        BY <1>4, <4>2, <4>3
    <3>2. CASE ~SixDigits(c.micros)
      BY <1>4, <3>2
    <3>3. CASE ~(secs >= 0)
      <4>1. secs < 0
        BY <1>1, <3>3
      <4> QED
        BY <1>4, <4>1
    <3> QED
      BY <3>1, <3>2, <3>3
  <2> QED
    BY <1>9, <2>1, NotLaidOut
<1> QED
  BY <1>8, <1>9

-----------------------------------------------------------------------------
(* The invariants.                                                         *)
Answered ==
  /\ asked \in Calls /\ Passable(asked)
  /\ uuid \in {None, Failed} \/ Ranged(asked, uuid)

(* Converting is for v1 and v6 only.                                       *)
DateTimeKept ==
  asked.by = "datetime" => uuid \in {None, Failed, V7AtDateTime(asked.at, asked.micros)}

RInv == Answered /\ DateTimeKept

(* The fields and whatever was read of them are those of the time asked.   *)
Times ==
  /\ uuid \in {None, Failed} \/ Exact(asked, uuid)
  /\ instant \in {Unread, NoDate, InstantAsked}
  /\ millis \in {Unread, <<InstantAsked[1] * MsPerSec + InstantAsked[2] \div MicrosPerMs>>}

TInv == RInv /\ Times

(* Whatever is made is within the range of its call, and exact.            *)
LEMMA Making ==
  ASSUME RInv,
         \/ Make("int", V7AtMs(asked.at))
         \/ Make("datetime", V7AtDateTime(asked.at, asked.micros))
         \/ Make("v1", FromDateTime(asked.at, asked.micros))
         \/ \E sub \in {0, SubSlots - 1} : CompatV7(sub)
         \/ \E localId \in {0, LowSpan - 1} : UuidV2(localId)
  PROVE  /\ asked' = asked /\ instant' = instant /\ millis' = millis
         /\ \E v : /\ uuid' \in {v, Failed}
                   /\ Ranged(asked, v) /\ (DivisionExact => Exact(asked, v))
                   /\ asked.by = "datetime" => v = V7AtDateTime(asked.at, asked.micros)
<1>1. PICK c \in Calls : c = asked
  BY DEF RInv, Answered
<1>2. Passable(c)
  BY <1>1 DEF RInv, Answered
<1> SUFFICES /\ asked' = asked /\ instant' = instant /\ millis' = millis
             /\ \E v : /\ uuid' \in {v, Failed}
                       /\ Ranged(c, v) /\ (DivisionExact => Exact(c, v))
                       /\ c.by = "datetime" => v = V7AtDateTime(c.at, c.micros)
  BY <1>1
<1>3. CASE Make("int", V7AtMs(asked.at))
  <2>1. c.by = "int" /\ uuid' \in {V7AtMs(c.at), Failed}
        /\ asked' = asked /\ instant' = instant /\ millis' = millis
    BY <1>1, <1>3 DEF Make
  <2>2. Ranged(c, V7AtMs(c.at)) /\ Exact(c, V7AtMs(c.at))
    BY <1>2, <2>1, IntAnswer
  <2> QED
    BY <2>1, <2>2
<1>4. CASE Make("datetime", V7AtDateTime(asked.at, asked.micros))
  <2>1. c.by = "datetime" /\ uuid' \in {V7AtDateTime(c.at, c.micros), Failed}
        /\ asked' = asked /\ instant' = instant /\ millis' = millis
    BY <1>1, <1>4 DEF Make
  <2>2. Ranged(c, V7AtDateTime(c.at, c.micros)) /\ Exact(c, V7AtDateTime(c.at, c.micros))
    BY <1>2, <2>1, DateTimeAnswer
  <2> QED
    BY <2>1, <2>2
<1>5. CASE Make("v1", FromDateTime(asked.at, asked.micros))
  <2>1. c.by = "v1" /\ uuid' \in {FromDateTime(c.at, c.micros), Failed}
        /\ asked' = asked /\ instant' = instant /\ millis' = millis
    BY <1>1, <1>5 DEF Make
  <2>2. Ranged(c, FromDateTime(c.at, c.micros)) /\ Exact(c, FromDateTime(c.at, c.micros))
    BY <1>2, <2>1, V1Answer
  <2> QED
    BY <2>1, <2>2
<1>6. ASSUME NEW sub \in {0, SubSlots - 1}, CompatV7(sub)
      PROVE  /\ asked' = asked /\ instant' = instant /\ millis' = millis
             /\ \E v : /\ uuid' \in {v, Failed}
                       /\ Ranged(c, v) /\ (DivisionExact => Exact(c, v))
                       /\ c.by = "datetime" => v = V7AtDateTime(c.at, c.micros)
  <2>1. sub \in 0 .. SubSlots - 1
    BY Spans
  <2>2. CASE Make("compatInt", CompatInt(asked.at, sub))
    <3> DEFINE v == CompatInt(c.at, sub)
    <3>1. c.by = "compatInt" /\ uuid' \in {v, Failed}
          /\ asked' = asked /\ instant' = instant /\ millis' = millis
      BY <1>1, <2>2 DEF Make
    <3>2. Ranged(c, v) /\ Exact(c, v)
      BY <1>2, <2>1, <3>1, CompatIntAnswer
    <3> HIDE DEF v
    <3> QED
      BY <3>1, <3>2
  <2>3. CASE Make("compatBuiltIn", CompatBuiltIn(asked.at, asked.micros \div MicrosPerMs, sub))
    <3> DEFINE v == CompatBuiltIn(c.at, c.micros \div MicrosPerMs, sub)
    <3>1. c.by = "compatBuiltIn" /\ uuid' \in {v, Failed}
          /\ asked' = asked /\ instant' = instant /\ millis' = millis
      BY <1>1, <2>3 DEF Make
    <3>2. Ranged(c, v) /\ (DivisionExact => Exact(c, v))
      BY <1>2, <2>1, <3>1, CompatBuiltInAnswer
    <3> HIDE DEF v
    <3> QED
      BY <3>1, <3>2
  <2>4. CASE Make("compatOther", CompatOther(asked.at, asked.micros, sub, asked.intMax))
    <3> DEFINE v == CompatOther(c.at, c.micros, sub, c.intMax)
    <3>1. c.by = "compatOther" /\ uuid' \in {v, Failed}
          /\ asked' = asked /\ instant' = instant /\ millis' = millis
      BY <1>1, <2>4 DEF Make
    <3>2. Ranged(c, v) /\ Exact(c, v)
      BY <1>2, <2>1, <3>1, CompatOtherAnswer
    <3> HIDE DEF v
    <3> QED
      BY <3>1, <3>2
  <2> QED
    BY <1>6, <2>2, <2>3, <2>4 DEF CompatV7
<1>7. ASSUME NEW localId \in {0, LowSpan - 1}, UuidV2(localId)
      PROVE  /\ asked' = asked /\ instant' = instant /\ millis' = millis
             /\ \E v : /\ uuid' \in {v, Failed}
                       /\ Ranged(c, v) /\ (DivisionExact => Exact(c, v))
                       /\ c.by = "datetime" => v = V7AtDateTime(c.at, c.micros)
  <2> DEFINE v == [LayV1(Greg(c.at, c.micros)) EXCEPT !.version = 2, !.low = localId]
  <2>1. c.by = "v2" /\ uuid' \in {v, Failed}
        /\ asked' = asked /\ instant' = instant /\ millis' = millis
    BY <1>1, <1>7 DEF UuidV2, Make
  <2>2. Ranged(c, v) /\ Exact(c, v)
    BY <1>2, <2>1, V2Answer
  <2> HIDE DEF v
  <2> QED
    BY <2>1, <2>2
<1> QED
  BY <1>3, <1>4, <1>5, <1>6, <1>7

(* The versions of what there is none of.                                  *)
LEMMA Versions ==
  /\ None.version = 0 /\ Refused.version = -1 /\ Failed.version = -2
  /\ \A g : LayV1(g).version = 1 /\ LayV6(g).version = 6
  /\ \A time, sub : LayV7(time, sub).version = 7
BY DEF None, Refused, Failed, LayV1, LayV6, LayV7

(* What is converted is a v1 or v6 of a call that fits, and of no datetime.*)
LEMMA Converting ==
  ASSUME RInv, Made, uuid.version \in {1, 6}
  PROVE  Fits(asked) /\ asked.by # "datetime"
<1>1. Ranged(asked, uuid)
  BY DEF RInv, Answered, Made
<1>2. Fits(asked)
  BY <1>1 DEF Made, Ranged
<1>3. ASSUME asked.by = "datetime" PROVE FALSE
  <2>1. uuid = V7AtDateTime(asked.at, asked.micros)
    BY <1>3 DEF RInv, DateTimeKept, Made
  <2>2. uuid = Refused \/ \E time, sub : uuid = LayV7(time, sub)
    BY <2>1 DEF V7AtDateTime
  <2>3. uuid.version \in {7, -1}
    BY <2>2, Versions
  <2> QED
    BY <2>3
<1> QED
  BY <1>2, <1>3

LEMMA RInvInit ==
  ASSUME Init PROVE RInv
BY DEF Init, RInv, Answered, DateTimeKept

LEMMA RInvNext ==
  ASSUME RInv, [Next]_vars PROVE RInv'
<1>1. asked' = asked
  BY DEF Next, Make, CompatV7, UuidV2, Convert, GetDateTime, GetTimestampMillis, vars
<1>2. asked' \in Calls /\ Passable(asked')
  BY <1>1 DEF RInv, Answered
<1>3. ASSUME uuid' = uuid PROVE RInv'
  BY <1>1, <1>3 DEF RInv, Answered, DateTimeKept
<1>4. ASSUME NEW v, uuid' \in {v, Failed}, Ranged(asked, v),
             asked.by = "datetime" => v = V7AtDateTime(asked.at, asked.micros)
      PROVE  RInv'
  <2>1. uuid' \in {None, Failed} \/ Ranged(asked', uuid')
    BY <1>1, <1>4
  <2>2. asked'.by = "datetime" => uuid' \in {None, Failed, V7AtDateTime(asked'.at, asked'.micros)}
    BY <1>1, <1>4
  <2> QED
    BY <1>2, <2>1, <2>2 DEF RInv, Answered, DateTimeKept
<1>5. CASE \/ Make("int", V7AtMs(asked.at))
           \/ Make("datetime", V7AtDateTime(asked.at, asked.micros))
           \/ Make("v1", FromDateTime(asked.at, asked.micros))
           \/ \E sub \in {0, SubSlots - 1} : CompatV7(sub)
           \/ \E localId \in {0, LowSpan - 1} : UuidV2(localId)
  BY <1>4, <1>5, Making
<1>6. CASE Convert(1, FromV1(uuid)) \/ Convert(6, ToV1(uuid))
  <2>1. Made /\ uuid.version \in {1, 6} /\ uuid'.version \in {1, 6}
    BY <1>6, Versions DEF Convert, FromV1, ToV1
  <2>2. Fits(asked) /\ asked.by # "datetime"
    BY <2>1, Converting
  <2>3. PICK v : v = uuid'
    OBVIOUS
  <2>4. Ranged(asked, v)
    BY <2>1, <2>2, <2>3 DEF Ranged
  <2> QED
    BY <1>4, <2>2, <2>3, <2>4
<1>7. CASE GetDateTime \/ GetTimestampMillis \/ UNCHANGED vars
  BY <1>3, <1>7 DEF GetDateTime, GetTimestampMillis, vars
<1> QED
  BY <1>5, <1>6, <1>7 DEF Next

(* The invariant of every call: one answer, and that of its range.         *)
THEOREM RInvHolds == Spec => []RInv
<1>1. Init => RInv
  BY RInvInit
<1>2. RInv /\ [Next]_vars => RInv'
  BY RInvNext
<1> QED
  BY <1>1, <1>2, PTL DEF Spec

(* fu_check_ms_range(), fu_dt_to_greg(), packV7Milliseconds(): an          *)
(* exception exactly for what the field cannot hold or what is no time, on *)
(* every build, in the extension and in the compat layer alike.            *)
THEOREM RangeExact == Spec => []RefusedOutOfRange
<1>1. RInv => RefusedOutOfRange
  <2> SUFFICES ASSUME RInv, uuid \notin {None, Failed}
               PROVE  uuid = Refused <=> ~Fits(asked)
    BY DEF RefusedOutOfRange, Fits, SixDigits, MsAsked, MsOf, TicksAsked
  <2>1. Ranged(asked, uuid)
    BY DEF RInv, Answered
  <2> QED
    BY <2>1, Versions DEF Ranged
<1> QED
  BY <1>1, RInvHolds, PTL

-----------------------------------------------------------------------------
(* The order of two times.                                                 *)

(* A microsecond is a slot of its millisecond or more.                     *)
LEMMA SubsApart ==
  ASSUME NEW r \in Nat
  PROVE  (r * SubSlots) \div MicrosPerMs < ((r + 1) * SubSlots) \div MicrosPerMs
<1> DEFINE M == MicrosPerMs
           m == r * SubSlots
           n == (r + 1) * SubSlots
           p == m \div M
           q == n \div M
<1>1. M \in Nat \ {0} /\ SubSlots \in Nat /\ M <= SubSlots
  BY Spans
<1>2. m \in Nat /\ n \in Nat /\ n = m + SubSlots
  BY <1>1
<1> HIDE DEF m, n, M
<1>3. m = M * p + (m % M) /\ m % M \in 0 .. M - 1 /\ p \in Nat
  <2>1. m \in Int
    BY <1>2
  <2>2. m = M * p + (m % M) /\ m % M \in 0 .. M - 1
    BY <1>1, <2>1, DivMod, Zenon
  <2> QED
    BY <1>1, <1>2, <2>2, DivNat
<1>4. q \in Nat
  BY <1>1, <1>2, DivNat
<1>5. n >= M * (p + 1)
  <2>1. M * (p + 1) = M * p + M /\ M * p \in Int
    BY <1>1, <1>3
  <2> HIDE DEF p
  <2> QED
    BY <1>1, <1>2, <1>3, <2>1
<1>6. p + 1 \in Nat
  BY <1>3
<1>7. ~(q < p + 1)
  <2>1. n < M * (p + 1) <=> q < p + 1
    BY <1>1, <1>2, <1>6, DivBelow
  <2>2. M * (p + 1) \in Int
    BY <1>1, <1>3
  <2> HIDE DEF p, q
  <2> QED
    BY <1>2, <1>5, <2>1, <2>2
<1> HIDE DEF p, q
<1>8. p < q
  BY <1>3, <1>4, <1>7
<1> QED
  BY <1>8 DEF p, q, m, n, M

(* The next microsecond: another slot, or the next millisecond.            *)
LEMMA NextMicro ==
  ASSUME NEW micros \in Nat
  PROVE  \/ /\ (micros + 1) \div MicrosPerMs = micros \div MicrosPerMs
            /\ Sub(micros) < Sub(micros + 1)
         \/ (micros + 1) \div MicrosPerMs = micros \div MicrosPerMs + 1
<1> DEFINE M == MicrosPerMs
           q == micros \div M
           r == micros % M
<1>1. M \in Nat \ {0}
  BY Spans
<1>2. micros = M * q + r /\ r \in 0 .. M - 1 /\ q \in Nat
  <2>1. micros \in Int
    OBVIOUS
  <2>2. micros = M * q + r /\ r \in 0 .. M - 1
    BY <1>1, <2>1, DivMod, Zenon
  <2> QED
    BY <1>1, <2>2, DivNat
<1> HIDE DEF q, r, M
<1>3. M * q \in Int /\ q \in Int
  BY <1>1, <1>2
<1>4. CASE r + 1 < M
  <2>1. r + 1 \in 0 .. M - 1 /\ micros + 1 = M * q + (r + 1)
    BY <1>1, <1>2, <1>3, <1>4
  <2>2. (micros + 1) \div M = q /\ (micros + 1) % M = r + 1
    BY <1>1, <1>3, <2>1, DivUnique
  <2>3. r \in Nat
    BY <1>2
  <2>4. Sub(micros) = (r * SubSlots) \div MicrosPerMs
    BY DEF Sub, r, M
  <2>5. Sub(micros + 1) = ((r + 1) * SubSlots) \div MicrosPerMs
    BY <2>2 DEF Sub, M
  <2>6. Sub(micros) < Sub(micros + 1)
    BY <2>3, <2>4, <2>5, SubsApart
  <2> QED
    BY <2>2, <2>6 DEF q, M
<1>5. CASE ~(r + 1 < M)
  <2>1. 0 \in 0 .. M - 1 /\ q + 1 \in Int
    BY <1>1, <1>3
  <2>2. M * (q + 1) = M * q + M
    BY <1>1, <1>2
  <2>3. micros + 1 = M * (q + 1) + 0
    BY <1>1, <1>2, <1>3, <1>5, <2>2
  <2>4. (micros + 1) \div M = q + 1
    BY <1>1, <2>1, <2>3, DivUnique
  <2> QED
    BY <2>4 DEF q, M
<1> QED
  BY <1>4, <1>5

(* A v7 of a datetime tells its milliseconds.                              *)
LEMMA MsRead ==
  ASSUME NEW n \in 0 .. MsMax, NEW sub
  PROVE  Ms(LayV7(Limbs3(n), sub)) = n
<1>1. LayV7(Limbs3(n), sub).time = Limbs3(n)
  BY DEF LayV7
<1> QED
  BY <1>1, LimbsExact DEF Ms

LEMMA NotRefused ==
  ASSUME NEW secs \in Int, NEW micros \in 0 .. MicrosPerSec - 1,
         V7AtDateTime(secs, micros) # Refused
  PROVE  LET n == secs * MsPerSec + micros \div MicrosPerMs
         IN  /\ n \in 0 .. MsMax
             /\ V7AtDateTime(secs, micros) = LayV7(Limbs3(n), Sub(micros))
<1> DEFINE ms == micros \div MicrosPerMs
           n == secs * MsPerSec + ms
<1>1. V7AtDateTime(secs, micros)
        = IF ~SixDigits(micros) \/ secs < 0 \/ secs > SecMax \/ n > MsMax THEN Refused
          ELSE LayV7(Limbs3(n), Sub(micros))
  BY DEF V7AtDateTime
<1>2. micros \in 0 .. MicrosPerSec /\ micros # MicrosPerSec /\ MsMax \in Nat
  BY Bounds
<1>3. ms \in 0 .. MsPerSec - 1
  BY <1>2, PartOfSecond
<1> HIDE DEF ms
<1>4. n \in Int /\ (n >= 0 <=> secs >= 0)
  BY <1>3, MsRange
<1> HIDE DEF n
<1>5. n \in 0 .. MsMax
  BY <1>1, <1>2, <1>4
<1>6. V7AtDateTime(secs, micros) = LayV7(Limbs3(n), Sub(micros))
  BY <1>1
<1> QED
  BY <1>5, <1>6 DEF n, ms

(* fu_ts_from_datetime(): rand_a counts 4096ths of the millisecond, so     *)
(* that the v7 UUIDs of two times a microsecond apart sort as they do.     *)
THEOREM TimesSort == Spec => []SortsByTime
<1>1. RInv => SortsByTime
  <2> SUFFICES ASSUME RInv, Made, asked.by = "datetime"
               PROVE  LET later == IF asked.micros + 1 < MicrosPerSec
                                   THEN V7AtDateTime(asked.at, asked.micros + 1)
                                   ELSE V7AtDateTime(asked.at + 1, 0)
                      IN  later = Refused \/ Sorts(uuid, later)
    BY DEF SortsByTime
  <2>1. PICK c \in Calls : c = asked
    BY DEF RInv, Answered
  <2>2. Passable(c) /\ Ranged(c, uuid) /\ uuid # Refused
    BY <2>1 DEF RInv, Answered, Made
  <2>3. uuid = V7AtDateTime(c.at, c.micros)
    BY <2>1 DEF RInv, DateTimeKept, Made
  <2>4. Fits(c)
    BY <2>2 DEF Ranged
  <2>5. PICK s \in Int, m \in 0 .. MicrosPerSec - 1 : s = c.at /\ m = c.micros
    BY <2>2, <2>4, CallParts DEF Fits
  <2> DEFINE ms == m \div MicrosPerMs
             n == s * MsPerSec + ms
             later == IF m + 1 < MicrosPerSec THEN V7AtDateTime(s, m + 1)
                      ELSE V7AtDateTime(s + 1, 0)
  <2>6. n \in 0 .. MsMax /\ uuid = LayV7(Limbs3(n), Sub(m))
    BY <2>2, <2>3, <2>5, NotRefused
  <2>7. Ms(uuid) = n /\ uuid.sub = Sub(m)
    BY <2>6, MsRead DEF LayV7
  <2>8. m \in Nat /\ Sub(m) \in 0 .. SubSlots - 1 /\ MicrosPerSec \in Nat \ {0}
    BY Bounds, SubFits
  <2>9. ASSUME m + 1 < MicrosPerSec, V7AtDateTime(s, m + 1) # Refused
        PROVE  Sorts(uuid, V7AtDateTime(s, m + 1))
    <3> DEFINE ms2 == (m + 1) \div MicrosPerMs
               n2 == s * MsPerSec + ms2
               v == V7AtDateTime(s, m + 1)
    <3>1. m + 1 \in 0 .. MicrosPerSec - 1
      BY <2>8, <2>9
    <3>2. n2 \in 0 .. MsMax /\ v = LayV7(Limbs3(n2), Sub(m + 1))
      BY <2>9, <3>1, NotRefused
    <3>3. Ms(v) = n2 /\ v.sub = Sub(m + 1)
      BY <3>2, MsRead DEF LayV7
    <3>4. (ms2 = ms /\ Sub(m) < Sub(m + 1)) \/ ms2 = ms + 1
      BY <2>8, NextMicro
    <3>5. ms \in 0 .. MsPerSec - 1 /\ s * MsPerSec \in Int
      <4>1. m \in 0 .. MicrosPerSec /\ m # MicrosPerSec
        BY <2>8
      <4> QED
        BY <4>1, PartOfSecond, Spans
    <3> HIDE DEF ms, ms2, v
    <3>6. n < n2 \/ (n = n2 /\ Sub(m) < Sub(m + 1))
      BY <3>4, <3>5
    <3> HIDE DEF n, n2
    <3>7. Sorts(uuid, v)
      BY <2>7, <3>3, <3>6 DEF Sorts
    <3> QED
      BY <3>7 DEF v
  <2>10. ASSUME ~(m + 1 < MicrosPerSec), V7AtDateTime(s + 1, 0) # Refused
         PROVE  Sorts(uuid, V7AtDateTime(s + 1, 0))
    <3> DEFINE ms2 == 0 \div MicrosPerMs
               n2 == (s + 1) * MsPerSec + ms2
               v == V7AtDateTime(s + 1, 0)
    <3>1. 0 \in 0 .. MicrosPerSec - 1 /\ s + 1 \in Int
      BY <2>8
    <3>2. n2 \in 0 .. MsMax /\ v = LayV7(Limbs3(n2), Sub(0))
      BY <2>10, <3>1, NotRefused
    <3>3. Ms(v) = n2
      BY <3>2, MsRead
    <3>4. ms \in 0 .. MsPerSec - 1 /\ ms2 \in 0 .. MsPerSec - 1
      <4>1. m \in 0 .. MicrosPerSec /\ m # MicrosPerSec
        BY <2>8
      <4>2. 0 \in 0 .. MicrosPerSec /\ 0 # MicrosPerSec
        BY <2>8
      <4> QED
        BY <4>1, <4>2, PartOfSecond
    <3>5. (s + 1) * MsPerSec = s * MsPerSec + MsPerSec /\ s * MsPerSec \in Int /\ MsPerSec \in Nat
      BY Spans
    <3> HIDE DEF ms, ms2, v
    <3>6. n < n2
      BY <3>4, <3>5
    <3> HIDE DEF n, n2
    <3>7. Sorts(uuid, v)
      BY <2>7, <3>3, <3>6 DEF Sorts
    <3> QED
      BY <3>7 DEF v
  <2>11. later = Refused \/ Sorts(uuid, later)
    BY <2>9, <2>10
  <2> QED
    BY <2>1, <2>5, <2>11
<1> QED
  BY <1>1, RInvHolds, PTL

-----------------------------------------------------------------------------
(* What is laid out is read back.                                          *)

LEMMA TicksRead ==
  ASSUME NEW g \in 0 .. TickMax
  PROVE  /\ Decode(LayV1(g))
              = <<(g \div TicksPerSec) - EpochSecs, (g % TicksPerSec) \div TicksPerMicro>>
         /\ Decode(LayV6(g)) = Decode(LayV1(g))
<1>1. Ticks(LayV1(g)) = g /\ Ticks(LayV6(g)) = g
  BY TicksExact
<1>2. LayV1(g).version # 7 /\ LayV6(g).version # 7
  BY Versions
<1> QED
  BY <1>1, <1>2 DEF Decode

(* v2 keeps the ticks above its low field.                                 *)
LEMMA V2Read ==
  ASSUME NEW g \in 0 .. TickMax, NEW low \in 0 .. LowSpan - 1
  PROVE  LET u == [LayV1(g) EXCEPT !.version = 2, !.low = low]
             k == g - (g % LowSpan)
         IN  /\ u \in [version : {1, 2}, low : 0 .. LowSpan - 1, mid : 0 .. MidSpan - 1,
                       hi : 0 .. HiSpan - 1]
             /\ Decode(u) = <<(k \div TicksPerSec) - EpochSecs, (k % TicksPerSec) \div TicksPerMicro>>
<1> DEFINE v == LayV1(g)
           u == [v EXCEPT !.version = 2, !.low = low]
           k == g - (g % LowSpan)
<1>1. /\ v \in [version : {1}, low : 0 .. LowSpan - 1, mid : 0 .. MidSpan - 1, hi : 0 .. HiSpan - 1]
      /\ Ticks(v) = g /\ v.low = g % LowSpan
  BY TicksExact
<1>2. LowSpan \in Nat \ {0} /\ MidSpan \in Nat \ {0} /\ HiSpan \in Nat \ {0}
  BY Spans
<1> HIDE DEF v
<1>3. u.version = 2 /\ u.low = low /\ u.mid = v.mid /\ u.hi = v.hi
  BY <1>1
<1>4. u \in [version : {1, 2}, low : 0 .. LowSpan - 1, mid : 0 .. MidSpan - 1, hi : 0 .. HiSpan - 1]
  BY <1>1
<1> HIDE DEF u
<1>5. Ticks(u) = k
  <2> DEFINE top == (v.hi * MidSpan + v.mid) * LowSpan
  <2>1. v.mid \in Int /\ v.hi \in Int /\ v.low \in Int
    BY <1>1, <1>2
  <2>2. top \in Int
    BY <1>2, <2>1
  <2>3. v.version = 1
    BY <1>1
  <2>4. Ticks(v) = top + v.low
    BY <2>3 DEF Ticks
  <2>5. Ticks(u) = top + 0
    BY <1>3 DEF Ticks
  <2> HIDE DEF top
  <2> QED
    BY <1>1, <2>1, <2>2, <2>4, <2>5
<1> HIDE DEF k
<1>6. Decode(u) = <<(k \div TicksPerSec) - EpochSecs, (k % TicksPerSec) \div TicksPerMicro>>
  BY <1>3, <1>5 DEF Decode
<1> QED
  BY <1>4, <1>6 DEF u, v, k

LEMMA V7Read ==
  ASSUME NEW n \in 0 .. MsMax, NEW sub \in 0 .. SubSlots - 1
  PROVE  /\ LayV7(Limbs3(n), sub)
              \in [version : {7}, time : [1 .. 3 -> 0 .. Limb - 1], sub : 0 .. SubSlots - 1]
         /\ Decode(LayV7(Limbs3(n), sub)) = <<n \div MsPerSec, (n % MsPerSec) * MicrosPerMs>>
<1>1. Limbs3(n) \in [1 .. 3 -> 0 .. Limb - 1]
  BY LimbsExact
<1>2. Ms(LayV7(Limbs3(n), sub)) = n
  BY MsRead
<1>3. LayV7(Limbs3(n), sub).version = 7
  BY Versions
<1>4. LayV7(Limbs3(n), sub)
        \in [version : {7}, time : [1 .. 3 -> 0 .. Limb - 1], sub : 0 .. SubSlots - 1]
  BY <1>1 DEF LayV7
<1> QED
  BY <1>2, <1>3, <1>4 DEF Decode

(* Each field fits its place, and the time in them is the time asked for.  *)
LEMMA MadeRight ==
  ASSUME TInv, Made
  PROVE  /\ \/ uuid \in [version : {7}, time : [1 .. 3 -> 0 .. Limb - 1], sub : 0 .. SubSlots - 1]
            \/ uuid \in [version : {1, 2}, low : 0 .. LowSpan - 1, mid : 0 .. MidSpan - 1,
                         hi : 0 .. HiSpan - 1]
            \/ uuid \in [version : {6}, top : 0 .. LowSpan * MidSpan - 1, low : 0 .. HiSpan - 1]
         /\ Decode(uuid) = InstantAsked
<1>1. PICK c \in Calls : c = asked
  BY DEF TInv, RInv, Answered
<1>2. PICK u : u = uuid
  OBVIOUS
<1>3. Passable(c) /\ Ranged(c, u) /\ Exact(c, u)
  BY <1>1, <1>2 DEF TInv, Times, RInv, Answered, Made
<1>4. Fits(c)
  BY <1>2, <1>3 DEF Ranged, Made
<1> DEFINE g == Greg(c.at, c.micros)
           k == g - (g % LowSpan)
<1>5. c.at \in Int /\ c.micros \in 0 .. MicrosPerSec - 1
  BY <1>3, <1>4, CallParts DEF Fits
<1>6. CASE c.by = "v1"
  <2>1. g \in 0 .. TickMax
    BY <1>4, <1>6 DEF Fits
  <2>2. u = LayV1(g) \/ u = LayV6(g)
    BY <1>3, <1>4, <1>6 DEF Exact
  <2>3. (g \div TicksPerSec) - EpochSecs = c.at /\ (g % TicksPerSec) \div TicksPerMicro = c.micros
    BY <1>5, TickRange
  <2> HIDE DEF g
  <2>4. Decode(u) = <<c.at, c.micros>>
    BY <2>1, <2>2, <2>3, TicksRead
  <2>5. InstantAsked = <<c.at, c.micros>>
    BY <1>1, <1>6 DEF InstantAsked
  <2>6. LayV1(g) \in [version : {1, 2}, low : 0 .. LowSpan - 1, mid : 0 .. MidSpan - 1,
                      hi : 0 .. HiSpan - 1]
    BY <2>1, TicksExact
  <2> QED
    BY <1>2, <2>1, <2>2, <2>4, <2>5, <2>6, TicksExact
<1>7. CASE c.by = "v2"
  <2>1. g \in 0 .. TickMax
    BY <1>4, <1>7 DEF Fits
  <2>2. PICK low \in 0 .. LowSpan - 1 : u = [LayV1(g) EXCEPT !.version = 2, !.low = low]
    BY <1>3, <1>4, <1>7 DEF Exact
  <2>3. InstantAsked = <<(k \div TicksPerSec) - EpochSecs, (k % TicksPerSec) \div TicksPerMicro>>
    BY <1>1, <1>7 DEF InstantAsked, TicksAsked
  <2> HIDE DEF g
  <2>4. /\ u \in [version : {1, 2}, low : 0 .. LowSpan - 1, mid : 0 .. MidSpan - 1,
                  hi : 0 .. HiSpan - 1]
        /\ Decode(u) = <<(k \div TicksPerSec) - EpochSecs, (k % TicksPerSec) \div TicksPerMicro>>
    BY <2>1, <2>2, V2Read
  <2> QED
    BY <1>2, <2>3, <2>4
<1>8. CASE c.by \notin {"v1", "v2"}
  <2> DEFINE n == MsOf(c)
  <2>1. n \in 0 .. MsMax
    BY <1>4, <1>8 DEF Fits
  <2>2. PICK sub \in 0 .. SubSlots - 1 : u = LayV7(Limbs3(n), sub)
    BY <1>3, <1>4, <1>8 DEF Exact
  <2>3. InstantAsked = <<n \div MsPerSec, (n % MsPerSec) * MicrosPerMs>>
    BY <1>1, <1>8 DEF InstantAsked, MsAsked, MsOf
  <2> HIDE DEF n
  <2>4. /\ u \in [version : {7}, time : [1 .. 3 -> 0 .. Limb - 1], sub : 0 .. SubSlots - 1]
        /\ Decode(u) = <<n \div MsPerSec, (n % MsPerSec) * MicrosPerMs>>
    BY <2>1, <2>2, V7Read
  <2> QED
    BY <1>2, <2>3, <2>4
<1> QED
  BY <1>6, <1>7, <1>8

LEMMA TInvInit ==
  ASSUME Init PROVE TInv
BY RInvInit DEF Init, TInv, Times

LEMMA TInvNext ==
  ASSUME DivisionExact, TInv, [Next]_vars PROVE TInv'
<1>1. RInv /\ RInv'
  BY RInvNext DEF TInv
<1>2. asked' = asked
  BY DEF Next, Make, CompatV7, UuidV2, Convert, GetDateTime, GetTimestampMillis, vars
<1>3. InstantAsked' = InstantAsked
  BY <1>2 DEF InstantAsked, MsAsked, TicksAsked
<1>4. CASE \/ Make("int", V7AtMs(asked.at))
           \/ Make("datetime", V7AtDateTime(asked.at, asked.micros))
           \/ Make("v1", FromDateTime(asked.at, asked.micros))
           \/ \E sub \in {0, SubSlots - 1} : CompatV7(sub)
           \/ \E localId \in {0, LowSpan - 1} : UuidV2(localId)
  <2>1. /\ instant' = instant /\ millis' = millis
        /\ \E v : uuid' \in {v, Failed} /\ Exact(asked, v)
    BY <1>1, <1>4, Making
  <2>2. uuid' \in {None, Failed} \/ Exact(asked', uuid')
    BY <1>2, <2>1
  <2> QED
    BY <1>1, <1>3, <2>1, <2>2 DEF TInv, Times
<1>5. CASE Convert(1, FromV1(uuid)) \/ Convert(6, ToV1(uuid))
  <2>1. /\ Made /\ uuid.version \in {1, 6} /\ instant' = instant /\ millis' = millis
        /\ uuid' \in {LayV1(Ticks(uuid)), LayV6(Ticks(uuid))}
    BY <1>5 DEF Convert, FromV1, ToV1
  <2>2. Exact(asked, uuid) /\ Fits(asked)
    BY <1>1, <2>1, Converting DEF TInv, Times, Made
  <2> DEFINE g == Greg(asked.at, asked.micros)
  <2>3. asked.by = "v1"
    <3>1. CASE asked.by = "v2"
      <4>1. PICK low \in 0 .. LowSpan - 1 : uuid = [LayV1(g) EXCEPT !.version = 2, !.low = low]
        BY <2>2, <3>1 DEF Exact
      <4>2. uuid.version = 2
        BY <4>1 DEF LayV1
      <4> QED
        BY <2>1, <4>2
    <3>2. CASE asked.by \notin {"v1", "v2"}
      <4>1. PICK sub \in 0 .. SubSlots - 1 : uuid = LayV7(Limbs3(MsOf(asked)), sub)
        BY <2>2, <3>2 DEF Exact
      <4> QED
        BY <2>1, <4>1, Versions
    <3> QED
      BY <3>1, <3>2
  <2>4. uuid \in {LayV1(g), LayV6(g)} /\ g \in 0 .. TickMax
    BY <2>2, <2>3 DEF Exact, Fits
  <2>5. Ticks(uuid) = g
    <3>1. PICK h \in 0 .. TickMax : h = g
      BY <2>4
    <3>2. Ticks(LayV1(h)) = h /\ Ticks(LayV6(h)) = h
      BY TicksExact
    <3> QED
      BY <2>4, <3>1, <3>2
  <2>6. uuid' \in {LayV1(g), LayV6(g)}
    BY <2>1, <2>5
  <2>7. Exact(asked', uuid')
    BY <1>2, <2>3, <2>6 DEF Exact
  <2> QED
    BY <1>1, <1>3, <2>1, <2>7 DEF TInv, Times
<1>6. CASE GetDateTime
  <2>1. Made /\ uuid' = uuid /\ millis' = millis /\ instant' \in DateTimes(Decode(uuid))
    BY <1>6 DEF GetDateTime
  <2>2. Decode(uuid) = InstantAsked
    BY <2>1, MadeRight
  <2>3. instant' \in {NoDate, InstantAsked}
    BY <2>1, <2>2 DEF DateTimes
  <2> QED
    BY <1>1, <1>2, <1>3, <2>1, <2>3 DEF TInv, Times
<1>7. CASE GetTimestampMillis
  <2>1. /\ Made /\ uuid' = uuid /\ instant' = instant
        /\ millis' = <<Decode(uuid)[1] * MsPerSec + Decode(uuid)[2] \div MicrosPerMs>>
    BY <1>7 DEF GetTimestampMillis
  <2>2. Decode(uuid) = InstantAsked
    BY <2>1, MadeRight
  <2>3. millis' = <<InstantAsked[1] * MsPerSec + InstantAsked[2] \div MicrosPerMs>>
    BY <2>1, <2>2
  <2> QED
    BY <1>1, <1>2, <1>3, <2>1, <2>3 DEF TInv, Times
<1>8. CASE UNCHANGED vars
  BY <1>1, <1>2, <1>3, <1>8 DEF vars, TInv, Times
<1> QED
  BY <1>4, <1>5, <1>6, <1>7, <1>8 DEF Next

(* Where the long divisions are exact, which TLC checks for the spans it   *)
(* is given: the invariant of what is laid out and read.                   *)
THEOREM TInvHolds ==
  ASSUME DivisionExact PROVE Spec => []TInv
<1>1. Init => TInv
  BY TInvInit
<1>2. TInv /\ [Next]_vars => TInv'
  BY TInvNext
<1> QED
  BY <1>1, <1>2, PTL DEF Spec

(* Every field fits its place in the sixteen bytes.                        *)
THEOREM FieldsFit ==
  ASSUME DivisionExact PROVE Spec => []TypeOK
<1>1. TInv => TypeOK
  <2> SUFFICES ASSUME TInv PROVE TypeOK
    OBVIOUS
  <2>1. asked \in Calls
    BY DEF TInv, RInv, Answered
  <2>2. CASE Made
    BY <2>1, <2>2, MadeRight DEF TypeOK
  <2>3. CASE ~Made
    BY <2>1, <2>3 DEF Made, TypeOK
  <2> QED
    BY <2>2, <2>3
<1>2. Spec => []TInv
  BY TInvHolds
<1> QED
  BY <1>1, <1>2, PTL

(* getDateTime() and getTimestampMillis() tell the time asked for, to the  *)
(* precision of the field, or throw.                                       *)
THEOREM TimeReadBack ==
  ASSUME DivisionExact PROVE Spec => []ReadsBack
<1>1. TInv => ReadsBack
  BY DEF TInv, Times, ReadsBack
<1>2. Spec => []TInv
  BY TInvHolds
<1> QED
  BY <1>1, <1>2, PTL

-----------------------------------------------------------------------------
(* The products.                                                           *)

(* A limb times the milliseconds of a second, with a carry of no more than *)
(* a second, fits, and carries no more than a second.                      *)
LEMMA OneProduct ==
  ASSUME NEW l \in 0 .. Limb - 1, NEW c \in 0 .. MsPerSec
  PROVE  LET p == l * MsPerSec + c
         IN  p \in Nat /\ p <= Limb * MsPerSec /\ p \div Limb \in 0 .. MsPerSec
<1> DEFINE p == l * MsPerSec + c
           a == Limb * MsPerSec
           b == Limb * (MsPerSec + 1)
<1>1. Limb \in Nat \ {0} /\ MsPerSec \in Nat \ {0} /\ MsPerSec + 1 \in Nat
  BY Spans
<1>2. (Limb - 1 - l) * MsPerSec >= 0 /\ l * MsPerSec \in Nat
  BY <1>1
<1>3. (Limb - 1 - l) * MsPerSec = Limb * MsPerSec - MsPerSec - l * MsPerSec
  BY <1>1
<1>4. a \in Nat /\ b = a + Limb
  BY <1>1
<1>5. p \in Nat /\ p <= a
  <2> DEFINE lk == l * MsPerSec
  <2>1. lk \in Nat /\ a - MsPerSec - lk >= 0
    BY <1>2, <1>3
  <2> HIDE DEF lk, a
  <2>2. lk + c \in Nat /\ lk + c <= a
    BY <1>1, <1>4, <2>1
  <2> QED
    BY <2>2 DEF lk
<1> HIDE DEF p, a
<1>6. p < b
  BY <1>1, <1>4, <1>5
<1>7. p \div Limb \in Nat /\ (p < b <=> p \div Limb < MsPerSec + 1)
  BY <1>1, <1>5, DivBelow
<1>8. p \div Limb \in 0 .. MsPerSec
  BY <1>1, <1>6, <1>7
<1> QED
  BY <1>5, <1>8 DEF p, a

(* The top limb may be that of the latest second of the integers.          *)
LEMMA TopProduct ==
  ASSUME NEW intMax \in IntMaxes, NEW secs \in Nat, secs <= intMax,
         NEW c \in 0 .. MsPerSec
  PROVE  (secs \div (Limb * Limb)) * MsPerSec + c <= intMax
<1> DEFINE LL == Limb * Limb
           h == secs \div LL
           hk == h * MsPerSec
           hL == h * Limb
<1>1. /\ Limb \in Nat \ {0} /\ MsPerSec \in Nat \ {0} /\ LL \in Nat \ {0} /\ MsPerSec <= Limb
      /\ Limb >= 2
  <2>1. Base \in Nat \ {0, 1} /\ Base <= Limb
    BY TimeAssumption
  <2> QED
    BY <2>1, Spans
<1>2. intMax \in Nat /\ intMax >= Limb * (MsPerSec + 1)
  BY TimeAssumption
<1> HIDE DEF LL
<1>3. secs = LL * h + (secs % LL) /\ secs % LL \in 0 .. LL - 1 /\ h \in Nat
  <2>1. secs \in Int
    OBVIOUS
  <2>2. secs = LL * h + (secs % LL) /\ secs % LL \in 0 .. LL - 1
    BY <1>1, <2>1, DivMod, Zenon
  <2> QED
    BY <1>1, <2>2, DivNat
<1> HIDE DEF h
<1>4. hk \in Nat /\ hL \in Nat /\ hk <= hL
  <2>1. h * (Limb - MsPerSec) >= 0
    BY <1>1, <1>3
  <2>2. h * (Limb - MsPerSec) = h * Limb - h * MsPerSec
    BY <1>1, <1>3
  <2>3. h * Limb \in Nat /\ h * MsPerSec \in Nat
    BY <1>1, <1>3
  <2> QED
    BY <2>1, <2>2, <2>3
<1>5. 2 * hL <= LL * h
  <2>1. LL * h = hL * Limb
    BY <1>1, <1>3 DEF LL
  <2>2. hL * (Limb - 2) >= 0
    BY <1>1, <1>4
  <2>3. hL * (Limb - 2) = hL * Limb - 2 * hL
    BY <1>1, <1>4
  <2>4. hL * Limb \in Int
    BY <1>1, <1>4
  <2> HIDE DEF hL
  <2> QED
    BY <1>4, <2>1, <2>2, <2>3, <2>4
<1>6. 2 * (MsPerSec + 1) <= Limb * (MsPerSec + 1)
  <2>1. (Limb - 2) * (MsPerSec + 1) >= 0
    BY <1>1
  <2>2. (Limb - 2) * (MsPerSec + 1) = Limb * (MsPerSec + 1) - 2 * (MsPerSec + 1)
    BY <1>1
  <2>3. Limb * (MsPerSec + 1) \in Int
    BY <1>1
  <2> QED
    BY <1>1, <2>1, <2>2, <2>3
<1>7. 2 * (MsPerSec + 1) <= intMax
  <2>1. Limb * (MsPerSec + 1) \in Int
    BY <1>1
  <2> QED
    BY <1>1, <1>2, <1>6, <2>1
<1>8. 2 * hk <= intMax
  <2>1. LL * h \in Int
    BY <1>1, <1>3
  <2> HIDE DEF hk, hL
  <2> QED
    BY <1>1, <1>2, <1>3, <1>4, <1>5, <2>1
<1> HIDE DEF hk
<1>9. hk + c <= intMax
  BY <1>1, <1>2, <1>4, <1>7, <1>8
<1> QED
  BY <1>9 DEF hk, h, LL

(* Three limbs, the top one of an int or of a division.                    *)
LEMMA ProductsFit ==
  ASSUME NEW intMax \in IntMaxes, NEW secs \in Nat, NEW ms \in 0 .. MsPerSec,
         NEW l, \/ l = IntLimbs(secs) /\ secs <= intMax
                \/ l = <<secs % Limb, (secs \div Limb) % Limb, (secs \div (Limb * Limb)) % Limb>>
  PROVE  \A p \in Range(Products(l, ms)) : p <= intMax
<1> DEFINE p1 == l[1] * MsPerSec + ms
           p2 == l[2] * MsPerSec + p1 \div Limb
           p3 == l[3] * MsPerSec + p2 \div Limb
<1>1. Limb \in Nat \ {0} /\ MsPerSec \in Nat \ {0} /\ Limb * Limb \in Nat \ {0}
  BY Spans
<1>2. \A n \in Nat : n % Limb \in 0 .. Limb - 1
  <2>1. Nat \subseteq Int
    OBVIOUS
  <2> QED
    BY <1>1, <2>1, DivMod
<1>3. l[1] \in 0 .. Limb - 1 /\ l[2] \in 0 .. Limb - 1
  <2>1. secs \div Limb \in Nat
    BY <1>1, DivNat
  <2>2. l[1] = secs % Limb /\ l[2] = (secs \div Limb) % Limb
    BY DEF IntLimbs
  <2> QED
    BY <1>2, <2>1, <2>2
<1>4. /\ intMax \in Nat /\ Limb * MsPerSec \in Nat /\ Limb * MsPerSec <= intMax
  <2>1. intMax \in Nat /\ intMax >= Limb * (MsPerSec + 1)
    BY TimeAssumption
  <2>2. Limb * (MsPerSec + 1) = Limb * MsPerSec + Limb /\ Limb * MsPerSec \in Nat
    BY <1>1
  <2> QED
    BY <1>1, <2>1, <2>2
<1>5. p1 \in Nat /\ p1 <= Limb * MsPerSec /\ p1 \div Limb \in 0 .. MsPerSec
  BY <1>3, OneProduct
<1> HIDE DEF p1
<1>6. p2 \in Nat /\ p2 <= Limb * MsPerSec /\ p2 \div Limb \in 0 .. MsPerSec
  BY <1>3, <1>5, OneProduct
<1> HIDE DEF p2
<1>7. p3 <= intMax
  <2> DEFINE c == p2 \div Limb
  <2>1. c \in 0 .. MsPerSec
    BY <1>6
  <2> HIDE DEF c
  <2>2. CASE l = IntLimbs(secs) /\ secs <= intMax
    <3>1. l[3] = secs \div (Limb * Limb)
      BY <2>2 DEF IntLimbs
    <3>2. (secs \div (Limb * Limb)) * MsPerSec + c <= intMax
      BY <2>1, <2>2, TopProduct
    <3> QED
      BY <3>1, <3>2 DEF c
  <2>3. CASE l = <<secs % Limb, (secs \div Limb) % Limb, (secs \div (Limb * Limb)) % Limb>>
    <3>1. secs \div (Limb * Limb) \in Nat
      BY <1>1, DivNat
    <3>2. l[3] \in 0 .. Limb - 1
      BY <1>2, <2>3, <3>1
    <3>3. l[3] * MsPerSec + c \in Nat /\ l[3] * MsPerSec + c <= Limb * MsPerSec
      BY <2>1, <3>2, OneProduct
    <3> DEFINE p == l[3] * MsPerSec + c
               a == Limb * MsPerSec
    <3>4. p \in Nat /\ p <= a /\ a \in Nat /\ a <= intMax
      BY <1>4, <3>3
    <3> HIDE DEF p, a
    <3>5. p <= intMax
      BY <1>4, <3>4
    <3> QED
      BY <3>5 DEF p, c
  <2> QED
    BY <2>2, <2>3
<1>8. p1 <= intMax /\ p2 <= intMax
  <2> DEFINE a == Limb * MsPerSec
  <2>1. p1 \in Nat /\ p2 \in Nat /\ p1 <= a /\ p2 <= a /\ a \in Nat /\ a <= intMax
    BY <1>4, <1>5, <1>6
  <2> HIDE DEF a
  <2> QED
    BY <1>4, <2>1
<1>9. Products(l, ms) = <<p1, p2, p3>>
  BY DEF Products, p1, p2
<1> HIDE DEF p3
<1>10. Range(Products(l, ms)) = {p1, p2, p3}
  BY <1>9 DEF Range
<1> QED
  BY <1>7, <1>8, <1>10

(* The seconds within the guard may be multiplied.                         *)
LEMMA GuardedFits ==
  ASSUME NEW secs \in Int, Guarded(secs), NEW micros \in 0 .. MicrosPerSec
  PROVE  -WordMax <= secs * TicksPerSec /\ Greg(secs, micros) <= WordMax
<1> DEFINE T == TicksPerSec
           s == secs * T
           p == SecGuard * T
           t == micros * TicksPerMicro
<1>1. /\ T \in Nat \ {0} /\ SecGuard \in Nat /\ Epoch \in Nat /\ TicksPerMicro \in Nat \ {0}
      /\ MicrosPerSec \in Nat \ {0}
  BY Spans, Bounds
<1>2. WordMax \in Nat /\ p + T + Epoch <= WordMax
  BY TimeAssumption
<1>3. -SecGuard <= secs /\ secs <= SecGuard
  BY DEF Guarded
<1>4. t \in Nat /\ t <= T
  <2>1. T = MicrosPerSec * TicksPerMicro
    BY DEF TicksPerSec
  <2>2. (MicrosPerSec - micros) * TicksPerMicro >= 0 /\ t \in Nat
    BY <1>1
  <2>3. (MicrosPerSec - micros) * TicksPerMicro = T - t
    BY <1>1, <2>1
  <2> HIDE DEF T, t
  <2> QED
    BY <1>1, <2>2, <2>3
<1>5. Greg(secs, micros) = s + t + Epoch
  BY DEF Greg
<1> HIDE DEF T, t
<1>6. (SecGuard - secs) * T >= 0 /\ (SecGuard + secs) * T >= 0
  BY <1>1, <1>3
<1>7. (SecGuard - secs) * T = p - s /\ (SecGuard + secs) * T = p + s
  BY <1>1
<1>8. p \in Int /\ s \in Int
  BY <1>1
<1> HIDE DEF p, s
<1>9. -WordMax <= s /\ s + t + Epoch <= WordMax
  BY <1>1, <1>2, <1>4, <1>6, <1>7, <1>8
<1> QED
  BY <1>5, <1>9 DEF s, T

(* fu_dt_to_greg() multiplies below 2^63, and packV7Milliseconds() and     *)
(* packV7DecimalSeconds() below the largest int of the build, 32 bits too. *)
THEOREM ProductsInWords ==
  ASSUME DivisionExact PROVE Spec => []WordsSuffice
<1>1. RInv => WordsSuffice
  <2> SUFFICES ASSUME RInv PROVE WordsSuffice
    OBVIOUS
  <2>1. PICK c \in Calls : c = asked
    BY DEF RInv, Answered
  <2>2. Passable(c)
    BY <2>1 DEF RInv, Answered
  <2>3. c.at \in Int /\ c.micros \in 0 .. MicrosPerSec /\ c.intMax \in IntMaxes
    BY <2>2, CallParts
  <2>4. c.micros \div MicrosPerMs \in 0 .. MsPerSec
    BY <2>3, PartOfSecond
  <2>5. ASSUME c.by = "v1", Guarded(c.at)
        PROVE  -WordMax <= c.at * TicksPerSec /\ Greg(c.at, c.micros) <= WordMax
    BY <2>3, <2>5, GuardedFits
  <2>6. ASSUME c.by = "compatOther", c.at >= 0
        PROVE  \A p \in Range(Products(IntLimbs(c.at), c.micros \div MicrosPerMs)) : p <= c.intMax
    <3>1. c.at \in Nat /\ c.at <= c.intMax
      BY <2>2, <2>3, <2>6, CallParts
    <3> QED
      BY <2>3, <2>4, <3>1, ProductsFit
  <2>7. ASSUME c.by = "compatBuiltIn", c.at >= 0
        PROVE  \A p \in Range(Products(DigitLimbs(Digits[c.at]), c.micros \div MicrosPerMs)) :
                 p <= c.intMax
    <3>1. c.at \in Nat /\ c.at \in Seconds
      BY <2>3, <2>7 DEF Calls
    <3>2. DigitLimbs(Digits[c.at])
            = <<c.at % Limb, (c.at \div Limb) % Limb, (c.at \div (Limb * Limb)) % Limb>>
      BY <2>7, <3>1 DEF DivisionExact
    <3> QED
      BY <2>3, <2>4, <3>1, <3>2, ProductsFit
  <2> QED
    BY <2>1, <2>5, <2>6, <2>7 DEF WordsSuffice
<1> QED
  BY <1>1, RInvHolds, PTL
=============================================================================
