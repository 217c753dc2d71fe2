---------------------------- MODULE ExplicitTime ----------------------------
(***************************************************************************)
(* UUIDs for a time the caller gives, and the time read back from a UUID:  *)
(* uuid7(int), uuid7(DateTimeInterface), fromDateTime(), the compat        *)
(* layer's own packing of uuid7 for a custom random generator, the change  *)
(* between v1 and v6, getDateTime() and getTimestampMillis().  Bounds are  *)
(* tested before and after multiplications that must not overflow, and the *)
(* compat layer multiplies in limbs so that 32-bit integers suffice.       *)
(***************************************************************************)
EXTENDS Integers, Sequences, SequencesExt

CONSTANTS
  MsPerSec, MicrosPerMs,  (* 1000 and 1000                                  *)
  TicksPerMicro,          (* 10: a tick is 100 ns                           *)
  SubSlots,               (* 4096 values of rand_a                          *)
  Limb,                   (* 2^16; three of them hold the milliseconds      *)
  LowSpan, MidSpan, HiSpan, (* 2^32, 2^16, 2^12: time_low, time_mid, time_hi *)
  EpochSecs,              (* seconds from 1582-10-15 to 1970                *)
  SecGuard,               (* 200000000000: bound tested before multiplying  *)
  WordMax,                (* INT64_MAX                                      *)
  Base,                   (* 10: the digits of format("U")                  *)
  IntMaxes,               (* PHP_INT_MAX of each build                      *)
  WideIntMax,             (* that of 64-bit builds                          *)
  Seconds, Millis         (* arguments tried                                *)

MicrosPerSec == MsPerSec * MicrosPerMs
TicksPerSec == MicrosPerSec * TicksPerMicro
Epoch == EpochSecs * TicksPerSec   (* FU_GREG_UNIX_EPOCH, whole seconds *)
MsMax == Limb * Limb * Limb - 1    (* FU_MS48_MAX *)
SecMax == MsMax \div MsPerSec      (* 281474976710 *)
TickMax == LowSpan * MidSpan * HiSpan - 1

ASSUME TimeAssumption ==
  /\ {MsPerSec, MicrosPerMs, TicksPerMicro, Limb, LowSpan, MidSpan, HiSpan} \subseteq Nat \ {0}
  /\ SubSlots \in Nat /\ SubSlots >= MicrosPerMs
  /\ EpochSecs \in Nat /\ SecGuard \in Nat
  /\ SecGuard * TicksPerSec + TicksPerSec + Epoch <= WordMax
  /\ Epoch <= SecGuard * TicksPerSec
  /\ TickMax < (SecGuard + EpochSecs) * TicksPerSec
  /\ Base \in Nat \ {0, 1} /\ Base <= Limb /\ MsPerSec <= Limb
  /\ WordMax \in Nat /\ IntMaxes \subseteq Nat
  /\ \A m \in IntMaxes : m >= Limb * (MsPerSec + 1)
  /\ WideIntMax \in IntMaxes /\ WideIntMax >= MsMax
  /\ \A m \in IntMaxes : m = WideIntMax \/ m < Limb * Limb
  /\ Seconds \subseteq Int /\ Millis \subseteq Int

VARIABLES
  asked,     \* the call, its argument, and the build it runs on
  uuid,      \* what it returned: the time fields of a UUID, or a refusal
  instant,   \* what getDateTime() says of it: seconds and microseconds
  millis     \* what getTimestampMillis() says of it

vars == <<asked, uuid, instant, millis>>

(* What an overriding time object may answer besides: an exception, or no  *)
(* int and six digits, which is one value here, past the microseconds.     *)
Malformed == MicrosPerSec

None == [version |-> 0]      (* not there yet *)
Refused == [version |-> -1]  (* an exception: out of range *)
Failed == [version |-> -2]   (* an exception: of the random draw or of the time object *)
Unread == << >>
NoDate == <<"noDate">>       (* an exception of ext/date                  *)

-----------------------------------------------------------------------------
(* Layouts.  fu_lay_v7 writes 48 bits of milliseconds, then rand_a.        *)
Limbs3(ms) == <<ms \div (Limb * Limb), (ms \div Limb) % Limb, ms % Limb>>
LayV7(time, sub) == [version |-> 7, time |-> time, sub |-> sub]
LayV1(g) == [version |-> 1, low |-> g % LowSpan, mid |-> (g \div LowSpan) % MidSpan,
             hi |-> (g \div (LowSpan * MidSpan)) % HiSpan]
LayV6(g) == [version |-> 6, top |-> (g \div HiSpan) % (LowSpan * MidSpan), low |-> g % HiSpan]

(* fu_decode_time: 60 bits of ticks, those of v2 without the lowest 32.    *)
Ticks(u) ==
  IF u.version = 6 THEN u.top * HiSpan + u.low
  ELSE (u.hi * MidSpan + u.mid) * LowSpan + (IF u.version = 2 THEN 0 ELSE u.low)
Ms(u) == (u.time[1] * Limb + u.time[2]) * Limb + u.time[3]
Decode(u) ==
  IF u.version = 7 THEN <<Ms(u) \div MsPerSec, (Ms(u) % MsPerSec) * MicrosPerMs>>
  ELSE <<(Ticks(u) \div TicksPerSec) - EpochSecs, (Ticks(u) % TicksPerSec) \div TicksPerMicro>>

-----------------------------------------------------------------------------
(* The extension.  Mutant: a slot for the whole second, not for its ms.    *)
SubOfSecond(micros) == (micros * SubSlots) \div MicrosPerSec
Sub(micros) == ((micros % MicrosPerMs) * SubSlots) \div MicrosPerMs

V7AtMs(ms) == IF ms < 0 \/ ms > MsMax THEN Refused ELSE LayV7(Limbs3(ms), 0)

(* fu_dt_secs_micros() and v7TimestampBytes() take six digits and no more, *)
(* so that nothing carries into the seconds.  Mutant: any number will do.  *)
AnyNumber(micros) == TRUE
SixDigits(micros) == micros # Malformed

(* Mutant: rand_a is not cut to its millisecond.                          *)
V7WideSub(secs, micros) ==
  IF secs < 0 \/ secs > SecMax \/ secs * MsPerSec + micros \div MicrosPerMs > MsMax THEN Refused
  ELSE LayV7(Limbs3(secs * MsPerSec + micros \div MicrosPerMs), (micros * SubSlots) \div MicrosPerMs)

V7AtDateTime(secs, micros) ==
  LET ms == secs * MsPerSec + micros \div MicrosPerMs
  IN  IF ~SixDigits(micros) \/ secs < 0 \/ secs > SecMax \/ ms > MsMax THEN Refused
      ELSE LayV7(Limbs3(ms), Sub(micros))

(* Mutant: the multiplication is not guarded.                              *)
Unguarded(secs) == TRUE
Guarded(secs) == -SecGuard <= secs /\ secs <= SecGuard
Greg(secs, micros) == secs * TicksPerSec + micros * TicksPerMicro + Epoch
FromDateTime(secs, micros) ==
  IF ~SixDigits(micros) \/ ~Guarded(secs) \/ Greg(secs, micros) < 0 \/ Greg(secs, micros) > TickMax THEN Refused
  ELSE LayV1(Greg(secs, micros))

-----------------------------------------------------------------------------
(* The compat layer.  A product of each limb, with the carry of the last.  *)
Products(l, ms) ==
  LET p1 == l[1] * MsPerSec + ms
      p2 == l[2] * MsPerSec + p1 \div Limb
  IN  <<p1, p2, l[3] * MsPerSec + p2 \div Limb>>

(* Mutant: the carry of the middle limb is lost.                           *)
PackNoCarry(l, ms) ==
  LET p == Products(l, ms) IN <<(l[3] * MsPerSec) % Limb, p[2] % Limb, p[1] % Limb>>
Pack(l, ms) == LET p == Products(l, ms) IN <<p[3] % Limb, p[2] % Limb, p[1] % Limb>>

(* packV7Milliseconds: the limbs of an int; packV7DecimalSeconds: those of *)
(* a string of digits, by long division until the quotient is empty.       *)
IntLimbs(secs) == <<secs % Limb, (secs \div Limb) % Limb, secs \div (Limb * Limb)>>
Digits[n \in Nat] == IF n < Base THEN <<n>> ELSE Append(Digits[n \div Base], n % Base)
Divide(digits) ==
  FoldLeft(LAMBDA d, digit :
             LET current == d.remainder * Base + digit
             IN  [quotient |-> IF d.quotient # << >> \/ current >= Limb
                               THEN Append(d.quotient, current \div Limb) ELSE << >>,
                  remainder |-> current % Limb],
           [quotient |-> << >>, remainder |-> 0], digits)
DigitLimbs(digits) ==
  LET d1 == Divide(digits)
      d2 == Divide(d1.quotient)
  IN  <<d1.remainder, d2.remainder, Divide(d2.quotient).remainder>>

(* What the long divisions are for: the limbs that an int would have.      *)
DivisionExact ==
  \A secs \in Seconds : secs >= 0 =>
    DigitLimbs(Digits[secs])
      = <<secs % Limb, (secs \div Limb) % Limb, (secs \div (Limb * Limb)) % Limb>>

CompatInt(ms, sub) ==
  IF ms < 0 \/ ms > MsMax THEN Refused
  ELSE LayV7(Pack(IntLimbs(ms \div MsPerSec), ms % MsPerSec), sub)
(* Mutant: the last second is taken whole.                                 *)
CompatLastSecondWhole(secs, ms, sub) ==
  IF secs < 0 \/ secs > SecMax THEN Refused
  ELSE LayV7(Pack(DigitLimbs(Digits[secs]), ms), sub)
CompatBuiltIn(secs, ms, sub) ==
  IF secs < 0 \/ secs > SecMax \/ (secs = SecMax /\ ms > MsMax % MsPerSec) THEN Refused
  ELSE LayV7(Pack(DigitLimbs(Digits[secs]), ms), sub)
CompatOther(secs, micros, sub, intMax) ==
  LET ms == micros \div MicrosPerMs
  IN  IF \/ ~SixDigits(micros) \/ secs < 0
         \/ intMax = WideIntMax /\ secs > (MsMax - ms) \div MsPerSec
      THEN Refused
      ELSE LayV7(Pack(IntLimbs(secs), ms), sub)

(* UuidV6::fromUuidV1() and toUuidV1() cut the same 15 hex digits anew.    *)
FromV1(u) == LayV6(Ticks(u))
ToV1(u) == LayV1(Ticks(u))

-----------------------------------------------------------------------------
(* A build passes no int beyond its own; a built-in DateTime may be later. *)
(* An overriding object is asked twice, and what it answers the second time*)
(* need not fit the first: every pair is tried.                            *)
Calls ==
  [by : {"int", "compatInt"}, at : Millis, micros : {0}, intMax : IntMaxes]
    \cup [by : {"datetime", "v1", "v2", "compatBuiltIn", "compatOther"}, at : Seconds,
          micros : 0 .. Malformed, intMax : IntMaxes]
Overriding == {"datetime", "v1", "compatOther"}
Passable(c) ==
  /\ c.micros = Malformed => c.by \in Overriding
  /\ c.by \in {"int", "compatInt", "compatOther"} => c.at <= c.intMax
  /\ c.by = "v2" => c.at >= 0 /\ Greg(c.at, c.micros) <= TickMax

Init ==
  /\ asked \in {c \in Calls : Passable(c)}
  /\ uuid = None /\ instant = Unread /\ millis = Unread

(* The range is tested before anything random is asked for, and after the  *)
(* time object has answered or thrown.                                     *)
Make(by, u) ==
  /\ uuid = None /\ asked.by = by
  /\ uuid' \in IF u = Refused /\ by \notin Overriding THEN {Refused} ELSE {u, Failed}
  /\ UNCHANGED <<asked, instant, millis>>

(* The ten random bytes of a custom generator fill rand_a.                 *)
CompatV7(sub) ==
  LET ms == asked.micros \div MicrosPerMs
  IN  \/ Make("compatInt", CompatInt(asked.at, sub))
      \/ Make("compatBuiltIn", CompatBuiltIn(asked.at, ms, sub))
      \/ Make("compatOther", CompatOther(asked.at, asked.micros, sub, asked.intMax))

(* v2 lays out the clock's time as v1 does and overwrites the low field.   *)
UuidV2(localId) ==
  Make("v2", [LayV1(Greg(asked.at, asked.micros)) EXCEPT !.version = 2, !.low = localId])

Made == uuid \notin {None, Refused, Failed}
Convert(version, u) ==
  /\ Made /\ uuid.version = version
  /\ uuid' = u
  /\ UNCHANGED <<asked, instant, millis>>

(* What php_date_initialize_from_ts_long() builds from seconds that are an *)
(* int of this build: the instant, or the last one it can tell.            *)
Saturated == <<SecGuard, 0>>
IsInt(n) == -asked.intMax - 1 <= n /\ n <= asked.intMax
FromTsLong(i) == IF IsInt(i[1]) THEN {i, Saturated} ELSE {}

(* Mutant: what it built is not compared with what was asked of it.        *)
DateTimesUnchecked(i) == FromTsLong(i) \cup {i, NoDate}

(* fu_make_datetime(): that object if it reads back right (on PHP 8.4), or *)
(* else the instant by way of createFromFormat("U.u"), which may refuse it.*)
DateTimes(i) == {built \in FromTsLong(i) : built = i} \cup {i, NoDate}

GetDateTime ==
  /\ Made /\ instant' \in DateTimes(Decode(uuid))
  /\ UNCHANGED <<asked, uuid, millis>>

(* Throws if the number is no int of this build.                           *)
GetTimestampMillis ==
  LET d == Decode(uuid)
      n == d[1] * MsPerSec + d[2] \div MicrosPerMs
  IN  /\ Made
      /\ IsInt(n)
      /\ millis' = <<n>>
      /\ UNCHANGED <<asked, uuid, instant>>

Next ==
  \/ Make("int", V7AtMs(asked.at))
  \/ Make("datetime", V7AtDateTime(asked.at, asked.micros))
  \/ Make("v1", FromDateTime(asked.at, asked.micros))
  \/ \E sub \in {0, SubSlots - 1} : CompatV7(sub)
  \/ \E localId \in {0, LowSpan - 1} : UuidV2(localId)
  \/ Convert(1, FromV1(uuid))
  \/ Convert(6, ToV1(uuid))
  \/ GetDateTime
  \/ GetTimestampMillis

Spec == Init /\ [][Next]_vars

-----------------------------------------------------------------------------
(* Every field fits its place in the sixteen bytes.                        *)
TypeOK ==
  /\ asked \in Calls
  /\ \/ uuid \in {None, Refused, Failed}
     \/ uuid \in [version : {7}, time : [1 .. 3 -> 0 .. Limb - 1], sub : 0 .. SubSlots - 1]
     \/ uuid \in [version : {1, 2}, low : 0 .. LowSpan - 1, mid : 0 .. MidSpan - 1,
                  hi : 0 .. HiSpan - 1]
     \/ uuid \in [version : {6}, top : 0 .. LowSpan * MidSpan - 1, low : 0 .. HiSpan - 1]

(* The time a call is for, in milliseconds or in ticks, with no rounding   *)
(* but down and no bound.                                                  *)
MsAsked ==
  IF asked.by \in {"int", "compatInt"} THEN asked.at
  ELSE asked.at * MsPerSec + asked.micros \div MicrosPerMs
TicksAsked == Greg(asked.at, asked.micros)

(* A time is refused exactly when the field cannot hold it or it is not    *)
(* one, in the extension and in the compat layer alike.                    *)
RefusedOutOfRange ==
  uuid \notin {None, Failed} =>
    (uuid = Refused <=>
       \/ asked.micros = Malformed
       \/ IF asked.by \in {"v1", "v2"} THEN TicksAsked \notin 0 .. TickMax
          ELSE MsAsked \notin 0 .. MsMax)

(* What is read back is the time asked for, to the precision of the field: *)
(* the microsecond in v1 and v6, the millisecond in v7, and in v2 the unit *)
(* its low field would have counted.                                       *)
InstantAsked ==
  IF asked.by = "v2"
  THEN LET g == TicksAsked - (TicksAsked % LowSpan)
       IN  <<(g \div TicksPerSec) - EpochSecs, (g % TicksPerSec) \div TicksPerMicro>>
  ELSE IF asked.by = "v1" THEN <<asked.at, asked.micros>>
  ELSE <<MsAsked \div MsPerSec, (MsAsked % MsPerSec) * MicrosPerMs>>
ReadsBack ==
  /\ instant \notin {Unread, NoDate} => instant = InstantAsked
  /\ millis # Unread =>
       millis[1] = InstantAsked[1] * MsPerSec + InstantAsked[2] \div MicrosPerMs

(* No product on the way leaves the integers of the language it is made in.*)
WordsSuffice ==
  /\ asked.by = "v1" /\ Guarded(asked.at) =>
       -WordMax <= asked.at * TicksPerSec /\ Greg(asked.at, asked.micros) <= WordMax
  /\ asked.by \in {"compatBuiltIn", "compatOther"} /\ asked.at >= 0 /\ uuid # Refused =>
       \A p \in Range(Products(IF asked.by = "compatOther" THEN IntLimbs(asked.at)
                               ELSE DigitLimbs(Digits[asked.at]),
                               asked.micros \div MicrosPerMs)) : p <= asked.intMax

(* v7 UUIDs of the extension for two times a microsecond apart sort as     *)
(* they do, although rand_a counts 4096ths of a millisecond.               *)
Sorts(u, v) ==
  \/ Ms(u) < Ms(v)
  \/ Ms(u) = Ms(v) /\ u.sub < v.sub
SortsByTime ==
  Made /\ asked.by = "datetime" =>
    LET later == IF asked.micros + 1 < MicrosPerSec THEN V7AtDateTime(asked.at, asked.micros + 1)
                 ELSE V7AtDateTime(asked.at + 1, 0)
    IN  later = Refused \/ Sorts(uuid, later)
=============================================================================
