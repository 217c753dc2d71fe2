---------------------------- MODULE CsprngProofs ----------------------------
(***************************************************************************)
(* Theorems about Csprng, for every number of processes, every buffer,     *)
(* block and reseed interval, and every mix of request lengths.            *)
(***************************************************************************)
EXTENDS Csprng, SequenceTheorems, FiniteSetTheorems, FunctionTheorems, TLAPS

(* The names a byte can have; a drawn byte has an offset, a zeroed none.   *)
Seeds == Procs \X Nat
Byte == Seeds \X Seq(Nat) \X Nat
Drawn == Seeds \X Seq(Nat) \X (Nat \ {0})

Generators == [seeded : BOOLEAN, seed : Seeds, takes : Seq(Nat), since : Nat]
Prngs == [seeded : BOOLEAN, from : Seq(Drawn), steps : Nat]
(* Who a draw is for: a caller, or one of the states it lives on in.       *)
Askers == {"caller", "prng", "start", "step"}

Calls == [to : {"none", "rbuf", "caller"}, for : Askers,
          want : Nat, left : Nat, done : Seq(Drawn)]

(* The buffer is whole, and drawn from the position on.                    *)
BufferOK(buf, pos) ==
  /\ buf \in Seq(Byte) /\ Len(buf) = Size
  /\ pos \in 0 .. Size
  /\ \A i \in pos + 1 .. Size : buf[i] \in Drawn

GeneratorOK(d) == d \in Generators /\ d.since < Reseed + Size

(* A refill is as long as the buffer and answers a request that fits it.   *)
CallOK(c) ==
  /\ c \in Calls
  /\ c.to = "rbuf" => c.want \in 1 .. Size /\ Len(c.done) + c.left = Size

TypeInv ==
  /\ aesActive \in BOOLEAN /\ registered \in BOOLEAN /\ cloned \in BOOLEAN
  /\ calls \in 0 .. MaxCalls
  /\ alive \subseteq Procs
  /\ seedings \in [Procs -> Nat]
  /\ rbuf \in [Procs -> Seq(Byte)] /\ rpos \in [Procs -> Nat]
  /\ drbg \in [Procs -> Generators] /\ prng \in [Procs -> Prngs]
  /\ call \in [Procs -> Calls]
  /\ served \in [Procs -> SUBSET Drawn]

IInv ==
  /\ TypeInv
  /\ \A p \in Procs :
       BufferOK(rbuf[p], rpos[p]) /\ GeneratorOK(drbg[p]) /\ CallOK(call[p])

-----------------------------------------------------------------------------
(* A drawn byte is a byte.                                                 *)
LEMMA DrawnIsByte == Drawn \subseteq Byte
BY DEF Drawn, Byte

(* The zeroed byte is a byte, and no reading of the OS gave it.            *)
LEMMA ZeroNotDrawn == Zero \in Byte /\ Zero \notin Drawn
BY EmptySeq, CsprngAssumption DEF Zero, NoSeed, Byte, Drawn, Seeds

(* A generate call yields exactly the bytes asked for, all drawn.          *)
LEMMA GeneratedDrawn ==
  ASSUME NEW d \in Generators, NEW take \in Nat
  PROVE  Generated(d, take) \in Seq(Drawn) /\ Len(Generated(d, take)) = take
<1>1. \A i \in 1 .. take : <<d.seed, d.takes, i>> \in Drawn
  BY DEF Generators, Drawn
<1> QED
  BY <1>1 DEF Generated

(* A new seed leaves a generator that is not due, one that is not due has  *)
(* room for a chunk.                                                       *)
LEMMA ReseededReady ==
  ASSUME NEW id \in Seeds
  PROVE  Reseeded(id) \in Generators /\ ~NeedsSeed(Reseeded(id))
BY EmptySeq, CsprngAssumption DEF Reseeded, Generators, NeedsSeed

(* A generate call uses a whole number of blocks.                          *)
LEMMA BlocksNat == ASSUME NEW take \in Nat PROVE Blocks(take) \in Nat
<1>1. Block \in Nat \ {0} /\ take + Block - 1 \in Nat
  BY CsprngAssumption
<1> QED
  BY <1>1 DEF Blocks

(* A chunk leaves a typed generator, less than a chunk past the limit.     *)
LEMMA NextKeyOK ==
  ASSUME NEW d \in Generators, ~NeedsSeed(d), NEW take \in 0 .. Size
  PROVE  GeneratorOK(NextKey(d, take))
<1>1. Size \in Nat /\ Reseed \in Nat /\ d.since < Reseed /\ d.since \in Nat
  BY CsprngAssumption DEF NeedsSeed, Generators
<1> DEFINE t == Append(d.takes, Blocks(take))
<1>a. Blocks(take) \in Nat
  BY <1>1, BlocksNat
<1>b. d.takes \in Seq(Nat)
  BY DEF Generators
<1>2. t \in Seq(Nat)
  BY <1>a, <1>b, AppendProperties
<1>3. NextKey(d, take) =
        [[d EXCEPT !.takes = t] EXCEPT !.since = d.since + take]
  BY DEF NextKey, Generators
<1>4. [d EXCEPT !.takes = t] \in Generators
  BY <1>2 DEF Generators
<1>5. d.since + take \in Nat /\ d.since + take < Reseed + Size
  BY <1>1
<1> HIDE DEF t
<1> QED
  BY <1>3, <1>4, <1>5 DEF GeneratorOK, Generators

(* A slice of the unserved part of a buffer is drawn.                      *)
LEMMA SliceDrawn ==
  ASSUME NEW buf, NEW pos, BufferOK(buf, pos), NEW n \in Nat, pos + n <= Size
  PROVE  /\ SubSeq(buf, pos + 1, pos + n) \in Seq(Drawn)
         /\ BufferOK(buf, pos + n)
<1>1. Size \in Nat /\ pos \in Nat
  BY CsprngAssumption DEF BufferOK
<1>2. \A i \in pos + 1 .. pos + n : buf[i] \in Drawn
  BY <1>1 DEF BufferOK
<1>3. SubSeq(buf, pos + 1, pos + n) \in Seq(Drawn)
  BY <1>1, <1>2, SubSeqProperties
<1> QED
  BY <1>1, <1>3 DEF BufferOK

(* A buffer of drawn bytes is good wherever its position is.               *)
LEMMA DrawnBuffer ==
  ASSUME NEW buf \in Seq(Drawn), Len(buf) = Size
  PROVE  BufferOK(buf, 0)
<1>1. buf \in Seq(Byte)
  BY DrawnIsByte, SeqMonotonic
<1>2. \A i \in 1 .. Size : buf[i] \in Drawn
  BY ElementOfSeq
<1> QED
  BY <1>1, <1>2, CsprngAssumption DEF BufferOK
-----------------------------------------------------------------------------
(* Handing out drawn bytes keeps the histories and the xoshiro state typed.*)
LEMMA DeliverDrawn ==
  ASSUME TypeInv, NEW p \in Procs, NEW for, NEW bytes \in Seq(Drawn),
         Deliver(p, for, bytes)
  PROVE  /\ served' \in [Procs -> SUBSET Drawn]
         /\ prng' \in [Procs -> Prngs]
<1>1. ToSet(bytes) \subseteq Drawn
  BY ElementOfSeq, LenProperties DEF ToSet
<1>2. served[p] \cup ToSet(bytes) \in SUBSET Drawn
  BY <1>1 DEF TypeInv
<1>3. served' \in [Procs -> SUBSET Drawn]
  BY <1>2 DEF Deliver, TypeInv
<1>4. [seeded |-> TRUE, from |-> bytes, steps |-> 0 + 2] \in Prngs
  BY DEF Prngs
<1> QED
  BY <1>3, <1>4 DEF Deliver, FastUuid, TypeInv

(* No call in progress is a good call.                                     *)
LEMMA IdleOK == CallOK(Idle)
BY EmptySeq DEF CallOK, Calls, Askers, Idle

(* An unkeyed generator is a good generator.                               *)
LEMMA UnseededOK == GeneratorOK(Unseeded)
BY EmptySeq, CsprngAssumption DEF GeneratorOK, Generators, Unseeded, NoSeed, Seeds

(* A zeroed buffer is good when it is spent.                               *)
LEMMA SpentBufferOK == BufferOK(ZeroBuffer, Size)
<1>1. Size \in Nat
  BY CsprngAssumption
<1>2. ZeroBuffer \in Seq(Byte) /\ Len(ZeroBuffer) = Size
  BY <1>1, ZeroNotDrawn DEF ZeroBuffer
<1> QED
  BY <1>1, <1>2 DEF BufferOK

(* An unseeded xoshiro state is typed.                                     *)
LEMMA NoPrngOK == NoPrng \in Prngs
BY EmptySeq DEF NoPrng, Prngs

(* The invariant holds at the start.                                       *)
LEMMA InitIInv == Init => IInv
<1> SUFFICES ASSUME Init PROVE IInv
  OBVIOUS
<1> USE CsprngAssumption DEF Init
<1>1. Size \in Nat /\ ZeroBuffer \in Seq(Byte) /\ Unseeded \in Generators
        /\ NoPrng \in Prngs /\ Idle \in Calls
  BY SpentBufferOK, UnseededOK, NoPrngOK, IdleOK DEF BufferOK, GeneratorOK, CallOK
<1>2a. aesActive \in BOOLEAN /\ registered \in BOOLEAN /\ cloned \in BOOLEAN
  BY Zenon
<1>2b. /\ calls \in 0 .. MaxCalls /\ alive \subseteq Procs
       /\ seedings \in [Procs -> Nat] /\ served \in [Procs -> SUBSET Drawn]
  OBVIOUS
<1>2c. /\ rbuf \in [Procs -> Seq(Byte)] /\ rpos \in [Procs -> Nat]
       /\ drbg \in [Procs -> Generators] /\ prng \in [Procs -> Prngs]
       /\ call \in [Procs -> Calls]
  BY <1>1
<1>2. TypeInv
  BY <1>2a, <1>2b, <1>2c DEF TypeInv
<1>3. \A p \in Procs : BufferOK(rbuf[p], rpos[p])
  BY SpentBufferOK
<1>4. \A p \in Procs : drbg[p] = Unseeded /\ call[p] = Idle
  OBVIOUS
<1>5. \A p \in Procs : GeneratorOK(drbg[p]) /\ CallOK(call[p])
  BY <1>4, UnseededOK, IdleOK
<1> QED
  BY <1>2, <1>3, <1>5 DEF IInv

-----------------------------------------------------------------------------
(* A request that is not direct fits the buffer.                           *)
LEMMA AsksOK ==
  ASSUME NEW p \in Procs, NEW ask \in Asks(p)
  PROVE  ask.for \in Askers /\ ask.len \in Nat \ {0}
BY CsprngAssumption DEF Asks, For, Askers

(* Serving from the buffer keeps the invariant.                            *)
LEMMA ServeBufferedStep ==
  ASSUME IInv, NEW p \in Procs, ServeBuffered(p)
  PROVE  IInv'
<1> USE DEF ServeBuffered, platform
<1>1. PICK ask \in Asks(p) :
        /\ Fits(p, ask.len)
        /\ Deliver(p, ask.for, SubSeq(rbuf[p], rpos[p] + 1, rpos[p] + ask.len))
        /\ rpos' = [rpos EXCEPT ![p] = @ + ask.len]
  OBVIOUS
<1>2. ask.len \in Nat
  BY AsksOK
<1>3. /\ SubSeq(rbuf[p], rpos[p] + 1, rpos[p] + ask.len) \in Seq(Drawn)
      /\ BufferOK(rbuf[p], rpos[p] + ask.len)
  BY <1>1, <1>2, SliceDrawn DEF IInv, Fits
<1>4. served' \in [Procs -> SUBSET Drawn] /\ prng' \in [Procs -> Prngs]
  BY <1>1, <1>3, DeliverDrawn DEF IInv
<1>5. rpos' \in [Procs -> Nat]
  BY <1>1, <1>2 DEF IInv, TypeInv
<1>6. calls' \in 0 .. MaxCalls
  BY CsprngAssumption DEF Begin, IInv, TypeInv
<1>7. TypeInv'
  BY <1>4, <1>5, <1>6 DEF IInv, TypeInv
<1>8. \A q \in Procs : BufferOK(rbuf[q], rpos'[q])
  BY <1>1, <1>3 DEF IInv, TypeInv
<1> QED
  BY <1>7, <1>8 DEF IInv, BufferOK, GeneratorOK, CallOK

(* A fill begins: only the call changes.                                   *)
LEMMA CallStep ==
  ASSUME IInv, NEW p \in Procs, NEW c, CallOK(c), call' = [call EXCEPT ![p] = c],
         calls' \in 0 .. MaxCalls,
         UNCHANGED <<platform, seedings, globals, history>>
  PROVE  IInv'
<1> USE DEF platform, globals, history
<1>1. call' \in [Procs -> Calls]
  BY DEF CallOK, IInv, TypeInv
<1>2. TypeInv'
  BY <1>1 DEF IInv, TypeInv
<1>3. \A q \in Procs : CallOK(call'[q])
  BY DEF IInv, TypeInv
<1> QED
  BY <1>2, <1>3 DEF IInv, BufferOK, GeneratorOK, CallOK

(* Beginning a refill keeps the invariant.                                 *)
LEMMA BeginRefillStep ==
  ASSUME IInv, NEW p \in Procs, BeginRefill(p)
  PROVE  IInv'
<1>1. PICK ask \in Asks(p) :
        /\ ~Direct(ask.len)
        /\ call' = [call EXCEPT ![p] =
             [to |-> "rbuf", for |-> ask.for, want |-> ask.len, left |-> Size, done |-> << >>]]
  BY DEF BeginRefill
<1>2. ask.len \in 1 .. Size /\ ask.for \in Askers
  BY <1>1, AsksOK, CsprngAssumption DEF Direct
<1>3. CallOK([to |-> "rbuf", for |-> ask.for, want |-> ask.len, left |-> Size, done |-> << >>])
  BY <1>2, EmptySeq, CsprngAssumption DEF CallOK, Calls
<1>4. calls' \in 0 .. MaxCalls
  BY CsprngAssumption DEF BeginRefill, Begin, IInv, TypeInv
<1> QED
  BY <1>1, <1>3, <1>4, CallStep DEF BeginRefill

(* Beginning a direct fill keeps the invariant.                            *)
LEMMA BeginDirectStep ==
  ASSUME IInv, NEW p \in Procs, BeginDirect(p)
  PROVE  IInv'
<1>1. PICK n \in Requests :
        call' = [call EXCEPT ![p] =
          [to |-> "caller", for |-> "caller", want |-> n, left |-> n, done |-> << >>]]
  BY DEF BeginDirect
<1>2. CallOK([to |-> "caller", for |-> "caller", want |-> n, left |-> n, done |-> << >>])
  BY EmptySeq, CsprngAssumption DEF CallOK, Calls, Askers
<1>3. calls' \in 0 .. MaxCalls
  BY CsprngAssumption DEF BeginDirect, Begin, IInv, TypeInv
<1> QED
  BY <1>1, <1>2, <1>3, CallStep DEF BeginDirect

(* Drawing from xoshiro keeps the invariant.                               *)
LEMMA GenV4FastStep ==
  ASSUME IInv, NEW p \in Procs, GenV4Fast(p)
  PROVE  IInv'
<1> USE DEF GenV4Fast, platform
<1>1. prng' \in [Procs -> Prngs]
  BY DEF FastUuid, IInv, TypeInv, Prngs
<1>2. calls' \in 0 .. MaxCalls
  BY CsprngAssumption DEF Begin, IInv, TypeInv
<1>3. TypeInv'
  BY <1>1, <1>2 DEF IInv, TypeInv
<1> QED
  BY <1>3 DEF IInv, BufferOK, GeneratorOK, CallOK
-----------------------------------------------------------------------------
(* What a fill adds is drawn and no longer than what is left.              *)
LEMMA FillOK ==
  ASSUME NEW c, CallOK(c), NEW bytes \in Seq(Drawn), Len(bytes) <= c.left
  PROVE  CallOK(Filled(c, bytes))
<1>1. Len(bytes) \in Nat /\ c.left \in Nat /\ c.done \in Seq(Drawn)
  BY LenProperties DEF CallOK, Calls
<1> DEFINE d == c.done \o bytes
           l == c.left - Len(bytes)
<1>2. d \in Seq(Drawn) /\ Len(d) = Len(c.done) + Len(bytes) /\ Len(c.done) \in Nat
  BY <1>1, ConcatProperties, LenProperties
<1>3. l \in Nat
  BY <1>1
<1>4. Len(d) + l = Len(c.done) + c.left
  BY <1>1, <1>2
<1>5. Filled(c, bytes) = [[c EXCEPT !.left = l] EXCEPT !.done = d]
  BY DEF Filled, CallOK, Calls
<1>6. [c EXCEPT !.left = l] \in Calls
  BY <1>3 DEF CallOK, Calls
<1> HIDE DEF d, l
<1>7. Filled(c, bytes) \in Calls
  BY <1>2, <1>5, <1>6 DEF Calls
<1>8. c \in Calls
  BY DEF CallOK
<1>9. /\ Filled(c, bytes).to = c.to /\ Filled(c, bytes).want = c.want
      /\ Filled(c, bytes).left = l /\ Filled(c, bytes).done = d
  BY <1>5, <1>8 DEF Calls
<1> QED
  BY <1>4, <1>7, <1>9 DEF CallOK

(* A turn of the fill loop keeps the invariant.                            *)
LEMMA ChunkStep ==
  ASSUME IInv, NEW p \in Procs, Chunk(p)
  PROVE  IInv'
<1> DEFINE due == NeedsSeed(drbg[p])
           d == IF due THEN Reseeded(NextSeed(p)) ELSE drbg[p]
           take == Take(call[p].left)
<1> USE DEF platform, history
<1>1. CallOK(call[p]) /\ GeneratorOK(drbg[p]) /\ call[p].left \in Nat
  BY DEF IInv, CallOK, Calls
<1>2. NextSeed(p) \in Seeds
  BY DEF NextSeed, Seeds, IInv, TypeInv
<1>3. d \in Generators /\ ~NeedsSeed(d)
  BY <1>1, <1>2, ReseededReady DEF GeneratorOK
<1>4. take \in 0 .. Size /\ take \in Nat /\ take <= call[p].left
  BY <1>1, CsprngAssumption DEF Take
<1>5. GeneratorOK(NextKey(d, take))
  BY <1>3, <1>4, NextKeyOK
<1>6. Generated(d, take) \in Seq(Drawn) /\ Len(Generated(d, take)) = take
  BY <1>3, <1>4, GeneratedDrawn
<1>7. CallOK(Filled(call[p], Generated(d, take)))
  BY <1>1, <1>4, <1>6, FillOK
<1>8. /\ drbg' = [drbg EXCEPT ![p] = NextKey(d, take)]
      /\ call' = [call EXCEPT ![p] = Filled(call[p], Generated(d, take))]
  BY DEF Chunk, Fill
<1>8a. seedings' \in [Procs -> Nat]
  <2>1. ReadOs(p) \/ UNCHANGED seedings
    BY DEF Chunk
  <2>2. seedings \in [Procs -> Nat]
    BY DEF IInv, TypeInv
  <2>3. ReadOs(p) => seedings' = [seedings EXCEPT ![p] = @ + 1]
    BY DEF ReadOs
  <2> HIDE DEF due, d, take
  <2> QED
    BY ONLY <2>1, <2>2, <2>3
<1> HIDE DEF due, d, take
<1>9. UNCHANGED <<platform, rbuf, rpos, prng, calls, history>>
  BY DEF Chunk
<1>10. TypeInv'
  BY <1>5, <1>7, <1>8, <1>8a, <1>9 DEF IInv, TypeInv, GeneratorOK, CallOK
<1>11. \A q \in Procs : GeneratorOK(drbg'[q]) /\ CallOK(call'[q])
  BY <1>5, <1>7, <1>8 DEF IInv, TypeInv
<1> QED
  BY <1>9, <1>10, <1>11 DEF IInv, BufferOK, GeneratorOK, CallOK

(* A fill by the OS keeps the invariant.                                   *)
LEMMA OsFillStep ==
  ASSUME IInv, NEW p \in Procs, OsFill(p)
  PROVE  IInv'
<1> DEFINE bytes == Generated(Reseeded(NextSeed(p)), call[p].left)
<1> USE DEF platform, globals, history
<1>1. CallOK(call[p]) /\ call[p].left \in Nat
  BY DEF IInv, CallOK, Calls
<1>2. NextSeed(p) \in Seeds
  BY DEF NextSeed, Seeds, IInv, TypeInv
<1>3. bytes \in Seq(Drawn) /\ Len(bytes) = call[p].left
  BY <1>1, <1>2, ReseededReady, GeneratedDrawn
<1>4. CallOK(Filled(call[p], bytes))
  BY <1>1, <1>3, FillOK
<1>5. /\ call' = [call EXCEPT ![p] = Filled(call[p], bytes)]
      /\ seedings' \in [Procs -> Nat]
      /\ UNCHANGED <<platform, globals, calls, history>>
  BY DEF OsFill, Fill, ReadOs, IInv, TypeInv
<1> HIDE DEF bytes
<1>6. TypeInv'
  BY <1>4, <1>5 DEF IInv, TypeInv, CallOK
<1>7. \A q \in Procs : CallOK(call'[q])
  BY <1>4, <1>5 DEF IInv, TypeInv
<1> QED
  BY <1>5, <1>6, <1>7 DEF IInv, BufferOK, GeneratorOK, CallOK

(* Serving a completed fill keeps the invariant.                           *)
LEMMA FinishStep ==
  ASSUME IInv, NEW p \in Procs, Finish(p)
  PROVE  IInv'
<1> DEFINE done == call[p].done
           want == call[p].want
<1> DEFINE Outcome ==
             /\ served' \in [Procs -> SUBSET Drawn] /\ prng' \in [Procs -> Prngs]
             /\ rbuf' \in [Procs -> Seq(Byte)] /\ rpos' \in [Procs -> Nat]
             /\ \A q \in Procs : BufferOK(rbuf'[q], rpos'[q])
<1> USE DEF platform
<1>1. /\ CallOK(call[p]) /\ done \in Seq(Drawn) /\ want \in Nat /\ Size \in Nat
      /\ ~(call[p].left > 0) /\ call[p].left \in Nat
  BY CsprngAssumption DEF Finish, Filling, IInv, CallOK, Calls
<1>2. ASSUME call[p].to = "rbuf" PROVE Outcome
  <2>1. want \in 1 .. Size /\ Len(done) = Size
    BY <1>1, <1>2, LenProperties DEF CallOK
  <2>2. BufferOK(done, 0) /\ 0 + want <= Size
    BY <1>1, <2>1, DrawnBuffer
  <2>3. SubSeq(done, 1, want) \in Seq(Drawn) /\ BufferOK(done, want)
    BY <1>1, <2>2, SliceDrawn
  <2>4. /\ rbuf' = [rbuf EXCEPT ![p] = done]
        /\ rpos' = [rpos EXCEPT ![p] = want]
        /\ Deliver(p, call[p].for, SubSeq(done, 1, want))
    BY <1>2 DEF Finish
  <2>5. served' \in [Procs -> SUBSET Drawn] /\ prng' \in [Procs -> Prngs]
    BY <2>3, <2>4, DeliverDrawn DEF IInv
  <2>6. rbuf' \in [Procs -> Seq(Byte)] /\ rpos' \in [Procs -> Nat]
    BY <1>1, <2>3, <2>4 DEF IInv, TypeInv, BufferOK
  <2>7. \A q \in Procs : BufferOK(rbuf'[q], rpos'[q])
    BY <2>3, <2>4 DEF IInv, TypeInv
  <2> QED
    BY <2>5, <2>6, <2>7
<1>3. ASSUME call[p].to # "rbuf" PROVE Outcome
  <2>1. Deliver(p, "caller", done) /\ UNCHANGED <<rbuf, rpos>>
    BY <1>3 DEF Finish
  <2>2. served' \in [Procs -> SUBSET Drawn] /\ prng' \in [Procs -> Prngs]
    BY <1>1, <2>1, DeliverDrawn DEF IInv
  <2> QED
    BY <2>1, <2>2 DEF IInv, TypeInv
<1>4. Outcome
  BY <1>2, <1>3
<1>5. /\ call' = [call EXCEPT ![p] = Idle]
      /\ UNCHANGED <<platform, seedings, drbg, calls>>
  BY DEF Finish
<1>6. call' \in [Procs -> Calls] /\ \A q \in Procs : CallOK(call'[q])
  BY <1>5, IdleOK DEF IInv, TypeInv, CallOK
<1>7. TypeInv'
  BY <1>4, <1>5, <1>6 DEF IInv, TypeInv
<1> QED
  BY <1>4, <1>5, <1>6, <1>7 DEF IInv, GeneratorOK

(* A refused seed keeps the invariant.                                     *)
LEMMA SeedFailsStep ==
  ASSUME IInv, NEW p \in Procs, SeedFails(p)
  PROVE  IInv'
<1>1. calls' \in 0 .. MaxCalls
  BY DEF SeedFails, IInv, TypeInv
<1> QED
  BY <1>1, IdleOK, CallStep DEF SeedFails

(* A refill the OS broke off, byte by byte.                                *)
LEMMA PrefixBytes ==
  ASSUME NEW buf, NEW pos, BufferOK(buf, pos), NEW k \in 0 .. Size,
         NEW new \in Seq(Drawn), Len(new) = k
  PROVE  \A i \in 1 .. Size :
           (new \o SubSeq(buf, k + 1, Size))[i] = IF i <= k THEN new[i] ELSE buf[i]
<1> DEFINE rest == SubSeq(buf, k + 1, Size)
<1>1. Size \in Nat /\ buf \in Seq(Byte) /\ Len(buf) = Size
  BY CsprngAssumption DEF BufferOK
<1>2. new \in Seq(Byte)
  BY DrawnIsByte, SeqMonotonic
<1>3. \A i \in k + 1 .. Size : buf[i] \in Byte
  BY <1>1, ElementOfSeq
<1>4. /\ rest \in Seq(Byte) /\ Len(rest) = Size - k
      /\ \A i \in 1 .. Size - k : rest[i] = buf[k + i]
  BY <1>1, <1>3, SubSeqProperties
<1> HIDE DEF rest
<1>5. \A i \in 1 .. Len(new) + Len(rest) :
        (new \o rest)[i] = IF i <= Len(new) THEN new[i] ELSE rest[i - Len(new)]
  BY <1>2, <1>4, ConcatProperties, Zenon
<1>6. Len(new) + Len(rest) = Size
  BY <1>1, <1>4
<1>7. ASSUME NEW i \in 1 .. Size PROVE (new \o rest)[i] = IF i <= k THEN new[i] ELSE buf[i]
  <2>1. CASE i <= k
    BY <1>5, <1>6, <2>1
  <2>2. CASE ~(i <= k)
    <3>1. i - k \in 1 .. Size - k /\ k + (i - k) = i
      BY <1>1, <2>2
    <3>2. (new \o rest)[i] = rest[i - k]
      BY <1>5, <1>6, <2>2
    <3> QED
      BY <1>4, <2>2, <3>1, <3>2
  <2> QED
    BY <2>1, <2>2
<1> QED
  BY <1>7 DEF rest

(* A refill the OS broke off: a drawn prefix over a buffer that was good.  *)
LEMMA PrefixOK ==
  ASSUME NEW buf, NEW pos, BufferOK(buf, pos), NEW k \in 0 .. Size,
         NEW new \in Seq(Drawn), Len(new) = k
  PROVE  BufferOK(new \o SubSeq(buf, k + 1, Size), pos)
<1> DEFINE mixed == new \o SubSeq(buf, k + 1, Size)
<1>1. Size \in Nat /\ buf \in Seq(Byte) /\ Len(buf) = Size /\ pos \in 0 .. Size
  BY CsprngAssumption DEF BufferOK
<1>2. mixed \in Seq(Byte) /\ Len(mixed) = Size
  <2>1. new \in Seq(Byte) /\ \A i \in k + 1 .. Size : buf[i] \in Byte
    BY <1>1, DrawnIsByte, SeqMonotonic, ElementOfSeq
  <2>2. SubSeq(buf, k + 1, Size) \in Seq(Byte) /\ Len(SubSeq(buf, k + 1, Size)) = Size - k
    BY <1>1, <2>1, SubSeqProperties
  <2>3. Len(new) + Len(SubSeq(buf, k + 1, Size)) = Size
    BY <1>1, <2>2
  <2> QED
    BY <2>1, <2>2, <2>3, ConcatProperties
<1>3. \A i \in 1 .. Size : mixed[i] = IF i <= k THEN new[i] ELSE buf[i]
  BY PrefixBytes
<1> HIDE DEF mixed
<1>4. ASSUME NEW i \in pos + 1 .. Size PROVE mixed[i] \in Drawn
  <2>1. i \in 1 .. Size
    BY <1>1
  <2>2. CASE i <= k
    BY <1>3, <2>1, <2>2, ElementOfSeq
  <2>3. CASE ~(i <= k)
    BY <1>3, <2>1, <2>3 DEF BufferOK
  <2> QED
    BY <2>2, <2>3
<1>5. BufferOK(mixed, pos)
  BY <1>1, <1>2, <1>4 DEF BufferOK
<1> QED
  BY <1>5 DEF mixed

(* A failed fill by the OS keeps the invariant.                            *)
LEMMA OsFillFailsStep ==
  ASSUME IInv, NEW p \in Procs, OsFillFails(p)
  PROVE  IInv'
<1> USE DEF platform, history
<1> DEFINE Outcome == /\ rbuf' \in [Procs -> Seq(Byte)]
                      /\ \A q \in Procs : BufferOK(rbuf'[q], rpos[q])
<1>1. ASSUME call[p].to = "rbuf" PROVE Outcome
  <2>1. PICK k \in 0 .. Size :
          rbuf' = [rbuf EXCEPT ![p] =
                     Generated(Reseeded(NextSeed(p)), k) \o SubSeq(@, k + 1, Size)]
    BY <1>1 DEF OsFillFails
  <2> DEFINE buf == Generated(Reseeded(NextSeed(p)), k) \o SubSeq(rbuf[p], k + 1, Size)
  <2>2. NextSeed(p) \in Seeds /\ k \in Nat
    BY CsprngAssumption DEF NextSeed, Seeds, IInv, TypeInv
  <2>3. /\ Generated(Reseeded(NextSeed(p)), k) \in Seq(Drawn)
        /\ Len(Generated(Reseeded(NextSeed(p)), k)) = k
    BY <2>2, ReseededReady, GeneratedDrawn
  <2>4. BufferOK(buf, rpos[p])
    BY <2>3, PrefixOK DEF IInv
  <2>5. rbuf' = [rbuf EXCEPT ![p] = buf]
    BY <2>1
  <2> HIDE DEF buf
  <2> QED
    BY <2>4, <2>5 DEF IInv, TypeInv, BufferOK
<1>2. ASSUME call[p].to # "rbuf" PROVE Outcome
  BY <1>2 DEF OsFillFails, IInv, TypeInv
<1>3. Outcome
  BY <1>1, <1>2
<1>4. /\ call' = [call EXCEPT ![p] = Idle]
      /\ UNCHANGED <<platform, rpos, drbg, prng, calls, history>>
      /\ seedings' \in [Procs -> Nat]
  BY DEF OsFillFails, ReadOs, IInv, TypeInv
<1>5. call' \in [Procs -> Calls] /\ \A q \in Procs : CallOK(call'[q])
  BY <1>4, IdleOK DEF IInv, TypeInv, CallOK
<1>6. TypeInv'
  BY <1>3, <1>4, <1>5 DEF IInv, TypeInv
<1> QED
  BY <1>3, <1>4, <1>5, <1>6 DEF IInv, GeneratorOK

(* A process that starts as a copy, or wiped by the handler, starts well.  *)
LEMMA CopyStep ==
  ASSUME IInv, NEW p \in Procs, NEW q \in Procs, Copies(p, q),
         Inherit(p, q) \/ AtForkChild(p, q), cloned' \in BOOLEAN
  PROVE  IInv'
<1> DEFINE Outcome ==
             /\ rbuf' \in [Procs -> Seq(Byte)] /\ rpos' \in [Procs -> Nat]
             /\ drbg' \in [Procs -> Generators] /\ prng' \in [Procs -> Prngs]
             /\ \A r \in Procs : BufferOK(rbuf'[r], rpos'[r]) /\ GeneratorOK(drbg'[r])
<1> USE DEF history
<1>1. ASSUME Inherit(p, q) PROVE Outcome
  <2>1. /\ rbuf' \in [Procs -> Seq(Byte)] /\ rpos' \in [Procs -> Nat]
        /\ drbg' \in [Procs -> Generators] /\ prng' \in [Procs -> Prngs]
    BY <1>1 DEF Inherit, IInv, TypeInv
  <2>2. \A r \in Procs : BufferOK(rbuf'[r], rpos'[r]) /\ GeneratorOK(drbg'[r])
    BY <1>1 DEF Inherit, IInv, TypeInv
  <2> QED
    BY <2>1, <2>2
<1>2. ASSUME AtForkChild(p, q) PROVE Outcome
  <2>1. /\ ZeroBuffer \in Seq(Byte) /\ Size \in Nat
        /\ Unseeded \in Generators /\ NoPrng \in Prngs
    BY SpentBufferOK, UnseededOK, NoPrngOK, CsprngAssumption DEF BufferOK, GeneratorOK
  <2>2. /\ rbuf' \in [Procs -> Seq(Byte)] /\ rpos' \in [Procs -> Nat]
        /\ drbg' \in [Procs -> Generators] /\ prng' \in [Procs -> Prngs]
    BY <1>2, <2>1 DEF AtForkChild, IInv, TypeInv
  <2>3. \A r \in Procs : BufferOK(rbuf'[r], rpos'[r]) /\ GeneratorOK(drbg'[r])
    BY <1>2, SpentBufferOK, UnseededOK DEF AtForkChild, IInv, TypeInv
  <2> QED
    BY <2>2, <2>3
<1>3. Outcome
  BY <1>1, <1>2
<1>4. /\ alive' \subseteq Procs
      /\ UNCHANGED <<aesActive, registered, seedings, call, calls, history>>
  BY DEF Copies, IInv, TypeInv
<1>5. TypeInv'
  BY <1>3, <1>4 DEF IInv, TypeInv
<1> QED
  BY <1>3, <1>4, <1>5 DEF IInv, CallOK

(* Every step keeps the invariant.                                         *)
LEMMA NextIInv == IInv /\ [Next]_vars => IInv'
<1> SUFFICES ASSUME IInv, [Next]_vars PROVE IInv'
  OBVIOUS
<1>1. ASSUME NEW p \in Procs, ServeBuffered(p) PROVE IInv'
  BY <1>1, ServeBufferedStep
<1>2. ASSUME NEW p \in Procs, BeginRefill(p) PROVE IInv'
  BY <1>2, BeginRefillStep
<1>3. ASSUME NEW p \in Procs, BeginDirect(p) PROVE IInv'
  BY <1>3, BeginDirectStep
<1>4. ASSUME NEW p \in Procs, GenV4Fast(p) PROVE IInv'
  BY <1>4, GenV4FastStep
<1>5. ASSUME NEW p \in Procs, Chunk(p) PROVE IInv'
  BY <1>5, ChunkStep
<1>6. ASSUME NEW p \in Procs, OsFill(p) PROVE IInv'
  BY <1>6, OsFillStep
<1>7. ASSUME NEW p \in Procs, Finish(p) PROVE IInv'
  BY <1>7, FinishStep
<1>8. ASSUME NEW p \in Procs, SeedFails(p) PROVE IInv'
  BY <1>8, SeedFailsStep
<1>9. ASSUME NEW p \in Procs, OsFillFails(p) PROVE IInv'
  BY <1>9, OsFillFailsStep
<1>10. ASSUME NEW p \in Procs, NEW q \in Procs, Fork(p, q) PROVE IInv'
  <2>1. cloned' \in BOOLEAN
    BY <1>10 DEF Fork, IInv, TypeInv
  <2> QED
    BY <1>10, <2>1, CopyStep DEF Fork
<1>11. ASSUME NEW p \in Procs, NEW q \in Procs, CloneMachine(p, q) PROVE IInv'
  BY <1>11, CopyStep DEF CloneMachine
<1>12. CASE UNCHANGED vars
  BY <1>12 DEF vars, platform, globals, history, IInv, TypeInv, BufferOK, GeneratorOK, CallOK
<1> QED
  BY <1>1, <1>2, <1>3, <1>4, <1>5, <1>6, <1>7, <1>8, <1>9, <1>10, <1>11, <1>12 DEF Next

(* The inductive invariant holds in every state.                           *)
THEOREM IInvHolds == Spec => []IInv
BY InitIInv, NextIInv, PTL DEF Spec

-----------------------------------------------------------------------------
(* Typing, and with it that rpos never leaves the buffer fu_rand() copies  *)
(* from and that no fill runs past its destination.                        *)
THEOREM TypeCorrect == Spec => []TypeOK
<1>1. IInv => TypeOK
  <2> SUFFICES ASSUME IInv, NEW p \in Procs
               PROVE  /\ Len(rbuf[p]) = Size /\ rpos[p] \in 0 .. Size
                      /\ seedings[p] \in Nat
                      /\ drbg[p].seeded \in BOOLEAN /\ drbg[p].seed \in Procs \X Nat
                      /\ drbg[p].since \in Nat
                      /\ prng[p].seeded \in BOOLEAN /\ prng[p].steps \in Nat
                      /\ call[p].to \in {"none", "rbuf", "caller"}
                      /\ call[p].left \in Nat
    BY DEF TypeOK, IInv, TypeInv
  <2>1. Len(rbuf[p]) = Size /\ rpos[p] \in 0 .. Size /\ seedings[p] \in Nat
    BY DEF IInv, TypeInv, BufferOK
  <2>2. drbg[p] \in Generators /\ prng[p] \in Prngs /\ call[p] \in Calls
    BY DEF IInv, TypeInv
  <2> QED
    BY <2>1, <2>2 DEF Generators, Prngs, Calls, Seeds
<1> QED
  BY <1>1, IInvHolds, PTL

(* No zeroed byte is ever handed out: not by a fresh thread, not by a      *)
(* forked child the handler wiped, not after a fill that failed.           *)
THEOREM ZeroNeverServed == Spec => []NoZeroServed
<1>1. IInv => NoZeroServed
  BY ZeroNotDrawn DEF IInv, TypeInv, NoZeroServed
<1> QED
  BY <1>1, IInvHolds, PTL

(* One OS seed never covers a chunk more than FU_DRBG_RESEED_BYTES, for    *)
(* any request length, in any process, forked or cloned.                   *)
THEOREM BoundedSeed == Spec => []SeedBudget
<1>1. IInv => SeedBudget
  BY DEF IInv, SeedBudget, GeneratorOK
<1> QED
  BY <1>1, IInvHolds, PTL

-----------------------------------------------------------------------------
(***************************************************************************)
(* Fast key erasure.  KeyErased is not inductive: what is still in the     *)
(* buffer or in a fill must be out of the key's reach too, and a new seed  *)
(* must be one no byte was ever drawn from.                                *)
(***************************************************************************)

(* The OS readings made so far.                                            *)
IssuedBy(reads, seed) == seed[2] \in 1 .. reads[seed[1]]
Issued(seed) == IssuedBy(seedings, seed)

(* The bytes the key of process p is past.                                 *)
Behind(d, b) == b[1] = d.seed => Len(b[2]) < Len(d.takes)
Past(p) == {b \in Drawn : Issued(b[1]) /\ Behind(drbg[p], b)}

Unserved(p) == {rbuf[p][i] : i \in rpos[p] + 1 .. Size}

ErasedFor(p) ==
  /\ served[p] \subseteq Past(p)
  /\ Unserved(p) \subseteq Past(p)
  /\ ToSet(call[p].done) \subseteq Past(p)
  /\ IF drbg[p].seeded THEN Issued(drbg[p].seed) ELSE drbg[p].seed = NoSeed

KInv ==
  /\ \A p \in Procs : ErasedFor(p)
  /\ \A p \in Procs \ alive : served[p] = {} /\ call[p] = Idle

(* With no call in progress nothing has been generated.                    *)
LEMMA IdleDone == ToSet(Idle.done) = {}
BY DEF ToSet, Idle

(* The next seed of a process is not issued, nor is a zeroed one.          *)
LEMMA NextSeedNew ==
  ASSUME IInv, NEW p \in Procs
  PROVE  NextSeed(p) \in Seeds /\ ~Issued(NextSeed(p)) /\ ~Issued(NoSeed)
           /\ NextSeed(p) # NoSeed
BY CsprngAssumption DEF NextSeed, Issued, IssuedBy, NoSeed, Seeds, IInv, TypeInv

(* More OS readings take nothing back.                                     *)
LEMMA IssuedGrows ==
  ASSUME IInv, NEW p \in Procs, ReadOs(p) \/ UNCHANGED seedings, NEW x \in Seeds,
         IssuedBy(seedings, x)
  PROVE  IssuedBy(seedings', x)
<1>1. x[1] \in Procs /\ x[2] \in Nat
  BY DEF Seeds
<1>2. /\ seedings[x[1]] \in Nat
      /\ seedings'[x[1]] = seedings[x[1]] \/ seedings'[x[1]] = seedings[x[1]] + 1
  BY <1>1 DEF IInv, TypeInv, ReadOs
<1> QED
  BY <1>1, <1>2 DEF IssuedBy

(* What is past a key stays past it when more readings are issued.         *)
LEMMA PastGrows ==
  ASSUME IInv, NEW p \in Procs, ReadOs(p) \/ UNCHANGED seedings,
         NEW r \in Procs, drbg'[r] = drbg[r]
  PROVE  Past(r) \subseteq Past(r)'
<1> SUFFICES ASSUME NEW b \in Past(r) PROVE b \in Past(r)'
  OBVIOUS
<1>1. b \in Drawn /\ Issued(b[1]) /\ Behind(drbg[r], b) /\ b[1] \in Seeds
  BY DEF Past, Drawn
<1>2. IssuedBy(seedings', b[1])
  BY <1>1, IssuedGrows DEF Issued
<1> QED
  BY <1>1, <1>2 DEF Past, Behind, Issued

(* A process no step touches stays erased.                                 *)
LEMMA Bystander ==
  ASSUME IInv, NEW p \in Procs, ReadOs(p) \/ UNCHANGED seedings,
         NEW r \in Procs, ErasedFor(r), drbg'[r] = drbg[r], rbuf'[r] = rbuf[r],
         rpos'[r] = rpos[r], call'[r] = call[r], served'[r] = served[r]
  PROVE  ErasedFor(r)'
<1>1. Past(r) \subseteq Past(r)'
  BY PastGrows
<1>2. drbg[r].seeded /\ Issued(drbg[r].seed) => IssuedBy(seedings', drbg[r].seed)
  BY IssuedGrows DEF IInv, TypeInv, Generators, Issued
<1> QED
  BY <1>1, <1>2 DEF ErasedFor, Unserved, Issued

(* Erasure holds at the start: nothing has been handed out.                *)
LEMMA InitKInv == Init => KInv
<1> SUFFICES ASSUME Init, NEW p \in Procs PROVE ErasedFor(p) /\ served[p] = {} /\ call[p] = Idle
  BY DEF KInv
<1>1. /\ served[p] = {} /\ call[p] = Idle /\ drbg[p] = Unseeded
      /\ rpos[p] = Size /\ Size \in Nat
  BY CsprngAssumption DEF Init
<1>2. ToSet(call[p].done) = {}
  BY <1>1, IdleDone
<1> QED
  BY <1>1, <1>2 DEF ErasedFor, Unserved, Unseeded

(* What a delivery hands out it had to have.                               *)
LEMMA DeliverPast ==
  ASSUME IInv, NEW p \in Procs, NEW for, NEW bytes, NEW S,
         served[p] \subseteq S, ToSet(bytes) \subseteq S, Deliver(p, for, bytes)
  PROVE  /\ served'[p] \subseteq S
         /\ \A r \in Procs \ {p} : served'[r] = served[r]
BY DEF Deliver, IInv, TypeInv

(* A slice of the buffer beyond the position was not yet served.           *)
LEMMA SliceUnserved ==
  ASSUME IInv, NEW p \in Procs, NEW n \in Nat, rpos[p] + n <= Size
  PROVE  ToSet(SubSeq(rbuf[p], rpos[p] + 1, rpos[p] + n)) \subseteq Unserved(p)
<1> DEFINE u == SubSeq(rbuf[p], rpos[p] + 1, rpos[p] + n)
<1>1. rpos[p] \in Nat /\ Size \in Nat
  BY CsprngAssumption DEF IInv, TypeInv
<1>2. \A i \in rpos[p] + 1 .. rpos[p] + n : rbuf[p][i] \in Unserved(p)
  BY <1>1 DEF Unserved
<1>3. u \in Seq(Unserved(p))
  BY <1>1, <1>2, SubSeqProperties
<1> HIDE DEF u
<1>4. ToSet(u) \subseteq Unserved(p)
  BY <1>3, ElementOfSeq, LenProperties DEF ToSet
<1> QED
  BY <1>4 DEF u

(* Serving from the buffer keeps erasure.                                  *)
LEMMA ServeBufferedErases ==
  ASSUME IInv, KInv, NEW p \in Procs, ServeBuffered(p)
  PROVE  KInv'
<1> USE DEF platform
<1>1. PICK ask \in Asks(p) :
        /\ Fits(p, ask.len)
        /\ Deliver(p, ask.for, SubSeq(rbuf[p], rpos[p] + 1, rpos[p] + ask.len))
        /\ rpos' = [rpos EXCEPT ![p] = @ + ask.len]
  BY DEF ServeBuffered
<1>2. ask.len \in Nat /\ rpos[p] \in Nat /\ rpos[p] + ask.len <= Size
  BY <1>1, AsksOK DEF Fits, IInv, TypeInv
<1>3. UNCHANGED <<alive, seedings, rbuf, drbg, call>>
  BY DEF ServeBuffered
<1>4. ToSet(SubSeq(rbuf[p], rpos[p] + 1, rpos[p] + ask.len)) \subseteq Past(p)
  BY <1>2, SliceUnserved DEF KInv, ErasedFor
<1>5. served'[p] \subseteq Past(p) /\ \A r \in Procs \ {p} : served'[r] = served[r]
  BY <1>1, <1>4, DeliverPast DEF KInv, ErasedFor
<1>6. ErasedFor(p)'
  <2>1. rpos'[p] = rpos[p] + ask.len
    BY <1>1 DEF IInv, TypeInv
  <2>2. Unserved(p)' \subseteq Unserved(p)
    BY <1>2, <1>3, <2>1, CsprngAssumption DEF Unserved
  <2>3. Past(p)' = Past(p) /\ Issued(drbg[p].seed)' = Issued(drbg[p].seed)
    BY <1>3 DEF Past, Issued, Behind
  <2> QED
    BY <1>3, <1>5, <2>2, <2>3 DEF KInv, ErasedFor
<1>7. ASSUME NEW r \in Procs \ {p} PROVE ErasedFor(r)'
  <2>1. rpos'[r] = rpos[r]
    BY <1>1, <1>7 DEF IInv, TypeInv
  <2> QED
    BY <1>3, <1>5, <1>7, <2>1, Bystander DEF KInv
<1>8. p \in alive
  BY DEF ServeBuffered, Begin
<1> QED
  BY <1>3, <1>5, <1>6, <1>7, <1>8 DEF KInv

(* A call begins with nothing done, or goes back to idle.                  *)
LEMMA CallErases ==
  ASSUME IInv, KInv, NEW p \in alive, p \in Procs, NEW c, ToSet(c.done) = {},
         call' = [call EXCEPT ![p] = c],
         UNCHANGED <<alive, seedings, rbuf, rpos, drbg, served>>
  PROVE  KInv'
<1>1. call'[p] = c /\ \A r \in Procs \ {p} : call'[r] = call[r]
  BY DEF IInv, TypeInv
<1>2. ErasedFor(p)'
  <2>1. Past(p)' = Past(p) /\ Unserved(p)' = Unserved(p)
          /\ Issued(drbg[p].seed)' = Issued(drbg[p].seed)
    BY DEF Past, Issued, Behind, Unserved
  <2> QED
    BY <1>1, <2>1 DEF KInv, ErasedFor
<1>3. ASSUME NEW r \in Procs \ {p} PROVE ErasedFor(r)'
  BY <1>1, <1>3, Bystander DEF KInv
<1> QED
  BY <1>1, <1>2, <1>3 DEF KInv

(* The bytes of a fill are those it had and those added.                   *)
LEMMA FilledDone ==
  ASSUME NEW c, CallOK(c), NEW bytes \in Seq(Drawn), NEW S,
         ToSet(c.done) \subseteq S, \A i \in 1 .. Len(bytes) : bytes[i] \in S
  PROVE  ToSet(Filled(c, bytes).done) \subseteq S
<1>1. Filled(c, bytes).done = c.done \o bytes /\ c.done \in Seq(Drawn)
  BY DEF Filled, CallOK, Calls
<1>2. \A i \in 1 .. Len(c.done) : c.done[i] \in S
  BY <1>1, LenProperties DEF ToSet
<1>3. Len(c.done) \in Nat /\ Len(bytes) \in Nat
  BY <1>1, LenProperties
<1>4. /\ DOMAIN (c.done \o bytes) = 1 .. Len(c.done) + Len(bytes)
      /\ \A i \in 1 .. Len(c.done) + Len(bytes) :
           (c.done \o bytes)[i] = IF i <= Len(c.done) THEN c.done[i] ELSE bytes[i - Len(c.done)]
  BY <1>1, ConcatProperties, LenProperties
<1>5. ASSUME NEW i \in DOMAIN (c.done \o bytes) PROVE (c.done \o bytes)[i] \in S
  <2>1. CASE i <= Len(c.done)
    BY <1>2, <1>3, <1>4, <2>1
  <2>2. CASE ~(i <= Len(c.done))
    BY <1>3, <1>4, <2>2
  <2> QED
    BY <2>1, <2>2
<1> QED
  BY <1>1, <1>5 DEF ToSet

(* The bytes of a generate call, named.                                    *)
LEMMA GeneratedNames ==
  ASSUME NEW d \in Generators, NEW take \in Nat, NEW i \in 1 .. Len(Generated(d, take))
  PROVE  /\ Generated(d, take)[i] = <<d.seed, d.takes, i>>
         /\ Generated(d, take)[i] \in Drawn
<1>1. Len(Generated(d, take)) = take /\ Generated(d, take) \in Seq(Drawn)
  BY GeneratedDrawn
<1>2. Generated(d, take)[i] \in Drawn
  BY <1>1, ElementOfSeq
<1> QED
  BY <1>1, <1>2 DEF Generated

(* A turn of the fill loop keeps erasure: the key moves past the chunk.    *)
LEMMA ChunkErases ==
  ASSUME IInv, KInv, NEW p \in Procs, Chunk(p)
  PROVE  KInv'
<1> DEFINE due == NeedsSeed(drbg[p])
           d == IF due THEN Reseeded(NextSeed(p)) ELSE drbg[p]
           take == Take(call[p].left)
           new == NextKey(d, take)
           bytes == Generated(d, take)
<1>1. CallOK(call[p]) /\ drbg[p] \in Generators /\ call[p].left \in Nat
  BY DEF IInv, TypeInv, CallOK, Calls
<1>2. NextSeed(p) \in Seeds /\ ~Issued(NextSeed(p)) /\ ~Issued(NoSeed)
  BY NextSeedNew
<1>3. d \in Generators /\ ~NeedsSeed(d)
  BY <1>1, <1>2, ReseededReady
<1>4. take \in Nat
  BY <1>1, CsprngAssumption DEF Take
<1>5. ReadOs(p) \/ UNCHANGED seedings
  BY DEF Chunk
<1>6. IssuedBy(seedings', d.seed)
  <2>1. CASE due
    <3>1. d.seed = <<p, seedings[p] + 1>> /\ seedings'[p] = seedings[p] + 1
            /\ seedings[p] \in Nat
      BY <2>1 DEF Chunk, ReadOs, Reseeded, NextSeed, IInv, TypeInv
    <3> QED
      BY <3>1 DEF IssuedBy
  <2>2. CASE ~due
    <3>1. d = drbg[p] /\ Issued(drbg[p].seed)
      BY <2>2 DEF NeedsSeed, KInv, ErasedFor
    <3> QED
      BY <1>3, <1>5, <3>1, IssuedGrows DEF Generators, Issued
  <2> QED
    BY <2>1, <2>2
<1>7. new.seed = d.seed /\ new.seeded = d.seeded /\ d.seeded
        /\ Len(new.takes) = Len(d.takes) + 1 /\ Len(d.takes) \in Nat
  <2>1. d.takes \in Seq(Nat) /\ Blocks(take) \in Nat
    BY <1>3, <1>4, BlocksNat DEF Generators
  <2>2. Len(Append(d.takes, Blocks(take))) = Len(d.takes) + 1 /\ Len(d.takes) \in Nat
    BY <2>1, AppendProperties, LenProperties
  <2>3. new.seed = d.seed /\ new.seeded = d.seeded /\ new.takes = Append(d.takes, Blocks(take))
    BY <1>3 DEF NextKey, Generators
  <2>4. d.seeded
    BY <1>3 DEF NeedsSeed
  <2> QED
    BY <2>2, <2>3, <2>4
<1>8. /\ drbg'[p] = new /\ \A r \in Procs \ {p} : drbg'[r] = drbg[r]
      /\ call'[p] = Filled(call[p], bytes) /\ \A r \in Procs \ {p} : call'[r] = call[r]
      /\ UNCHANGED <<alive, rbuf, rpos, served>>
  BY DEF Chunk, Fill, IInv, TypeInv, platform, history
<1>9. ASSUME NEW b \in Past(p) PROVE b \in Past(p)'
  <2>1. b \in Drawn /\ Issued(b[1]) /\ Behind(drbg[p], b) /\ b[1] \in Seeds
          /\ b[2] \in Seq(Nat)
    BY DEF Past, Drawn
  <2>2. IssuedBy(seedings', b[1])
    BY <1>5, <2>1, IssuedGrows DEF Issued
  <2>3. Behind(new, b)
    <3>1. CASE due
      BY <1>2, <1>7, <2>1, <3>1 DEF Behind, Reseeded
    <3>2. CASE ~due
      <4>1. d = drbg[p] /\ Len(b[2]) \in Nat
        BY <2>1, <3>2, LenProperties
      <4> HIDE DEF d, new
      <4> QED
        BY <1>7, <2>1, <4>1 DEF Behind
    <3> QED
      BY <3>1, <3>2
  <2> QED
    BY <1>8, <2>1, <2>2, <2>3 DEF Past, Issued
<1>10. ASSUME NEW i \in 1 .. Len(bytes) PROVE bytes[i] \in Past(p)'
  <2>1. bytes[i] = <<d.seed, d.takes, i>> /\ bytes[i] \in Drawn
    BY <1>3, <1>4, GeneratedNames
  <2> HIDE DEF d, new, bytes
  <2>2. Behind(new, bytes[i])
    BY <1>7, <2>1 DEF Behind
  <2> QED
    BY <1>6, <1>8, <2>1, <2>2 DEF Past, Issued
<1>11. ErasedFor(p)'
  <2>1. bytes \in Seq(Drawn)
    BY <1>3, <1>4, GeneratedDrawn
  <2>2. ToSet(call[p].done) \subseteq Past(p)'
    BY <1>9 DEF KInv, ErasedFor
  <2> HIDE DEF d, new, bytes
  <2>3. ToSet(call'[p].done) \subseteq Past(p)'
    BY <1>1, <1>8, <1>10, <2>1, <2>2, FilledDone
  <2>4. Unserved(p)' = Unserved(p)
    BY <1>8 DEF Unserved
  <2> QED
    BY <1>6, <1>7, <1>8, <1>9, <2>3, <2>4 DEF KInv, ErasedFor, Issued
<1>12. ASSUME NEW r \in Procs \ {p} PROVE ErasedFor(r)'
  BY <1>5, <1>8, <1>12, Bystander DEF KInv
<1>13. call[p] # Idle
  BY DEF Chunk, Filling, Idle
<1> QED
  BY <1>8, <1>11, <1>12, <1>13 DEF KInv

(* Bytes read straight from the OS are past every key, once counted.       *)
LEMMA OsBytesPast ==
  ASSUME IInv, KInv, NEW p \in Procs, ReadOs(p), drbg' = drbg, NEW take \in Nat,
         NEW i \in 1 .. Len(Generated(Reseeded(NextSeed(p)), take))
  PROVE  Generated(Reseeded(NextSeed(p)), take)[i] \in Past(p)'
<1> DEFINE b == Generated(Reseeded(NextSeed(p)), take)[i]
<1>1. /\ NextSeed(p) \in Seeds /\ ~Issued(NextSeed(p)) /\ NextSeed(p) # NoSeed
      /\ Reseeded(NextSeed(p)) \in Generators
  BY NextSeedNew, ReseededReady
<1>2. b \in Drawn /\ b[1] = NextSeed(p)
  BY <1>1, GeneratedNames DEF Reseeded
<1>3. IssuedBy(seedings', NextSeed(p))
  <2>1. seedings'[p] = seedings[p] + 1 /\ seedings[p] \in Nat
    BY DEF ReadOs, IInv, TypeInv
  <2> QED
    BY <2>1 DEF IssuedBy, NextSeed
<1>4. drbg[p].seed # NextSeed(p)
  BY <1>1 DEF KInv, ErasedFor
<1> HIDE DEF b
<1>5. b \in Past(p)'
  BY <1>2, <1>3, <1>4 DEF Past, Issued, Behind
<1> QED
  BY <1>5 DEF b

(* A fill by the OS keeps erasure.                                         *)
LEMMA OsFillErases ==
  ASSUME IInv, KInv, NEW p \in Procs, OsFill(p)
  PROVE  KInv'
<1> DEFINE bytes == Generated(Reseeded(NextSeed(p)), call[p].left)
<1>1. CallOK(call[p]) /\ call[p].left \in Nat
  BY DEF IInv, CallOK, Calls
<1>2. bytes \in Seq(Drawn)
  BY <1>1, NextSeedNew, ReseededReady, GeneratedDrawn
<1>3. /\ ReadOs(p)
      /\ UNCHANGED <<alive, rbuf, rpos, drbg, served>>
      /\ call'[p] = Filled(call[p], bytes) /\ \A r \in Procs \ {p} : call'[r] = call[r]
  BY DEF OsFill, Fill, platform, globals, history, IInv, TypeInv
<1>4. Past(p) \subseteq Past(p)'
  BY <1>3, PastGrows
<1>5. \A i \in 1 .. Len(bytes) : bytes[i] \in Past(p)'
  BY <1>1, <1>3, OsBytesPast
<1>6. ErasedFor(p)'
  <2>1. ToSet(call[p].done) \subseteq Past(p)'
    BY <1>4 DEF KInv, ErasedFor
  <2> HIDE DEF bytes
  <2>2. ToSet(call'[p].done) \subseteq Past(p)'
    BY <1>1, <1>2, <1>3, <1>5, <2>1, FilledDone
  <2>3. Unserved(p)' = Unserved(p)
    BY <1>3 DEF Unserved
  <2>4. drbg[p].seeded /\ Issued(drbg[p].seed) => IssuedBy(seedings', drbg[p].seed)
    BY <1>3, IssuedGrows DEF IInv, TypeInv, Generators, Issued
  <2> QED
    BY <1>3, <1>4, <2>2, <2>3, <2>4 DEF KInv, ErasedFor, Issued
<1>7. ASSUME NEW r \in Procs \ {p} PROVE ErasedFor(r)'
  BY <1>3, <1>7, Bystander DEF KInv
<1>8. call[p] # Idle
  BY DEF OsFill, Filling, Idle
<1> QED
  BY <1>3, <1>6, <1>7, <1>8 DEF KInv

(* Serving a completed fill keeps erasure.                                 *)
LEMMA FinishErases ==
  ASSUME IInv, KInv, NEW p \in Procs, Finish(p)
  PROVE  KInv'
<1> DEFINE done == call[p].done
           want == call[p].want
<1> USE DEF platform
<1>1. /\ CallOK(call[p]) /\ done \in Seq(Drawn) /\ want \in Nat /\ Size \in Nat
      /\ call[p].left = 0 /\ ToSet(done) \subseteq Past(p)
      /\ served[p] \subseteq Past(p) /\ Unserved(p) \subseteq Past(p)
  BY CsprngAssumption DEF Finish, Filling, IInv, KInv, ErasedFor, CallOK, Calls
<1>2. /\ UNCHANGED <<alive, seedings, drbg>>
      /\ call'[p] = Idle /\ \A r \in Procs \ {p} : call'[r] = call[r]
  BY DEF Finish, IInv, TypeInv
<1>3. Past(p)' = Past(p) /\ Issued(drbg[p].seed)' = Issued(drbg[p].seed)
  BY <1>2 DEF Past, Issued, Behind
<1> DEFINE Outcome ==
             /\ served'[p] \subseteq Past(p) /\ Unserved(p)' \subseteq Past(p)
             /\ \A r \in Procs \ {p} :
                  served'[r] = served[r] /\ rbuf'[r] = rbuf[r] /\ rpos'[r] = rpos[r]
<1>4. ASSUME call[p].to = "rbuf" PROVE Outcome
  <2>1. want \in 1 .. Size /\ Len(done) = Size
    BY <1>1, <1>4, LenProperties DEF CallOK
  <2>2. DOMAIN done = 1 .. Size /\ \A i \in 1 .. Size : done[i] \in ToSet(done)
    BY <1>1, <2>1, LenProperties DEF ToSet
  <2>3. SubSeq(done, 1, want) \in Seq(ToSet(done))
    BY <1>1, <2>1, <2>2, SubSeqProperties
  <2>4. ToSet(SubSeq(done, 1, want)) \subseteq Past(p)
    BY <1>1, <2>3, ElementOfSeq, LenProperties DEF ToSet
  <2>5. /\ rbuf' = [rbuf EXCEPT ![p] = done] /\ rpos' = [rpos EXCEPT ![p] = want]
        /\ Deliver(p, call[p].for, SubSeq(done, 1, want))
    BY <1>4 DEF Finish
  <2>6. served'[p] \subseteq Past(p) /\ \A r \in Procs \ {p} : served'[r] = served[r]
    BY <1>1, <2>4, <2>5, DeliverPast
  <2>7. /\ rbuf'[p] = done /\ rpos'[p] = want
        /\ \A r \in Procs \ {p} : rbuf'[r] = rbuf[r] /\ rpos'[r] = rpos[r]
    BY <2>5 DEF IInv, TypeInv
  <2> HIDE DEF done, want
  <2>8. Unserved(p)' \subseteq ToSet(done)
    BY <1>1, <2>1, <2>2, <2>7 DEF Unserved
  <2> QED
    BY <1>1, <2>6, <2>7, <2>8
<1>5. ASSUME call[p].to # "rbuf" PROVE Outcome
  <2>1. Deliver(p, "caller", done) /\ UNCHANGED <<rbuf, rpos>>
    BY <1>5 DEF Finish
  <2>2. served'[p] \subseteq Past(p) /\ \A r \in Procs \ {p} : served'[r] = served[r]
    BY <1>1, <2>1, DeliverPast
  <2>3. Unserved(p)' = Unserved(p)
    BY <2>1 DEF Unserved
  <2> QED
    BY <1>1, <2>1, <2>2, <2>3
<1>6. Outcome
  BY <1>4, <1>5
<1>7. ErasedFor(p)'
  BY <1>2, <1>3, <1>6, IdleDone DEF KInv, ErasedFor
<1>8. ASSUME NEW r \in Procs \ {p} PROVE ErasedFor(r)'
  BY <1>2, <1>6, <1>8, Bystander DEF KInv
<1>9. call[p] # Idle
  BY DEF Finish
<1> QED
  BY <1>2, <1>6, <1>7, <1>8, <1>9 DEF KInv

(* A failed fill by the OS keeps erasure.                                  *)
LEMMA OsFillFailsErases ==
  ASSUME IInv, KInv, NEW p \in Procs, OsFillFails(p)
  PROVE  KInv'
<1> USE DEF platform, history
<1>1. /\ ReadOs(p)
      /\ UNCHANGED <<alive, rpos, drbg, served>>
      /\ call'[p] = Idle /\ \A r \in Procs \ {p} : call'[r] = call[r]
  BY DEF OsFillFails, IInv, TypeInv
<1>2. Past(p) \subseteq Past(p)'
  BY <1>1, PastGrows
<1>3. /\ BufferOK(rbuf[p], rpos[p]) /\ Size \in Nat /\ rpos[p] \in Nat
      /\ Unserved(p) \subseteq Past(p)'
  BY <1>2, CsprngAssumption DEF IInv, TypeInv, KInv, ErasedFor
<1> DEFINE Outcome == /\ Unserved(p)' \subseteq Past(p)'
                      /\ \A r \in Procs \ {p} : rbuf'[r] = rbuf[r]
<1>4. ASSUME call[p].to = "rbuf" PROVE Outcome
  <2>1. PICK k \in 0 .. Size :
          rbuf' = [rbuf EXCEPT ![p] =
                     Generated(Reseeded(NextSeed(p)), k) \o SubSeq(@, k + 1, Size)]
    BY <1>4 DEF OsFillFails
  <2> DEFINE new == Generated(Reseeded(NextSeed(p)), k)
             mixed == new \o SubSeq(rbuf[p], k + 1, Size)
  <2>2. k \in Nat /\ k <= Size
    BY <1>3
  <2>3. new \in Seq(Drawn) /\ Len(new) = k
    BY <2>2, NextSeedNew, ReseededReady, GeneratedDrawn
  <2>4. \A i \in 1 .. k : new[i] \in Past(p)'
    BY <1>1, <2>2, <2>3, OsBytesPast
  <2>5. rbuf'[p] = mixed /\ \A r \in Procs \ {p} : rbuf'[r] = rbuf[r]
    BY <2>1 DEF IInv, TypeInv
  <2> HIDE DEF new
  <2>6. \A i \in 1 .. Size : mixed[i] = IF i <= k THEN new[i] ELSE rbuf[p][i]
    BY <1>3, <2>3, PrefixBytes
  <2> HIDE DEF mixed
  <2>7. ASSUME NEW i \in rpos[p] + 1 .. Size PROVE mixed[i] \in Past(p)'
    <3>1. i \in 1 .. Size
      BY <1>3
    <3>2. CASE i <= k
      BY <2>4, <2>6, <3>1, <3>2
    <3>3. CASE ~(i <= k)
      BY <1>3, <2>6, <3>1, <3>3 DEF Unserved
    <3> QED
      BY <3>2, <3>3
  <2> QED
    BY <1>1, <2>5, <2>7 DEF Unserved
<1>5. ASSUME call[p].to # "rbuf" PROVE Outcome
  <2>1. rbuf' = rbuf
    BY <1>5 DEF OsFillFails
  <2> QED
    BY <1>1, <1>3, <2>1 DEF Unserved
<1>6. Outcome
  BY <1>4, <1>5
<1>7. ErasedFor(p)'
  <2>1. drbg[p].seeded /\ Issued(drbg[p].seed) => IssuedBy(seedings', drbg[p].seed)
    BY <1>1, IssuedGrows DEF IInv, TypeInv, Generators, Issued
  <2> QED
    BY <1>1, <1>2, <1>6, <2>1, IdleDone DEF KInv, ErasedFor, Issued
<1>8. ASSUME NEW r \in Procs \ {p} PROVE ErasedFor(r)'
  BY <1>1, <1>6, <1>8, Bystander DEF KInv
<1>9. call[p] # Idle
  BY DEF OsFillFails, Filling, Idle
<1> QED
  BY <1>1, <1>6, <1>7, <1>8, <1>9 DEF KInv

(* Drawing from xoshiro keeps erasure.                                     *)
LEMMA GenV4FastErases ==
  ASSUME IInv, KInv, NEW p \in Procs, GenV4Fast(p)
  PROVE  KInv'
<1>1. UNCHANGED <<alive, seedings, rbuf, rpos, drbg, call, served>>
  BY DEF GenV4Fast, platform
<1> QED
  BY <1>1, Bystander DEF KInv

(* A fork or a restored snapshot keeps erasure in both processes.          *)
LEMMA CopyErases ==
  ASSUME IInv, KInv, NEW p \in Procs, NEW q \in Procs, Copies(p, q),
         Inherit(p, q) \/ AtForkChild(p, q)
  PROVE  KInv'
<1>1. /\ q \in Procs \ alive /\ p # q /\ alive' = alive \cup {q}
      /\ UNCHANGED <<seedings, call, served>>
  BY DEF Copies, history
<1>2. served[q] = {} /\ call[q] = Idle
  BY <1>1 DEF KInv
<1>3. ErasedFor(q)'
  <2>1. CASE Inherit(p, q)
    <3>1. rbuf'[q] = rbuf[p] /\ rpos'[q] = rpos[p] /\ drbg'[q] = drbg[p]
      BY <2>1 DEF Inherit, IInv, TypeInv
    <3>2. Unserved(q)' = Unserved(p) /\ Past(q)' = Past(p)
            /\ Issued(drbg[q].seed)' = Issued(drbg[p].seed)
      BY <1>1, <3>1 DEF Unserved, Past, Issued, Behind
    <3> QED
      BY <1>1, <1>2, <3>1, <3>2, IdleDone DEF KInv, ErasedFor
  <2>2. CASE AtForkChild(p, q)
    <3>1. rpos'[q] = Size /\ drbg'[q] = Unseeded /\ Size \in Nat
      BY <2>2, CsprngAssumption DEF AtForkChild, IInv, TypeInv
    <3> QED
      BY <1>1, <1>2, <3>1, IdleDone DEF ErasedFor, Unserved, Unseeded
  <2> QED
    BY <2>1, <2>2
<1>4. ASSUME NEW r \in Procs \ {q} PROVE ErasedFor(r)'
  <2>1. rbuf'[r] = rbuf[r] /\ rpos'[r] = rpos[r] /\ drbg'[r] = drbg[r]
    BY <1>4 DEF Inherit, AtForkChild, IInv, TypeInv
  <2> QED
    BY <1>1, <1>4, <2>1, Bystander DEF KInv
<1> QED
  BY <1>1, <1>3, <1>4 DEF KInv

(* Every step keeps erasure.                                               *)
LEMMA NextKInv == IInv /\ KInv /\ [Next]_vars => KInv'
<1> SUFFICES ASSUME IInv, KInv, [Next]_vars PROVE KInv'
  OBVIOUS
<1> USE DEF platform, globals, history
<1>1. ASSUME NEW p \in Procs, ServeBuffered(p) PROVE KInv'
  BY <1>1, ServeBufferedErases
<1>2. ASSUME NEW p \in Procs, BeginRefill(p) PROVE KInv'
  <2>1. PICK ask \in Asks(p) :
          call' = [call EXCEPT ![p] =
            [to |-> "rbuf", for |-> ask.for, want |-> ask.len, left |-> Size, done |-> << >>]]
    BY <1>2 DEF BeginRefill
  <2> DEFINE c == [to |-> "rbuf", for |-> ask.for, want |-> ask.len, left |-> Size,
                   done |-> << >>]
  <2>2. ToSet(c.done) = {}
    BY DEF ToSet
  <2> QED
    BY <1>2, <2>1, <2>2, CallErases DEF BeginRefill, Begin
<1>3. ASSUME NEW p \in Procs, BeginDirect(p) PROVE KInv'
  <2>1. PICK n \in Requests :
          call' = [call EXCEPT ![p] =
            [to |-> "caller", for |-> "caller", want |-> n, left |-> n, done |-> << >>]]
    BY <1>3 DEF BeginDirect
  <2> DEFINE c == [to |-> "caller", for |-> "caller", want |-> n, left |-> n, done |-> << >>]
  <2>2. ToSet(c.done) = {}
    BY DEF ToSet
  <2> QED
    BY <1>3, <2>1, <2>2, CallErases DEF BeginDirect, Begin
<1>4. ASSUME NEW p \in Procs, GenV4Fast(p) PROVE KInv'
  BY <1>4, GenV4FastErases
<1>5. ASSUME NEW p \in Procs, Chunk(p) PROVE KInv'
  BY <1>5, ChunkErases
<1>6. ASSUME NEW p \in Procs, OsFill(p) PROVE KInv'
  BY <1>6, OsFillErases
<1>7. ASSUME NEW p \in Procs, Finish(p) PROVE KInv'
  BY <1>7, FinishErases
<1>8. ASSUME NEW p \in Procs, SeedFails(p) PROVE KInv'
  <2>1. p \in alive
    BY <1>8 DEF SeedFails, Filling, KInv, Idle
  <2> QED
    BY <1>8, <2>1, IdleDone, CallErases DEF SeedFails
<1>9. ASSUME NEW p \in Procs, OsFillFails(p) PROVE KInv'
  BY <1>9, OsFillFailsErases
<1>10. ASSUME NEW p \in Procs, NEW q \in Procs, Fork(p, q) \/ CloneMachine(p, q) PROVE KInv'
  BY <1>10, CopyErases DEF Fork, CloneMachine
<1>11. CASE UNCHANGED vars
  BY <1>11, Bystander DEF vars, KInv
<1> QED
  BY <1>1, <1>2, <1>3, <1>4, <1>5, <1>6, <1>7, <1>8, <1>9, <1>10, <1>11 DEF Next

(* Fast key erasure, whatever the request lengths, reseeds, failures and   *)
(* forks: no byte handed out can be had again from the key that is left.   *)
THEOREM KeyErasure == Spec => []KeyErased
<1>1. IInv /\ KInv => KeyErased
  <2> SUFFICES ASSUME IInv, KInv, NEW p \in Procs, NEW b \in served[p],
                      b[1] = drbg[p].seed, IsPrefix(drbg[p].takes, b[2])
               PROVE  FALSE
    BY DEF KeyErased
  <2>1. Behind(drbg[p], b) /\ b[2] \in Seq(Nat)
    BY DEF KInv, ErasedFor, Past, Drawn
  <2>2. drbg[p].takes \in Seq(Nat)
    BY DEF IInv, TypeInv, Generators
  <2> QED
    BY <2>1, <2>2, LenProperties DEF Behind, IsPrefix
<1> QED
  BY <1>1, InitKInv, NextKInv, IInvHolds, PTL DEF Spec

-----------------------------------------------------------------------------
(***************************************************************************)
(* No byte twice.  ServedOnce needs every place a byte can wait in (the    *)
(* buffer beyond its position, the fill in progress) to hold it once, and  *)
(* apart from the others and from what was served.                         *)
(***************************************************************************)
NoRepeat(s, from, to) == \A i, j \in from .. to : s[i] = s[j] => i = j

OnceFor(p) ==
  /\ NoRepeat(rbuf[p], rpos[p] + 1, Size)
  /\ NoRepeat(call[p].done, 1, Len(call[p].done))
  /\ served[p] \cap Unserved(p) = {}
  /\ (served[p] \cup Unserved(p)) \cap ToSet(call[p].done) = {}
  /\ IsFiniteSet(served[p]) /\ Cardinality(served[p]) = count[p]

OInv ==
  /\ count \in [Procs -> Nat]
  /\ \A p \in Procs : OnceFor(p)

(* A sequence without repetition has as many elements as places.           *)
LEMMA NoRepeatCounts ==
  ASSUME NEW S, NEW s \in Seq(S), NoRepeat(s, 1, Len(s))
  PROVE  IsFiniteSet(ToSet(s)) /\ Cardinality(ToSet(s)) = Len(s)
<1>1. Len(s) \in Nat /\ DOMAIN s = 1 .. Len(s)
  BY LenProperties
<1>2. s \in Bijection(1 .. Len(s), ToSet(s))
  <2>1. s \in [1 .. Len(s) -> ToSet(s)]
    BY <1>1, LenProperties DEF ToSet
  <2> QED
    BY <1>1, <2>1, Fun_IsBij DEF ToSet, NoRepeat
<1>3. ExistsBijection(1 .. Len(s), ToSet(s))
  BY <1>2 DEF ExistsBijection
<1> QED
  BY <1>1, <1>3, FS_CountingElements, FS_NatBijection

(* The bytes from a position on, and a slice handed out of them.           *)
From(buf, pos) == {buf[i] : i \in pos + 1 .. Size}

LEMMA SliceOnce ==
  ASSUME NEW buf, NEW pos, BufferOK(buf, pos), NoRepeat(buf, pos + 1, Size),
         NEW n \in Nat, pos + n <= Size
  PROVE  LET out == SubSeq(buf, pos + 1, pos + n)
         IN  /\ ToSet(out) \cup From(buf, pos + n) \subseteq From(buf, pos)
             /\ ToSet(out) \cap From(buf, pos + n) = {}
             /\ NoRepeat(buf, pos + n + 1, Size)
             /\ IsFiniteSet(ToSet(out)) /\ Cardinality(ToSet(out)) = Len(out)
<1> DEFINE out == SubSeq(buf, pos + 1, pos + n)
<1>1. Size \in Nat /\ pos \in Nat
  BY CsprngAssumption DEF BufferOK
<1>2. \A i \in pos + 1 .. pos + n : buf[i] \in Drawn
  BY <1>1 DEF BufferOK
<1>3. /\ out \in Seq(Drawn) /\ Len(out) = n
      /\ \A i \in 1 .. n : out[i] = buf[pos + i]
  <2>1. /\ out \in Seq(Drawn)
        /\ Len(out) = IF pos + 1 <= pos + n THEN pos + n - (pos + 1) + 1 ELSE 0
        /\ \A i \in 1 .. pos + n - (pos + 1) + 1 : out[i] = buf[pos + 1 + i - 1]
    BY <1>1, <1>2, SubSeqProperties
  <2>2. Len(out) = n /\ pos + n - (pos + 1) + 1 = n
    BY <1>1, <2>1
  <2>3. \A i \in 1 .. n : pos + 1 + i - 1 = pos + i
    BY <1>1
  <2> QED
    BY <2>1, <2>2, <2>3
<1> HIDE DEF out
<1>4. NoRepeat(out, 1, n)
  <2> SUFFICES ASSUME NEW i \in 1 .. n, NEW j \in 1 .. n, out[i] = out[j] PROVE i = j
    BY DEF NoRepeat
  <2>1. buf[pos + i] = buf[pos + j] /\ pos + i \in pos + 1 .. Size /\ pos + j \in pos + 1 .. Size
    BY <1>1, <1>3
  <2>2. pos + i = pos + j
    BY <2>1 DEF NoRepeat
  <2> QED
    BY <1>1, <2>2
<1>5. ToSet(out) = {buf[i] : i \in pos + 1 .. pos + n}
  <2>1. ToSet(out) = {out[i] : i \in 1 .. n}
    BY <1>3, LenProperties DEF ToSet
  <2>2. ASSUME NEW i \in pos + 1 .. pos + n PROVE i - pos \in 1 .. n /\ out[i - pos] = buf[i]
    BY <1>1, <1>3
  <2>3. ASSUME NEW i \in 1 .. n PROVE pos + i \in pos + 1 .. pos + n
    BY <1>1
  <2>4. ToSet(out) \subseteq {buf[i] : i \in pos + 1 .. pos + n}
    BY <1>3, <2>1, <2>3
  <2>5. {buf[i] : i \in pos + 1 .. pos + n} \subseteq ToSet(out)
    BY <2>1, <2>2
  <2> QED
    BY <2>4, <2>5
<1>6. ToSet(out) \cap From(buf, pos + n) = {}
  <2> SUFFICES ASSUME NEW i \in pos + 1 .. pos + n, NEW j \in pos + n + 1 .. Size, buf[i] = buf[j]
               PROVE  FALSE
    BY <1>5 DEF From
  <2>1. i \in pos + 1 .. Size /\ j \in pos + 1 .. Size /\ i # j
    BY <1>1
  <2> QED
    BY <2>1 DEF NoRepeat
<1>7. pos + 1 .. pos + n \subseteq pos + 1 .. Size /\ pos + n + 1 .. Size \subseteq pos + 1 .. Size
  BY <1>1
<1>8. IsFiniteSet(ToSet(out)) /\ Cardinality(ToSet(out)) = Len(out)
  BY <1>3, <1>4, NoRepeatCounts
<1>9. ToSet(out) \cup From(buf, pos + n) \subseteq From(buf, pos)
  BY <1>5, <1>7 DEF From
<1>10. NoRepeat(buf, pos + n + 1, Size)
  BY <1>7 DEF NoRepeat
<1> QED
  BY <1>6, <1>8, <1>9, <1>10 DEF out

(* Handing out bytes not served before counts each of them once.           *)
LEMMA DeliverOnce ==
  ASSUME IInv, OInv, NEW p \in Procs, NEW for, NEW bytes, Deliver(p, for, bytes),
         served[p] \cap ToSet(bytes) = {},
         IsFiniteSet(ToSet(bytes)), Cardinality(ToSet(bytes)) = Len(bytes)
  PROVE  /\ count' \in [Procs -> Nat]
         /\ served'[p] = served[p] \cup ToSet(bytes)
         /\ IsFiniteSet(served'[p]) /\ Cardinality(served'[p]) = count'[p]
         /\ \A r \in Procs \ {p} : served'[r] = served[r] /\ count'[r] = count[r]
<1>1. IsFiniteSet(served[p]) /\ Cardinality(served[p]) = count[p] /\ count[p] \in Nat
  BY DEF OInv, OnceFor
<1>2. Len(bytes) \in Nat
  BY FS_CardinalityType
<1>3. /\ count' = [count EXCEPT ![p] = @ + Len(bytes)]
      /\ served' = [served EXCEPT ![p] = @ \cup ToSet(bytes)]
  BY DEF Deliver
<1>4. count' \in [Procs -> Nat] /\ count'[p] = count[p] + Len(bytes)
  BY <1>1, <1>2, <1>3 DEF OInv
<1>5. served'[p] = served[p] \cup ToSet(bytes)
  BY <1>3 DEF IInv, TypeInv
<1>6. /\ IsFiniteSet(served[p] \cup ToSet(bytes))
      /\ Cardinality(served[p] \cup ToSet(bytes)) = count[p] + Len(bytes) - Cardinality({})
  BY <1>1, FS_Union
<1>7. Cardinality({}) = 0
  BY FS_EmptySet
<1>8. \A r \in Procs \ {p} : served'[r] = served[r] /\ count'[r] = count[r]
  BY <1>3 DEF OInv, IInv, TypeInv
<1> QED
  BY <1>1, <1>2, <1>4, <1>5, <1>6, <1>7, <1>8

(* A process no step touches stays so.                                     *)
LEMMA BystanderOnce ==
  ASSUME NEW r \in Procs, OnceFor(r), rbuf'[r] = rbuf[r], rpos'[r] = rpos[r],
         call'[r] = call[r], served'[r] = served[r], count'[r] = count[r]
  PROVE  OnceFor(r)'
BY DEF OnceFor, Unserved, NoRepeat

(* Serving from the buffer hands out nothing twice.                        *)
LEMMA ServeBufferedOnce ==
  ASSUME IInv, OInv, NEW p \in Procs, ServeBuffered(p)
  PROVE  OInv'
<1>1. PICK ask \in Asks(p) :
        /\ Fits(p, ask.len)
        /\ Deliver(p, ask.for, SubSeq(rbuf[p], rpos[p] + 1, rpos[p] + ask.len))
        /\ rpos' = [rpos EXCEPT ![p] = @ + ask.len]
  BY DEF ServeBuffered
<1> DEFINE n == ask.len
           out == SubSeq(rbuf[p], rpos[p] + 1, rpos[p] + n)
<1>2. n \in Nat /\ rpos[p] + n <= Size /\ BufferOK(rbuf[p], rpos[p]) /\ OnceFor(p)
  BY <1>1, AsksOK DEF Fits, IInv, OInv
<1>3. /\ UNCHANGED <<rbuf, call>>
      /\ rpos'[p] = rpos[p] + n /\ \A r \in Procs \ {p} : rpos'[r] = rpos[r]
  BY <1>1 DEF ServeBuffered, IInv, TypeInv
<1>4. Deliver(p, ask.for, out)
  BY <1>1
<1> HIDE DEF n
<1>5. /\ ToSet(out) \cup From(rbuf[p], rpos[p] + n) \subseteq From(rbuf[p], rpos[p])
      /\ ToSet(out) \cap From(rbuf[p], rpos[p] + n) = {}
      /\ NoRepeat(rbuf[p], rpos[p] + n + 1, Size)
      /\ IsFiniteSet(ToSet(out)) /\ Cardinality(ToSet(out)) = Len(out)
  BY <1>2, SliceOnce DEF OnceFor
<1> HIDE DEF out
<1>6. Unserved(p) = From(rbuf[p], rpos[p]) /\ Unserved(p)' = From(rbuf[p], rpos[p] + n)
  BY <1>3 DEF Unserved, From
<1>7. /\ count' \in [Procs -> Nat]
      /\ served'[p] = served[p] \cup ToSet(out)
      /\ IsFiniteSet(served'[p]) /\ Cardinality(served'[p]) = count'[p]
      /\ \A r \in Procs \ {p} : served'[r] = served[r] /\ count'[r] = count[r]
  BY <1>2, <1>4, <1>5, <1>6, DeliverOnce DEF OnceFor
<1>8. OnceFor(p)'
  <2>1. NoRepeat(rbuf[p], rpos[p] + 1, Size)' /\ call'[p] = call[p]
    BY <1>3, <1>5
  <2>2. NoRepeat(call[p].done, 1, Len(call[p].done))'
    BY <1>2, <2>1 DEF OnceFor
  <2>3. served'[p] \cap Unserved(p)' = {}
    BY <1>2, <1>5, <1>6, <1>7 DEF OnceFor
  <2>4. (served'[p] \cup Unserved(p)') \cap ToSet(call'[p].done) = {}
    BY <1>2, <1>5, <1>6, <1>7, <2>1 DEF OnceFor
  <2> QED
    BY <1>7, <2>1, <2>2, <2>3, <2>4 DEF OnceFor
<1>9. ASSUME NEW r \in Procs \ {p} PROVE OnceFor(r)'
  BY <1>3, <1>7, <1>9, BystanderOnce DEF OInv
<1> QED
  BY <1>7, <1>8, <1>9 DEF OInv
(* A call begins with nothing done, or goes back to idle.                  *)
LEMMA CallOnce ==
  ASSUME IInv, OInv, NEW p \in Procs, NEW c, c.done = << >>, call' = [call EXCEPT ![p] = c],
         UNCHANGED <<rbuf, rpos, served, count>>
  PROVE  OInv'
<1>1. call'[p] = c /\ \A r \in Procs \ {p} : call'[r] = call[r]
  BY DEF IInv, TypeInv
<1>2. OnceFor(p)'
  <2>1. NoRepeat(<< >>, 1, Len(<< >>)) /\ ToSet(<< >>) = {}
    BY DEF NoRepeat, ToSet
  <2> QED
    BY <1>1, <2>1 DEF OInv, OnceFor, Unserved, NoRepeat
<1>3. ASSUME NEW r \in Procs \ {p} PROVE OnceFor(r)'
  BY <1>1, <1>3, BystanderOnce DEF OInv
<1> QED
  BY <1>2, <1>3 DEF OInv

(* What a key generates next, or a new seed, no key has put behind it.     *)
LEMMA GeneratedFresh ==
  ASSUME NEW p \in Procs, NEW d \in Generators, ~Issued(d.seed) \/ d = drbg[p],
         NEW take \in Nat
  PROVE  \A i \in 1 .. Len(Generated(d, take)) : Generated(d, take)[i] \notin Past(p)
<1> SUFFICES ASSUME NEW i \in 1 .. Len(Generated(d, take)), Generated(d, take)[i] \in Past(p)
             PROVE  FALSE
  OBVIOUS
<1>1. Generated(d, take)[i] = <<d.seed, d.takes, i>>
  BY GeneratedNames
<1>2. Issued(d.seed) /\ (d.seed = drbg[p].seed => Len(d.takes) < Len(drbg[p].takes))
  BY <1>1 DEF Past, Behind
<1>3. Len(d.takes) \in Nat
  BY LenProperties DEF Generators
<1> QED
  BY <1>2, <1>3

(* Within a call no two bytes have one name.                               *)
LEMMA GeneratedOnce ==
  ASSUME NEW d \in Generators, NEW take \in Nat
  PROVE  NoRepeat(Generated(d, take), 1, Len(Generated(d, take)))
<1> SUFFICES ASSUME NEW i \in 1 .. Len(Generated(d, take)), NEW j \in 1 .. Len(Generated(d, take)),
                    Generated(d, take)[i] = Generated(d, take)[j]
             PROVE  i = j
  BY DEF NoRepeat
<1> QED
  BY GeneratedNames

(* A fill grows by bytes that are nowhere yet.                             *)
LEMMA FillOnce ==
  ASSUME IInv, KInv, OInv, NEW p \in Procs, CallOK(call[p]),
         NEW bytes \in Seq(Drawn), NoRepeat(bytes, 1, Len(bytes)),
         \A i \in 1 .. Len(bytes) : bytes[i] \notin Past(p),
         Fill(p, bytes), UNCHANGED <<rbuf, rpos, served, count>>
  PROVE  OInv'
<1> DEFINE done == call[p].done
           new == done \o bytes
<1>1. done \in Seq(Drawn) /\ OnceFor(p) /\ ErasedFor(p)
  BY DEF CallOK, Calls, OInv, KInv
<1>2. call'[p].done = new /\ \A r \in Procs \ {p} : call'[r] = call[r]
  BY DEF Fill, Filled, IInv, TypeInv, Calls
<1> HIDE DEF done
<1>3. /\ Len(done) \in Nat /\ Len(bytes) \in Nat
      /\ new \in Seq(Drawn) /\ Len(new) = Len(done) + Len(bytes)
      /\ \A i \in 1 .. Len(done) + Len(bytes) :
           new[i] = IF i <= Len(done) THEN done[i] ELSE bytes[i - Len(done)]
  BY <1>1, ConcatProperties, LenProperties
<1> HIDE DEF new
<1>4. \A i \in 1 .. Len(done) : done[i] \in ToSet(done) /\ done[i] \in Past(p)
  BY <1>1, LenProperties DEF ToSet, ErasedFor, done
<1>5. NoRepeat(new, 1, Len(new))
  <2> SUFFICES ASSUME NEW i \in 1 .. Len(new), NEW j \in 1 .. Len(new), new[i] = new[j] PROVE i = j
    BY DEF NoRepeat
  <2>1. ASSUME NEW k \in 1 .. Len(new), ~(k <= Len(done))
        PROVE  k - Len(done) \in 1 .. Len(bytes) /\ new[k] = bytes[k - Len(done)]
    BY <1>3, <2>1
  <2>2. ASSUME NEW k \in 1 .. Len(new), k <= Len(done)
        PROVE  k \in 1 .. Len(done) /\ new[k] = done[k]
    BY <1>3, <2>2
  <2>3. CASE i <= Len(done) /\ j <= Len(done)
    BY <1>1, <2>2, <2>3 DEF OnceFor, NoRepeat, done
  <2>4. CASE ~(i <= Len(done)) /\ ~(j <= Len(done))
    <3>1. i - Len(done) = j - Len(done)
      BY <2>1, <2>4 DEF NoRepeat
    <3> QED
      BY <1>3, <3>1
  <2>5. CASE i <= Len(done) /\ ~(j <= Len(done))
    BY <1>4, <2>1, <2>2, <2>5
  <2>6. CASE ~(i <= Len(done)) /\ j <= Len(done)
    BY <1>4, <2>1, <2>2, <2>6
  <2> QED
    BY <2>3, <2>4, <2>5, <2>6
<1>6. \A x \in ToSet(new) : x \in ToSet(done) \/ x \notin Past(p)
  <2> SUFFICES ASSUME NEW k \in 1 .. Len(new) PROVE new[k] \in ToSet(done) \/ new[k] \notin Past(p)
    BY <1>3, LenProperties DEF ToSet
  <2>1. CASE k <= Len(done)
    BY <1>3, <1>4, <2>1
  <2>2. CASE ~(k <= Len(done))
    BY <1>3, <2>2
  <2> QED
    BY <2>1, <2>2
<1>7. OnceFor(p)'
  <2>1. served[p] \cup Unserved(p) \subseteq Past(p) /\ Unserved(p)' = Unserved(p)
    BY <1>1 DEF ErasedFor, Unserved
  <2>2. (served[p] \cup Unserved(p)) \cap ToSet(new) = {}
    BY <1>1, <1>6, <2>1 DEF OnceFor, done
  <2> QED
    BY <1>1, <1>2, <1>5, <2>1, <2>2 DEF OnceFor, NoRepeat
<1>8. ASSUME NEW r \in Procs \ {p} PROVE OnceFor(r)'
  BY <1>2, <1>8, BystanderOnce DEF OInv
<1> QED
  BY <1>7, <1>8 DEF OInv

(* A turn of the fill loop draws what is nowhere yet.                      *)
LEMMA ChunkOnce ==
  ASSUME IInv, KInv, OInv, NEW p \in Procs, Chunk(p)
  PROVE  OInv'
<1> DEFINE due == NeedsSeed(drbg[p])
           d == IF due THEN Reseeded(NextSeed(p)) ELSE drbg[p]
           take == Take(call[p].left)
<1>1. /\ CallOK(call[p]) /\ drbg[p] \in Generators /\ take \in Nat
      /\ NextSeed(p) \in Seeds /\ ~Issued(NextSeed(p))
  BY NextSeedNew, CsprngAssumption DEF IInv, TypeInv, CallOK, Calls, Take
<1>2. d \in Generators /\ (~Issued(d.seed) \/ d = drbg[p])
  BY <1>1, ReseededReady DEF Reseeded
<1>3. Fill(p, Generated(d, take)) /\ UNCHANGED <<rbuf, rpos, served, count>>
  BY DEF Chunk, history
<1> HIDE DEF d, take
<1> QED
  BY <1>1, <1>2, <1>3, GeneratedFresh, GeneratedOnce, GeneratedDrawn, FillOnce

(* So does a fill by the OS.                                               *)
LEMMA OsFillOnce ==
  ASSUME IInv, KInv, OInv, NEW p \in Procs, OsFill(p)
  PROVE  OInv'
<1> DEFINE d == Reseeded(NextSeed(p))
           take == call[p].left
<1>1. CallOK(call[p]) /\ take \in Nat /\ NextSeed(p) \in Seeds /\ ~Issued(NextSeed(p))
  BY NextSeedNew DEF IInv, CallOK, Calls
<1>2. d \in Generators /\ ~Issued(d.seed)
  BY <1>1, ReseededReady DEF Reseeded
<1>3. Fill(p, Generated(d, take)) /\ UNCHANGED <<rbuf, rpos, served, count>>
  BY DEF OsFill, globals, history
<1> HIDE DEF d, take
<1> QED
  BY <1>1, <1>2, <1>3, GeneratedFresh, GeneratedOnce, GeneratedDrawn, FillOnce

(* Serving a completed fill hands out nothing twice.                       *)
LEMMA FinishOnce ==
  ASSUME IInv, KInv, OInv, NEW p \in Procs, Finish(p)
  PROVE  OInv'
<1> DEFINE done == call[p].done
           want == call[p].want
<1>1. /\ CallOK(call[p]) /\ done \in Seq(Drawn) /\ want \in Nat /\ Size \in Nat
      /\ call[p].left = 0 /\ OnceFor(p)
  BY CsprngAssumption DEF Finish, Filling, IInv, OInv, CallOK, Calls
<1>2. call'[p] = Idle /\ \A r \in Procs \ {p} : call'[r] = call[r]
  BY DEF Finish, IInv, TypeInv
<1>3. /\ NoRepeat(done, 1, Len(done))
      /\ served[p] \cap ToSet(done) = {} /\ Unserved(p) \cap ToSet(done) = {}
      /\ served[p] \cap Unserved(p) = {}
      /\ NoRepeat(rbuf[p], rpos[p] + 1, Size)
  BY <1>1 DEF OnceFor
<1> DEFINE Outcome ==
             /\ count' \in [Procs -> Nat]
             /\ NoRepeat(rbuf'[p], rpos'[p] + 1, Size)
             /\ served'[p] \cap Unserved(p)' = {}
             /\ IsFiniteSet(served'[p]) /\ Cardinality(served'[p]) = count'[p]
             /\ \A r \in Procs \ {p} :
                  /\ served'[r] = served[r] /\ count'[r] = count[r]
                  /\ rbuf'[r] = rbuf[r] /\ rpos'[r] = rpos[r]
<1>4. ASSUME call[p].to = "rbuf" PROVE Outcome
  <2> DEFINE out == SubSeq(done, 1, want)
  <2>1. want \in 1 .. Size /\ Len(done) = Size
    BY <1>1, <1>4, LenProperties DEF CallOK
  <2>2. /\ rbuf'[p] = done /\ rpos'[p] = want /\ Deliver(p, call[p].for, out)
        /\ \A r \in Procs \ {p} : rbuf'[r] = rbuf[r] /\ rpos'[r] = rpos[r]
    BY <1>4 DEF Finish, IInv, TypeInv
  <2>3. BufferOK(done, 0)
    BY <1>1, <2>1, DrawnBuffer
  <2> HIDE DEF done, want
  <2>4. NoRepeat(done, 0 + 1, Size) /\ out = SubSeq(done, 0 + 1, 0 + want) /\ 0 + want = want
          /\ 0 + want <= Size
    BY <1>1, <1>3, <2>1
  <2>5. /\ ToSet(out) \cup From(done, want) \subseteq From(done, 0)
        /\ ToSet(out) \cap From(done, want) = {}
        /\ NoRepeat(done, want + 1, Size)
        /\ IsFiniteSet(ToSet(out)) /\ Cardinality(ToSet(out)) = Len(out)
    <3> DEFINE start == 0
    <3>1. /\ BufferOK(done, start) /\ NoRepeat(done, start + 1, Size) /\ want \in Nat
          /\ start + want <= Size
      BY <1>1, <2>3, <2>4
    <3>2. start + want = want /\ out = SubSeq(done, start + 1, start + want)
      BY <2>4
    <3> HIDE DEF start, out
    <3>3. LET slice == SubSeq(done, start + 1, start + want)
          IN  /\ ToSet(slice) \cup From(done, start + want) \subseteq From(done, start)
              /\ ToSet(slice) \cap From(done, start + want) = {}
              /\ NoRepeat(done, start + want + 1, Size)
              /\ IsFiniteSet(ToSet(slice)) /\ Cardinality(ToSet(slice)) = Len(slice)
      BY <3>1, SliceOnce
    <3> QED
      BY <3>2, <3>3 DEF start
  <2>6. From(done, 0) \subseteq ToSet(done) /\ Unserved(p)' = From(done, want)
    BY <1>1, <2>1, <2>2, LenProperties DEF From, ToSet, Unserved
  <2> HIDE DEF out
  <2>7. served[p] \cap ToSet(out) = {}
    BY <1>3, <2>5, <2>6
  <2>8. /\ count' \in [Procs -> Nat] /\ served'[p] = served[p] \cup ToSet(out)
        /\ IsFiniteSet(served'[p]) /\ Cardinality(served'[p]) = count'[p]
        /\ \A r \in Procs \ {p} : served'[r] = served[r] /\ count'[r] = count[r]
    BY <2>2, <2>5, <2>7, DeliverOnce
  <2>9. served'[p] \cap Unserved(p)' = {}
    BY <1>3, <2>5, <2>6, <2>8
  <2> QED
    BY <2>2, <2>5, <2>8, <2>9
<1>5. ASSUME call[p].to # "rbuf" PROVE Outcome
  <2>1. Deliver(p, "caller", done) /\ UNCHANGED <<rbuf, rpos>>
    BY <1>5 DEF Finish
  <2>2. Unserved(p)' = Unserved(p)
    BY <2>1 DEF Unserved
  <2> HIDE DEF done
  <2>3. IsFiniteSet(ToSet(done)) /\ Cardinality(ToSet(done)) = Len(done)
    BY <1>1, <1>3, NoRepeatCounts
  <2>4. /\ count' \in [Procs -> Nat] /\ served'[p] = served[p] \cup ToSet(done)
        /\ IsFiniteSet(served'[p]) /\ Cardinality(served'[p]) = count'[p]
        /\ \A r \in Procs \ {p} : served'[r] = served[r] /\ count'[r] = count[r]
    BY <1>3, <2>1, <2>3, DeliverOnce
  <2> QED
    BY <1>3, <2>1, <2>2, <2>4
<1>6. Outcome
  BY <1>4, <1>5
<1>7. OnceFor(p)'
  <2>1. NoRepeat(Idle.done, 1, Len(Idle.done)) /\ ToSet(Idle.done) = {}
    BY DEF NoRepeat, ToSet, Idle
  <2> HIDE DEF done, want
  <2> QED
    BY <1>2, <1>6, <2>1 DEF OnceFor
<1>8. ASSUME NEW r \in Procs \ {p} PROVE OnceFor(r)'
  BY <1>2, <1>6, <1>8, BystanderOnce DEF OInv
<1> QED
  BY <1>6, <1>7, <1>8 DEF OInv
(* What a broken-off refill leaves beyond the position is there once: its  *)
(* bytes are new, the others are where they were.                          *)
LEMMA PrefixOnce ==
  ASSUME NEW p \in Procs, BufferOK(rbuf[p], rpos[p]), NoRepeat(rbuf[p], rpos[p] + 1, Size),
         Unserved(p) \subseteq Past(p), NEW k \in 0 .. Size,
         NEW new \in Seq(Drawn), Len(new) = k, NoRepeat(new, 1, k),
         \A i \in 1 .. k : new[i] \notin Past(p),
         NEW buf, buf = new \o SubSeq(rbuf[p], k + 1, Size)
  PROVE  /\ NoRepeat(buf, rpos[p] + 1, Size)
         /\ \A i \in rpos[p] + 1 .. Size : buf[i] \in Unserved(p) \/ buf[i] \notin Past(p)
<1>1. Size \in Nat /\ rpos[p] \in Nat
  BY CsprngAssumption DEF BufferOK
<1>2. \A i \in 1 .. Size : buf[i] = IF i <= k THEN new[i] ELSE rbuf[p][i]
  <2>1. \A i \in 1 .. Size : (new \o SubSeq(rbuf[p], k + 1, Size))[i]
                               = IF i <= k THEN new[i] ELSE rbuf[p][i]
    BY PrefixBytes
  <2> QED
    BY <2>1
<1>3. ASSUME NEW i \in rpos[p] + 1 .. Size, i <= k
      PROVE  i \in 1 .. k /\ buf[i] = new[i] /\ buf[i] \notin Past(p)
  BY <1>1, <1>2, <1>3
<1>4. ASSUME NEW i \in rpos[p] + 1 .. Size, ~(i <= k)
      PROVE  buf[i] = rbuf[p][i] /\ buf[i] \in Unserved(p) /\ buf[i] \in Past(p)
  BY <1>1, <1>2, <1>4 DEF Unserved
<1>5. NoRepeat(buf, rpos[p] + 1, Size)
  <2> SUFFICES ASSUME NEW i \in rpos[p] + 1 .. Size, NEW j \in rpos[p] + 1 .. Size, buf[i] = buf[j]
               PROVE  i = j
    BY DEF NoRepeat
  <2>1. CASE i <= k /\ j <= k
    BY <1>3, <2>1 DEF NoRepeat
  <2>2. CASE ~(i <= k) /\ ~(j <= k)
    BY <1>4, <2>2 DEF NoRepeat
  <2>3. CASE i <= k /\ ~(j <= k)
    BY <1>3, <1>4, <2>3
  <2>4. CASE ~(i <= k) /\ j <= k
    BY <1>3, <1>4, <2>4
  <2> QED
    BY <2>1, <2>2, <2>3, <2>4
<1> QED
  BY <1>3, <1>4, <1>5

(* A failed fill by the OS leaves no byte in two places.                   *)
LEMMA OsFillFailsOnce ==
  ASSUME IInv, KInv, OInv, NEW p \in Procs, OsFillFails(p)
  PROVE  OInv'
<1>1. /\ call'[p] = Idle /\ \A r \in Procs \ {p} : call'[r] = call[r]
      /\ UNCHANGED <<rpos, served, count>>
  BY DEF OsFillFails, history, IInv, TypeInv
<1>2. /\ BufferOK(rbuf[p], rpos[p]) /\ OnceFor(p) /\ served[p] \subseteq Past(p)
      /\ Unserved(p) \subseteq Past(p)
      /\ NoRepeat(rbuf[p], rpos[p] + 1, Size)
      /\ NextSeed(p) \in Seeds /\ ~Issued(NextSeed(p))
  BY NextSeedNew DEF IInv, KInv, ErasedFor, OInv, OnceFor
<1> DEFINE Outcome == /\ NoRepeat(rbuf'[p], rpos[p] + 1, Size)
                      /\ served[p] \cap Unserved(p)' = {}
                      /\ \A r \in Procs \ {p} : rbuf'[r] = rbuf[r]
<1>3. ASSUME call[p].to = "rbuf" PROVE Outcome
  <2> DEFINE d == Reseeded(NextSeed(p))
  <2>1. PICK k \in 0 .. Size :
          rbuf' = [rbuf EXCEPT ![p] = Generated(d, k) \o SubSeq(@, k + 1, Size)]
    BY <1>3 DEF OsFillFails
  <2> DEFINE new == Generated(d, k)
             buf == new \o SubSeq(rbuf[p], k + 1, Size)
  <2>2. d \in Generators /\ ~Issued(d.seed) /\ k \in Nat
    BY <1>2, ReseededReady, CsprngAssumption DEF Reseeded
  <2>3. rbuf'[p] = buf /\ \A r \in Procs \ {p} : rbuf'[r] = rbuf[r]
    BY <2>1 DEF IInv, TypeInv
  <2> HIDE DEF d
  <2>4. /\ new \in Seq(Drawn) /\ Len(new) = k /\ NoRepeat(new, 1, k)
        /\ \A i \in 1 .. k : new[i] \notin Past(p)
    BY <2>2, GeneratedDrawn, GeneratedOnce, GeneratedFresh
  <2> HIDE DEF new
  <2>5. /\ NoRepeat(buf, rpos[p] + 1, Size)
        /\ \A i \in rpos[p] + 1 .. Size : buf[i] \in Unserved(p) \/ buf[i] \notin Past(p)
    BY <1>2, <2>4, PrefixOnce
  <2> HIDE DEF buf
  <2>6. served[p] \cap Unserved(p)' = {}
    BY <1>1, <1>2, <2>3, <2>5 DEF Unserved, OnceFor
  <2> QED
    BY <2>3, <2>5, <2>6
<1>4. ASSUME call[p].to # "rbuf" PROVE Outcome
  BY <1>1, <1>2, <1>4 DEF OsFillFails, OnceFor, Unserved
<1>5. Outcome
  BY <1>3, <1>4
<1>6. OnceFor(p)'
  <2>1. NoRepeat(Idle.done, 1, Len(Idle.done)) /\ ToSet(Idle.done) = {}
    BY DEF NoRepeat, ToSet, Idle
  <2> QED
    BY <1>1, <1>2, <1>5, <2>1 DEF OnceFor
<1>7. ASSUME NEW r \in Procs \ {p} PROVE OnceFor(r)'
  BY <1>1, <1>5, <1>7, BystanderOnce DEF OInv
<1> QED
  BY <1>1, <1>6, <1>7 DEF OInv

(* A copy has served nothing, and starts with what its origin had left.    *)
LEMMA CopyOnce ==
  ASSUME IInv, KInv, OInv, NEW p \in Procs, NEW q \in Procs, Copies(p, q),
         Inherit(p, q) \/ AtForkChild(p, q)
  PROVE  OInv'
<1>1. q \in Procs \ alive /\ UNCHANGED <<call, served, count>>
  BY DEF Copies, history
<1>2. served[q] = {} /\ call[q] = Idle /\ OnceFor(p) /\ OnceFor(q)
  BY <1>1 DEF KInv, OInv
<1>3. OnceFor(q)'
  <2>1. NoRepeat(rbuf[q], rpos[q] + 1, Size)'
    <3>1. CASE Inherit(p, q)
      BY <1>2, <3>1 DEF Inherit, IInv, TypeInv, OnceFor, NoRepeat
    <3>2. CASE AtForkChild(p, q)
      <4>1. rpos'[q] = Size /\ Size \in Nat
        BY <3>2, CsprngAssumption DEF AtForkChild, IInv, TypeInv
      <4> QED
        BY <4>1 DEF NoRepeat
    <3> QED
      BY <3>1, <3>2
  <2> QED
    BY <1>1, <1>2, <2>1, IdleDone DEF OnceFor, NoRepeat
<1>4. ASSUME NEW r \in Procs \ {q} PROVE OnceFor(r)'
  <2>1. rbuf'[r] = rbuf[r] /\ rpos'[r] = rpos[r]
    BY <1>4 DEF Inherit, AtForkChild, IInv, TypeInv
  <2> QED
    BY <1>1, <1>4, <2>1, BystanderOnce DEF OInv
<1> QED
  BY <1>1, <1>3, <1>4 DEF OInv

(* Nothing is in two places at the start.                                  *)
LEMMA InitOInv == Init => OInv
<1> SUFFICES ASSUME Init PROVE OInv
  OBVIOUS
<1>1. count \in [Procs -> Nat]
  BY DEF Init
<1>2. ASSUME NEW p \in Procs PROVE OnceFor(p)
  <2>1. /\ served[p] = {} /\ count[p] = 0 /\ call[p] = Idle /\ rpos[p] = Size /\ Size \in Nat
    BY CsprngAssumption DEF Init
  <2>2. NoRepeat(rbuf[p], rpos[p] + 1, Size) /\ NoRepeat(call[p].done, 1, Len(call[p].done))
    BY <2>1 DEF NoRepeat, Idle
  <2> QED
    BY <2>1, <2>2, IdleDone, FS_EmptySet DEF OnceFor
<1> QED
  BY <1>1, <1>2 DEF OInv

(* Every step keeps every byte in one place.                               *)
LEMMA NextOInv == IInv /\ KInv /\ OInv /\ [Next]_vars => OInv'
<1> SUFFICES ASSUME IInv, KInv, OInv, [Next]_vars PROVE OInv'
  OBVIOUS
<1>1. ASSUME NEW p \in Procs, ServeBuffered(p) PROVE OInv'
  BY <1>1, ServeBufferedOnce
<1>2. ASSUME NEW p \in Procs, BeginRefill(p) \/ BeginDirect(p) \/ SeedFails(p) PROVE OInv'
  <2>1. \E c : c.done = << >> /\ call' = [call EXCEPT ![p] = c]
    <3>1. CASE BeginRefill(p)
      <4>1. PICK ask \in Asks(p) :
              call' = [call EXCEPT ![p] = [to |-> "rbuf", for |-> ask.for, want |-> ask.len,
                                           left |-> Size, done |-> << >>]]
        BY <3>1 DEF BeginRefill
      <4> QED
        BY <4>1
    <3>2. CASE BeginDirect(p)
      <4>1. PICK n \in Requests :
              call' = [call EXCEPT ![p] = [to |-> "caller", for |-> "caller", want |-> n,
                                           left |-> n, done |-> << >>]]
        BY <3>2 DEF BeginDirect
      <4> QED
        BY <4>1
    <3>3. CASE SeedFails(p)
      BY <3>3 DEF SeedFails, Idle
    <3> QED
      BY <1>2, <3>1, <3>2, <3>3
  <2>2. UNCHANGED <<rbuf, rpos, served, count>>
    BY <1>2 DEF BeginRefill, BeginDirect, SeedFails, globals, history
  <2> QED
    BY <2>1, <2>2, CallOnce
<1>3. ASSUME NEW p \in Procs, GenV4Fast(p) PROVE OInv'
  BY <1>3, BystanderOnce DEF GenV4Fast, OInv
<1>4. ASSUME NEW p \in Procs, Chunk(p) PROVE OInv'
  BY <1>4, ChunkOnce
<1>5. ASSUME NEW p \in Procs, OsFill(p) PROVE OInv'
  BY <1>5, OsFillOnce
<1>6. ASSUME NEW p \in Procs, Finish(p) PROVE OInv'
  BY <1>6, FinishOnce
<1>7. ASSUME NEW p \in Procs, OsFillFails(p) PROVE OInv'
  BY <1>7, OsFillFailsOnce
<1>8. ASSUME NEW p \in Procs, NEW q \in Procs, Fork(p, q) \/ CloneMachine(p, q) PROVE OInv'
  BY <1>8, CopyOnce DEF Fork, CloneMachine
<1>9. CASE UNCHANGED vars
  BY <1>9, BystanderOnce DEF vars, globals, history, OInv
<1> QED
  BY <1>1, <1>2, <1>3, <1>4, <1>5, <1>6, <1>7, <1>8, <1>9 DEF Next

(* Fast key erasure and the split of each byte's place, in every state.    *)
LEMMA PlacesHold == Spec => [](IInv /\ KInv /\ OInv)
BY InitIInv, NextIInv, InitKInv, NextKInv, InitOInv, NextOInv, PTL DEF Spec

(* No random byte is handed out twice in a process: not across a refill, a *)
(* direct fill, a reseed, a failed fill or the seeding of xoshiro.         *)
THEOREM NothingTwice == Spec => []ServedOnce
<1>1. OInv => ServedOnce
  BY DEF OInv, OnceFor, ServedOnce
<1> QED
  BY <1>1, PlacesHold, PTL

-----------------------------------------------------------------------------
(***************************************************************************)
(* No byte, state or mark in two processes.  With the handler registered   *)
(* and no snapshot restored, everything a process holds or handed out was  *)
(* drawn under an OS seed it read itself, and no draw it keeps is empty.   *)
(***************************************************************************)
Own(p) == {b \in Drawn : b[1][1] = p}
Draws(p) == Seq(Own(p)) \ {<< >>}

OwnedBy(p) ==
  /\ served[p] \cup Unserved(p) \subseteq Own(p)
  /\ call[p].done \in Seq(Own(p))
  /\ drbg[p].seeded => drbg[p].seed[1] = p
  /\ prng[p].seeded => prng[p].from \in Draws(p)
  /\ v7[p] \in Seq(Own(p))
  /\ call[p].for = "step" => v7[p] # << >>
  /\ fast[p] \subseteq Draws(p) \X Nat
  /\ bases[p] \subseteq Draws(p)

(* The states kept per process have no other entries.                      *)
PerProcess ==
  /\ v7 = [p \in Procs |-> v7[p]]
  /\ fast = [p \in Procs |-> fast[p]]
  /\ bases = [p \in Procs |-> bases[p]]

FInv == registered /\ ~cloned => PerProcess /\ \A p \in Procs : OwnedBy(p)

(* A process no step touches keeps what is its own.                        *)
LEMMA BystanderOwned ==
  ASSUME NEW r \in Procs, OwnedBy(r), rbuf'[r] = rbuf[r], rpos'[r] = rpos[r],
         drbg'[r] = drbg[r], prng'[r] = prng[r], v7'[r] = v7[r], call'[r] = call[r],
         served'[r] = served[r], fast'[r] = fast[r], bases'[r] = bases[r]
  PROVE  OwnedBy(r)'
BY DEF OwnedBy, Unserved

(* A delivery puts a process's own bytes where its own bytes belong.       *)
LEMMA DeliverOwned ==
  ASSUME IInv, PerProcess, NEW p \in Procs, OwnedBy(p), NEW for, NEW bytes \in Draws(p),
         for = "step" => v7[p] # << >>, Deliver(p, for, bytes)
  PROVE  /\ PerProcess'
         /\ served'[p] \subseteq Own(p)
         /\ prng'[p].seeded => prng'[p].from \in Draws(p)
         /\ v7'[p] \in Seq(Own(p))
         /\ fast'[p] \subseteq Draws(p) \X Nat
         /\ bases'[p] \subseteq Draws(p)
         /\ \A r \in Procs \ {p} :
              /\ served'[r] = served[r] /\ prng'[r] = prng[r] /\ v7'[r] = v7[r]
              /\ fast'[r] = fast[r] /\ bases'[r] = bases[r]
<1>1. /\ served' = [served EXCEPT ![p] = @ \cup ToSet(bytes)]
      /\ served[p] \subseteq Own(p) /\ bytes \in Seq(Own(p)) /\ bytes # << >>
  BY DEF Deliver, OwnedBy, Draws
<1>2. ToSet(bytes) \subseteq Own(p)
  BY <1>1, ElementOfSeq, LenProperties DEF ToSet
<1>3. served'[p] \subseteq Own(p) /\ \A r \in Procs \ {p} : served'[r] = served[r]
  BY <1>1, <1>2 DEF IInv, TypeInv
<1>4. /\ prng'[p].seeded => prng'[p].from \in Draws(p)
      /\ fast' = [q \in Procs |-> fast'[q]] /\ fast'[p] \subseteq Draws(p) \X Nat
      /\ \A r \in Procs \ {p} : prng'[r] = prng[r] /\ fast'[r] = fast[r]
  <2>1. CASE for = "prng"
    <3>1. /\ prng' = [prng EXCEPT ![p] = [seeded |-> TRUE, from |-> bytes, steps |-> 2]]
          /\ fast' = [fast EXCEPT ![p] = @ \cup {<<bytes, 0>>, <<bytes, 1>>}]
      BY <2>1 DEF Deliver, FastUuid
    <3>2. prng'[p] = [seeded |-> TRUE, from |-> bytes, steps |-> 2]
      BY <3>1 DEF IInv, TypeInv
    <3>3. fast'[p] = fast[p] \cup {<<bytes, 0>>, <<bytes, 1>>}
      BY <3>1 DEF PerProcess
    <3>4. {<<bytes, 0>>, <<bytes, 1>>} \subseteq Draws(p) \X Nat
      OBVIOUS
    <3>5. fast' = [q \in Procs |-> fast'[q]]
      BY <3>1 DEF PerProcess
    <3>6. \A r \in Procs \ {p} : prng'[r] = prng[r] /\ fast'[r] = fast[r]
      BY <3>1 DEF PerProcess, IInv, TypeInv
    <3> QED
      BY <3>2, <3>3, <3>4, <3>5, <3>6 DEF OwnedBy
  <2>2. CASE for # "prng"
    BY <2>2 DEF Deliver, PerProcess, OwnedBy
  <2> QED
    BY <2>1, <2>2
<1> DEFINE V7Owned ==
             /\ v7' = [q \in Procs |-> v7'[q]] /\ bases' = [q \in Procs |-> bases'[q]]
             /\ v7'[p] \in Seq(Own(p)) /\ bases'[p] \subseteq Draws(p)
             /\ \A r \in Procs \ {p} : v7'[r] = v7[r] /\ bases'[r] = bases[r]
<1>5. V7Owned
  <2>1. ASSUME NEW base \in Draws(p), V7Uuid(p, base)
        PROVE  V7Owned
    <3>1. /\ v7' = [v7 EXCEPT ![p] = base]
          /\ bases' = [bases EXCEPT ![p] = @ \cup {base}]
      BY <2>1 DEF V7Uuid
    <3> QED
      BY <2>1, <3>1 DEF PerProcess, OwnedBy, Draws
  <2>2. CASE for = "start"
    BY <2>1, <2>2 DEF Deliver
  <2>3. CASE for = "step"
    BY <2>1, <2>3 DEF Deliver, OwnedBy, Draws
  <2>4. CASE for \notin {"start", "step"}
    BY <2>4 DEF Deliver, PerProcess, OwnedBy
  <2> QED
    BY <2>2, <2>3, <2>4
<1>6. PerProcess'
  BY <1>4, <1>5 DEF PerProcess
<1> QED
  BY <1>3, <1>4, <1>5, <1>6

(* Some of the bytes of a buffer that are all a process's own.             *)
LEMMA SliceOwned ==
  ASSUME NEW p \in Procs, NEW buf, NEW pos, BufferOK(buf, pos),
         From(buf, pos) \subseteq Own(p), NEW n \in Nat \ {0}, pos + n <= Size
  PROVE  SubSeq(buf, pos + 1, pos + n) \in Draws(p)
<1>1. pos \in Nat /\ Size \in Nat
  BY CsprngAssumption DEF BufferOK
<1>2. \A i \in pos + 1 .. pos + n : buf[i] \in Own(p)
  BY <1>1 DEF From
<1>3. SubSeq(buf, pos + 1, pos + n) \in Seq(Own(p)) /\ Len(SubSeq(buf, pos + 1, pos + n)) # 0
  BY <1>1, <1>2, SubSeqProperties
<1>4. Len(<< >>) = 0
  OBVIOUS
<1> QED
  BY <1>3, <1>4, Zenon DEF Draws

(* Serving from the buffer hands out a process's own bytes.                *)
LEMMA ServeBufferedOwned ==
  ASSUME IInv, PerProcess, \A r \in Procs : OwnedBy(r), NEW p \in Procs, ServeBuffered(p)
  PROVE  PerProcess' /\ \A r \in Procs : OwnedBy(r)'
<1>1. PICK ask \in Asks(p) :
        /\ Fits(p, ask.len)
        /\ Deliver(p, ask.for, SubSeq(rbuf[p], rpos[p] + 1, rpos[p] + ask.len))
        /\ rpos' = [rpos EXCEPT ![p] = @ + ask.len]
  BY DEF ServeBuffered
<1> DEFINE n == ask.len
           out == SubSeq(rbuf[p], rpos[p] + 1, rpos[p] + n)
<1>2. n \in Nat \ {0} /\ rpos[p] + n <= Size /\ BufferOK(rbuf[p], rpos[p]) /\ OwnedBy(p)
  BY <1>1, AsksOK DEF Fits, IInv
<1>3. /\ UNCHANGED <<rbuf, drbg, call>>
      /\ rpos'[p] = rpos[p] + n /\ \A r \in Procs \ {p} : rpos'[r] = rpos[r]
  BY <1>1 DEF ServeBuffered, IInv, TypeInv
<1>4. ask.for = "step" => v7[p] # << >>
  BY DEF Asks, For
<1> HIDE DEF n
<1>5. From(rbuf[p], rpos[p]) \subseteq Own(p) /\ From(rbuf[p], rpos[p] + n) \subseteq Own(p)
  <2>1. Size \in Nat /\ rpos[p] \in Nat
    BY CsprngAssumption DEF IInv, TypeInv
  <2> QED
    BY <1>2, <2>1 DEF OwnedBy, Unserved, From
<1>6. out \in Draws(p)
  BY <1>2, <1>5, SliceOwned
<1>7. Deliver(p, ask.for, out)
  BY <1>1 DEF n
<1> HIDE DEF out
<1>8. /\ PerProcess'
      /\ served'[p] \subseteq Own(p)
      /\ prng'[p].seeded => prng'[p].from \in Draws(p)
      /\ v7'[p] \in Seq(Own(p))
      /\ fast'[p] \subseteq Draws(p) \X Nat
      /\ bases'[p] \subseteq Draws(p)
      /\ \A r \in Procs \ {p} :
           /\ served'[r] = served[r] /\ prng'[r] = prng[r] /\ v7'[r] = v7[r]
           /\ fast'[r] = fast[r] /\ bases'[r] = bases[r]
  BY <1>2, <1>4, <1>6, <1>7, DeliverOwned
<1>9. OwnedBy(p)'
  <2>1. Unserved(p)' \subseteq Own(p)
    BY <1>3, <1>5 DEF Unserved, From
  <2>2. call[p].for = "step" => v7'[p] # << >>
    BY <1>3 DEF ServeBuffered, Begin, Idle
  <2> QED
    BY <1>2, <1>3, <1>8, <2>1, <2>2 DEF OwnedBy
<1>10. ASSUME NEW r \in Procs \ {p} PROVE OwnedBy(r)'
  BY <1>3, <1>8, <1>10, BystanderOwned
<1> QED
  BY <1>8, <1>9, <1>10
(* A call begins with nothing done, or goes back to idle.                  *)
LEMMA CallOwned ==
  ASSUME IInv, PerProcess, \A r \in Procs : OwnedBy(r), NEW p \in Procs, NEW c,
         c.done = << >>, c.for = "step" => v7[p] # << >>, call' = [call EXCEPT ![p] = c],
         UNCHANGED <<globals, history>>
  PROVE  PerProcess' /\ \A r \in Procs : OwnedBy(r)'
<1> USE DEF globals, history
<1>1. call'[p] = c /\ \A r \in Procs \ {p} : call'[r] = call[r]
  BY DEF IInv, TypeInv
<1>2. OwnedBy(p)'
  <2>1. call'[p].done \in Seq(Own(p)) /\ (call'[p].for = "step" => v7'[p] # << >>)
    BY <1>1, EmptySeq
  <2>2. Unserved(p)' = Unserved(p) /\ OwnedBy(p)
    BY DEF Unserved
  <2> QED
    BY <2>1, <2>2 DEF OwnedBy
<1>3. ASSUME NEW r \in Procs \ {p} PROVE OwnedBy(r)'
  BY <1>1, <1>3, BystanderOwned
<1> QED
  BY <1>2, <1>3 DEF PerProcess

(* What is generated under a process's own seed is its own.                *)
LEMMA GeneratedOwn ==
  ASSUME NEW p, NEW d \in Generators, d.seed[1] = p, NEW take \in Nat
  PROVE  /\ Generated(d, take) \in Seq(Own(p))
         /\ \A i \in 1 .. Len(Generated(d, take)) : Generated(d, take)[i] \in Own(p)
<1>1. \A i \in 1 .. take : <<d.seed, d.takes, i>> \in Own(p)
  BY DEF Own, Generators, Drawn
<1>2. Generated(d, take) \in Seq(Own(p))
  BY <1>1 DEF Generated
<1> QED
  BY <1>2, ElementOfSeq

(* A fill grows by a process's own bytes.                                  *)
LEMMA FillOwned ==
  ASSUME IInv, PerProcess, \A r \in Procs : OwnedBy(r), NEW p \in Procs,
         NEW bytes \in Seq(Own(p)), Fill(p, bytes),
         drbg'[p].seeded => drbg'[p].seed[1] = p,
         \A r \in Procs \ {p} : drbg'[r] = drbg[r],
         UNCHANGED <<rbuf, rpos, prng, v7, history>>
  PROVE  PerProcess' /\ \A r \in Procs : OwnedBy(r)'
<1> USE DEF history
<1>1. /\ call'[p].done = call[p].done \o bytes /\ call'[p].for = call[p].for
      /\ \A r \in Procs \ {p} : call'[r] = call[r]
  BY DEF Fill, Filled, IInv, TypeInv, Calls
<1>2. call[p].done \o bytes \in Seq(Own(p))
  BY ConcatProperties DEF OwnedBy
<1>3. OwnedBy(p)'
  BY <1>1, <1>2 DEF OwnedBy, Unserved
<1>4. ASSUME NEW r \in Procs \ {p} PROVE OwnedBy(r)'
  BY <1>1, <1>4, BystanderOwned
<1> QED
  BY <1>3, <1>4 DEF PerProcess

(* A turn of the fill loop draws under the process's own seed.             *)
LEMMA ChunkOwned ==
  ASSUME IInv, PerProcess, \A r \in Procs : OwnedBy(r), NEW p \in Procs, Chunk(p)
  PROVE  PerProcess' /\ \A r \in Procs : OwnedBy(r)'
<1> DEFINE due == NeedsSeed(drbg[p])
           d == IF due THEN Reseeded(NextSeed(p)) ELSE drbg[p]
           take == Take(call[p].left)
<1>1. drbg[p] \in Generators /\ take \in Nat /\ NextSeed(p) \in Seeds
  BY NextSeedNew, CsprngAssumption DEF IInv, TypeInv, Calls, Take
<1>2. d \in Generators /\ d.seed[1] = p
  BY <1>1, ReseededReady DEF Reseeded, NextSeed, NeedsSeed, OwnedBy
<1>3. /\ drbg' = [drbg EXCEPT ![p] = NextKey(d, take)] /\ Fill(p, Generated(d, take))
      /\ UNCHANGED <<rbuf, rpos, prng, v7, history>>
  BY DEF Chunk
<1> HIDE DEF d, take
<1>4. drbg'[p].seed[1] = p /\ \A r \in Procs \ {p} : drbg'[r] = drbg[r]
  BY <1>2, <1>3 DEF NextKey, IInv, TypeInv, Generators
<1> QED
  BY <1>1, <1>2, <1>3, <1>4, GeneratedOwn, FillOwned

(* So does a fill by the OS.                                               *)
LEMMA OsFillOwned ==
  ASSUME IInv, PerProcess, \A r \in Procs : OwnedBy(r), NEW p \in Procs, OsFill(p)
  PROVE  PerProcess' /\ \A r \in Procs : OwnedBy(r)'
<1> DEFINE d == Reseeded(NextSeed(p))
           take == call[p].left
<1>1. d \in Generators /\ d.seed[1] = p /\ take \in Nat
  BY NextSeedNew, ReseededReady DEF Reseeded, NextSeed, IInv, TypeInv, Calls
<1>2. Fill(p, Generated(d, take)) /\ UNCHANGED <<rbuf, rpos, drbg, prng, v7, history>>
  BY DEF OsFill, globals
<1> HIDE DEF d, take
<1> QED
  BY <1>1, <1>2, GeneratedOwn, FillOwned DEF OwnedBy

(* Serving a completed fill hands out a process's own bytes.               *)
LEMMA FinishOwned ==
  ASSUME IInv, PerProcess, \A r \in Procs : OwnedBy(r), NEW p \in Procs, Finish(p)
  PROVE  PerProcess' /\ \A r \in Procs : OwnedBy(r)'
<1> DEFINE done == call[p].done
           want == call[p].want
           for == call[p].for
<1>1. /\ CallOK(call[p]) /\ done \in Seq(Own(p)) /\ want \in Nat /\ Size \in Nat
      /\ call[p].left = 0 /\ OwnedBy(p) /\ done \in Seq(Drawn)
  BY CsprngAssumption DEF Finish, Filling, IInv, CallOK, Calls, OwnedBy
<1>2. /\ call'[p] = Idle /\ \A r \in Procs \ {p} : call'[r] = call[r]
      /\ UNCHANGED drbg
  BY DEF Finish, IInv, TypeInv
<1> DEFINE Outcome ==
             /\ Unserved(p)' \subseteq Own(p)
             /\ PerProcess'
             /\ served'[p] \subseteq Own(p)
             /\ prng'[p].seeded => prng'[p].from \in Draws(p)
             /\ v7'[p] \in Seq(Own(p))
             /\ fast'[p] \subseteq Draws(p) \X Nat
             /\ bases'[p] \subseteq Draws(p)
             /\ \A r \in Procs \ {p} :
                  /\ served'[r] = served[r] /\ prng'[r] = prng[r] /\ v7'[r] = v7[r]
                  /\ fast'[r] = fast[r] /\ bases'[r] = bases[r]
                  /\ rbuf'[r] = rbuf[r] /\ rpos'[r] = rpos[r]
<1>3. ASSUME call[p].to = "rbuf" PROVE Outcome
  <2> DEFINE out == SubSeq(done, 1, want)
  <2>1. want \in 1 .. Size /\ Len(done) = Size
    BY <1>1, <1>3, LenProperties DEF CallOK
  <2>2. /\ rbuf'[p] = done /\ rpos'[p] = want /\ Deliver(p, for, out)
        /\ \A r \in Procs \ {p} : rbuf'[r] = rbuf[r] /\ rpos'[r] = rpos[r]
    BY <1>3 DEF Finish, IInv, TypeInv
  <2>3. for = "step" => v7[p] # << >>
    BY <1>1 DEF OwnedBy
  <2> HIDE DEF done, want, for
  <2>4. \A i \in 1 .. Size : done[i] \in Own(p)
    BY <1>1, <2>1, ElementOfSeq
  <2>5. out \in Draws(p)
    <3>1. \A i \in 1 .. want : done[i] \in Own(p)
      BY <1>1, <2>1, <2>4
    <3>2. out \in Seq(Own(p)) /\ Len(out) = want
      BY <1>1, <2>1, <3>1, SubSeqProperties
    <3> HIDE DEF out
    <3>3. Len(<< >>) = 0 /\ want # 0
      BY <2>1
    <3> QED
      BY <3>2, <3>3, Zenon DEF Draws
  <2>6. Unserved(p)' \subseteq Own(p)
    BY <1>1, <2>1, <2>2, <2>4 DEF Unserved
  <2> HIDE DEF out
  <2> QED
    BY <1>1, <2>2, <2>3, <2>5, <2>6, DeliverOwned
<1>4. ASSUME call[p].to # "rbuf" PROVE Outcome
  <2>1. Deliver(p, "caller", done) /\ UNCHANGED <<rbuf, rpos>>
    BY <1>4 DEF Finish
  <2>2. Unserved(p)' \subseteq Own(p)
    BY <1>1, <2>1 DEF Unserved, OwnedBy
  <2> HIDE DEF done
  <2>3. CASE done = << >>
    <3>1. ToSet(done) = {}
      BY <2>3 DEF ToSet
    <3>2. /\ served' = [served EXCEPT ![p] = @ \cup ToSet(done)]
          /\ UNCHANGED <<prng, fast, v7, bases>>
      BY <2>1 DEF Deliver
    <3>3. served'[p] = served[p] /\ \A r \in Procs \ {p} : served'[r] = served[r]
      BY <3>1, <3>2 DEF IInv, TypeInv
    <3> QED
      BY <1>1, <2>1, <2>2, <3>2, <3>3 DEF PerProcess, OwnedBy
  <2>4. CASE done # << >>
    <3>1. done \in Draws(p)
      BY <1>1, <2>4 DEF Draws
    <3> QED
      BY <1>1, <2>1, <2>2, <3>1, DeliverOwned
  <2> QED
    BY <2>3, <2>4
<1>5. Outcome
  BY <1>3, <1>4
<1>6. OwnedBy(p)'
  BY <1>1, <1>2, <1>5, EmptySeq DEF OwnedBy, Idle
<1>7. ASSUME NEW r \in Procs \ {p} PROVE OwnedBy(r)'
  BY <1>2, <1>5, <1>7, BystanderOwned
<1> QED
  BY <1>5, <1>6, <1>7

(* A failed fill by the OS leaves a process's own bytes in its buffer.     *)
LEMMA OsFillFailsOwned ==
  ASSUME IInv, PerProcess, \A r \in Procs : OwnedBy(r), NEW p \in Procs, OsFillFails(p)
  PROVE  PerProcess' /\ \A r \in Procs : OwnedBy(r)'
<1> USE DEF history
<1>1. /\ call'[p] = Idle /\ \A r \in Procs \ {p} : call'[r] = call[r]
      /\ UNCHANGED <<rpos, drbg, prng, v7, history>>
  BY DEF OsFillFails, IInv, TypeInv
<1>2. /\ BufferOK(rbuf[p], rpos[p]) /\ OwnedBy(p) /\ NextSeed(p) \in Seeds
      /\ Unserved(p) \subseteq Own(p)
  BY NextSeedNew DEF IInv, OwnedBy
<1> DEFINE Outcome == /\ Unserved(p)' \subseteq Own(p)
                      /\ \A r \in Procs \ {p} : rbuf'[r] = rbuf[r]
<1>3. ASSUME call[p].to = "rbuf" PROVE Outcome
  <2> DEFINE d == Reseeded(NextSeed(p))
  <2>1. PICK k \in 0 .. Size :
          rbuf' = [rbuf EXCEPT ![p] = Generated(d, k) \o SubSeq(@, k + 1, Size)]
    BY <1>3 DEF OsFillFails
  <2> DEFINE new == Generated(d, k)
             buf == new \o SubSeq(rbuf[p], k + 1, Size)
  <2>2. d \in Generators /\ d.seed[1] = p /\ k \in Nat /\ Size \in Nat /\ rpos[p] \in Nat
    BY <1>2, ReseededReady, CsprngAssumption DEF Reseeded, NextSeed, BufferOK
  <2>3. rbuf'[p] = buf /\ \A r \in Procs \ {p} : rbuf'[r] = rbuf[r]
    BY <2>1 DEF IInv, TypeInv
  <2> HIDE DEF d
  <2>4. new \in Seq(Drawn) /\ Len(new) = k /\ \A i \in 1 .. k : new[i] \in Own(p)
    BY <2>2, GeneratedDrawn, GeneratedOwn
  <2> HIDE DEF new
  <2>5. \A i \in 1 .. Size : buf[i] = IF i <= k THEN new[i] ELSE rbuf[p][i]
    BY <1>2, <2>4, PrefixBytes
  <2> HIDE DEF buf
  <2>6. ASSUME NEW i \in rpos[p] + 1 .. Size PROVE buf[i] \in Own(p)
    <3>1. i \in 1 .. Size
      BY <2>2
    <3>2. CASE i <= k
      BY <2>4, <2>5, <3>1, <3>2
    <3>3. CASE ~(i <= k)
      BY <1>2, <2>5, <3>1, <3>3 DEF Unserved
    <3> QED
      BY <3>2, <3>3
  <2> QED
    BY <1>1, <2>3, <2>6 DEF Unserved
<1>4. ASSUME call[p].to # "rbuf" PROVE Outcome
  BY <1>1, <1>2, <1>4 DEF OsFillFails, Unserved
<1>5. Outcome
  BY <1>3, <1>4
<1>6. OwnedBy(p)'
  BY <1>1, <1>2, <1>5, EmptySeq DEF OwnedBy, Idle
<1>7. ASSUME NEW r \in Procs \ {p} PROVE OwnedBy(r)'
  BY <1>1, <1>5, <1>7, BystanderOwned
<1> QED
  BY <1>1, <1>6, <1>7 DEF PerProcess

(* Drawing from xoshiro hands out states of the process's own.             *)
LEMMA GenV4FastOwned ==
  ASSUME IInv, PerProcess, \A r \in Procs : OwnedBy(r), NEW p \in Procs, GenV4Fast(p)
  PROVE  PerProcess' /\ \A r \in Procs : OwnedBy(r)'
<1> DEFINE from == prng[p].from
           steps == prng[p].steps
<1>1. /\ prng' = [prng EXCEPT ![p] = [seeded |-> TRUE, from |-> from, steps |-> steps + 2]]
      /\ fast' = [fast EXCEPT ![p] = @ \cup {<<from, steps>>, <<from, steps + 1>>}]
      /\ UNCHANGED <<rbuf, rpos, drbg, v7, call, served, bases>>
  BY DEF GenV4Fast, FastUuid
<1>2. from \in Draws(p) /\ steps \in Nat
  BY DEF GenV4Fast, OwnedBy, IInv, TypeInv, Prngs
<1> HIDE DEF from, steps
<1>3. /\ prng'[p] = [seeded |-> TRUE, from |-> from, steps |-> steps + 2]
      /\ fast'[p] = fast[p] \cup {<<from, steps>>, <<from, steps + 1>>}
      /\ \A r \in Procs \ {p} : prng'[r] = prng[r] /\ fast'[r] = fast[r]
  BY <1>1 DEF PerProcess, IInv, TypeInv
<1>4. OwnedBy(p)'
  <2>1. {<<from, steps>>, <<from, steps + 1>>} \subseteq Draws(p) \X Nat
    BY <1>2
  <2> QED
    BY <1>1, <1>2, <1>3, <2>1 DEF OwnedBy, Unserved
<1>5. ASSUME NEW r \in Procs \ {p} PROVE OwnedBy(r)'
  BY <1>1, <1>3, <1>5, BystanderOwned
<1> QED
  BY <1>1, <1>4, <1>5 DEF PerProcess

(* A child the handler wiped holds nothing of its parent's.                *)
LEMMA WipedOwned ==
  ASSUME IInv, KInv, PerProcess, \A r \in Procs : OwnedBy(r), NEW p \in Procs, NEW q \in Procs,
         Copies(p, q), AtForkChild(p, q)
  PROVE  PerProcess' /\ \A r \in Procs : OwnedBy(r)'
<1> USE DEF history
<1>1. q \in Procs \ alive /\ UNCHANGED <<call, history>>
  BY DEF Copies
<1>2. call[q] = Idle /\ OwnedBy(q)
  BY <1>1 DEF KInv
<1>3. /\ rpos'[q] = Size /\ drbg'[q] = Unseeded /\ prng'[q] = NoPrng /\ v7'[q] = << >>
      /\ Size \in Nat
      /\ \A r \in Procs \ {q} : /\ rbuf'[r] = rbuf[r] /\ rpos'[r] = rpos[r]
                                /\ drbg'[r] = drbg[r] /\ prng'[r] = prng[r] /\ v7'[r] = v7[r]
  BY CsprngAssumption DEF AtForkChild, PerProcess, IInv, TypeInv
<1>4. OwnedBy(q)'
  BY <1>1, <1>2, <1>3, EmptySeq DEF OwnedBy, Unserved, Unseeded, NoPrng, Idle
<1>5. ASSUME NEW r \in Procs \ {q} PROVE OwnedBy(r)'
  BY <1>1, <1>3, <1>5, BystanderOwned
<1>6. v7' = [r \in Procs |-> v7'[r]]
  BY DEF AtForkChild, PerProcess
<1> QED
  BY <1>1, <1>4, <1>5, <1>6 DEF PerProcess

(* Everything is a process's own at the start, where there is nothing.     *)
LEMMA InitFInv == Init => FInv
<1> SUFFICES ASSUME Init PROVE PerProcess /\ \A p \in Procs : OwnedBy(p)
  BY DEF FInv
<1>1. PerProcess
  BY DEF Init, PerProcess
<1>2. ASSUME NEW p \in Procs PROVE OwnedBy(p)
  <2>1. /\ served[p] = {} /\ call[p] = Idle /\ rpos[p] = Size /\ Size \in Nat
        /\ drbg[p] = Unseeded /\ prng[p] = NoPrng /\ v7[p] = << >>
        /\ fast[p] = {} /\ bases[p] = {}
    BY CsprngAssumption DEF Init
  <2> QED
    BY <2>1, EmptySeq DEF OwnedBy, Unserved, Unseeded, NoPrng, Idle
<1> QED
  BY <1>1, <1>2

(* Every step leaves every process with its own.                           *)
LEMMA NextFInv == IInv /\ KInv /\ FInv /\ [Next]_vars => FInv'
<1> SUFFICES ASSUME IInv, KInv, FInv, [Next]_vars, registered', ~cloned'
             PROVE  PerProcess' /\ \A r \in Procs : OwnedBy(r)'
  BY DEF FInv
<1>1. registered' = registered /\ ~cloned /\ \A p, q \in Procs : ~CloneMachine(p, q)
  <2> USE DEF platform
  <2>1. ASSUME NEW p \in Procs,
               ServeBuffered(p) \/ BeginRefill(p) \/ BeginDirect(p) \/ GenV4Fast(p)
        PROVE  UNCHANGED <<registered, cloned>>
    BY <2>1 DEF ServeBuffered, BeginRefill, BeginDirect, GenV4Fast
  <2>2. ASSUME NEW p \in Procs,
               Chunk(p) \/ OsFill(p) \/ Finish(p) \/ SeedFails(p) \/ OsFillFails(p)
        PROVE  UNCHANGED <<registered, cloned>>
    BY <2>2 DEF Chunk, OsFill, Finish, SeedFails, OsFillFails
  <2>3. ASSUME NEW p \in Procs, NEW q \in Procs, CloneMachine(p, q) PROVE FALSE
    BY <2>3 DEF CloneMachine
  <2>4. ASSUME NEW p \in Procs, NEW q \in Procs, Fork(p, q)
        PROVE  UNCHANGED <<registered, cloned>>
    BY <2>4 DEF Fork, Copies
  <2>5. CASE UNCHANGED vars
    BY <2>3, <2>5 DEF vars
  <2> QED
    BY <2>1, <2>2, <2>3, <2>4, <2>5 DEF Next
<1>2. PerProcess /\ \A r \in Procs : OwnedBy(r)
  BY <1>1 DEF FInv
<1>3. ASSUME NEW p \in Procs, ServeBuffered(p) PROVE PerProcess' /\ \A r \in Procs : OwnedBy(r)'
  BY <1>2, <1>3, ServeBufferedOwned
<1>4. ASSUME NEW p \in Procs, BeginRefill(p) \/ BeginDirect(p) \/ SeedFails(p)
      PROVE  PerProcess' /\ \A r \in Procs : OwnedBy(r)'
  <2>1. \E c : /\ c.done = << >> /\ (c.for = "step" => v7[p] # << >>)
               /\ call' = [call EXCEPT ![p] = c]
    <3>1. CASE BeginRefill(p)
      <4>1. PICK ask \in Asks(p) :
              call' = [call EXCEPT ![p] = [to |-> "rbuf", for |-> ask.for, want |-> ask.len,
                                           left |-> Size, done |-> << >>]]
        BY <3>1 DEF BeginRefill
      <4>2. ask.for = "step" => v7[p] # << >>
        BY DEF Asks, For
      <4> QED
        BY <4>1, <4>2
    <3>2. CASE BeginDirect(p)
      <4>1. PICK n \in Requests :
              call' = [call EXCEPT ![p] = [to |-> "caller", for |-> "caller", want |-> n,
                                           left |-> n, done |-> << >>]]
        BY <3>2 DEF BeginDirect
      <4> QED
        BY <4>1
    <3>3. CASE SeedFails(p)
      BY <3>3 DEF SeedFails, Idle
    <3> QED
      BY <1>4, <3>1, <3>2, <3>3
  <2>2. UNCHANGED <<globals, history>>
    BY <1>4 DEF BeginRefill, BeginDirect, SeedFails
  <2> QED
    BY <1>2, <2>1, <2>2, CallOwned
<1>5. ASSUME NEW p \in Procs, GenV4Fast(p) PROVE PerProcess' /\ \A r \in Procs : OwnedBy(r)'
  BY <1>2, <1>5, GenV4FastOwned
<1>6. ASSUME NEW p \in Procs, Chunk(p) PROVE PerProcess' /\ \A r \in Procs : OwnedBy(r)'
  BY <1>2, <1>6, ChunkOwned
<1>7. ASSUME NEW p \in Procs, OsFill(p) PROVE PerProcess' /\ \A r \in Procs : OwnedBy(r)'
  BY <1>2, <1>7, OsFillOwned
<1>8. ASSUME NEW p \in Procs, Finish(p) PROVE PerProcess' /\ \A r \in Procs : OwnedBy(r)'
  BY <1>2, <1>8, FinishOwned
<1>9. ASSUME NEW p \in Procs, OsFillFails(p) PROVE PerProcess' /\ \A r \in Procs : OwnedBy(r)'
  BY <1>2, <1>9, OsFillFailsOwned
<1>10. ASSUME NEW p \in Procs, NEW q \in Procs, Fork(p, q)
       PROVE  PerProcess' /\ \A r \in Procs : OwnedBy(r)'
  BY <1>1, <1>2, <1>10, WipedOwned DEF Fork
<1>11. CASE UNCHANGED vars
  BY <1>2, <1>11, BystanderOwned DEF vars, globals, history, PerProcess
<1> QED
  BY <1>1, <1>3, <1>4, <1>5, <1>6, <1>7, <1>8, <1>9, <1>10, <1>11 DEF Next

(* What two processes own is apart, and so is every draw of theirs.        *)
LEMMA OwnApart ==
  ASSUME NEW p, NEW q, p # q
  PROVE  Own(p) \cap Own(q) = {} /\ Draws(p) \cap Draws(q) = {}
<1>1. Own(p) \cap Own(q) = {}
  BY DEF Own
<1>2. ASSUME NEW s \in Draws(p), s \in Draws(q) PROVE FALSE
  <2>1. s \in Seq(Own(p)) /\ s \in Seq(Own(q)) /\ Len(s) # 0
    BY <1>2, EmptySeq DEF Draws
  <2>2. 1 \in 1 .. Len(s)
    BY <2>1, LenProperties
  <2> QED
    BY <1>1, <2>1, <2>2, ElementOfSeq
<1> QED
  BY <1>1, <1>2

(* With the fork handler registered, parent and child hand out no byte, no *)
(* xoshiro state and no UUIDv7 mark in common, however the fork falls into *)
(* the buffer, the key and a run of ties.                                  *)
THEOREM ForkedApart == Spec => []ForkSeparates
<1>1. FInv => ForkSeparates
  <2> SUFFICES ASSUME FInv, registered, ~cloned, NEW p \in Procs, NEW q \in Procs, p # q
               PROVE  /\ served[p] \cap served[q] = {}
                      /\ fast[p] \cap fast[q] = {}
                      /\ bases[p] \cap bases[q] = {}
    BY DEF ForkSeparates
  <2>1. OwnedBy(p) /\ OwnedBy(q)
    BY DEF FInv
  <2> QED
    BY <2>1, OwnApart DEF OwnedBy
<1> QED
  BY <1>1, PlacesHold, InitFInv, NextFInv, PTL DEF Spec

-----------------------------------------------------------------------------
(***************************************************************************)
(* What two copies share.  Two processes part when one is copied from the  *)
(* other or from an ancestor of it.  From then on what both hold is in the *)
(* buffer they parted with, or under the seed they parted with: a later    *)
(* seed is read by one of them alone.  Under one seed a process never      *)
(* holds more than the generator has counted.                              *)
(***************************************************************************)
Held(p) == served[p] \cup Unserved(p) \cup ToSet(call[p].done)
Under(p, seed) == {b \in Held(p) : b[1] = seed}

SharesCounted(p) ==
  \A seed \in Seeds :
    /\ IsFiniteSet(Under(p, seed)) /\ Cardinality(Under(p, seed)) < Reseed + Size
    /\ drbg[p].seeded /\ drbg[p].seed = seed => Cardinality(Under(p, seed)) <= drbg[p].since

(* The key of p is of the common seed, or q holds nothing of its seed.     *)
KeyApart(p, q, seed) ==
  drbg[p].seeded /\ drbg[p].seed # seed => \A b \in Held(q) : b[1] # drbg[p].seed

Parted(p, q, seed, old) ==
  /\ seed \in Seeds /\ IsFiniteSet(old) /\ Cardinality(old) < Size
  /\ \A b \in Held(p) \cap Held(q) : b \in old \/ (aesActive /\ b[1] = seed)
  /\ KeyApart(p, q, seed) /\ KeyApart(q, p, seed)
  /\ drbg[p].seeded /\ drbg[q].seeded /\ drbg[p].seed = drbg[q].seed => drbg[p].seed = seed

CInv ==
  /\ \A p \in Procs : rpos[p] # 0
  /\ aesActive => \A p \in Procs : SharesCounted(p)
  /\ ~aesActive => \A p \in Procs : ~drbg[p].seeded
  /\ \A p, q \in Procs : p # q => \E seed, old : Parted(p, q, seed, old)

(* Who is named first does not matter.                                     *)
LEMMA PartedEitherWay ==
  ASSUME NEW p, NEW q, NEW seed, NEW old, Parted(p, q, seed, old)
  PROVE  Parted(q, p, seed, old)
BY DEF Parted

(* A buffer that has served something holds less than its size.            *)
LEMMA UnservedFew ==
  ASSUME IInv, NEW p \in Procs, rpos[p] # 0
  PROVE  IsFiniteSet(Unserved(p)) /\ Cardinality(Unserved(p)) < Size
<1>1. rpos[p] \in 1 .. Size /\ Size \in Nat
  BY CsprngAssumption DEF IInv, BufferOK
<1> DEFINE f == [i \in rpos[p] + 1 .. Size |-> rbuf[p][i]]
<1>2. f \in Surjection(rpos[p] + 1 .. Size, Unserved(p))
  BY DEF Surjection, Unserved
<1>3. IsFiniteSet(rpos[p] + 1 .. Size) /\ Cardinality(rpos[p] + 1 .. Size) < Size
  <2> DEFINE few == rpos[p] + 1 .. Size
  <2>1. IsFiniteSet(few) /\ (Cardinality(few) = IF rpos[p] + 1 > Size THEN 0
                                                ELSE Size - (rpos[p] + 1) + 1)
    <3>1. rpos[p] + 1 \in Int /\ Size \in Int
      BY <1>1
    <3> QED
      BY <3>1, FS_Interval, Zenon
  <2> HIDE DEF few
  <2>2. Cardinality(few) < Size
    BY <1>1, <2>1
  <2> QED
    BY <2>1, <2>2 DEF few
<1>4. IsFiniteSet(Unserved(p)) /\ Cardinality(Unserved(p)) <= Cardinality(rpos[p] + 1 .. Size)
  BY <1>2, <1>3, FS_Surjection
<1>5. Cardinality(Unserved(p)) \in Nat /\ Cardinality(rpos[p] + 1 .. Size) \in Nat
  BY <1>3, <1>4, FS_CardinalityType
<1> QED
  BY <1>1, <1>3, <1>4, <1>5

(* A process that holds what it held under a seed holds as much.           *)
LEMMA SharesKept ==
  ASSUME IInv, NEW r \in Procs, SharesCounted(r), Held(r)' \subseteq Held(r), drbg'[r] = drbg[r]
  PROVE  SharesCounted(r)'
<1> SUFFICES ASSUME NEW seed \in Seeds
             PROVE  /\ IsFiniteSet(Under(r, seed)') /\ Cardinality(Under(r, seed)') < Reseed + Size
                    /\ drbg[r].seeded /\ drbg[r].seed = seed =>
                         Cardinality(Under(r, seed)') <= drbg[r].since
  BY DEF SharesCounted
<1> DEFINE now == Under(r, seed)
           then == Under(r, seed)'
<1>1. /\ then \in SUBSET now /\ IsFiniteSet(now) /\ Cardinality(now) < Reseed + Size
      /\ drbg[r].seeded /\ drbg[r].seed = seed => Cardinality(now) <= drbg[r].since
  BY DEF Under, SharesCounted
<1> HIDE DEF now, then
<1>2. IsFiniteSet(then) /\ Cardinality(then) <= Cardinality(now)
        /\ Cardinality(then) \in Nat /\ Cardinality(now) \in Nat
  BY <1>1, FS_Subset, FS_CardinalityType
<1>3. Reseed \in Nat /\ Size \in Nat /\ drbg[r].since \in Nat
  BY CsprngAssumption DEF IInv, TypeInv, Generators
<1>4. /\ IsFiniteSet(then) /\ Cardinality(then) < Reseed + Size
      /\ drbg[r].seeded /\ drbg[r].seed = seed => Cardinality(then) <= drbg[r].since
  BY <1>1, <1>2, <1>3
<1> QED
  BY <1>4 DEF then

(* A process that holds no more than before shares no more.                *)
LEMMA HeldLess ==
  ASSUME IInv, CInv, \A p \in Procs : Held(p)' \subseteq Held(p), UNCHANGED <<aesActive, drbg>>,
         \A p \in Procs : rpos'[p] # 0
  PROVE  CInv'
<1>1. ASSUME NEW p \in Procs, NEW q \in Procs, NEW seed, NEW old, Parted(p, q, seed, old)
      PROVE  Parted(p, q, seed, old)'
  BY <1>1 DEF Parted, KeyApart
<1> QED
  BY <1>1, SharesKept DEF CInv

(* What a call generates is drawn under the seed of its key.               *)
LEMMA GeneratedUnder ==
  ASSUME NEW d \in Generators, NEW take \in Nat
  PROVE  LET bytes == Generated(d, take)
         IN  /\ bytes \in Seq(Drawn) /\ Len(bytes) = take
             /\ \A i \in 1 .. take : bytes[i] \in Drawn /\ bytes[i][1] = d.seed
             /\ \A b \in ToSet(bytes) : b[1] = d.seed
<1> DEFINE bytes == Generated(d, take)
<1>1. bytes \in Seq(Drawn) /\ Len(bytes) = take
  BY GeneratedDrawn
<1>2. \A i \in 1 .. Len(bytes) : bytes[i] \in Drawn /\ bytes[i][1] = d.seed
  BY GeneratedNames
<1> HIDE DEF bytes
<1>3. \A b \in ToSet(bytes) : b[1] = d.seed
  BY <1>1, <1>2, LenProperties DEF ToSet
<1>4. \A i \in 1 .. take : bytes[i] \in Drawn /\ bytes[i][1] = d.seed
  BY <1>1, <1>2
<1> QED
  BY <1>1, <1>3, <1>4 DEF bytes

(* Everything held was drawn, under a seed that was issued.                *)
LEMMA HeldIssued ==
  ASSUME KInv, NEW p \in Procs, NEW b \in Held(p)
  PROVE  b \in Drawn /\ b[1] \in Seeds /\ Issued(b[1])
BY DEF Held, KInv, ErasedFor, Past, Drawn

(* A process that draws under the seed it parted with, or a new one, stays *)
(* parted from the others.                                                 *)
LEMMA DrawParted ==
  ASSUME KInv, NEW p \in Procs, NEW q \in Procs, p # q,
         NEW seed, NEW old, Parted(p, q, seed, old), aesActive' = aesActive,
         NEW new, NEW s \in Seeds, \A b \in new : b[1] = s,
         Held(p)' \subseteq Held(p) \cup new, Held(q)' \subseteq Held(q), drbg'[q] = drbg[q],
         \/ /\ aesActive /\ drbg[p].seeded /\ drbg[p].seed = s
            /\ drbg'[p].seeded /\ drbg'[p].seed = s
         \/ /\ ~Issued(s)
            /\ drbg'[p] = drbg[p] \/ drbg'[p].seed = s
  PROVE  Parted(p, q, seed, old)'
<1>1. /\ \A b \in Held(q) : Issued(b[1])
      /\ drbg[q].seeded => Issued(drbg[q].seed)
  BY HeldIssued DEF KInv, ErasedFor
<1>2. ASSUME NEW b \in Held(p)' \cap Held(q)'
      PROVE  b \in old \/ (aesActive /\ b[1] = seed)
  <2>1. CASE b \in Held(p)
    BY <2>1 DEF Parted
  <2>2. CASE b \in new
    <3>1. b[1] = s /\ b \in Held(q)
      BY <2>2
    <3>2. aesActive /\ drbg[p].seeded /\ drbg[p].seed = s
      BY <1>1, <3>1
    <3> QED
      BY <3>1, <3>2 DEF Parted, KeyApart
  <2> QED
    BY <2>1, <2>2
<1>3. KeyApart(p, q, seed)'
  BY <1>1 DEF KeyApart, Parted
<1>4. KeyApart(q, p, seed)'
  <2> SUFFICES ASSUME drbg[q].seeded, drbg[q].seed # seed, NEW b \in Held(p)'
               PROVE  b[1] # drbg[q].seed
    BY DEF KeyApart
  <2>1. CASE b \in Held(p)
    BY <2>1 DEF Parted, KeyApart
  <2>2. CASE b \in new
    BY <1>1, <2>2 DEF Parted
  <2> QED
    BY <2>1, <2>2
<1>5. drbg'[p].seeded /\ drbg'[q].seeded /\ drbg'[p].seed = drbg'[q].seed => drbg'[p].seed = seed
  BY <1>1 DEF Parted
<1> QED
  BY <1>2, <1>3, <1>4, <1>5 DEF Parted

(* So all pairs stay parted when one process draws.                        *)
LEMMA DrawApart ==
  ASSUME KInv, CInv, NEW p \in Procs, aesActive' = aesActive,
         NEW new, NEW s \in Seeds, \A b \in new : b[1] = s,
         Held(p)' \subseteq Held(p) \cup new,
         \A r \in Procs \ {p} : Held(r)' \subseteq Held(r) /\ drbg'[r] = drbg[r],
         \/ /\ aesActive /\ drbg[p].seeded /\ drbg[p].seed = s
            /\ drbg'[p].seeded /\ drbg'[p].seed = s
         \/ /\ ~Issued(s)
            /\ drbg'[p] = drbg[p] \/ drbg'[p].seed = s
  PROVE  \A q, r \in Procs : q # r => \E seed, old : Parted(q, r, seed, old)'
<1> SUFFICES ASSUME NEW q \in Procs, NEW r \in Procs, q # r
             PROVE  \E seed, old : Parted(q, r, seed, old)'
  OBVIOUS
<1>1. PICK seed, old : Parted(q, r, seed, old)
  BY DEF CInv
<1>2. CASE q = p
  BY <1>1, <1>2, DrawParted
<1>3. CASE r = p
  <2>1. Parted(p, q, seed, old)
    BY <1>1, <1>3, PartedEitherWay
  <2>2. Parted(p, q, seed, old)'
    BY <1>3, <2>1, DrawParted
  <2> QED
    BY <1>3, <2>2 DEF Parted
<1>4. CASE q # p /\ r # p
  <2>1. Parted(q, r, seed, old)'
    BY <1>1, <1>4 DEF Parted, KeyApart
  <2> QED
    BY <2>1
<1> QED
  BY <1>2, <1>3, <1>4
(* Serving moves bytes from the buffer to the caller.                      *)
LEMMA ServeBufferedHeld ==
  ASSUME IInv, CInv, NEW p \in Procs, ServeBuffered(p)
  PROVE  CInv'
<1>1. PICK ask \in Asks(p) :
        /\ Fits(p, ask.len)
        /\ Deliver(p, ask.for, SubSeq(rbuf[p], rpos[p] + 1, rpos[p] + ask.len))
        /\ rpos' = [rpos EXCEPT ![p] = @ + ask.len]
  BY DEF ServeBuffered
<1>2. ask.len \in Nat /\ rpos[p] \in Nat /\ rpos[p] + ask.len <= Size
  BY <1>1, AsksOK DEF Fits, IInv, TypeInv
<1>3. UNCHANGED <<aesActive, rbuf, drbg, call>>
  BY DEF ServeBuffered, platform
<1>4. rpos'[p] = rpos[p] + ask.len /\ \A r \in Procs \ {p} : rpos'[r] = rpos[r]
  BY <1>1 DEF IInv, TypeInv
<1>5. ToSet(SubSeq(rbuf[p], rpos[p] + 1, rpos[p] + ask.len)) \subseteq Held(p)
  BY <1>2, SliceUnserved DEF Held
<1>6. served'[p] \subseteq Held(p) /\ \A r \in Procs \ {p} : served'[r] = served[r]
  BY <1>1, <1>5, DeliverPast DEF Held
<1>7. Unserved(p)' \subseteq Unserved(p)
  BY <1>2, <1>3, <1>4, CsprngAssumption DEF Unserved
<1>8. \A r \in Procs : Held(r)' \subseteq Held(r)
  BY <1>3, <1>4, <1>6, <1>7 DEF Held, Unserved
<1>9. \A r \in Procs : rpos'[r] # 0
  BY <1>2, <1>4, AsksOK DEF CInv
<1> QED
  BY <1>3, <1>8, <1>9, HeldLess

(* Serving a completed fill moves bytes from the fill to the caller and    *)
(* the buffer.                                                             *)
LEMMA FinishHeld ==
  ASSUME IInv, CInv, NEW p \in Procs, Finish(p)
  PROVE  CInv'
<1> DEFINE done == call[p].done
           want == call[p].want
<1>1. /\ CallOK(call[p]) /\ done \in Seq(Drawn) /\ want \in Nat /\ Size \in Nat
      /\ call[p].left = 0
  BY CsprngAssumption DEF Finish, Filling, IInv, CallOK, Calls
<1>2. /\ call'[p] = Idle /\ \A r \in Procs \ {p} : call'[r] = call[r]
      /\ UNCHANGED <<aesActive, drbg>>
  BY DEF Finish, platform, IInv, TypeInv
<1>3. served[p] \subseteq Held(p) /\ ToSet(done) \subseteq Held(p)
  BY DEF Held
<1> DEFINE Outcome ==
             /\ served'[p] \cup Unserved(p)' \subseteq Held(p) /\ rpos'[p] # 0
             /\ \A r \in Procs \ {p} :
                  served'[r] = served[r] /\ rbuf'[r] = rbuf[r] /\ rpos'[r] = rpos[r]
<1>4. ASSUME call[p].to = "rbuf" PROVE Outcome
  <2>1. want \in 1 .. Size /\ Len(done) = Size
    BY <1>1, <1>4, LenProperties DEF CallOK
  <2>2. /\ DOMAIN done = 1 .. Size /\ \A i \in 1 .. Size : done[i] \in ToSet(done)
        /\ \A i \in 1 .. want : done[i] \in ToSet(done)
    BY <1>1, <2>1, LenProperties DEF ToSet
  <2>3. SubSeq(done, 1, want) \in Seq(ToSet(done))
    BY <1>1, <2>1, <2>2, SubSeqProperties
  <2>4. ToSet(SubSeq(done, 1, want)) \subseteq Held(p)
    BY <2>3, ElementOfSeq, LenProperties DEF ToSet, Held
  <2>5. /\ rbuf'[p] = done /\ rpos'[p] = want
        /\ Deliver(p, call[p].for, SubSeq(done, 1, want))
        /\ \A r \in Procs \ {p} : rbuf'[r] = rbuf[r] /\ rpos'[r] = rpos[r]
    BY <1>4 DEF Finish, IInv, TypeInv
  <2>6. served'[p] \subseteq Held(p) /\ \A r \in Procs \ {p} : served'[r] = served[r]
    BY <1>3, <2>4, <2>5, DeliverPast
  <2> HIDE DEF done, want
  <2>7. Unserved(p)' \subseteq ToSet(done)
    BY <1>1, <2>1, <2>2, <2>5 DEF Unserved
  <2> QED
    BY <2>1, <2>5, <2>6, <2>7 DEF Held, done
<1>5. ASSUME call[p].to # "rbuf" PROVE Outcome
  <2>1. Deliver(p, "caller", done) /\ UNCHANGED <<rbuf, rpos>>
    BY <1>5 DEF Finish
  <2>2. served'[p] \subseteq Held(p) /\ \A r \in Procs \ {p} : served'[r] = served[r]
    BY <1>3, <2>1, DeliverPast
  <2> QED
    BY <2>1, <2>2 DEF Held, Unserved, CInv
<1>6. Outcome
  BY <1>4, <1>5
<1>7. \A r \in Procs : Held(r)' \subseteq Held(r)
  BY <1>2, <1>6, IdleDone DEF Held, Unserved
<1>8. \A r \in Procs : rpos'[r] # 0
  BY <1>6 DEF CInv
<1> QED
  BY <1>2, <1>7, <1>8, HeldLess

(* What a fill holds is what it had and what was added.                    *)
LEMMA FilledHeld ==
  ASSUME IInv, NEW p \in Procs, NEW bytes \in Seq(Drawn), Fill(p, bytes),
         UNCHANGED <<rbuf, rpos, served>>
  PROVE  /\ Held(p)' \subseteq Held(p) \cup ToSet(bytes)
         /\ \A r \in Procs \ {p} : Held(r)' = Held(r)
<1>1. /\ call'[p] = Filled(call[p], bytes) /\ \A r \in Procs \ {p} : call'[r] = call[r]
      /\ CallOK(call[p])
  BY DEF Fill, IInv, TypeInv
<1>2. ToSet(call'[p].done) \subseteq ToSet(call[p].done) \cup ToSet(bytes)
  <2>1. \A i \in 1 .. Len(bytes) : bytes[i] \in ToSet(call[p].done) \cup ToSet(bytes)
    BY LenProperties DEF ToSet
  <2> QED
    BY <1>1, <2>1, FilledDone
<1> QED
  BY <1>1, <1>2 DEF Held, Unserved

(* A part of two finite sets has no more elements than the two.            *)
LEMMA PartOfTwo ==
  ASSUME NEW A, NEW B, NEW C, IsFiniteSet(A), IsFiniteSet(B), C \subseteq A \cup B
  PROVE  /\ IsFiniteSet(C) /\ Cardinality(C) <= Cardinality(A) + Cardinality(B)
         /\ Cardinality(A) \in Nat /\ Cardinality(B) \in Nat /\ Cardinality(C) \in Nat
<1>1. /\ IsFiniteSet(A \cup B)
      /\ Cardinality(A \cup B) = Cardinality(A) + Cardinality(B) - Cardinality(A \cap B)
  BY FS_Union
<1>2. IsFiniteSet(A \cap B)
  BY FS_Subset
<1>3. /\ Cardinality(A) \in Nat /\ Cardinality(B) \in Nat
      /\ Cardinality(A \cup B) \in Nat /\ Cardinality(A \cap B) \in Nat
  BY <1>1, <1>2, FS_CardinalityType
<1>4. IsFiniteSet(C) /\ Cardinality(C) <= Cardinality(A \cup B)
  BY <1>1, FS_Subset
<1>5. Cardinality(C) \in Nat
  BY <1>4, FS_CardinalityType
<1> QED
  BY <1>1, <1>3, <1>4, <1>5

(* A chunk adds no more under its seed than the generator counts.          *)
LEMMA ChunkCounted ==
  ASSUME IInv, KInv, NEW p \in Procs, SharesCounted(p), NEW d \in Generators, ~NeedsSeed(d),
         NEW take \in 0 .. Size, d = drbg[p] \/ (~Issued(d.seed) /\ d.since = 0),
         drbg'[p] = NextKey(d, take),
         Held(p)' \subseteq Held(p) \cup ToSet(Generated(d, take))
  PROVE  SharesCounted(p)'
<1> DEFINE bytes == Generated(d, take)
           new == NextKey(d, take)
<1>1. /\ Size \in Nat /\ Reseed \in Nat /\ take \in Nat /\ d.since \in Nat
  BY CsprngAssumption DEF Generators
<1>2. bytes \in Seq(Drawn) /\ Len(bytes) = take
  BY <1>1, GeneratedDrawn
<1>3. IsFiniteSet(ToSet(bytes)) /\ Cardinality(ToSet(bytes)) = take
  BY <1>1, <1>2, GeneratedOnce, NoRepeatCounts
<1>4. \A b \in ToSet(bytes) : b[1] = d.seed
  <2>1. \A i \in 1 .. Len(bytes) : bytes[i][1] = d.seed
    BY <1>1, GeneratedNames
  <2> QED
    BY <1>2, <2>1, LenProperties DEF ToSet
<1>5. /\ new.seeded = d.seeded /\ new.seed = d.seed /\ new.since = d.since + take
      /\ new.since < Reseed + Size
  BY NextKeyOK DEF NextKey, Generators, GeneratorOK
<1> HIDE DEF bytes, new
<1> SUFFICES ASSUME NEW seed \in Seeds
             PROVE  /\ IsFiniteSet(Under(p, seed)') /\ Cardinality(Under(p, seed)') < Reseed + Size
                    /\ d.seed = seed => Cardinality(Under(p, seed)') <= new.since
  BY <1>5 DEF SharesCounted, new
<1> DEFINE now == Under(p, seed)
           then == Under(p, seed)'
<1>6. /\ then \subseteq now \cup {b \in ToSet(bytes) : b[1] = seed}
      /\ IsFiniteSet(now) /\ Cardinality(now) < Reseed + Size
      /\ drbg[p].seeded /\ drbg[p].seed = seed => Cardinality(now) <= drbg[p].since
  BY DEF Under, SharesCounted, bytes
<1>7. CASE d.seed = seed
  <2>1. Cardinality(now) <= d.since
    <3>1. CASE d = drbg[p]
      BY <1>6, <1>7, <3>1 DEF NeedsSeed
    <3>2. CASE ~Issued(d.seed) /\ d.since = 0
      <4>1. now = {}
        BY <1>7, <3>2, HeldIssued DEF Under
      <4> QED
        BY <3>2, <4>1, FS_EmptySet
    <3> QED
      BY <3>1, <3>2
  <2> HIDE DEF now, then
  <2>2. then \subseteq now \cup ToSet(bytes)
    BY <1>6
  <2>3. /\ IsFiniteSet(then) /\ Cardinality(then) <= Cardinality(now) + Cardinality(ToSet(bytes))
        /\ Cardinality(then) \in Nat /\ Cardinality(now) \in Nat
    BY <1>3, <1>6, <2>2, PartOfTwo
  <2>4. Cardinality(then) <= new.since
    BY <1>1, <1>3, <1>5, <2>1, <2>3
  <2>5. Cardinality(then) < Reseed + Size
    BY <1>1, <1>5, <2>3, <2>4
  <2> QED
    BY <2>3, <2>4, <2>5 DEF then
<1>8. CASE d.seed # seed
  <2> HIDE DEF now, then
  <2>1. then \in SUBSET now
    BY <1>4, <1>6, <1>8
  <2>2. IsFiniteSet(then) /\ Cardinality(then) <= Cardinality(now)
          /\ Cardinality(then) \in Nat /\ Cardinality(now) \in Nat
    BY <1>6, <2>1, FS_Subset, FS_CardinalityType
  <2>3. Cardinality(then) < Reseed + Size
    BY <1>1, <1>6, <2>2
  <2> QED
    BY <1>8, <2>2, <2>3 DEF then
<1> QED
  BY <1>7, <1>8

(* A turn of the fill loop leaves what copies share bounded.               *)
LEMMA ChunkHeld ==
  ASSUME IInv, KInv, CInv, NEW p \in Procs, Chunk(p)
  PROVE  CInv'
<1> DEFINE due == NeedsSeed(drbg[p])
           d == IF due THEN Reseeded(NextSeed(p)) ELSE drbg[p]
           take == Take(call[p].left)
           bytes == Generated(d, take)
<1>1. /\ aesActive /\ UNCHANGED <<aesActive, rbuf, rpos, served>>
      /\ drbg' = [drbg EXCEPT ![p] = NextKey(d, take)] /\ Fill(p, bytes)
  BY DEF Chunk, platform, history
<1>2. /\ drbg[p] \in Generators /\ take \in 0 .. Size /\ take \in Nat
      /\ NextSeed(p) \in Seeds /\ ~Issued(NextSeed(p))
  BY NextSeedNew, CsprngAssumption DEF IInv, TypeInv, Calls, Take
<1>3. /\ d \in Generators /\ ~NeedsSeed(d)
      /\ IF due THEN d.seed = NextSeed(p) /\ d.since = 0 ELSE d = drbg[p]
  BY <1>2, ReseededReady DEF Reseeded
<1>4. /\ drbg'[p] = NextKey(d, take) /\ \A r \in Procs \ {p} : drbg'[r] = drbg[r]
  BY <1>1 DEF IInv, TypeInv
<1>5. drbg'[p].seed = d.seed /\ drbg'[p].seeded /\ d.seeded /\ d.seed \in Seeds
  BY <1>3, <1>4 DEF NextKey, Generators, NeedsSeed
<1>6. d = drbg[p] \/ (~Issued(d.seed) /\ d.since = 0)
  BY <1>2, <1>3
<1> HIDE DEF d, take, due
<1>7. bytes \in Seq(Drawn) /\ \A b \in ToSet(bytes) : b[1] = d.seed
  BY <1>2, <1>3, GeneratedUnder, Zenon DEF bytes
<1>8. Held(p)' \subseteq Held(p) \cup ToSet(bytes) /\ \A r \in Procs \ {p} : Held(r)' = Held(r)
  BY <1>1, <1>7, FilledHeld
<1>9. SharesCounted(p)'
  BY <1>1, <1>2, <1>3, <1>4, <1>6, <1>8, ChunkCounted DEF CInv
<1>10. ASSUME NEW r \in Procs \ {p} PROVE SharesCounted(r)'
  BY <1>1, <1>4, <1>8, <1>10, SharesKept DEF CInv
<1> HIDE DEF bytes
<1>11. PICK new, s : s \in Seeds /\ s = d.seed /\ new = ToSet(bytes)
  BY <1>5
<1>12. \A b \in new : b[1] = s
  BY <1>7, <1>11
<1>13. /\ Held(p)' \subseteq Held(p) \cup new
       /\ \A r \in Procs \ {p} : Held(r)' \subseteq Held(r) /\ drbg'[r] = drbg[r]
       /\ aesActive' = aesActive
  BY <1>1, <1>4, <1>8, <1>11
<1>14. \/ /\ aesActive /\ drbg[p].seeded /\ drbg[p].seed = s
          /\ drbg'[p].seeded /\ drbg'[p].seed = s
       \/ /\ ~Issued(s)
          /\ drbg'[p] = drbg[p] \/ drbg'[p].seed = s
  BY <1>1, <1>5, <1>6, <1>11
<1>15. \A q, r \in Procs : q # r => \E seed, old : Parted(q, r, seed, old)'
  BY <1>11, <1>12, <1>13, <1>14, DrawApart
<1> QED
  BY <1>1, <1>9, <1>10, <1>15 DEF CInv

(* Bytes read straight from the OS are shared with nobody.                 *)
LEMMA OsDrawHeld ==
  ASSUME IInv, KInv, CInv, NEW p \in Procs, ~aesActive, NEW new,
         \A b \in new : b[1] = NextSeed(p), Held(p)' \subseteq Held(p) \cup new,
         \A r \in Procs \ {p} : Held(r)' \subseteq Held(r), UNCHANGED <<aesActive, drbg, rpos>>
  PROVE  CInv'
<1>1. NextSeed(p) \in Seeds /\ ~Issued(NextSeed(p))
  BY NextSeedNew
<1>2. \A q, r \in Procs : q # r => \E seed, old : Parted(q, r, seed, old)'
  BY <1>1, DrawApart
<1> QED
  BY <1>2 DEF CInv

(* A fill by the OS leaves what copies share bounded.                      *)
LEMMA OsFillHeld ==
  ASSUME IInv, KInv, CInv, NEW p \in Procs, OsFill(p)
  PROVE  CInv'
<1> DEFINE d == Reseeded(NextSeed(p))
           take == call[p].left
           bytes == Generated(d, take)
<1>1. ~aesActive /\ UNCHANGED <<aesActive, rbuf, rpos, drbg, served>> /\ Fill(p, bytes)
  BY DEF OsFill, platform, globals, history
<1>2. d \in Generators /\ d.seed = NextSeed(p) /\ take \in Nat
  BY NextSeedNew, ReseededReady DEF Reseeded, IInv, TypeInv, Calls
<1> HIDE DEF d, take
<1>3. bytes \in Seq(Drawn) /\ \A b \in ToSet(bytes) : b[1] = d.seed
  BY <1>2, GeneratedUnder, Zenon DEF bytes
<1> HIDE DEF bytes
<1>4. \A b \in ToSet(bytes) : b[1] = NextSeed(p)
  BY <1>2, <1>3
<1>5. Held(p)' \subseteq Held(p) \cup ToSet(bytes) /\ \A r \in Procs \ {p} : Held(r)' = Held(r)
  BY <1>1, <1>3, FilledHeld
<1> QED
  BY <1>1, <1>4, <1>5, OsDrawHeld

(* A failed fill by the OS leaves what copies share bounded.               *)
LEMMA OsFillFailsHeld ==
  ASSUME IInv, KInv, CInv, NEW p \in Procs, OsFillFails(p)
  PROVE  CInv'
<1>1. /\ ~aesActive /\ UNCHANGED <<aesActive, rpos, drbg, served>>
      /\ call'[p] = Idle /\ \A r \in Procs \ {p} : call'[r] = call[r]
  BY DEF OsFillFails, platform, history, IInv, TypeInv
<1> DEFINE new == {b \in Drawn : b[1] = NextSeed(p)}
           Outcome == /\ Unserved(p)' \subseteq Unserved(p) \cup new
                      /\ \A r \in Procs \ {p} : rbuf'[r] = rbuf[r]
<1>2. ASSUME call[p].to = "rbuf" PROVE Outcome
  <2> DEFINE d == Reseeded(NextSeed(p))
  <2>1. PICK k \in 0 .. Size :
          rbuf' = [rbuf EXCEPT ![p] = Generated(d, k) \o SubSeq(@, k + 1, Size)]
    BY <1>2 DEF OsFillFails
  <2> DEFINE prefix == Generated(d, k)
             buf == prefix \o SubSeq(rbuf[p], k + 1, Size)
  <2>2. /\ d \in Generators /\ d.seed = NextSeed(p) /\ k \in Nat /\ Size \in Nat /\ rpos[p] \in Nat
        /\ BufferOK(rbuf[p], rpos[p])
    BY NextSeedNew, ReseededReady, CsprngAssumption DEF Reseeded, IInv, TypeInv
  <2>3. rbuf'[p] = buf /\ \A r \in Procs \ {p} : rbuf'[r] = rbuf[r]
    BY <2>1 DEF IInv, TypeInv
  <2> HIDE DEF d
  <2>4. /\ prefix \in Seq(Drawn) /\ Len(prefix) = k
        /\ \A i \in 1 .. k : prefix[i] \in Drawn /\ prefix[i][1] = d.seed
    BY <2>2, GeneratedUnder, Zenon DEF prefix
  <2> HIDE DEF prefix
  <2>5. \A i \in 1 .. k : prefix[i] \in new
    BY <2>2, <2>4
  <2> HIDE DEF new
  <2>6. \A i \in 1 .. Size : buf[i] = IF i <= k THEN prefix[i] ELSE rbuf[p][i]
    BY <2>2, <2>4, PrefixBytes
  <2> HIDE DEF buf
  <2>7. ASSUME NEW i \in rpos[p] + 1 .. Size PROVE buf[i] \in Unserved(p) \cup new
    <3>1. i \in 1 .. Size
      BY <2>2
    <3>2. CASE i <= k
      BY <2>2, <2>5, <2>6, <3>1, <3>2
    <3>3. CASE ~(i <= k)
      BY <2>2, <2>6, <3>1, <3>3 DEF Unserved
    <3> QED
      BY <3>2, <3>3
  <2> QED
    BY <1>1, <2>3, <2>7 DEF Unserved
<1>3. ASSUME call[p].to # "rbuf" PROVE Outcome
  BY <1>1, <1>3 DEF OsFillFails, Unserved
<1>4. Outcome
  BY <1>2, <1>3
<1>5. \A b \in new : b[1] = NextSeed(p)
  OBVIOUS
<1> HIDE DEF new
<1>6. Held(p)' \subseteq Held(p) \cup new /\ \A r \in Procs \ {p} : Held(r)' \subseteq Held(r)
  BY <1>1, <1>4, IdleDone DEF Held, Unserved
<1> QED
  BY <1>1, <1>5, <1>6, OsDrawHeld

(* A copy parts from its origin with one buffer and one seed, and is apart *)
(* from the others as its origin was; one that was wiped has nothing.      *)
LEMMA CopyHeld ==
  ASSUME IInv, KInv, CInv, NEW p \in Procs, NEW q \in Procs, Copies(p, q),
         Inherit(p, q) \/ AtForkChild(p, q)
  PROVE  CInv'
<1>1. /\ q \in Procs \ alive /\ p # q /\ UNCHANGED <<aesActive, call, served>>
      /\ call[q] = Idle /\ served[q] = {}
  BY DEF Copies, history, KInv
<1>2. \A r \in Procs \ {q} : rbuf'[r] = rbuf[r] /\ rpos'[r] = rpos[r] /\ drbg'[r] = drbg[r]
  BY DEF Inherit, AtForkChild, IInv, TypeInv
<1>3. \A r \in Procs \ {q} : Held(r)' = Held(r)
  BY <1>1, <1>2 DEF Held, Unserved
<1>4. ASSUME NEW r \in Procs \ {q}, NEW s \in Procs \ {q}, NEW seed, NEW old,
             Parted(r, s, seed, old)
      PROVE  Parted(r, s, seed, old)'
  BY <1>1, <1>2, <1>3, <1>4 DEF Parted, KeyApart
<1>5. ASSUME aesActive, NEW r \in Procs \ {q} PROVE SharesCounted(r)'
  BY <1>2, <1>3, <1>5, SharesKept DEF CInv
<1> DEFINE Outcome ==
             /\ rpos'[q] # 0
             /\ aesActive => SharesCounted(q)'
             /\ ~aesActive => ~drbg'[q].seeded
             /\ \A r \in Procs \ {q} : \E seed, old : Parted(q, r, seed, old)'
<1>6. ASSUME Inherit(p, q) PROVE Outcome
  <2>1. rbuf'[q] = rbuf[p] /\ rpos'[q] = rpos[p] /\ drbg'[q] = drbg[p]
    BY <1>6 DEF Inherit, IInv, TypeInv
  <2>2. Held(q)' = Unserved(p) /\ Held(q)' \subseteq Held(p)
    BY <1>1, <2>1, IdleDone DEF Held, Unserved
  <2>3. ASSUME aesActive PROVE SharesCounted(q)'
    <3>1. SharesCounted(p)' /\ drbg'[q] = drbg'[p] /\ Held(q)' \subseteq Held(p)'
      BY <1>1, <1>2, <1>3, <1>5, <2>1, <2>2, <2>3
    <3> SUFFICES ASSUME NEW seed \in Seeds
                 PROVE  /\ IsFiniteSet(Under(q, seed)')
                        /\ Cardinality(Under(q, seed)') < Reseed + Size
                        /\ drbg'[q].seeded /\ drbg'[q].seed = seed =>
                             Cardinality(Under(q, seed)') <= drbg'[q].since
      BY DEF SharesCounted
    <3> DEFINE mine == Under(q, seed)'
               its == Under(p, seed)'
    <3>2. /\ mine \in SUBSET its /\ IsFiniteSet(its) /\ Cardinality(its) < Reseed + Size
          /\ drbg'[q].seeded /\ drbg'[q].seed = seed => Cardinality(its) <= drbg'[q].since
      BY <3>1 DEF Under, SharesCounted
    <3> HIDE DEF mine, its
    <3>3. IsFiniteSet(mine) /\ Cardinality(mine) <= Cardinality(its)
            /\ Cardinality(mine) \in Nat /\ Cardinality(its) \in Nat
      BY <3>2, FS_Subset, FS_CardinalityType
    <3>4. Reseed \in Nat /\ Size \in Nat /\ drbg'[q].since \in Nat
      BY <2>1, CsprngAssumption DEF IInv, TypeInv, Generators
    <3>5. /\ IsFiniteSet(mine) /\ Cardinality(mine) < Reseed + Size
          /\ drbg'[q].seeded /\ drbg'[q].seed = seed => Cardinality(mine) <= drbg'[q].since
      BY <3>2, <3>3, <3>4
    <3> QED
      BY <3>5 DEF mine
  <2>4. \E seed, old : Parted(q, p, seed, old)'
    <3>1. IsFiniteSet(Unserved(p)) /\ Cardinality(Unserved(p)) < Size
      BY UnservedFew DEF CInv
    <3>2. drbg[p].seed \in Seeds /\ drbg'[p] = drbg[p]
      BY <1>1, <1>2 DEF IInv, TypeInv, Generators
    <3> DEFINE seed == drbg[p].seed
               old == Unserved(p)
    <3>3. \A b \in Held(q)' \cap Held(p)' : b \in old
      BY <2>2
    <3>4. KeyApart(q, p, seed)' /\ KeyApart(p, q, seed)'
      BY <2>1, <3>2 DEF KeyApart
    <3> QED
      BY <2>1, <3>1, <3>2, <3>3, <3>4 DEF Parted
  <2>5. ASSUME NEW r \in Procs \ {p, q} PROVE \E seed, old : Parted(q, r, seed, old)'
    <3>1. PICK seed, old : Parted(p, r, seed, old)
      BY <2>5 DEF CInv
    <3>2. Parted(q, r, seed, old)'
      BY <1>1, <1>2, <1>3, <2>1, <2>2, <2>5, <3>1 DEF Parted, KeyApart
    <3> QED
      BY <3>2
  <2> QED
    BY <1>1, <2>1, <2>3, <2>4, <2>5 DEF CInv
<1>7. ASSUME AtForkChild(p, q) PROVE Outcome
  <2>1. rpos'[q] = Size /\ drbg'[q] = Unseeded /\ Size \in Nat \ {0} /\ Reseed \in Nat
    BY <1>7, CsprngAssumption DEF AtForkChild, IInv, TypeInv
  <2>2. Held(q)' = {}
    BY <1>1, <2>1, IdleDone DEF Held, Unserved
  <2>3. SharesCounted(q)'
    <3>1. \A seed : Under(q, seed)' = {}
      BY <2>2 DEF Under
    <3>2. IsFiniteSet({}) /\ Cardinality({}) = 0 /\ 0 < Reseed + Size
      BY <2>1, FS_EmptySet
    <3>3. ~drbg'[q].seeded
      BY <2>1 DEF Unseeded
    <3> QED
      BY <3>1, <3>2, <3>3, Zenon DEF SharesCounted
  <2>4. ASSUME NEW r \in Procs \ {q} PROVE Parted(q, r, NoSeed, {})'
    <3>1. NoSeed \in Seeds
      BY CsprngAssumption DEF NoSeed, Seeds
    <3> QED
      BY <2>1, <2>2, <3>1, FS_EmptySet DEF Parted, KeyApart, Unseeded
  <2> QED
    BY <2>1, <2>3, <2>4 DEF Unseeded
<1>8. Outcome
  BY <1>6, <1>7
<1>9. ASSUME NEW r \in Procs, NEW s \in Procs, r # s
      PROVE  \E seed, old : Parted(r, s, seed, old)'
  <2>1. CASE r = q
    BY <1>8, <1>9, <2>1
  <2>2. CASE s = q
    BY <1>8, <1>9, <2>2 DEF Parted
  <2>3. CASE r # q /\ s # q
    BY <1>4, <1>9, <2>3 DEF CInv
  <2> QED
    BY <2>1, <2>2, <2>3
<1> QED
  BY <1>1, <1>2, <1>5, <1>8, <1>9 DEF CInv

(* At the start nothing is held.                                           *)
LEMMA InitCInv == Init => CInv
<1> SUFFICES ASSUME Init PROVE CInv
  OBVIOUS
<1>1. Size \in Nat \ {0} /\ Reseed \in Nat /\ NoSeed \in Seeds
  BY CsprngAssumption DEF NoSeed, Seeds
<1>2. ASSUME NEW p \in Procs
      PROVE  Held(p) = {} /\ rpos[p] = Size /\ ~drbg[p].seeded
  <2>1. /\ served[p] = {} /\ call[p] = Idle /\ rpos[p] = Size /\ drbg[p] = Unseeded
    BY DEF Init
  <2> QED
    BY <1>1, <2>1, IdleDone DEF Held, Unserved, Unseeded
<1>3. ASSUME NEW p \in Procs PROVE SharesCounted(p)
  <2>1. \A seed : Under(p, seed) = {}
    BY <1>2 DEF Under
  <2> QED
    BY <1>1, <1>2, <2>1, FS_EmptySet DEF SharesCounted
<1>4. ASSUME NEW p \in Procs, NEW q \in Procs PROVE Parted(p, q, NoSeed, {})
  BY <1>1, <1>2, FS_EmptySet DEF Parted, KeyApart
<1> QED
  BY <1>1, <1>2, <1>3, <1>4 DEF CInv

(* Every step leaves what copies share bounded.                            *)
LEMMA NextCInv == IInv /\ KInv /\ CInv /\ [Next]_vars => CInv'
<1> SUFFICES ASSUME IInv, KInv, CInv, [Next]_vars PROVE CInv'
  OBVIOUS
<1>1. ASSUME NEW p \in Procs, ServeBuffered(p) PROVE CInv'
  BY <1>1, ServeBufferedHeld
<1>2. ASSUME NEW p \in Procs, BeginRefill(p) \/ BeginDirect(p) \/ SeedFails(p) PROVE CInv'
  <2>1. \E c : c.done = << >> /\ call' = [call EXCEPT ![p] = c]
    <3>1. CASE BeginRefill(p)
      <4>1. PICK ask \in Asks(p) :
              call' = [call EXCEPT ![p] = [to |-> "rbuf", for |-> ask.for, want |-> ask.len,
                                           left |-> Size, done |-> << >>]]
        BY <3>1 DEF BeginRefill
      <4> QED
        BY <4>1
    <3>2. CASE BeginDirect(p)
      <4>1. PICK n \in Requests :
              call' = [call EXCEPT ![p] = [to |-> "caller", for |-> "caller", want |-> n,
                                           left |-> n, done |-> << >>]]
        BY <3>2 DEF BeginDirect
      <4> QED
        BY <4>1
    <3>3. CASE SeedFails(p)
      BY <3>3 DEF SeedFails, Idle
    <3> QED
      BY <1>2, <3>1, <3>2, <3>3
  <2>2. UNCHANGED <<aesActive, rbuf, rpos, drbg, served>>
    BY <1>2 DEF BeginRefill, BeginDirect, SeedFails, platform, globals, history
  <2>3. ToSet(<< >>) = {}
    BY DEF ToSet
  <2>4. \A r \in Procs : Held(r)' \subseteq Held(r)
    BY <2>1, <2>2, <2>3 DEF Held, Unserved, IInv, TypeInv
  <2> QED
    BY <2>2, <2>4, HeldLess DEF CInv
<1>3. ASSUME NEW p \in Procs, GenV4Fast(p) PROVE CInv'
  <2>1. UNCHANGED <<aesActive, rbuf, rpos, drbg, call, served>>
    BY <1>3 DEF GenV4Fast, platform
  <2> QED
    BY <2>1, HeldLess DEF CInv, Held, Unserved
<1>4. ASSUME NEW p \in Procs, Chunk(p) PROVE CInv'
  BY <1>4, ChunkHeld
<1>5. ASSUME NEW p \in Procs, OsFill(p) PROVE CInv'
  BY <1>5, OsFillHeld
<1>6. ASSUME NEW p \in Procs, Finish(p) PROVE CInv'
  BY <1>6, FinishHeld
<1>7. ASSUME NEW p \in Procs, OsFillFails(p) PROVE CInv'
  BY <1>7, OsFillFailsHeld
<1>8. ASSUME NEW p \in Procs, NEW q \in Procs, Fork(p, q) \/ CloneMachine(p, q) PROVE CInv'
  BY <1>8, CopyHeld DEF Fork, CloneMachine
<1>9. CASE UNCHANGED vars
  <2>1. UNCHANGED <<aesActive, rbuf, rpos, drbg, call, served>>
    BY <1>9 DEF vars, platform, globals, history
  <2> QED
    BY <2>1, HeldLess DEF CInv, Held, Unserved
<1> QED
  BY <1>1, <1>2, <1>3, <1>4, <1>5, <1>6, <1>7, <1>8, <1>9 DEF Next

(* What two copies of a process can both hand out, after a snapshot or a   *)
(* fork without the handler, in any family of processes, is less than a    *)
(* buffer without AES, and with it less than a seed's output and a buffer. *)
THEOREM OverlapBounded == Spec => []CloneOverlap
<1>1. IInv /\ CInv => CloneOverlap
  <2> SUFFICES ASSUME IInv, CInv, NEW p \in Procs, NEW q \in Procs, p # q
               PROVE  Overlap(p, q) < IF aesActive THEN Reseed + 2 * Size ELSE Size
    BY DEF CloneOverlap
  <2>1. PICK seed, old : Parted(p, q, seed, old)
    BY DEF CInv
  <2> DEFINE both == served[p] \cap served[q]
  <2>2. Size \in Nat /\ Reseed \in Nat
    BY CsprngAssumption
  <2>3. both \subseteq Held(p) \cap Held(q)
    BY DEF Held
  <2> HIDE DEF both
  <2>4. CASE aesActive
    <3>1. both \subseteq old \cup Under(p, seed)
      BY <2>1, <2>3 DEF Parted, Under
    <3>2. /\ IsFiniteSet(old) /\ Cardinality(old) < Size
          /\ IsFiniteSet(Under(p, seed)) /\ Cardinality(Under(p, seed)) < Reseed + Size
      BY <2>1, <2>4 DEF Parted, CInv, SharesCounted
    <3>3. /\ Cardinality(both) <= Cardinality(old) + Cardinality(Under(p, seed))
          /\ Cardinality(both) \in Nat /\ Cardinality(old) \in Nat
          /\ Cardinality(Under(p, seed)) \in Nat
      BY <3>1, <3>2, PartOfTwo
    <3>4. Cardinality(both) < Reseed + 2 * Size
      BY <2>2, <3>2, <3>3
    <3> QED
      BY <2>4, <3>4 DEF Overlap, both
  <2>5. CASE ~aesActive
    <3>1. both \in SUBSET old /\ IsFiniteSet(old) /\ Cardinality(old) < Size
      BY <2>1, <2>3, <2>5 DEF Parted
    <3>2. /\ Cardinality(both) <= Cardinality(old) /\ Cardinality(old) \in Nat
          /\ Cardinality(both) \in Nat
      BY <3>1, FS_Subset, FS_CardinalityType
    <3>3. Cardinality(both) < Size
      BY <2>2, <3>1, <3>2
    <3> QED
      BY <2>5, <3>3 DEF Overlap, both
  <2> QED
    BY <2>4, <2>5
<1> QED
  BY <1>1, PlacesHold, InitCInv, NextCInv, PTL DEF Spec
=============================================================================
