------------------------------- MODULE Csprng -------------------------------
(***************************************************************************)
(* The random source under every generator: the buffer rbuf that fu_rand() *)
(* serves, the AES-256-CTR generator that refills it with one key per      *)
(* chunk and mixes in an OS seed by the byte, the direct fills that pass   *)
(* the buffer by, and the two states drawn bytes live on in: that of       *)
(* uuid_v4_fast()'s xoshiro, and the rand_b a tie of uuid_v7() counts up   *)
(* from.  Processes share nothing but the OS: fork() copies the module     *)
(* globals, and the child handler, if its registration succeeded at MINIT, *)
(* discards them.                                                          *)
(*                                                                         *)
(* A byte is named by where it comes from: the OS reading, the keystream   *)
(* blocks used by each generate call under it so far (key and counter are  *)
(* a function of those), and its offset in the call.  Equal names are      *)
(* equal bytes.                                                            *)
(***************************************************************************)
EXTENDS Integers, Sequences, FiniteSets, SequencesExt

CONSTANTS
  Procs,       (* process (thread) identities                               *)
  First,       (* the one that runs MINIT                                   *)
  Size,        (* sizeof rbuf, and the chunk of one key: 8192               *)
  Block,       (* the AES block: 16                                         *)
  Reseed,      (* FU_DRBG_RESEED_BYTES: 65536                               *)
  Requests,    (* lengths the generators and random_bytes() ask for         *)
  SeedLens,    (* what xoshiro draws to seed itself: {32}, or {} where      *)
               (* nobody calls uuid_v4_fast()                               *)
  StartLens,   (* what a fresh rand_b of uuid_v7() draws: {8}, or {}        *)
  StepLens,    (* what the step of a tie draws: {3}, or {}                  *)
  Detected,    (* what MINIT may find of hardware AES                       *)
  Registered,  (* how its pthread_atfork() may end                          *)
  Snapshots,   (* whether the machine may be cloned from a snapshot         *)
  MaxCalls     (* bound of the model: calls begun, over all processes       *)

ASSUME CsprngAssumption ==
  /\ First \in Procs
  /\ Size \in Nat \ {0} /\ Block \in Nat \ {0} /\ Reseed \in Nat \ {0}
  /\ Requests \subseteq Nat \ {0}
  /\ SeedLens \cup StartLens \cup StepLens \subseteq 1 .. Size
  /\ Detected \subseteq BOOLEAN /\ Registered \subseteq BOOLEAN
  /\ Snapshots \in BOOLEAN
  /\ MaxCalls \in Nat

VARIABLES
  aesActive,   \* fu_aes_state = FU_AES_ACTIVE, decided once in MINIT
  registered,  \* pthread_atfork() succeeded in MINIT
  seedings,    \* how often each process read the OS CSPRNG
  cloned,      \* a machine was restored twice from one snapshot
  alive,
  rbuf, rpos,  \* FAST_UUID_G, per process; rpos counts from 0
  drbg,        \* drbg_key and drbg_ctr as (seed, takes), seeded, since_seed
  prng,        \* prng_s as (the seed bytes, steps taken), prng_seeded
  v7,          \* the bytes v7_randb was drawn from; none if not v7_initialized
  call,        \* the fill in progress, if any: where to, and for whom
  calls,       \* calls begun
  served,      \* history: the bytes handed out, per process
  count,       \* history: how many were handed out
  fast,        \* history: the xoshiro states handed out from, per process
  bases        \* history: the draws its UUIDv7s count up from, per process

globals == <<rbuf, rpos, drbg, prng, v7>>
platform == <<aesActive, registered, cloned, alive>>
history == <<served, count, fast, bases>>
vars == <<platform, seedings, globals, call, calls, history>>

(* An OS reading is named by its reader; a zeroed byte is read from none.  *)
NoSeed == <<First, 0>>
Zero == <<NoSeed, << >>, 0>>
Idle == [to |-> "none", for |-> "caller", want |-> 0, left |-> 0, done |-> << >>]

(* GINIT: everything zero and the buffer spent, for a first-use refill.    *)
ZeroBuffer == [i \in 1 .. Size |-> Zero]
Unseeded == [seeded |-> FALSE, seed |-> NoSeed, takes |-> << >>, since |-> 0]
NoPrng == [seeded |-> FALSE, from |-> << >>, steps |-> 0]

Init ==
  /\ aesActive \in Detected
  /\ registered \in Registered
  /\ seedings = [p \in Procs |-> 0]
  /\ cloned = FALSE
  /\ alive = {First}
  /\ rbuf = [p \in Procs |-> ZeroBuffer]
  /\ rpos = [p \in Procs |-> Size]
  /\ drbg = [p \in Procs |-> Unseeded]
  /\ prng = [p \in Procs |-> NoPrng]
  /\ v7 = [p \in Procs |-> << >>]
  /\ call = [p \in Procs |-> Idle]
  /\ calls = 0
  /\ served = [p \in Procs |-> {}]
  /\ count = [p \in Procs |-> 0]
  /\ fast = [p \in Procs |-> {}]
  /\ bases = [p \in Procs |-> {}]

-----------------------------------------------------------------------------
(* fu_aes_ctr(): the keystream of one call, and the key that replaces it.  *)
(* Only whole blocks move the counter, so requests that differ within a    *)
(* block leave the same key behind.                                        *)
Blocks(take) == (take + Block - 1) \div Block
Generated(d, take) == [i \in 1 .. take |-> <<d.seed, d.takes, i>>]
(* Mutants: the key is not replaced; the output is not counted.            *)
KeyKept(d, take) == [d EXCEPT !.since = @ + take]
Uncounted(d, take) == [d EXCEPT !.takes = Append(@, Blocks(take))]

NextKey(d, take) ==
  [d EXCEPT !.takes = Append(@, Blocks(take)), !.since = @ + take]

(* The OS seed a process would read next.                                  *)
NextSeed(p) == <<p, seedings[p] + 1>>
ReadOs(p) == seedings' = [seedings EXCEPT ![p] = @ + 1]

NeedsSeed(d) == ~d.seeded \/ d.since >= Reseed
Reseeded(id) == [seeded |-> TRUE, seed |-> id, takes |-> << >>, since |-> 0]

Take(n) == IF n < Size THEN n ELSE Size

(* fu_rand() passes the buffer by above its size, and random_bytes() above *)
(* half of it.  No generator asks for that much.                           *)
Direct(n) == n > Size \/ (2 * n > Size /\ n < Size)

Fits(p, n) == rpos[p] + n <= Size

Begin(p) ==
  /\ p \in alive /\ call[p] = Idle
  /\ calls < MaxCalls
  /\ calls' = calls + 1

(* Who asks: a caller for one of the requests, fu_xs_next() for its own    *)
(* seed on the first uuid_v4_fast() that finds it missing, fu_v7_start()   *)
(* for a fresh rand_b when the clock has moved on, or for the step of a tie*)
(* when it has not (V7Monotonic has the clock; here it may be either).     *)
For(who, lens) == {[for |-> who, len |-> n] : n \in lens}
Asks(p) ==
  For("caller", Requests) \cup For("start", StartLens)
    \cup (IF prng[p].seeded THEN {} ELSE For("prng", SeedLens))
    \cup (IF v7[p] = << >> THEN {} ELSE For("step", StepLens))

(* fu_gen_v4_fast(): two outputs of xoshiro, each of a state of its own.   *)
FastUuid(p, from, steps) ==
  /\ prng' = [prng EXCEPT ![p] = [seeded |-> TRUE, from |-> from, steps |-> steps + 2]]
  /\ fast' = [fast EXCEPT ![p] = @ \cup {<<from, steps>>, <<from, steps + 1>>}]

(* A live UUIDv7 whose rand_b is these bytes, or counts up from them.      *)
V7Uuid(p, base) ==
  /\ v7' = [v7 EXCEPT ![p] = base]
  /\ bases' = [bases EXCEPT ![p] = @ \cup {base}]

(* The drawn bytes leave fu_rand(): to the caller, into prng_s, or into    *)
(* v7_randb, which a start replaces and a step adds to.                    *)
Deliver(p, for, bytes) ==
  /\ served' = [served EXCEPT ![p] = @ \cup ToSet(bytes)]
  /\ count' = [count EXCEPT ![p] = @ + Len(bytes)]
  /\ IF for = "prng" THEN FastUuid(p, bytes, 0) ELSE UNCHANGED <<prng, fast>>
  /\ CASE for = "start" -> V7Uuid(p, bytes)
       [] for = "step" -> V7Uuid(p, v7[p])
       [] OTHER -> UNCHANGED <<v7, bases>>

-----------------------------------------------------------------------------
(* Mutant: the position stays where it was.                                *)
ServeInPlace(p) ==
  /\ Begin(p)
  /\ \E ask \in Asks(p) :
       /\ ~Direct(ask.len) /\ Fits(p, ask.len)
       /\ Deliver(p, ask.for, SubSeq(rbuf[p], rpos[p] + 1, rpos[p] + ask.len))
  /\ UNCHANGED <<platform, seedings, rbuf, rpos, drbg, call>>

(* fu_rand() when the buffer holds enough: copy and move on.               *)
ServeBuffered(p) ==
  /\ Begin(p)
  /\ \E ask \in Asks(p) :
       /\ ~Direct(ask.len) /\ Fits(p, ask.len)
       /\ Deliver(p, ask.for, SubSeq(rbuf[p], rpos[p] + 1, rpos[p] + ask.len))
       /\ rpos' = [rpos EXCEPT ![p] = @ + ask.len]
  /\ UNCHANGED <<platform, seedings, rbuf, drbg, call>>

(* fu_rand() when it does not: the whole buffer is refilled first, and the *)
(* bytes it still held are dropped.                                        *)
BeginRefill(p) ==
  /\ Begin(p)
  /\ \E ask \in Asks(p) :
       /\ ~Direct(ask.len) /\ ~Fits(p, ask.len)
       /\ call' = [call EXCEPT ![p] =
            [to |-> "rbuf", for |-> ask.for, want |-> ask.len, left |-> Size, done |-> << >>]]
  /\ UNCHANGED <<platform, seedings, globals, history>>

(* fu_rand_fill() straight into the caller's memory; the buffer keeps what *)
(* it holds.                                                               *)
BeginDirect(p) ==
  /\ Begin(p)
  /\ \E n \in Requests :
       /\ Direct(n)
       /\ call' = [call EXCEPT ![p] =
            [to |-> "caller", for |-> "caller", want |-> n, left |-> n, done |-> << >>]]
  /\ UNCHANGED <<platform, seedings, globals, history>>

(* uuid_v4_fast() once seeded.                                             *)
GenV4Fast(p) ==
  /\ Begin(p)
  /\ prng[p].seeded
  /\ FastUuid(p, prng[p].from, prng[p].steps)
  /\ UNCHANGED <<platform, seedings, rbuf, rpos, drbg, v7, call, served, count, bases>>

-----------------------------------------------------------------------------
Filling(p) == call[p].left > 0

Filled(c, bytes) == [c EXCEPT !.left = @ - Len(bytes), !.done = @ \o bytes]
Fill(p, bytes) == call' = [call EXCEPT ![p] = Filled(@, bytes)]

(* fu_drbg_fill(): one turn of the loop, an OS seed first if it is due.    *)
Chunk(p) ==
  LET due == NeedsSeed(drbg[p])
      d == IF due THEN Reseeded(NextSeed(p)) ELSE drbg[p]
      take == Take(call[p].left)
  IN
  /\ aesActive /\ Filling(p)
  /\ IF due THEN ReadOs(p) ELSE UNCHANGED seedings
  /\ drbg' = [drbg EXCEPT ![p] = NextKey(d, take)]
  /\ Fill(p, Generated(d, take))
  /\ UNCHANGED <<platform, rbuf, rpos, prng, v7, calls, history>>

(* Without AES the fill is one php_random_bytes() call.                    *)
OsFill(p) ==
  /\ ~aesActive /\ Filling(p)
  /\ ReadOs(p)
  /\ Fill(p, Generated(Reseeded(NextSeed(p)), call[p].left))
  /\ UNCHANGED <<platform, globals, calls, history>>

(* The fill is complete: a refill is served from its start.                *)
Finish(p) ==
  /\ call[p] # Idle /\ ~Filling(p)
  /\ IF call[p].to = "rbuf"
       THEN /\ rbuf' = [rbuf EXCEPT ![p] = call[p].done]
            /\ rpos' = [rpos EXCEPT ![p] = call[p].want]
            /\ Deliver(p, call[p].for, SubSeq(call[p].done, 1, call[p].want))
       ELSE /\ Deliver(p, "caller", call[p].done)
            /\ UNCHANGED <<rbuf, rpos>>
  /\ call' = [call EXCEPT ![p] = Idle]
  /\ UNCHANGED <<platform, seedings, drbg, calls>>

(* The OS refuses a due seed: what was generated so far is discarded with  *)
(* the call (a refill is one chunk, so it has generated nothing).          *)
SeedFails(p) ==
  /\ aesActive /\ Filling(p)
  /\ NeedsSeed(drbg[p])
  /\ call' = [call EXCEPT ![p] = Idle]
  /\ UNCHANGED <<platform, seedings, globals, calls, history>>

(* Mutant: the position goes back before the refill, not after it.         *)
RewindsFirst(p) ==
  /\ ~aesActive /\ Filling(p)
  /\ ReadOs(p)
  /\ call[p].to = "rbuf"
  /\ rpos' = [rpos EXCEPT ![p] = 0]
  /\ call' = [call EXCEPT ![p] = Idle]
  /\ UNCHANGED <<platform, rbuf, drbg, prng, v7, calls, history>>

(* php_random_bytes() fails, perhaps after writing a prefix: a refill has  *)
(* then overwritten that much of the buffer, and rpos has not moved.       *)
OsFillFails(p) ==
  /\ ~aesActive /\ Filling(p)
  /\ ReadOs(p)
  /\ IF call[p].to = "rbuf"
       THEN \E k \in 0 .. Size :
              rbuf' = [rbuf EXCEPT ![p] =
                         Generated(Reseeded(NextSeed(p)), k) \o SubSeq(@, k + 1, Size)]
       ELSE UNCHANGED rbuf
  /\ call' = [call EXCEPT ![p] = Idle]
  /\ UNCHANGED <<platform, rpos, drbg, prng, v7, calls, history>>

-----------------------------------------------------------------------------
(* What a copied process finds: everything its origin had, unless the      *)
(* fork handler ran before it.                                             *)
Inherit(p, q) ==
  /\ rbuf' = [rbuf EXCEPT ![q] = rbuf[p]]
  /\ rpos' = [rpos EXCEPT ![q] = rpos[p]]
  /\ drbg' = [drbg EXCEPT ![q] = drbg[p]]
  /\ prng' = [prng EXCEPT ![q] = prng[p]]
  /\ v7' = [v7 EXCEPT ![q] = v7[p]]

(* Mutants of the handler: the position, the generator or the v7 state is  *)
(* forgotten.                                                              *)
WipeOnly(p, q) ==
  /\ rbuf' = [rbuf EXCEPT ![q] = ZeroBuffer]
  /\ rpos' = [rpos EXCEPT ![q] = rpos[p]]
  /\ drbg' = [drbg EXCEPT ![q] = Unseeded]
  /\ prng' = [prng EXCEPT ![q] = NoPrng]
  /\ v7' = [v7 EXCEPT ![q] = << >>]

KeepGenerator(p, q) ==
  /\ rbuf' = [rbuf EXCEPT ![q] = ZeroBuffer]
  /\ rpos' = [rpos EXCEPT ![q] = Size]
  /\ drbg' = [drbg EXCEPT ![q] = drbg[p]]
  /\ prng' = [prng EXCEPT ![q] = NoPrng]
  /\ v7' = [v7 EXCEPT ![q] = << >>]

KeepV7(p, q) ==
  /\ rbuf' = [rbuf EXCEPT ![q] = ZeroBuffer]
  /\ rpos' = [rpos EXCEPT ![q] = Size]
  /\ drbg' = [drbg EXCEPT ![q] = Unseeded]
  /\ prng' = [prng EXCEPT ![q] = NoPrng]
  /\ v7' = [v7 EXCEPT ![q] = v7[p]]

(* fu_atfork_child().                                                      *)
AtForkChild(p, q) ==
  /\ rbuf' = [rbuf EXCEPT ![q] = ZeroBuffer]
  /\ rpos' = [rpos EXCEPT ![q] = Size]
  /\ drbg' = [drbg EXCEPT ![q] = Unseeded]
  /\ prng' = [prng EXCEPT ![q] = NoPrng]
  /\ v7' = [v7 EXCEPT ![q] = << >>]

Copies(p, q) ==
  /\ p \in alive /\ q \in Procs \ alive
  /\ call[p] = Idle
  /\ alive' = alive \cup {q}
  /\ UNCHANGED <<aesActive, registered, seedings, call, calls, history>>

(* fork() from a PHP thread, which is never inside a fill.                 *)
Fork(p, q) ==
  /\ Copies(p, q)
  /\ IF registered THEN AtForkChild(p, q) ELSE Inherit(p, q)
  /\ UNCHANGED cloned

(* The machine is snapshotted between calls and restored a second time; no *)
(* handler runs.  The guest kernel reseeds, so later OS readings differ.   *)
CloneMachine(p, q) ==
  /\ Snapshots
  /\ Copies(p, q)
  /\ Inherit(p, q)
  /\ cloned' = TRUE

Next ==
  \E p \in Procs :
    \/ ServeBuffered(p) \/ BeginRefill(p) \/ BeginDirect(p) \/ GenV4Fast(p)
    \/ Chunk(p) \/ OsFill(p) \/ Finish(p) \/ SeedFails(p) \/ OsFillFails(p)
    \/ \E q \in Procs : Fork(p, q) \/ CloneMachine(p, q)

Spec == Init /\ [][Next]_vars

-----------------------------------------------------------------------------
(* Every variable has its type; a buffer is whole and its position is      *)
(* inside it, and a fill is never longer than what was asked for.          *)
TypeOK ==
  /\ aesActive \in BOOLEAN /\ registered \in BOOLEAN /\ cloned \in BOOLEAN
  /\ calls \in 0 .. MaxCalls
  /\ alive \subseteq Procs
  /\ \A p \in Procs :
       /\ Len(rbuf[p]) = Size
       /\ rpos[p] \in 0 .. Size
       /\ seedings[p] \in Nat
       /\ drbg[p].seeded \in BOOLEAN /\ drbg[p].seed \in Procs \X Nat
       /\ drbg[p].since \in Nat
       /\ prng[p].seeded \in BOOLEAN /\ prng[p].steps \in Nat
       /\ call[p].to \in {"none", "rbuf", "caller"}
       /\ call[p].left \in Nat

(* No random byte is handed out twice in a process: not across a refill,   *)
(* a direct fill, a reseed, a failed fill or the seeding of xoshiro.       *)
ServedOnce == \A p \in Procs : Cardinality(served[p]) = count[p]

(* No byte is handed out that was not generated: the zeroed buffer of a    *)
(* fresh thread or forked child, and of a failed fill, is never served.    *)
NoZeroServed == \A p \in Procs : Zero \notin served[p]

(* With the fork handler registered, a child and its parent hand out no    *)
(* byte and no uuid_v4_fast() state in common, and no UUIDv7 of one counts *)
(* up from a rand_b the other counts up from: a child that kept the mark   *)
(* would repeat its parent as soon as the two draw the same step.          *)
ForkSeparates ==
  registered /\ ~cloned =>
    \A p, q \in Procs : p # q =>
      /\ served[p] \cap served[q] = {}
      /\ fast[p] \cap fast[q] = {}
      /\ bases[p] \cap bases[q] = {}

(* Fast key erasure: the key and counter a process holds yield none of the *)
(* bytes it has already handed out.                                        *)
KeyErased ==
  \A p \in Procs : \A b \in served[p] :
    ~(b[1] = drbg[p].seed /\ IsPrefix(drbg[p].takes, b[2]))

(* The output under one OS seed passes FU_DRBG_RESEED_BYTES by less than   *)
(* one chunk, because the loop asks before each chunk and not after.       *)
SeedBudget == \A p \in Procs : drbg[p].since < Reseed + Size

Overlap(p, q) == Cardinality(served[p] \cap served[q])

(* What two copies of one process can both hand out (after a snapshot, or  *)
(* a fork whose handler is missing) is bounded: by one buffer without AES, *)
(* and with it by one seed's output and the buffer held from the last one. *)
CloneOverlap ==
  \A p, q \in Procs : p # q =>
    Overlap(p, q) < IF aesActive THEN Reseed + 2 * Size ELSE Size

(* SECURITY.md and the comment at FU_DRBG_CHUNK: the reseed interval       *)
(* itself is the bound on what two clones share.                           *)
OverlapWithinReseed == \A p, q \in Procs : p # q => Overlap(p, q) <= Reseed
=============================================================================
