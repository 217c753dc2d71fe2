# fast_uuid: a verification project

fast_uuid is a PHP extension in C (`src/fast_uuid.c`) that generates, parses and
formats UUIDs of versions 1 to 8, and a PHP layer (`src/compat/src`) with the interface of
ramsey/uuid on top of it. This directory holds TLA+ models of the parts whose correctness
depends on state and on the order of steps, TLC configurations that check them on small
instances, and TLAPS proofs for every value of their constants. Line numbers are those of
`src/fast_uuid.c` unless another file is named; `PROJECT.json` maps every definition to the
lines it stands for.

## The system

### Components, their state and their operations

| component | state | operations | what must hold |
|---|---|---|---|
| live v7 generator | `v7_key`, `v7_randb`, `v7_initialized` | `fu_gen_v7`, `fu_gen_v7_batch_n`, through them `fu_v7_start`, `fu_v7_increment` | stamps of one thread strictly increase, whatever the clock does; a batch is n single calls in one tick; the time runs ahead only by carries |
| Gregorian clock | `greg_last` (v1 and v6), `v2_last` | `fu_gen_v1_ex`, `fu_gen_v6_ex`, `fu_gen_v2` | timestamps of v1 and v6 strictly increase together; v2 on its visible part when node and clock sequence are supplied; exhaustion is final |
| random layer | `rbuf`, `rpos`, `drbg_key`, `drbg_ctr`, `drbg_since_seed`, `prng_s` | `fu_rand`, `fu_rand_fill`, `fu_drbg_fill`, `random_bytes`, `fu_gen_v4_fast`, `fu_atfork_child` | no byte twice in a process, none shared across `fork()`, old output not computable from the live key, a bound on what clones share |
| AES-CTR | none: key and counter are passed in | `fu_aes_ctr` on x86 and ARM, self-test | no counter used twice in a pass, key blocks last, partial blocks cut right |
| explicit times | none | `fu_gen_v7_at`, `uuid7` with an argument, `fromDateTime`, `fu_decode_time` | exact bounds of 48 and 60 bits, decoding inverts encoding |
| Uuid object | 16 bytes, cached string | `fu_str`, `fu_clone`, `__unserialize`, `equals`, `compareTo` | the cached string is the string of the bytes |
| parser, formatters | none | `fu_parse`, `fu_format36`, `fu_hex32` | parsing inverts formatting and accepts nothing else |
| argument resolution | none | `fu_resolve_uuid`, `fu_node_arg`, `fu_clockseq_arg`, local identifiers | user methods called in between do not change what is compared; they are called only when they may help |
| name-based versions, integers | none | `fu_gen_v3`, `fu_gen_v5`, `fu_gen_v8`, `fu_to_decimal`, `fu_from_decimal` | nothing wraps or is cut to fit |
| procedural functions | the engine's table of frameless handlers | `FU_FN_*`, `fu_flf_*` | a cached slot number reaches this module's handler or none; a call answers for the arguments it was given |
| compat factory | three providers, three flags, codec | `uuid1` ... `uuid8`, setters, lazy getters | defaults stay on the extension's path |
| compat wrappers | core handle, codec | constructor, `unserialize`, `fromUuidV1` | class, core and codec agree, also after a failed restore |

### How they interact

Every generator draws from the random layer, through `fu_rand` (v1, v2, v6 defaults, v4, v7
single), through `uuid_v4_fast`'s own xoshiro state (seeded from it once), or past the buffer
(`random_bytes` above half of it, and anything larger). The generators share nothing else with
each other, except v1 and v6, which share one mark. All state is in the module globals, one
copy per thread under ZTS. `fork()` copies them and the handler registered in MINIT
discards them in the child; a restored machine snapshot copies them and nothing is called. A
generator moves its mark either after all that can fail (v7) or before (v1, v6, v2), and a v7
batch keeps its state in locals until its end.

### What is hard here

The program is sequential inside a thread, so its hazards are not data races: they are long
call sequences against a clock that stalls, jumps back or runs to the end of a field; draws and
system calls that fail between two writes; batches that commit after the fact; state that
outlives a `fork()` or a snapshot; counters at their last value; and values that are stale by
the time they are used. `PROJECT.json` lists each at its line with the properties that would
catch it. User code is the other actor: what a conversion or a comparison calls may change every
variable, object and argument before it returns.

## Modules

| module | models | proofs |
|---|---|---|
| `MonotonicSource` | the abstract promise of a live time-based generator: one stamp at a time, each after all before it | |
| `V7Counter` | the arithmetic of the v7 stamp: time key, random step, carry, start | |
| `V7Monotonic` | the generator of one thread: single calls and the batch loop | `V7Proofs` |
| `GregorianClock` | v1, v6 and v2 of one thread | `GregorianProofs` |
| `Csprng` | the random layer of several processes | `CsprngProofs` |
| `AesContract` | what `Csprng` takes for granted of one `fu_aes_ctr` call | |
| `AesCtr` | the block loops of `fu_aes_ctr`, x86 and ARM | `AesProofs` |
| `AesSelftest` | the known-answer test of MINIT, run over `AesCtr` | in `AesProofs` |
| `UuidText` | bytes, texts and answers of comparisons, shared by the next two | |
| `UuidPlain` | the abstract promise of a Uuid object: it is its bytes | |
| `UuidObject` | bytes, cached string, reference counts, comparisons that call user code | `UuidProofs` |
| `MCUuidObject` | `UuidObject` with the texts user code writes, and its symmetry | |
| `FlfTable` | the table of frameless handlers of several processes, `dl()` and the file cache | in `CallProofs` |
| `UuidSpelling` | how UUIDs, integers, nodes and local identifiers are written and read: pure operators | in `CallProofs` |
| `ReturnTypes` | which accessors of a foreign object are called, by their declared types: pure operators | in `CallProofs` |
| `CallArguments` | functions, frameless handlers and methods that take strings, and the user code that makes them | `CallProofs` |
| `MCCallArguments` | `CallArguments` with UUIDs of two bytes, and its symmetry | |
| `MCFlfTable` | `FlfTable` with two other extensions, and its symmetry | |
| `ExplicitTime` | UUIDs for a time the caller gives, in C and in the compat layer, and the time read back | `TimeProofs` |
| `MCExplicitTime` | `ExplicitTime` with every time around and between the bounds | |
| `CodecBytes` | a UUID's bytes in the compat layer: class, codec orders, stamping, the cut between v1 and v6 | in `CompatProofs` |
| `CompatWrapper` | wrappers, the current factory, its codec and generators, restores that call user code | `CompatProofs` |
| `MCCompatWrapper` | `CompatWrapper` with two UUIDs a wrong codec tells apart, and its symmetry | |

`V7Monotonic` and `GregorianClock` both implement `MonotonicSource` (by `INSTANCE ... WITH`),
`AesCtr` implements `AesContract`, and `UuidObject` implements `UuidPlain`.

### V7Monotonic

A *stamp* is what a live v7 carries besides version and variant: the 60-bit time key
(milliseconds and sub-millisecond) and the 62-bit `rand_b`. `fu_lay_v7` writes both most
significant bit first, so the byte order of UUIDs is the lexicographic order of stamps,
`Before`. `GenV7` is `fu_gen_v7`; `StartFails` is every way it, or a batch before its first
UUID, can fail. The batch is `BatchStart`, then one `BatchNext` per turn of the loop, then
`BatchDone` or `BatchBreaks`, which both store the locals in the globals: the draws may fail
in between, but no other call of the thread can run. `batch` holds the loop's locals. `issued`,
`clockTop` and `ties` are history and guard nothing, except that `Len(issued) < MaxIssued`
bounds the model.

### GregorianClock

`Visible(g)` is what v2 leaves of a timestamp once the local identifier has overwritten its low
32 bits. `GenTimeBased` is v1 or v6, which differ only in where they put the same timestamp;
`GenTimeBasedNoRandom` is the same call when the draw for a defaulted node or clock sequence
fails, after the mark has moved. `GenV2Monotonic` is `uuid2` with node and clock sequence
supplied, `GenV2Default` all other v2 calls. `given` in a v2 record is the whole clock sequence
it was laid out with, of which the UUID shows the upper part.

### Csprng

A byte is named by its origin: the OS reading it is derived from, the numbers of blocks of
the generate calls made under that reading so far, and its offset in the current call. Key
and counter of the generator are a function of the first two, so equal names are equal bytes;
that different names are unrelated bytes is the cryptographic assumption about AES-256-CTR and
the OS that the model does not examine. A fill is a `call` record that `Chunk` (or `OsFill`
without hardware AES) serves and `Finish` delivers, so a failed system call can fall between
two chunks. `Fork` runs `AtForkChild` when the handler could be registered in MINIT and
copies the globals otherwise; `CloneMachine`, the restoring of a snapshot a second time, is
outside the program and always copies. `Asks` are the requests of callers, of `fu_xs_next` for its
own seed, and of `fu_v7_start`: fresh bytes for `rand_b`, or the step of a tie, which adds to what
`v7` was drawn from. Whether the clock has moved on is `V7Monotonic`'s business; here it may or may
not have, since what matters across a fork is which draw a UUID counts up from. Snapshots are taken
between calls, and the guest kernel is assumed to reseed its own generator when it resumes.

### AesCtr and AesSelftest

A block is named by the counter that is encrypted, a byte by its block and its place in it, and
a key by the two blocks it is made of. `WidePass` is a turn of the eight-wide loop, `PairPass` a
turn of the second loop that writes, `Rekey` the turn that finds nothing left and stores key and
counter. The model is one call; `AesContract` is the same call in one step. `AesSelftest` runs
`AesCtr` through the cases of `fu_aes_selftest` with the sizes of the code, and keeps in `lanes`
and `covered` which part of the loop made the blocks that a case compares. Its last check, a
second vector under a key of its own, repeats the case `{16, 0}` and is left out.

### UuidObject

`bytes` and `str` are the two fields of `fu_obj`; a string is a place of the heap with its text
(`chars`) and reference count (`refs`), and `handle` is what each variable of user code holds.
`FuStr` is `fu_str` and the methods that return it; `Create` is every way to a new object. The
engine's half is external: `Copy`, `Drop`, and `Write`, which changes a string in place when its
count is one and separates it otherwise; that rule is what makes an inexact count visible.

`equals` and `compareTo` with a foreign argument call user methods. Each such comparison is an
entry of `calls`, and `phase` says what it waits for: `"core"` (`getCore()` runs), `"string"`
(`__toString()` runs), `"release"` (the returned core is given back, and its destructor, which is
user code, may run). While one waits, every other action may happen, on its own object too, and so
may another comparison. Whether a foreign class has a usable `getCore()` or a `__toString()` is a
nondeterministic choice. What `UuidPlain` promises is that this object's bytes are those it has when
the comparison returns; the argument's are those it had when `getCore()` returned.

### FlfTable

A handler is where its module is mapped and its place in it; `table` holds, slot by slot, the
handler and the function that `zend_flf_handlers` and `zend_flf_functions` hold. `Start` is a new
process, with the extensions of its php.ini `pending`: each registers in its turn (`Registers`), and
only then do the MINITs run (`Minit`, `started`), of which fast_uuid's is `fu_flf_key_system_id`
(`Key`, stored in `id`). `Dl` registers at once and MINIT runs
`fu_flf_disable_for_dl` (`Blanked`, and the functions are no longer frameless); `RequestEnds`
unmaps what was loaded so and leaves the table. `FirstSlot` is `fu_flf_first_slot`, with its tail
looked at first. `cache` is the file cache: an opcode carries the `id` of the process that compiled
it, and a process loads those with its own. External are the engine's registration (`Register`), the
compiler's search for the first slot with a function's handler (`Slot`), the unmapping and the
cache. Other extensions in the model may have a run as long as fast_uuid's, may be loaded by `dl()`
too, and do not clean up after themselves.

### ExplicitTime

A behaviour is one call with its argument (`asked`), the UUID's time fields it makes, any number of
conversions between v1 and v6 by the compat layer, and what the two accessors say. `V7AtMs`,
`V7AtDateTime` and `FromDateTime` are the extension's three paths, `CompatInt`, `CompatBuiltIn` and
`CompatOther` those of `v7TimestampBytes`; `DigitLimbs` is the long division of a string of digits,
`Products` the multiplication in limbs. `intMax` is the largest int of the build. A draw that fails,
and a custom generator that returns other than ten bytes, is `Failed`. A time object that overrides
its methods is asked for its seconds and then for its microseconds, and may answer the second
question for another instant, or with what is no six digits (`Malformed`); every pair is tried.
`DateTimes` is `fu_make_datetime`, which asks ext/date for an object, compares what it built and
otherwise takes the way through a string; that ext/date may keep another instant (`Saturated`) is
external. The way through a string is `createFromFormat`, whose answer the code does not compare, and
neither does the model.

### UuidSpelling, ReturnTypes and CallArguments

A text is a sequence of symbols: a digit is its value, as in `fu_nib_lut`, and hyphen, braces, the
prefix `urn:uuid:` and any other character are symbols of their own. `Parse` is `fu_parse`,
`Format36` is `fu_format36`, `ToDecimal` and `FromDecimal` are the two conversions, and the
`...Of...` operators are the readers of a node, a clock sequence and a local identifier. The
parsers are compared with definitions that do not parse: a text is accepted for a UUID only if it
*is* that UUID formatted and wrapped (`Spells`), a numeral only for its `Number`. The comment at
line 221 says wrappers may be composed up to depth 2. Each of the two passes takes off a prefix and
a pair of braces, so some of depth 3 and 4 pass as well; `ParsesExactly` says both halves of this:
every text with at most two wrappers is read, and what is read has at most four, each closed. How
many digits there are and where the hyphens stand are constants (`Digits`, `HyphenPlaces`).

`ReturnTypes` is `fu_type_may_return` over declared types, which are unions of built-in types and
intersections of names, for any table of classes (`Supers`) and what a name stands for in the class of
the accessor (`Lookup`: `self` and `parent`, a class, or nothing that is loaded). All it takes for
granted is that Uuid is final and that its own name is known. `Accepts` is the engine's check of what a
function of a declared type returns, and external. That user code loads a class or an alias between
the two checks is left out: what a Uuid is an instance of is loaded with it.

In `CallArguments` the foreign objects (`Objects`) differ by their `getCore()` and by the class of what
it returns, which the engine must accept (`ObjectsAssumption`). `ResolveObject` decides whether to ask,
`CoreReturned` and `CoreUseless` are the two answers, and `object` keeps, as history, what was resolved.
`CoreIsIdentity` is about both mistakes a wrong decision could make: to run an accessor in vain, which
is user code that may throw or change every variable, and to take the text an object presents for its
identity although its core could be had.

In `CallArguments` a variable holds a zval, and strings live on a heap with their text and
reference count, as in `UuidObject`. `Enter` is a call with a frame, or a frameless handler that
pins its arguments because one is no string (`Pins`); `Direct` is a frameless handler with strings
only, which borrows them and runs no user code. Then each argument is coerced in turn: `ConvertsUuid`
without user code, `CallsUser` with it (a `__toString()`, or the error handler on the deprecation of
null), `TypeError` for the rest. A method's namespace stays an object until the name is a string and
is then resolved by `fu_resolve_uuid` (`ResolveUuid`, `ResolveObject`, `CoreReturned`,
`TextReturned`). While the call waits, `UserCode` may assign, drop or write in place any variable.
`asked`, `given` and `answer` are history. `Finish` reads the heap at the end and `AnswersGiven`
compares with what was there when the call was made or user code returned. One call is in progress
at a time; what a nested call could do to the variables is among what `UserCode` does.

### CompatWrapper

`objects` are the wrappers: class, `core` (the bytes of the handle) and `codec`, where `"string"`
stands for the null that a wrapper has under the plain codec. `factory` is the one `Uuid::$factory`
points to, of a kind: the class itself, a `"subclass"` whose `getCodec()` is user code, or a
`"foreign"` implementation that has none. Each provider has two marks, what is there (`provider`)
and whether the factory believes it to be custom (`custom`), because the lazy getters and the
setters write them separately. `Generate` takes the extension's UUID or stamps what a custom
generator returned (`Laid`); a class that refuses it is `misfit`.

`Restore` is `unserialize()` into a new object or called on a live one. With a subclass it is
`RestoreAsks`, then `RestoreEnds` or `RestoreFails`: until `getCodec()` answers, user code runs,
which may do everything else, on the same wrapper too, and the restore is an entry of `waiting`.
`Show` and `Read` are the codec's encoding and decoding; text is the bytes it spells. `meant` and
what `stored` and `shown` say of their UUID are history. Left out: `Guid`, whose order of fields is
its own, other implementations of `UuidInterface`, node providers and the checks of arguments.

## Runs

| run | configuration | question | result |
|---|---|---|---|
| `v7_monotonic` | `V7Monotonic.cfg` | do stamps stay unique, ordered and near the clock, and is the end of the field reached no sooner than it must? | holds, 479,505 states |
| `gregorian` | `Gregorian.cfg` | the same for v1 and v6 and for supplied v2 calls among defaulted ones; is exhaustion final? | holds, 1,266,653 states |
| `greg_v2_default` | `GregorianV2Default.cfg` | do defaulted v2 calls never repeat, as the README says? | violated |
| `csprng` | `Csprng.cfg` | bytes unique in a process, bytes and bases of v7 across `fork()`, key erasure; what can two copies both hand out? | holds, 3,864,787 states |
| `csprng_overlap` | `CsprngOverlap.cfg` | is that bound the reseed interval, as SECURITY.md says? | violated |
| `aes_ctr` | `AesCtr.cfg` | do the loops write one keystream, cut right, and key blocks of their own, and end? | holds, 332 states |
| `aes_selftest` | `AesSelftest.cfg` | does the self-test end by accepting the right loop, and look at every part of it? | holds, 144 states |
| `uuid_object` | `UuidObject.cfg` | exact counts, a cache that is always right, no way to tell either is there, also when comparisons run inside the callbacks of another | holds, 246,852 states |
| `flf_table` | `FlfTable.cfg` | does every cached opcode reach its function, and is no slot of an unloaded copy bound? | holds, 23,458 states |
| `explicit_time` | `ExplicitTime.cfg` | exact bounds, malformed answers, the time read back, no overflow on the way, order kept | holds, 270,829 states |
| `call_arguments` | `CallArguments.cfg` | does a call answer for what it was given, is every string counted, is exactly what should be read read, and is a foreign object known by its core? | holds, 336,319 states |
| `compat` | `CompatWrapper.cfg` | do class, UUID and codec of a wrapper stay right while factories, codecs and generators change, also inside a restore? | holds, 1,015,105 states |

### Bounds, and why they are enough

* v7: milliseconds of 3 ns with two sub-millisecond slots, a key of 0..4, a `rand_b` of 0..3
  and steps of 1..2. Ties, carries, a carry into the last key, exhaustion and a batch that meets
  each of them all occur within the five stamps of a behaviour; the readings reach key 3, so a
  carry can outrun the clock. The sizes enter the code only by comparison and carry, and the
  theorems hold for every size.
* Gregorian: readings 2..4 (the epoch offset keeps them above the mark's initial 0), timestamps
  up to 6, two timestamps per visible unit, hence four visible values: from the last reading two
  stalled calls exhaust either field, and two supplied v2 calls have a defaulted one between them.
* Csprng: a buffer of 4 bytes of two blocks, a reseed every 8 bytes, requests that fit, that do
  not fit, that go past the buffer from below (3: more than half) and from above (10: several
  chunks), two processes, five calls. A reseed needs three chunks, so both the reseed and the
  chunk that passes the limit occur, also in two copies of one process. A v7 draws two bytes for a
  start and one for a step, so that starts, ties and other requests share the buffer, and a step still
  fits it after a refill for a longer request failed and overwrote a part. The run against SECURITY.md
  leaves v7 out.
* AesCtr: blocks of two bytes, three to a wide pass, every length from none to three wide passes
  and a byte, so that each loop is entered 0, 1 and several times and the last block is whole
  and cut; starts that wrap the lane inside the output and inside the key. AesSelftest has the
  code's sizes.
* UuidObject: two objects (one compared with the other, or a clone of it), two variables and three
  strings, so that every pattern of sharing occurs except four different strings at once; two
  values, and one text written that is not canonical for what it holds. An argument no UUID can be
  had from is one whose class has no string (`NotStringable`), which is answered as a text that does
  not parse is. A comparison may run inside a callback of another. Objects, variables and strings
  are sets whose members the model never names, which is what makes the symmetry sound.
* CallArguments: UUIDs of two bytes in base 3, four digits with one hyphen, and numerals in base 2,
  so that every text of up to six symbols can be tried with the parser and every numeral of up to
  eight digits with the conversions; longer texts are a UUID between all runs of up to five openings
  and three closings. Carries out of the first byte, the last value of each range and the one after
  it occur. Two variables, which may be one argument twice or share a string, and as many strings
  as two variables and two arguments can hold; names of up to six symbols, which one of the texts
  passes by wrapping. Readers that look at no variable are tried with literals from the initial
  state only. Twelve objects: `getCore()` missing, static, with a parameter, undeclared, of type
  `object`, of one of the interfaces of Uuid or of two at once, of a union in which a Uuid is allowed but
  not returned, and of an intersection, a class or a name that no Uuid is of.
* FlfTable: three addresses, so that what is loaded after an unload often lands where something
  else was; two builds of fast_uuid with two handlers, one extension with as many and one with
  fewer; seven slots, which is three or four loads; two opcodes in the cache, one of which can have
  been compiled by an earlier process. Addresses are a set whose members are never named.
* ExplicitTime: three milliseconds to the second, four microseconds to the millisecond, five slots
  of `rand_a` (more than microseconds, as 4096 is more than 1000), limbs of 10, so 333 seconds and
  one millisecond fit the v7 field and the last second does so in part, as in the code; 256 ticks
  in three fields; ints of 49 and 1100. Every second and millisecond from below the range to above
  it is tried. `TimeAssumption` is what the code's own constants satisfy and the results need; with
  them it reads 200,000,000,000 * 10^7 + 10^7 + 122,192,928,000,000,000 < 2^63, and so on.
* CompatWrapper: two wrappers, so that one is restored or made while another waits; one payload,
  text or byte string kept, since they do not influence each other; a restore inside a restore. Of
  the two UUIDs one is a v1 that remains one when a GUID codec swaps its bytes or the ordered codec
  moves them twice, so that a mistaken codec goes unnoticed by the class, and one a v4 for which
  neither holds. Versions 2, 4 and 6 are the three ways to stamp: 1 is the first half of 6, and 7 is
  stamped as 4 is. The custom generator's bytes say neither the right version nor the right variant.

`CHECK_DEADLOCK FALSE` in the Csprng configurations: callers may simply stop asking, and the
bound on calls makes every behaviour end. The two AES models and ExplicitTime are one call, which
returns.

### Fairness

`AesCtr` and `AesSelftest` assume weak fairness of their next step: the block loops, and the
self-test in MINIT, are run by the thread that called them, take no lock and wait for nothing.
Under it `Returns` (a call of every length ends) and `AcceptsRight` (the self-test comes to a
verdict, and it is acceptance) hold. Without fairness both would fail, but only because a run may then stop anywhere.
No other module assumes fairness: nothing in the code obliges a caller to come back, user code in
a callback may never return, and the operating system may never answer.

## Proofs

The theorems hold for every value of the constants that satisfies the named assumptions of the
modules: positive sizes, a step no larger than `rand_b`'s range, clock readings that fit their
field, a chunk that does not wrap the AES counter, for the explicit times, that a limb holds
the milliseconds of a second and that a build's ints are naturals, and, for the accessors of foreign
objects, that Uuid is final and the engine checks what they return. They are of the form
`Spec => []Inv`, `Spec => [][A]_vars` or `Spec => AbstractSpec`, except that three theorems of
`TimeProofs` and those about the self-test in `AesProofs` have the hypothesis named there, and that
`ParserExact` and `SpellingsRead` are about operators.

* `V7Proofs`. The inductive invariant `IInv` adds to the properties that the stamp in use
  (`Current`: the batch's locals while it runs, else the globals) is the last one issued, and
  that nothing is marked initialized before the first. Monotonicity follows since every stamp
  is `Advance` of the current one or has a later key; the lemmas on `Advance` (successor in
  `Before`, range, distance) are stated once. `DriftBound` goes through the linear position
  `key * (RandMax + 1) + randb`, in which a step moves by at most `MaxStep`. `LateExhaustion` is what
  it leaves of `ExhaustedHonest` once the mark's own position is eliminated: as many ties as were
  taken, and one more, must at their largest pass all stamps left above the clock.
* `GregorianProofs`. `IInv` adds that each mark covers its log (`GregCovered`, `V2Covered`):
  strictly increasing logs alone say nothing of the next timestamp. `Visible` is monotone, which
  carries `MarksWithinTies` over to v2. `ExhaustionIsFinal` is an action property from the same
  invariant: at the end of its field a mark is exhausted for every reading.
* `CsprngProofs`, in five layers, each an invariant of its own that uses the ones before.
  - `IInv` types every record and says that the part of the buffer beyond `rpos` was drawn, so a
    zeroed byte is never served.
  - `KInv`, for `KeyErased`: what is served, buffered beyond `rpos` or generated for a call is
    *past* its process's key, under a reading that has been issued and, if it is the current one,
    before the current generate call. `KeyErased` alone is not inductive, because bytes already
    generated wait in the buffer and in a call, and a fork copies them.
  - `OInv`, for `ServedOnce`: in each process the bytes served, those waiting in the buffer and
    those gathered for a call are pairwise disjoint and without repetition, and `count` is the
    number of the first. `KInv` is what makes newly generated bytes new to all three.
  - `FInv`, for `ForkSeparates`: while the handler runs at every fork and nobody was cloned, every
    byte and key a process holds, and each v7 it counts up from, comes of readings it made itself
    (`OwnedBy`); the handler empties a child's state, so a child owns what it starts with.
  - `CInv`, for `CloneOverlap`: any two processes have a seed and a set `old` of fewer than `Size`
    bytes such that what both hold is in `old` or under that seed, a later seed of the one is held
    by nobody else, and under one seed a process holds less than the interval and a chunk. The
    interval and two chunks is the sum. It covers processes copied by a snapshot and by a fork
    whose handler could not be registered, in any order and number.
* `AesProofs`. `IInv` says that the output is the contract's stream up to `pos`, that `pos` is a
  whole number of blocks until the last pair cuts one, and that the counter is that many
  blocks, rounded up, from the start. The steps are arithmetic of `\div` and `%`, whose facts for
  a divisor that is a variable come first, as they do in `TimeProofs`. `OutSize + 2 < Lane` (a
  chunk is 514 blocks, the lane counts 2^64) is what makes the key blocks differ from the output's.
  For the self-test, `SelftestInv` adds that the wide loop stays on multiples of 128 bytes and the
  other on pairs, so that number and length of a block tell which part of the loop makes it
  (`LaneOf`), and that `covered` is what the cases so far looked at. Then a case that ends always
  passes (`RightPasses`), which is the safety half of `AcceptsRight`, and `CoversEveryLane` is a
  matter of the nineteen cases. The hypothesis `CodeSizes` says that blocks and passes have the
  sizes the cases are written for, that memory is longer than the longest, and that vectors are
  counters; the configuration of `aes_selftest` is one such choice.
* `UuidProofs`. `IInv` adds to exact counts and a right cache that a string somebody holds has a
  text (`LiveHasText`). Exactness is used through two lemmas: a string with count zero has no owner,
  so allocating it disturbs nobody, and one with count one has no other owner, so writing it in
  place is seen by nobody else and is never a cached string. `Implements` maps every action to the
  one of the same name, and `CoreUseless` to a stutter.
* `CallProofs`. `IInv` says for each step of a call which arguments have been read, converted and
  pinned (`WorkOK`, `StepOK`), that the count of a string is the number of variables, argument
  slots and pins that name it (`CountsOK`), and that the text of an argument still is the one it
  was given with or was left with (`TextsOK`). The last is the point: an argument that user code
  may still reach is pinned, hence counted at least twice, hence nobody writes it in place
  (`.=` separates it). `ObjectOK` does the same for the object that is
  resolved: once looked at, its text is asked for only if it gives no core, and what is known of it is
  the core it gave. `CoreIsIdentity` follows for any table of classes, any types and any objects; that
  the decision is the engine's, name by name, is the lemma `TypesDecided`, which needs that Uuid is
  final: of a class derived from it the code would say yes and the engine no.

  The parser is proved for any number of digits, any places of hyphens and texts of any length.
  A pass takes at most two wrappers off (`PassTakes`), two passes take any two (`PassesTakeTwo`); what is
  left is a form of a UUID exactly if it has the length and the hyphens of one, because every digit
  has exactly one place (`RankOnto`), and two UUIDs with the same digits are equal (`DigitsDetermine`).
  `ParserExact` has both directions, `SpellingsRead` is the way back from a text to its UUID, and
  `ParserReadsExactly` carries them to the answers of the run: a literal's answer is what the parser
  says of it (`LiteralOK`).

  The slot table is the invariant `FlfInv`. Nothing in the table says which module a slot is of, only
  an address that may be used again, so `FlfInv` keeps what the code relies on: a module's slots
  hold its handlers (`HeldOK`), a handler of a persistent module is in no slot but its own
  (`OnlyOK`), until the MINITs every slot has its module (`AllOwned`), and the slots a
  `dl()`-loaded copy left are data (`LeftOK`). `IdOK` says where `id` counts from, and `CacheOK`
  the same of every opcode ever compiled, by whatever process: one that carries `id` names a slot
  counted from the same place, in the same build. The lemmas about `FirstSlot` are that after a
  registration it finds the run just appended, whatever equal handlers stand before it
  (`TailFirst`), and at the MINITs the only run there is (`RunFound`).
* `TimeProofs`. `RInv` keeps what was asked and the range of what came of it, `TInv` adds that the
  fields are *the* fields of the time asked. `RangeExact` and `TimesSort` need nothing more. The compat layer
  computes the 60-bit timestamp in limbs; that the sum of its partial products and carries is the
  product (`PackExact`) and that each stays within an int of the build is proved for limbs of any
  size that hold a second's milliseconds. `TimeReadBack`, `FieldsFit` and `ProductsInWords` have the
  hypothesis `DivisionExact`: that the long divisions of a string of decimal digits give the limbs
  they stand for. Each is a fold over the string, so this is induction over data;
  `MCExplicitTime` has TLC evaluate it for its spans of seconds. It is about constants alone.
* `CompatProofs`. A codec's order is undone by its way back, for any bytes (`Undoes`, `CodecReads`);
  sixteen bytes stamped with a version, or cut and joined between v1 and v6, are of the class of
  that version (`StampIs`, `V6Is`, `V1Is`, over the hex digits). `IInv` says of every wrapper that
  it is `Right`, and extends that to what is not yet a wrapper: a restore that waits has a core
  matched with the class of its object (`WaitingOK`), a payload or text was written from the UUID
  it says (`StoredOK`, `ShownOK`), and the flag `custom` is the setters' doing (`FactoryOK`). With
  them the user code inside `getCodec()` may do any number of anything and every property holds.

Proved and in no run: the type invariants of `V7Monotonic`, `GregorianClock`, `Csprng`, `AesCtr` and
`UuidObject`, `NoZeroServed`, `MarkIsLast` (outside a batch the globals are the last stamp laid out),
`ExhaustedHonest` (the exception is thrown only within a step of the field's end), `BatchLikeSingles`
(in a batch the next turn can produce what a single call in the same tick could) and `SeedBudget` (a seed
serves less than the interval and a chunk).

Only model-checked: `NumbersExact` of `CallArguments`, which says what folds over digits and bytes
compute, and the liveness properties `Returns` and `AcceptsRight` (of the latter the safety half is
`RightNeverRefused`). Out of the prover's reach are liveness, `ENABLED`, and induction over the
input of a recursive function or a fold, so what `ToDecimal`, `FromDecimal`, `Number` and
`DigitLimbs` compute for every input.

## Disagreements found

* `greg_v2_default`: README.md:98 and the comment at line 911 say that a defaulted clock
  sequence is fresh per call, so that such calls never repeat. A v2 keeps only the upper 6 bits
  of the 14 drawn, because its low byte is overwritten with the local domain, and consults no
  mark: with a supplied node two calls within one visible unit (about 429 s) whose draws differ
  can still be equal.
* `csprng_overlap`: SECURITY.md:37 gives 64 KiB, the reseed interval, as the bound on what two
  clones repeat. The loop asks before a chunk and not after it, and a clone also holds the rest
  of the buffer: the bound that holds is the interval plus two chunks (`CloneOverlap`).

## Plan

Every component whose correctness depends on an order of steps is modelled, and every safety
property that a run checks is proved but one. What is left is `NumbersExact`: the conversions
between a UUID and its decimal numeral are folds over bytes and digits. A version of them with one
step per byte or digit, as actions, would make the induction they need a temporal one, as one
registration per step did for `FlfTable`.

## Not modelled

* MD5, SHA-1 and the rounds of AES: functions of their input, for which a name stands.
* `fu_hex32` with SSSE3 and NEON, which compute what the scalar form does; letter case, which the
  lookup tables have both ways.
* The loop that formats a v4 batch: it draws from `fu_rand` in chunks, as any caller does, and
  keeps no state.
* The read-only accessors other than those of time and integer, and `getUrn()`.
* The default of the local identifier, which is the user or group id of the process.
* The coercion of a single int argument, which runs user code before anything is read.
* CPU detection, class registration, INI and `phpinfo()`: one-time set-up or output.
* The compat layer's `Fields`, `Type` and `Validator` classes, which are immutable values computed
  from sixteen bytes or a text; `Guid` and foreign implementations of `UuidInterface`; node
  providers.
