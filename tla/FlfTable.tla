------------------------------ MODULE FlfTable ------------------------------
(***************************************************************************)
(* The engine (PHP 8.4 and later) calls a frameless function by the number *)
(* of its slot in a table of the process that only grows, and opcache      *)
(* keeps such numbers in files other processes read.  fast_uuid shares the *)
(* table with every other extension; when it is loaded by dl() its slots   *)
(* outlive it, and what is mapped later may have its old addresses.  MINIT *)
(* keys the files with its slots under a persistent load, and makes its    *)
(* slots unusable under dl().                                              *)
(***************************************************************************)
EXTENDS Integers, Sequences, SequencesExt, FiniteSetsExt

CONSTANTS
  Addresses,   (* where a module can be mapped                              *)
  Versions,    (* builds of fast_uuid                                       *)
  Sizes,       (* number of frameless handlers of each extension            *)
  Configs,     (* sequences of extensions php.ini may name                  *)
  NoVersion,   (* the version of every other extension                      *)
  MaxTable,    (* bound: slots of a process                                 *)
  MaxCached    (* bound: opcodes in the file cache                          *)

ASSUME FlfAssumption ==
  /\ "fast_uuid" \in DOMAIN Sizes
  /\ \A name \in DOMAIN Sizes : Sizes[name] \in Nat \ {0}
  /\ \A config \in Configs : config \in Seq(DOMAIN Sizes) /\ IsInjective(config)
  /\ NoVersion \notin Versions

VARIABLES
  table,     \* zend_flf_handlers and zend_flf_functions, slot by slot
  modules,   \* what is loaded: where, since which slot, until when
  pending,   \* extensions of php.ini that have not registered yet
  started,   \* the MINITs were called
  id,        \* what fast_uuid added to zend_system_id
  cache      \* frameless opcodes of fast_uuid's functions in the file cache

flfVars == <<table, modules, pending, started, id, cache>>

Handler(m, i) == <<m.base, i>>
Handlers(m) == [i \in 1 .. Sizes[m.name] |-> Handler(m, i)]
Data == <<"data", 0>>   (* the address of the table itself: never a handler *)
NoSlot == -1            (* UINT32_MAX *)
NoKey == <<NoSlot, 0, NoVersion>>
Ours(m) == m.name = "fast_uuid"
Loaded(name) == \E m \in modules : m.name = name
Build(name) == IF name = "fast_uuid" THEN Versions ELSE {NoVersion}

-----------------------------------------------------------------------------
(* zend_register_functions() appends, for temporary modules too.           *)
Register(t, m) ==
  t \o [i \in 1 .. Sizes[m.name] |-> [at |-> Handler(m, i), function |-> <<m.name, i>>]]

(* fu_flf_run_at: slots base + 1 and up hold the run.                      *)
RunAt(t, base, hs) == \A i \in 1 .. Len(hs) : t[base + i].at = hs[i]
Runs(t, hs) == {base \in 0 .. Len(t) - Len(hs) : RunAt(t, base, hs)}

(* fu_flf_first_slot: the tail is looked at first.                         *)
FirstSlot(t, hs) ==
  LET runs == Runs(t, hs)
      tail == Len(t) - Len(hs)
  IN  IF runs = {} THEN NoSlot ELSE IF tail \in runs THEN tail ELSE Min(runs)

(* Mutant: the key has the number of slots and not where they are.         *)
KeyWithoutSlot(t, m) == <<0, Sizes[m.name], m.version>>

(* fu_flf_key_system_id.                                                   *)
Key(t, m) == <<FirstSlot(t, Handlers(m)), Sizes[m.name], m.version>>

(* Mutant: the slots of a dl()-loaded copy stay as they were registered.   *)
NotBlanked(t, m) == t

(* fu_flf_disable_for_dl: this load's slots, or every match if its run is  *)
(* not to be found.                                                        *)
Blanked(t, m) ==
  LET base == FirstSlot(t, Handlers(m))
      mine(s) == IF base # NoSlot THEN s \in base + 1 .. base + Sizes[m.name]
                 ELSE t[s].at \in Range(Handlers(m))
  IN  [s \in DOMAIN t |-> IF mine(s) THEN [t[s] EXCEPT !.at = Data] ELSE t[s]]

-----------------------------------------------------------------------------
Module(name, version, base, first, temporary, frameless) ==
  [name |-> name, version |-> version, base |-> base, first |-> first,
   temporary |-> temporary, frameless |-> frameless]

(* A process starts, with what its php.ini names.                          *)
Start(config) ==
  /\ pending' = config /\ started' = FALSE
  /\ table' = << >> /\ modules' = {} /\ id' = NoKey
  /\ UNCHANGED cache

Free(base) == \A m \in modules : m.base # base

(* Every extension registers, in the order of php.ini, before a MINIT.     *)
Registers(version, base) ==
  LET m == Module(Head(pending), version, base, Len(table), FALSE, TRUE)
  IN  /\ pending # << >> /\ version \in Build(m.name) /\ Free(base)
      /\ modules' = modules \cup {m}
      /\ table' = Register(table, m)
      /\ pending' = Tail(pending)
      /\ UNCHANGED <<started, id, cache>>

(* The MINITs; only that of fast_uuid adds to the system id.               *)
Minit ==
  /\ pending = << >> /\ ~started
  /\ started' = TRUE
  /\ IF Loaded("fast_uuid") THEN \E m \in modules : Ours(m) /\ id' = Key(table, m)
     ELSE id' = NoKey
  /\ UNCHANGED <<table, modules, pending, cache>>

(* Mutant: the functions of a dl()-loaded copy stay frameless.             *)
FramelessUnderDl(name) == TRUE

(* What disabling leaves of a dl()-loaded module's frameless functions.    *)
StaysFrameless(name) == name # "fast_uuid"

(* dl(): registration, and MINIT right after it.                           *)
Dl(name, version, base) ==
  LET m == Module(name, version, base, Len(table), TRUE, StaysFrameless(name))
  IN  /\ started /\ ~Loaded(name) /\ Free(base)
      /\ Len(table) + Sizes[name] <= MaxTable
      /\ modules' = modules \cup {m}
      /\ table' = IF Ours(m) THEN Blanked(Register(table, m), m) ELSE Register(table, m)
      /\ UNCHANGED <<pending, started, id, cache>>

(* What dl() loaded is unmapped; the table stays as it is.                 *)
RequestEnds ==
  /\ \E m \in modules : m.temporary
  /\ modules' = {m \in modules : ~m.temporary}
  /\ UNCHANGED <<table, pending, started, id, cache>>

(* The compiler takes the first slot that holds the function's handler.    *)
Slot(m, i) ==
  LET found == {s \in DOMAIN table : table[s].at = Handler(m, i)}
  IN  IF found = {} THEN NoSlot ELSE Min(found)

Compile(m, i) ==
  /\ started /\ Ours(m) /\ m.frameless
  /\ Cardinality(cache) < MaxCached
  /\ cache' = cache \cup {[id |-> id, version |-> m.version, function |-> i, slot |-> Slot(m, i)]}
  /\ UNCHANGED <<table, modules, pending, started, id>>

FlfInit ==
  /\ pending \in Configs /\ started = FALSE
  /\ table = << >> /\ modules = {} /\ id = NoKey /\ cache = {}

FlfNext ==
  \/ \E config \in Configs : Start(config)
  \/ \E base \in Addresses, version \in Versions \cup {NoVersion} : Registers(version, base)
  \/ Minit
  \/ \E name \in DOMAIN Sizes, base \in Addresses :
       \E version \in Build(name) : Dl(name, version, base)
  \/ RequestEnds
  \/ \E m \in modules : \E i \in 1 .. Sizes[m.name] : Compile(m, i)

FlfSpec == FlfInit /\ [][FlfNext]_flfVars

-----------------------------------------------------------------------------
(* Tables, modules and cached opcodes have their types.                    *)
FlfTypeOK ==
  /\ pending \in Seq(DOMAIN Sizes) /\ started \in BOOLEAN
  /\ table \in Seq([at : (Addresses \X Nat) \cup {Data}, function : (DOMAIN Sizes) \X Nat])
  /\ \A m \in modules :
       /\ m.name \in DOMAIN Sizes /\ m.version \in Build(m.name) /\ m.base \in Addresses
       /\ m.first + Sizes[m.name] \in 0 .. Len(table)
  /\ cache \subseteq [id : {NoKey} \cup (Nat \X Nat \X Versions), version : Versions,
                      function : Nat, slot : Nat]

(* Whatever opcode this process may load from the cache, compiled by any   *)
(* process before it, reaches the handler it was compiled for, in the same *)
(* build of fast_uuid, with the function it belongs to still there.        *)
DispatchesRight ==
  \A op \in cache : op.id = id =>
    \E m \in modules :
      /\ Ours(m) /\ m.version = op.version
      /\ op.slot = m.first + op.function
      /\ table[op.slot] = [at |-> Handler(m, op.function), function |-> <<m.name, op.function>>]

(* An extension mapped where a copy of fast_uuid was is never bound to one *)
(* of the slots that copy left behind, whose functions are freed.          *)
NoStaleBinding ==
  \A m \in modules : m.frameless => \A i \in 1 .. Sizes[m.name] :
    LET s == Slot(m, i)
    IN  s = NoSlot \/ table[s].function[1] # "fast_uuid" \/ Ours(m)
=============================================================================
