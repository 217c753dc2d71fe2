--------------------------- MODULE CompatWrapper ---------------------------
(***************************************************************************)
(* The compat layer: wrappers hold a core (the bytes of the UUID) and the  *)
(* codec they are shown with, and are of the class the core calls for.     *)
(* They are made by the current factory, which has a codec and providers   *)
(* of its own, and restored by whatever factory is current then.  A factory *)
(* subclass may answer getCodec() with user code, which runs in the middle *)
(* of a restore and may throw, restore again, or install another factory.  *)
(***************************************************************************)
EXTENDS CodecBytes, FiniteSets

CONSTANTS
  Objects,     (* wrappers that may exist                                   *)
  Cores,       (* UUIDs made without a custom generator; bound: only these  *)
               (* are stored or shown                                       *)
  RawBytes,    (* what a custom generator may return                        *)
  Codecs,      (* codecs a factory may be given                             *)
  Versions,    (* of the generators called                                  *)
  MaxKept,     (* bound: payloads, byte strings and texts kept              *)
  MaxDepth     (* bound: restores under way                                 *)

ASSUME CompatAssumption ==
  /\ Cores \cup RawBytes \subseteq [Bytes -> 0 .. 255]
  /\ Versions \subseteq {1, 2, 4, 6, 7}
  /\ Codecs \subseteq {"string", "guid", "ordered", "first", "last"} /\ "string" \in Codecs
  /\ MaxDepth \in Nat

VARIABLES
  factory,   \* Uuid::$factory: its kind, codec, providers and custom flags
  objects,   \* the wrappers
  waiting,   \* restores that wait for getCodec(), the innermost last
  stored,    \* history: what serialize() returned, and of which UUID
  shown,     \* history: what getBytes() and toString() returned, and of which
  meant,     \* history: what each wrapper should be
  misfit     \* history: a factory refused what its own generator made

vars == <<factory, objects, waiting, stored, shown, meant, misfit>>

Absent == [class |-> <<"none", 0>>]
Kinds == {"factory", "subclass", "foreign"}
Providers == {"random", "time"}
NewFactory(kind) ==
  [kind |-> kind, codec |-> "unset", provider |-> [p \in Providers |-> "none"],
   custom |-> [p \in Providers |-> FALSE]]

(* A wrapper keeps no codec for the plain one; "string" stands for that.   *)
(* Mutant: what the factory has is taken as it is.                         *)
AsItIs(codec) == codec
Normal(codec) == IF codec = "unset" THEN "string" ELSE codec

Init ==
  /\ factory = NewFactory("factory")
  /\ objects = [o \in Objects |-> Absent] /\ meant = [o \in Objects |-> Absent]
  /\ waiting = << >> /\ stored = {} /\ shown = {} /\ misfit = FALSE

-----------------------------------------------------------------------------
(* The constructor: fast by version for the classes of one, or asserted.   *)
Fits(class, core) ==
  \/ class[1] = "v" /\ class[2] = Version(core)
  \/ class = Class(core)

Waits(o) == \E k \in DOMAIN waiting : waiting[k].object = o
Free(o) == objects[o] = Absent /\ ~Waits(o)
Live(o) == objects[o] # Absent

(* A wrapper is stored with what it should be: its UUID, its codec, and    *)
(* that it came from the right source.                                     *)
Put(o, class, core, codec, asMeant) ==
  /\ objects' = [objects EXCEPT ![o] = [class |-> class, core |-> core, codec |-> codec]]
  /\ meant' = [meant EXCEPT ![o] = asMeant]
Meant(core, codec, source, due) ==
  [core |-> core, codec |-> codec, source |-> source, due |-> due]
Kept == UNCHANGED <<stored, shown>>

(* new UuidV4($core, $codec), by anybody.                                  *)
Construct(o, class, core, codec) ==
  /\ Free(o) /\ Fits(class, core)
  /\ Put(o, class, core, codec, Meant(core, codec, "core", "core"))
  /\ UNCHANGED <<factory, waiting, misfit>> /\ Kept

(* wrap(), and with it fromInteger() and fromHexadecimal().                *)
Wrap(o, core) ==
  /\ factory.kind # "foreign" /\ Free(o)
  /\ Put(o, Class(core), core, Normal(factory.codec), Meant(core, Normal(factory.codec), "core", "core"))
  /\ UNCHANGED <<factory, waiting, misfit>> /\ Kept

-----------------------------------------------------------------------------
(* Generation.  Which provider decides about a version; v2 then has its    *)
(* identifier and domain written over bytes that say neither version nor   *)
(* variant.                                                                *)
Provider(version) == IF version \in {4, 7} THEN "random" ELSE "time"
Laid(raw, version) ==
  IF version = 6 THEN V6OfV1(Stamp(raw, 1))
  ELSE IF version = 2 THEN [Stamp(raw, 2) EXCEPT ![1] = 0, ![2] = 0, ![3] = 0, ![4] = 1, ![10] = 0]
  ELSE Stamp(raw, version)

(* Mutant: whatever provider is there is taken for a custom one.           *)
HasProvider(p) == factory.provider[p] # "none"
IsCustom(p) == factory.custom[p]

(* Only setProvider() installs a custom generator.                         *)
Due(p) == IF factory.provider[p] = "custom" THEN "custom" ELSE "core"

Generate(o, version) ==
  LET p == Provider(version)
      codec == Normal(factory.codec)
      source == IF IsCustom(p) THEN "custom" ELSE "core"
      made == IF IsCustom(p) THEN {Laid(raw, version) : raw \in RawBytes}
              ELSE {c \in Cores : Version(c) = version}
  IN  /\ factory.kind # "foreign" /\ Free(o)
      /\ \E core \in made :
           IF Fits(<<"v", version>>, core)
           THEN Put(o, <<"v", version>>, core, codec, Meant(core, codec, source, Due(p)))
                /\ UNCHANGED misfit
           ELSE misfit' = TRUE /\ UNCHANGED <<objects, meant>>
      /\ UNCHANGED <<factory, waiting>> /\ Kept

(* The getters make defaults on first use.                                 *)
GetProvider(p) ==
  /\ factory.kind # "foreign" /\ factory.provider[p] = "none"
  /\ factory' = [factory EXCEPT !.provider[p] = "default"]
  /\ UNCHANGED <<objects, waiting, meant, misfit>> /\ Kept

SetProvider(p) ==
  /\ factory.kind # "foreign"
  /\ factory' = [factory EXCEPT !.provider[p] = "custom", !.custom[p] = TRUE]
  /\ UNCHANGED <<objects, waiting, meant, misfit>> /\ Kept

SetCodec(codec) ==
  /\ factory.kind # "foreign"
  /\ factory' = [factory EXCEPT !.codec = codec]
  /\ UNCHANGED <<objects, waiting, meant, misfit>> /\ Kept

SetFactory(kind) ==
  /\ factory' = NewFactory(kind)
  /\ UNCHANGED <<objects, waiting, meant, misfit>> /\ Kept

-----------------------------------------------------------------------------
(* UuidV6::fromUuidV1() and toUuidV1() keep the codec.                     *)
Convert(o, p, from, to, core) ==
  /\ Live(o) /\ objects[o].class = <<"v", from>> /\ Free(p)
  /\ Put(p, <<"v", to>>, core, objects[o].codec, Meant(core, meant[o].codec, "core", "core"))
  /\ UNCHANGED <<factory, waiting, misfit>> /\ Kept

Drop(o) ==
  /\ Live(o) /\ ~Waits(o)
  /\ objects' = [objects EXCEPT ![o] = Absent] /\ meant' = [meant EXCEPT ![o] = Absent]
  /\ UNCHANGED <<factory, waiting, misfit>> /\ Kept

HasRoom == Cardinality(shown) + Cardinality(stored) < MaxKept

(* getBytes() and toString().                                              *)
Show(o) ==
  LET w == objects[o] IN
  /\ Live(o) /\ w.core \in Cores /\ HasRoom
  /\ \/ EncodeBinary(w.codec, w.core) # NoBytes
        /\ shown' = shown \cup {[codec |-> w.codec, as |-> "bytes", is |-> meant[o].core,
                                 out |-> EncodeBinary(w.codec, w.core)]}
     \/ shown' = shown \cup {[codec |-> w.codec, as |-> "text", is |-> meant[o].core,
                              out |-> Encode(w.codec, w.core)]}
  /\ UNCHANGED <<factory, objects, waiting, stored, meant, misfit>>

(* getCodec(), which a subclass may answer as it likes.                    *)
AnswersOf(f) == IF f.kind = "subclass" THEN Codecs ELSE {Normal(f.codec)}

(* fromBytes() and fromString(): the codec's own decoding.  The same UUID  *)
(* comes back if the codec is the one that showed it.                      *)
Read(o, s) ==
  /\ factory.kind # "foreign" /\ Free(o)
  /\ \E codec \in AnswersOf(factory) :
       LET core == IF s.as = "text" THEN Decode(codec, s.out) ELSE DecodeBytes(codec, s.out)
       IN  /\ core # NoBytes
           /\ Put(o, Class(core), core, codec,
                  Meant(IF codec = s.codec THEN s.is ELSE core, codec, "core", "core"))
  /\ factory' = IF factory.codec = "unset" /\ factory.kind = "factory"
                THEN [factory EXCEPT !.codec = "string"] ELSE factory
  /\ UNCHANGED <<waiting, misfit>> /\ Kept

-----------------------------------------------------------------------------
(* serialize(): PHP keeps the class with it.                               *)
Serialize(o) ==
  /\ Live(o) /\ objects[o].core \in Cores /\ HasRoom
  /\ stored' = stored \cup {[class |-> objects[o].class, bytes |-> objects[o].core,
                             is |-> meant[o].core]}
  /\ UNCHANGED <<factory, objects, waiting, shown, meant, misfit>>

(* unserialize() of a payload into a new object of its class, or called on *)
(* a wrapper: the core is parsed and matched with the class first.         *)
(* Mutant: it is not.                                                      *)
Unmatched(class, core) == TRUE
Matches(class, core) == class = Class(core)

Target(o, s) == IF Live(o) THEN objects[o].class ELSE s.class
Accepts(o, s) == (Live(o) \/ Free(o)) /\ Matches(Target(o, s), s.bytes)

(* The factory's own getCodec(), or none from a foreign factory.           *)
Restore(o, s) ==
  /\ factory.kind # "subclass" /\ Accepts(o, s)
  /\ LET codec == IF factory.kind = "foreign" THEN "string" ELSE Normal(factory.codec)
     IN  Put(o, Target(o, s), s.bytes, codec, Meant(s.is, codec, "core", "core"))
  /\ factory' = IF factory.codec = "unset" /\ factory.kind = "factory"
                THEN [factory EXCEPT !.codec = "string"] ELSE factory
  /\ UNCHANGED <<waiting, misfit>> /\ Kept

Wait(o, s) ==
  waiting' = Append(waiting, [object |-> o, class |-> Target(o, s), core |-> s.bytes, is |-> s.is])

(* Mutant: the core is set before the codec is asked for.                  *)
CoreFirst(o, s) ==
  /\ Wait(o, s)
  /\ objects' = IF Live(o) THEN [objects EXCEPT ![o].core = s.bytes] ELSE objects
HoldBack(o, s) == Wait(o, s) /\ UNCHANGED objects

(* A subclass's getCodec() is called before either field is written.       *)
RestoreAsks(o, s) ==
  /\ factory.kind = "subclass" /\ Accepts(o, s)
  /\ Len(waiting) < MaxDepth
  /\ HoldBack(o, s)
  /\ UNCHANGED <<factory, meant, misfit>> /\ Kept

Top == waiting[Len(waiting)]
Pop == waiting' = SubSeq(waiting, 1, Len(waiting) - 1)

RestoreEnds(codec) ==
  /\ waiting # << >> /\ Pop
  /\ Put(Top.object, Top.class, Top.core, codec, Meant(Top.is, codec, "core", "core"))
  /\ UNCHANGED <<factory, misfit>> /\ Kept

(* It throws; an object that was not there yet is gone.                    *)
RestoreFails ==
  /\ waiting # << >> /\ Pop
  /\ UNCHANGED <<factory, objects, meant, misfit>> /\ Kept

Next ==
  \/ \E o \in Objects :
       \/ \E core \in Cores :
            \/ Wrap(o, core)
            \/ \E class \in Classes, codec \in Codecs : Construct(o, class, core, codec)
       \/ \E version \in Versions : Generate(o, version)
       \/ Drop(o) \/ Show(o) \/ Serialize(o)
       \/ \E s \in shown : Read(o, s)
       \/ \E s \in stored : Restore(o, s) \/ RestoreAsks(o, s)
       \/ \E p \in Objects : \/ Convert(o, p, 1, 6, V6OfV1(objects[o].core))
                             \/ Convert(o, p, 6, 1, V1OfV6(objects[o].core))
  \/ \E p \in Providers : GetProvider(p) \/ SetProvider(p)
  \/ \E codec \in Codecs : SetCodec(codec) \/ RestoreEnds(codec)
  \/ \E kind \in Kinds : SetFactory(kind)
  \/ RestoreFails

Spec == Init /\ [][Next]_vars

-----------------------------------------------------------------------------
Wrapper == [class : Classes, core : [Bytes -> 0 .. 255], codec : Codecs]
TypeOK ==
  /\ factory.kind \in Kinds /\ factory.codec \in Codecs \cup {"unset"}
  /\ \A o \in Objects : objects[o] \in Wrapper \cup {Absent} /\ (Live(o) <=> meant[o] # Absent)
  /\ Len(waiting) <= MaxDepth

(* A wrapper is of the one class its core calls for, after a restore into  *)
(* a live object and inside one too.                                       *)
ClassMatchesCore == \A o \in Objects : Live(o) => objects[o].class = Class(objects[o].core)

(* A wrapper is the UUID it was made, read back or restored from, whatever *)
(* codecs came and went in between, and shown with the codec of the one    *)
(* factory that made or restored it: a restore that fails leaves it alone, *)
(* and a conversion keeps the codec.                                       *)
IdentityKept ==
  \A o \in Objects : Live(o) =>
    <<objects[o].core, objects[o].codec>> = <<meant[o].core, meant[o].codec>>

(* A custom generator is used once it was set, and never because a getter  *)
(* made a default one.                                                     *)
RoutedBySetters == \A o \in Objects : Live(o) => meant[o].source = meant[o].due

(* No generator's bytes make a factory refuse its own UUID.                *)
NeverMisfit == ~misfit
=============================================================================
