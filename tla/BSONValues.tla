----------------------------- MODULE BSONValues -----------------------------
(***************************************************************************)
(* One field of a document on its way from a script to the server and      *)
(* back: the JavaScript value, BSONizer.convertJStoBSON and the encoder,   *)
(* the stored BSON value, the decoder and BSONizer.convertBSONtoJS; and    *)
(* the timestamps that are generated on the way for Timestamp(0, 0).       *)
(*                                                                         *)
(* Arrays and subdocuments are converted element by element and left out.  *)
(* A value is a kind and a tuple of integers: a number, a time and an      *)
(* ordinal, a subtype and a length, or nothing where every value of the    *)
(* kind is treated alike.  int has IntMax where Java has 2^31 - 1.         *)
(***************************************************************************)
EXTENDS Integers, Sequences

CONSTANTS
  Plain,       \* the kinds both sides have, converted one to one
  Scripted,    \* the values a script makes
  Foreign,     \* the BSON values other programs store
  IntMax,
  LargestVal,  \* Timestamp.largestVal, in seconds
  UuidLength,  \* 16 bytes
  MaxClock,    \* bound: seconds
  MaxMade      \* bound: generated timestamps

ASSUME SizesAssumption ==
  /\ IntMax \in Nat /\ LargestVal \in Nat /\ UuidLength \in Nat
  /\ IntMax <= LargestVal
  /\ MaxClock \in Nat /\ MaxMade \in Nat
  /\ MaxMade < IntMax \* so that an ordinal is in the range of an int

None == [kind |-> "none", val |-> << >>]

VARIABLES
  held,        \* the value the script has, or None
  readFrom,    \* the stored value it was read from, or None: the script made it
  stored,      \* the BSON value the server has, or None
  clock,       \* seconds since the epoch
  lastSec,     \* BSONizer.lastSecFromEpoch
  ordinal,     \* BSONizer.timestampIncrementer
  made,        \* the timestamps generated so far
  setBack      \* the clock has been set back

genVars == <<lastSec, ordinal, made>>
vars == <<held, readFrom, stored, clock, setBack, lastSec, ordinal, made>>

Value(kind, val) == [kind |-> kind, val |-> val]

Init ==
  /\ held = None /\ readFrom = None /\ stored = None
  /\ clock = 1 /\ lastSec = 0 /\ ordinal = 1
  /\ made = << >> /\ setBack = FALSE

-----------------------------------------------------------------------------
(* Conversions.                                                             *)

\* (int) n
ToInt(n) == ((n + IntMax + 1) % (2 * IntMax + 2)) - IntMax - 1

\* (byte) n
ToByte(n) == ((n + 128) % 256) - 128

\* What a script may have in hand: Timestamp refuses times beyond largestVal,
\* BinData subtypes that are no byte.
Constructible(v) ==
  /\ v.kind = "Timestamp" => v.val[1] <= LargestVal
  /\ v.kind = "BinData" => v.val[1] \in 0 .. 255

\* The BSON type of a JavaScript value.
BSONKind == [ number |-> "double", NumberInt |-> "int32", NumberLong |-> "int64",
              function |-> "code", BinData |-> "binary", Timestamp |-> "timestamp",
              undefined |-> "undefined" ]

\* convertJStoBSON throws (java.nio.BufferUnderflowException) on a UUID that is
\* too short.
Convertible(v) == v.kind = "BinData" /\ v.val[1] = 3 => v.val[2] >= UuidLength

\* convertTimestampToBSONTimestamp, of a timestamp that has its time.
AsGiven(t, i) == <<ToInt(t), ToInt(i)>>

\* convertJStoBSON and the encoder.  Of a UUID's bytes the first UuidLength are used.
Converted(v) ==
  LET val == CASE v.kind = "BinData" /\ v.val[1] = 3 -> <<3, UuidLength>>
               [] v.kind = "Timestamp" -> AsGiven(v.val[1], v.val[2])
               [] OTHER -> v.val
  IN Value(IF v.kind \in Plain THEN v.kind ELSE BSONKind[v.kind], val)

\* Variant: a timestamp in the second of the one before gets the same ordinal.
OrdinalNow(sec) == 1

\* convertTimestampToBSONTimestamp, the ordinal within a second.
NextOrdinal(sec) == IF sec # lastSec THEN 1 ELSE ordinal + 1

\* What the BSON decoder gives for a stored value: a symbol is a String, an
\* undefined field is null (HornOfMongoDBCallback), old binaries are general ones.
Decoded(b) ==
  IF b.kind = "symbol" THEN Value("string", b.val)
  ELSE IF b.kind = "undefined" THEN Value("null", << >>)
  ELSE IF b.kind = "binary" /\ b.val[1] = 2 THEN Value("binary", <<0, b.val[2]>>)
  ELSE b

JSKind == [ double |-> "number", int32 |-> "number", int64 |-> "NumberLong",
            code |-> "string", codeWScope |-> "string", binary |-> "BinData",
            timestamp |-> "Timestamp" ]

\* Variant: a long that is an int in range becomes a number.
JSKindOfInts(b) ==
  IF b.kind \in Plain THEN b.kind
  ELSE IF b.kind = "int64" /\ b.val[1] \in -IntMax .. IntMax THEN "number"
  ELSE JSKind[b.kind]

\* The class that convertBSONtoJS gives a value.
JSKindOf(b) == IF b.kind \in Plain THEN b.kind ELSE JSKind[b.kind]

\* convertBSONtoJS.  A subtype arrives as a signed byte, and BinData refuses a
\* negative one.
Readable(b) == b.kind = "binary" => ToByte(b.val[1]) >= 0

ToJS(b) == Value(JSKindOf(b), b.val)

\* What a script's values, and what other programs store, look like.  A timestamp has
\* two ints, a subtype is a byte; the decoder of the driver takes no UUID of another
\* length.
Ints == -IntMax - 1 .. IntMax
JSValue(v) ==
  /\ v = Value(v.kind, v.val) /\ v.kind \in Plain \union DOMAIN BSONKind
  /\ v.kind = "Timestamp" => v.val \in Int \X Int
  /\ v.kind = "BinData" => v.val \in Int \X Nat
BSONValue(b) ==
  /\ b = Value(b.kind, b.val)
  /\ b.kind \in Plain \union DOMAIN JSKind \union {"symbol", "undefined"}
  /\ b.kind = "timestamp" => b.val \in Ints \X Ints
  /\ b.kind = "binary" => b.val \in (0 .. 255) \X Nat /\ (b.val[1] = 3 => b.val[2] = UuidLength)

ASSUME ValuesAssumption ==
  /\ {"string", "null"} \subseteq Plain
  /\ Plain \intersect (DOMAIN BSONKind \union DOMAIN JSKind \union {"symbol", "none"}) = {}
  /\ \A v \in Scripted : JSValue(v)
  /\ \A b \in Foreign : BSONValue(b)

-----------------------------------------------------------------------------
(* Steps.                                                                   *)

\* The script makes a value.
Make(v) ==
  /\ Constructible(v)
  /\ held' = v /\ readFrom' = None
  /\ UNCHANGED <<stored, clock, setBack, genVars>>

\* A timestamp whose seconds are none, as an int, is generated now.
ToGenerate(v) == v.kind = "Timestamp" /\ ToInt(v.val[1]) = 0

\* insert, or save of a document that was found: the field as it is in hand.
Save ==
  LET sec == ToInt(clock)
      now == <<sec, NextOrdinal(sec)>>
  IN
  /\ held # None /\ Convertible(held)
  /\ IF ToGenerate(held)
     THEN /\ Len(made) < MaxMade
          /\ stored' = Value("timestamp", now)
          /\ lastSec' = sec /\ ordinal' = now[2]
          /\ made' = Append(made, now)
     ELSE /\ stored' = Converted(held)
          /\ UNCHANGED genVars
  /\ UNCHANGED <<held, readFrom, clock, setBack>>

\* findOne: the script has the value the document holds.
Find ==
  /\ stored # None /\ Readable(Decoded(stored))
  /\ held' = ToJS(Decoded(stored)) /\ readFrom' = stored
  /\ UNCHANGED <<stored, clock, setBack, genVars>>

\* Another program stores a value.
ForeignStore(b) ==
  /\ stored' = b
  /\ UNCHANGED <<held, readFrom, clock, setBack, genVars>>

\* Time passes, or the system clock is set back.
Tick(sec) ==
  /\ clock' = sec
  /\ setBack' = (setBack \/ sec < clock)
  /\ UNCHANGED <<held, readFrom, stored, genVars>>

Next ==
  \/ \E v \in Scripted : Make(v)
  \/ Save
  \/ Find
  \/ \E b \in Foreign : ForeignStore(b)
  \/ \E sec \in 1 .. MaxClock : Tick(sec)

Spec == Init /\ [][Next]_vars

-----------------------------------------------------------------------------
(* Properties.                                                              *)

\* Every variable has its type, and what a script holds it may have made.
TypeOK ==
  /\ Constructible(held) /\ held.val \in Seq(Int)
  /\ readFrom.val \in Seq(Int) /\ stored.val \in Seq(Int)
  /\ clock \in 1 .. MaxClock /\ lastSec \in Int /\ ordinal \in Nat \ {0}
  /\ made \in Seq(Int \X Nat) /\ setBack \in BOOLEAN

\* What BSON has and a script has not: reading a value of this kind and storing it
\* back unchanged makes another value of it.
LostOnSaveBack(b) ==
  \/ b.kind \in {"int32", "symbol", "code", "codeWScope", "undefined"}
  \/ b.kind = "binary" /\ b.val[1] = 2
  \/ b.kind = "timestamp" /\ b.val[1] = 0

\* A script that finds a document and saves it leaves a field it did not touch as it
\* was, but for the values that a script cannot tell from others.
SaveBackKeeps ==
  [][Save /\ readFrom # None => stored' = readFrom \/ LostOnSaveBack(readFrom)]_vars

Before(x, y) == x[1] < y[1] \/ (x[1] = y[1] /\ x[2] < y[2])

\* Generated timestamps rise, so none is made twice, as long as the clock is not set
\* back and the seconds are in the range of an int.
GeneratedRise ==
  ~setBack /\ clock <= IntMax =>
    \A i, j \in DOMAIN made : i < j => Before(made[i], made[j])

=============================================================================
