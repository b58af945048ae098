-------------------------- MODULE BSONValues_proofs --------------------------
(* Theorems about BSONValues, for every size of int and any values: generated     *)
(* timestamps rise, and a script that saves back a document it found keeps it.   *)
EXTENDS BSONValues, TLAPS

\* The variables the generated timestamps depend on.
GenTypes ==
  /\ clock \in Nat /\ lastSec \in Int /\ ordinal \in Nat /\ ordinal >= 1
  /\ made \in Seq(Int \X Nat)
  /\ setBack \in BOOLEAN

\* The last timestamp made is the one the generator remembers.
LastRemembered == made # << >> => made[Len(made)] = <<lastSec, ordinal>>

\* The generator is not ahead of the clock.
NotAhead == ~setBack /\ clock <= IntMax => lastSec <= clock

GenInv == GenTypes /\ LastRemembered /\ NotAhead /\ GeneratedRise

\* Seconds in the range of an int survive the cast.
LEMMA IntKept ==
  ASSUME NEW n \in Nat, n <= IntMax
  PROVE  ToInt(n) = n
<1> DEFINE a == n + IntMax + 1
           b == 2 * IntMax + 2
<1>1. /\ a \in Nat /\ b \in Nat /\ b > 0
      /\ a < b
  BY SizesAssumption
<1>2. a % b = a
  BY <1>1
<1> QED
  BY <1>2, SizesAssumption DEF ToInt

\* The cast of any number is a number.
LEMMA IntOfClock ==
  ASSUME NEW n \in Nat
  PROVE  ToInt(n) \in Int
<1> DEFINE b == 2 * IntMax + 2
<1>1. b \in Nat /\ b > 0
  BY SizesAssumption
<1>2. (n + IntMax + 1) % b \in Int
  BY <1>1, SizesAssumption
<1> QED
  BY <1>2, SizesAssumption DEF ToInt

LEMMA BeforeTransitive ==
  ASSUME NEW x \in Int \X Nat, NEW y \in Int \X Nat, NEW z \in Int \X Nat,
         Before(x, y), Before(y, z)
  PROVE  Before(x, z)
BY DEF Before

\* A timestamp generated while the clock is right comes after the last one.
LEMMA NowIsLater ==
  ASSUME GenTypes, NotAhead, ~setBack, clock <= IntMax
  PROVE  Before(<<lastSec, ordinal>>, <<ToInt(clock), NextOrdinal(ToInt(clock))>>)
<1>1. ToInt(clock) = clock
  BY IntKept DEF GenTypes
<1>2. lastSec <= clock
  BY DEF NotAhead
<1>3. CASE clock = lastSec
  <2>1. NextOrdinal(clock) = ordinal + 1
    BY <1>3 DEF NextOrdinal
  <2> QED
    BY <1>1, <1>3, <2>1 DEF Before, GenTypes
<1>4. CASE clock # lastSec
  BY <1>1, <1>2, <1>4 DEF Before, GenTypes
<1> QED
  BY <1>3, <1>4

\* A timestamp that comes after the last one comes after all.
LEMMA AppendRises ==
  ASSUME NEW s \in Seq(Int \X Nat), NEW last \in Int \X Nat, NEW now \in Int \X Nat,
         s # << >> => s[Len(s)] = last,
         \A i, j \in DOMAIN s : i < j => Before(s[i], s[j]),
         Before(last, now)
  PROVE  \A i, j \in DOMAIN Append(s, now) :
           i < j => Before(Append(s, now)[i], Append(s, now)[j])
<1> SUFFICES ASSUME NEW i \in DOMAIN Append(s, now), NEW j \in DOMAIN Append(s, now), i < j
             PROVE  Before(Append(s, now)[i], Append(s, now)[j])
  OBVIOUS
<1>1. i \in 1 .. Len(s) /\ j \in 1 .. Len(s) + 1 /\ Append(s, now)[i] = s[i]
  OBVIOUS
<1>2. CASE j \in 1 .. Len(s)
  <2>1. Append(s, now)[j] = s[j]
    BY <1>2
  <2>2. i \in DOMAIN s /\ j \in DOMAIN s
    <3>1. DOMAIN s = 1 .. Len(s)
      OBVIOUS
    <3> QED
      BY <1>1, <1>2, <3>1, Zenon
  <2>3. Before(s[i], s[j])
    BY <2>2, Zenon
  <2> QED
    BY <1>1, <2>1, <2>3, Zenon
<1>3. CASE j = Len(s) + 1
  <2>1. Append(s, now)[j] = now /\ s # << >> /\ Len(s) \in 1 .. Len(s)
    BY <1>1, <1>3
  <2>2. CASE i = Len(s)
    <3>1. s[i] = last
      BY <2>1, <2>2
    <3> QED
      BY <1>1, <2>1, <3>1, Zenon
  <2>3. CASE i # Len(s)
    <3>1. Before(s[i], last)
      <4>1. i \in 1 .. Len(s) /\ Len(s) \in Nat
        BY <1>1
      <4>2. DOMAIN s = 1 .. Len(s)
        OBVIOUS
      <4>3. i < Len(s)
        BY <4>1, <2>3
      <4>4. i \in DOMAIN s /\ Len(s) \in DOMAIN s /\ i < Len(s)
        BY <2>1, <4>1, <4>2, <4>3
      <4>5. Before(s[i], s[Len(s)])
        BY <4>4, Zenon
      <4> QED
        BY <2>1, <4>5, Zenon
    <3>2. s[i] \in Int \X Nat
      BY <1>1
    <3> QED
      BY <1>1, <2>1, <3>1, <3>2, BeforeTransitive
  <2> QED
    BY <2>2, <2>3
<1> QED
  BY <1>1, <1>2, <1>3, SMTT(30)

LEMMA InitInv == Init => GenInv
<1> SUFFICES ASSUME Init
             PROVE  GenInv
  OBVIOUS
<1>1. clock = 1 /\ lastSec = 0 /\ ordinal = 1 /\ made = << >> /\ setBack = FALSE
  BY DEF Init
<1>2. GenTypes
  <2>1. setBack \in BOOLEAN
    BY <1>1
  <2>2. made \in Seq(Int \X Nat)
    BY <1>1
  <2> QED
    BY <1>1, <2>1, <2>2 DEF GenTypes
<1>3. LastRemembered /\ NotAhead
  BY <1>1 DEF LastRemembered, NotAhead
<1>4. GeneratedRise
  BY <1>1 DEF GeneratedRise
<1> QED
  BY <1>2, <1>3, <1>4 DEF GenInv

\* Saving a timestamp that is to be generated.
LEMMA GenerateStep ==
  ASSUME GenInv, Save, ToGenerate(held)
  PROVE  GenInv'
<1> DEFINE sec == ToInt(clock)
           now == <<sec, NextOrdinal(sec)>>
<1>1. /\ lastSec' = sec /\ ordinal' = NextOrdinal(sec)
      /\ made' = Append(made, now)
      /\ clock' = clock /\ setBack' = setBack
  BY DEF Save
<1>2. /\ GenTypes /\ LastRemembered /\ NotAhead /\ GeneratedRise
      /\ made \in Seq(Int \X Nat) /\ clock \in Nat
  BY DEF GenInv, GenTypes
<1>3. sec \in Int
  BY <1>2, IntOfClock
<1>4. NextOrdinal(sec) \in Nat /\ NextOrdinal(sec) >= 1
  BY <1>2 DEF NextOrdinal, GenTypes
<1> HIDE DEF sec
<1>5. GenTypes'
  BY <1>1, <1>2, <1>3, <1>4 DEF GenTypes
<1>6. LastRemembered'
  BY <1>1, <1>2, <1>3, <1>4 DEF LastRemembered
<1>7. NotAhead'
  BY <1>1, <1>2, IntKept DEF NotAhead, sec
<1>8. GeneratedRise'
  <2> SUFFICES ASSUME ~setBack, clock <= IntMax
               PROVE  \A i, j \in DOMAIN made' : i < j => Before(made'[i], made'[j])
    BY <1>1 DEF GeneratedRise, Before
  <2>1. Before(<<lastSec, ordinal>>, now)
    BY <1>2, NowIsLater DEF sec
  <2>2. <<lastSec, ordinal>> \in Int \X Nat /\ now \in Int \X Nat
    BY <1>2, <1>3, <1>4 DEF GenTypes
  <2>3. \A i, j \in DOMAIN made : i < j => Before(made[i], made[j])
    BY <1>2 DEF GeneratedRise
  <2>4. made # << >> => made[Len(made)] = <<lastSec, ordinal>>
    BY <1>2 DEF LastRemembered
  <2> HIDE DEF now
  <2> QED
    BY <1>1, <1>2, <2>1, <2>2, <2>3, <2>4, AppendRises
<1> QED
  BY <1>5, <1>6, <1>7, <1>8 DEF GenInv

\* The clock goes on or is set back; nothing is generated.
LEMMA TickStep ==
  ASSUME GenInv, NEW sec \in 1 .. MaxClock, Tick(sec)
  PROVE  GenInv'
<1>1. /\ clock' = sec /\ setBack' = (setBack \/ sec < clock)
      /\ lastSec' = lastSec /\ ordinal' = ordinal /\ made' = made
  BY DEF Tick, genVars
<1>2. sec \in Nat /\ clock \in Nat /\ MaxClock \in Nat
  BY SizesAssumption DEF GenInv, GenTypes
<1>3. setBack' \in BOOLEAN
  BY <1>1
<1>4. ~setBack' /\ sec <= IntMax => ~setBack /\ clock <= sec /\ clock <= IntMax
  <2> SUFFICES ASSUME ~setBack', sec <= IntMax
               PROVE  ~setBack /\ clock <= sec /\ clock <= IntMax
    OBVIOUS
  <2>1. ~setBack /\ ~(sec < clock)
    BY <1>1
  <2> QED
    BY <1>2, <2>1, SizesAssumption
<1>5. GenTypes'
  BY <1>1, <1>2, <1>3 DEF GenInv, GenTypes
<1>6. LastRemembered'
  BY <1>1 DEF GenInv, LastRemembered
<1>7. NotAhead'
  BY <1>1, <1>2, <1>4 DEF GenInv, NotAhead, GenTypes
<1>8. GeneratedRise'
  BY <1>1, <1>4 DEF GenInv, GeneratedRise, Before
<1> QED
  BY <1>5, <1>6, <1>7, <1>8 DEF GenInv

\* Timestamps that are generated rise, whatever the width of int, as long as the
\* clock is not set back and its seconds are in the range of an int.
THEOREM GeneratedTimestampsRise == Spec => []GeneratedRise
<1>1. Init => GenInv
  BY InitInv
<1>2. GenInv /\ [Next]_vars => GenInv'
  <2> SUFFICES ASSUME GenInv, [Next]_vars
               PROVE  GenInv'
    OBVIOUS
  <2>1. ASSUME UNCHANGED <<clock, setBack, genVars>>
        PROVE  GenInv'
    BY <2>1 DEF GenInv, GenTypes, LastRemembered, NotAhead, GeneratedRise, Before, genVars
  <2>2. ASSUME NEW v \in Scripted, Make(v)
        PROVE  GenInv'
    BY <2>1, <2>2 DEF Make
  <2>3. CASE Save
    BY <2>1, <2>3, GenerateStep DEF Save
  <2>4. CASE Find
    BY <2>1, <2>4 DEF Find
  <2>5. ASSUME NEW b \in Foreign, ForeignStore(b)
        PROVE  GenInv'
    BY <2>1, <2>5 DEF ForeignStore
  <2>6. ASSUME NEW sec \in 1 .. MaxClock, Tick(sec)
        PROVE  GenInv'
    BY <2>6, TickStep
  <2>7. CASE UNCHANGED vars
    BY <2>1, <2>7 DEF vars, genVars
  <2> QED
    BY <2>2, <2>3, <2>4, <2>5, <2>6, <2>7 DEF Next
<1>3. GenInv => GeneratedRise
  BY DEF GenInv
<1> QED
  BY <1>1, <1>2, <1>3, PTL DEF Spec


-----------------------------------------------------------------------------
(* A field that is read and saved back.  What a script holds it made or    *)
(* read; what it read, converted back, is what was stored, or one of the   *)
(* values that are lost.                                                   *)

LEMMA Kinds ==
  /\ DOMAIN BSONKind = {"number", "NumberInt", "NumberLong", "function", "BinData",
                        "Timestamp", "undefined"}
  /\ DOMAIN JSKind = {"double", "int32", "int64", "code", "codeWScope", "binary", "timestamp"}
  /\ BSONKind["number"] = "double" /\ BSONKind["NumberInt"] = "int32"
  /\ BSONKind["NumberLong"] = "int64" /\ BSONKind["function"] = "code"
  /\ BSONKind["BinData"] = "binary" /\ BSONKind["Timestamp"] = "timestamp"
  /\ BSONKind["undefined"] = "undefined"
  /\ JSKind["double"] = "number" /\ JSKind["int32"] = "number"
  /\ JSKind["int64"] = "NumberLong" /\ JSKind["code"] = "string"
  /\ JSKind["codeWScope"] = "string" /\ JSKind["binary"] = "BinData"
  /\ JSKind["timestamp"] = "Timestamp"
BY DEF BSONKind, JSKind

LEMMA PlainKinds ==
  /\ "string" \in Plain /\ "null" \in Plain
  /\ \A k \in Plain : k \notin {"number", "NumberInt", "NumberLong", "function", "BinData",
                               "Timestamp", "undefined", "double", "int32", "int64", "code",
                               "codeWScope", "binary", "timestamp", "symbol", "none"}
BY Kinds, ValuesAssumption

\* An int that a timestamp has is what the cast makes of it.
LEMMA IntsKept ==
  ASSUME NEW n \in Ints
  PROVE  ToInt(n) = n
<1> DEFINE a == n + IntMax + 1
           b == 2 * IntMax + 2
<1>1. IntMax \in Nat
  BY SizesAssumption
<1>2. a \in Nat /\ b \in Nat /\ b > 0 /\ a < b
  BY <1>1 DEF Ints
<1>3. a % b = a
  BY <1>2
<1> QED
  BY <1>1, <1>3 DEF ToInt, Ints

LEMMA CastIsInt ==
  ASSUME NEW n \in Int
  PROVE  ToInt(n) \in Ints
<1> DEFINE a == n + IntMax + 1
           b == 2 * IntMax + 2
<1>1. IntMax \in Nat
  BY SizesAssumption
<1>2. a \in Int /\ b \in Nat /\ b > 0
  BY <1>1
<1>3. a % b \in 0 .. b - 1
  <2> HIDE DEF a, b
  <2> QED
    BY <1>2
<1> QED
  BY <1>1, <1>3 DEF ToInt, Ints

LEMMA ValueIs ==
  ASSUME NEW kind, NEW val
  PROVE  Value(kind, val).kind = kind /\ Value(kind, val).val = val
BY DEF Value

\* A field of the server, by its kind.
LEMMA BSONValueIs ==
  ASSUME NEW kind \in Plain \union DOMAIN JSKind \union {"symbol", "undefined"}, NEW val,
         kind = "timestamp" => val \in Ints \X Ints,
         kind = "binary" => val \in (0 .. 255) \X Nat /\ (val[1] = 3 => val[2] = UuidLength)
  PROVE  BSONValue(Value(kind, val))
BY ValueIs DEF BSONValue

\* What a script may hold, and what it becomes.
HeldValue(v) == JSValue(v) /\ (v.kind = "BinData" => v.val[1] \in 0 .. 255)

LEMMA ConvertedWell ==
  ASSUME NEW v, HeldValue(v)
  PROVE  BSONValue(Converted(v))
<1>1. v.kind \in Plain \union DOMAIN BSONKind
  BY DEF HeldValue, JSValue
<1>2. CASE v.kind \in Plain
  <2>1. Converted(v) = Value(v.kind, v.val)
    BY <1>2, PlainKinds DEF Converted
  <2> QED
    BY <1>2, <2>1, PlainKinds, ValueIs DEF BSONValue
<1>3. CASE v.kind \in {"number", "NumberInt", "NumberLong", "function", "undefined"}
  <2>1. Converted(v) = Value(BSONKind[v.kind], v.val)
    BY <1>3, PlainKinds DEF Converted
  <2>2. BSONKind[v.kind] \in {"double", "int32", "int64", "code", "undefined"}
    BY <1>3, Kinds
  <2> DEFINE kind == BSONKind[v.kind]
  <2>3. kind \in DOMAIN JSKind \union {"undefined"} /\ kind # "timestamp" /\ kind # "binary"
    BY <2>2, Kinds
  <2> HIDE DEF kind
  <2>4. BSONValue(Value(kind, v.val))
    BY <2>3, BSONValueIs
  <2> QED
    BY <2>1, <2>4 DEF kind
<1>4. CASE v.kind = "BinData"
  <2>1. Converted(v) = Value("binary", IF v.val[1] = 3 THEN <<3, UuidLength>> ELSE v.val)
    BY <1>4, PlainKinds, Kinds DEF Converted
  <2>2. v.val \in (0 .. 255) \X Nat /\ UuidLength \in Nat
    BY <1>4, SizesAssumption DEF HeldValue, JSValue
  <2> DEFINE val == IF v.val[1] = 3 THEN <<3, UuidLength>> ELSE v.val
  <2>3. val \in (0 .. 255) \X Nat /\ (val[1] = 3 => val[2] = UuidLength)
    BY <2>2
  <2>4. "binary" \in DOMAIN JSKind
    BY Kinds
  <2> HIDE DEF val
  <2>5. BSONValue(Value("binary", val))
    BY <2>3, <2>4, BSONValueIs
  <2> QED
    BY <2>1, <2>5 DEF val
<1>5. CASE v.kind = "Timestamp"
  <2>1. Converted(v) = Value("timestamp", <<ToInt(v.val[1]), ToInt(v.val[2])>>)
    BY <1>5, PlainKinds, Kinds DEF Converted, AsGiven
  <2>2. v.val[1] \in Int /\ v.val[2] \in Int
    BY <1>5 DEF HeldValue, JSValue
  <2>3. <<ToInt(v.val[1]), ToInt(v.val[2])>> \in Ints \X Ints
    BY <2>2, CastIsInt
  <2> QED
    BY <2>1, <2>3, Kinds, ValueIs, SMTT(30) DEF BSONValue
<1> QED
  BY <1>1, <1>2, <1>3, <1>4, <1>5, Kinds

LEMMA SimpleHeld ==
  ASSUME NEW kind \in Plain \union DOMAIN BSONKind, kind # "Timestamp", kind # "BinData",
         NEW val
  PROVE  HeldValue(Value(kind, val))
BY ValueIs DEF HeldValue, JSValue

\* What is read of a stored value can be held.
LEMMA ReadWell ==
  ASSUME NEW b, BSONValue(b), Readable(Decoded(b))
  PROVE  HeldValue(ToJS(Decoded(b)))
<1>1. b.kind \in Plain \union DOMAIN JSKind \union {"symbol", "undefined"}
  BY DEF BSONValue
<1>2. CASE b.kind \in Plain
  <2>1. Decoded(b) = b /\ ToJS(b) = Value(b.kind, b.val)
    BY <1>2, PlainKinds DEF Decoded, ToJS, JSKindOf
  <2> QED
    BY <1>2, <2>1, PlainKinds, SimpleHeld
<1>3. CASE b.kind = "symbol"
  <2>1. ToJS(Decoded(b)) = Value("string", b.val)
    BY <1>3, PlainKinds, ValueIs DEF Decoded, ToJS, JSKindOf
  <2> QED
    BY <2>1, PlainKinds, SimpleHeld
<1>4. CASE b.kind = "undefined"
  <2>1. PICK val : ToJS(Decoded(b)) = Value("null", val)
    BY <1>4, PlainKinds, ValueIs DEF Decoded, ToJS, JSKindOf
  <2> QED
    BY <2>1, PlainKinds, SimpleHeld
<1>5. CASE b.kind \in {"double", "int32", "int64", "code", "codeWScope"}
  <2>1. Decoded(b) = b /\ ToJS(b) = Value(JSKind[b.kind], b.val)
    BY <1>5, PlainKinds DEF Decoded, ToJS, JSKindOf
  <2>2. PICK kind \in {"number", "NumberLong", "string"} : kind = JSKind[b.kind]
    BY <1>5, Kinds
  <2>3. kind \in Plain \union DOMAIN BSONKind
    BY <2>2, PlainKinds, Kinds
  <2> QED
    BY <2>1, <2>2, <2>3, SimpleHeld
<1>6. CASE b.kind = "binary"
  <2>1. b.val \in (0 .. 255) \X Nat
    BY <1>6 DEF BSONValue
  <2>2. PICK val \in (0 .. 255) \X Nat : Decoded(b) = Value("binary", val)
    <3>1. CASE b.val[1] = 2
      <4>1. Decoded(b) = Value("binary", <<0, b.val[2]>>)
        BY <1>6, <3>1 DEF Decoded
      <4>2. <<0, b.val[2]>> \in (0 .. 255) \X Nat
        BY <2>1
      <4> QED
        BY <4>1, <4>2
    <3>2. CASE b.val[1] # 2
      BY <1>6, <2>1, <3>2 DEF Decoded, BSONValue
    <3> QED
      BY <3>1, <3>2
  <2>3. ToJS(Decoded(b)) = Value("BinData", val)
    BY <2>2, PlainKinds, Kinds, ValueIs DEF ToJS, JSKindOf
  <2> QED
    BY <2>2, <2>3, Kinds, ValueIs DEF HeldValue, JSValue
<1>7. CASE b.kind = "timestamp"
  <2>1. Decoded(b) = b /\ ToJS(b) = Value("Timestamp", b.val)
    BY <1>7, PlainKinds, Kinds DEF Decoded, ToJS, JSKindOf
  <2>2. b.val \in Int \X Int
    BY <1>7, SizesAssumption DEF BSONValue, Ints
  <2> QED
    BY <2>1, <2>2, Kinds, ValueIs DEF HeldValue, JSValue
<1> QED
  BY <1>1, <1>2, <1>3, <1>4, <1>5, <1>6, <1>7, Kinds


\* What is read and saved back is what was stored, or lost.
LEMMA SavedBack ==
  ASSUME NEW b, BSONValue(b), Convertible(ToJS(Decoded(b))), ~LostOnSaveBack(b)
  PROVE  /\ ~ToGenerate(ToJS(Decoded(b)))
         /\ Converted(ToJS(Decoded(b))) = b
<1>1. /\ b = Value(b.kind, b.val)
      /\ b.kind \in Plain \union DOMAIN JSKind \union {"symbol", "undefined"}
  BY DEF BSONValue
<1>2. b.kind \in Plain \union {"double", "int64", "binary", "timestamp"}
  BY <1>1, Kinds DEF LostOnSaveBack
<1>3. CASE b.kind \in Plain
  <2>1. Decoded(b) = b /\ ToJS(b) = b
    BY <1>1, <1>3, PlainKinds DEF Decoded, ToJS, JSKindOf
  <2>2. Converted(b) = b
    BY <1>1, <1>3, PlainKinds DEF Converted
  <2> QED
    BY <1>3, <2>1, <2>2, PlainKinds DEF ToGenerate
<1>4. CASE b.kind = "double" \/ b.kind = "int64"
  <2>1. PICK kind \in {"number", "NumberLong"} :
          Decoded(b) = b /\ ToJS(b) = Value(kind, b.val) /\ BSONKind[kind] = b.kind
    BY <1>4, PlainKinds, Kinds DEF Decoded, ToJS, JSKindOf
  <2>2. Converted(Value(kind, b.val)) = b
    BY <1>1, <2>1, PlainKinds, ValueIs DEF Converted
  <2> QED
    BY <2>1, <2>2, ValueIs DEF ToGenerate
<1>5. CASE b.kind = "binary"
  <2>1. b.val[1] # 2 /\ b.val \in (0 .. 255) \X Nat /\ (b.val[1] = 3 => b.val[2] = UuidLength)
    BY <1>5 DEF BSONValue, LostOnSaveBack
  <2>2. Decoded(b) = b /\ ToJS(b) = Value("BinData", b.val)
    BY <1>5, <2>1, PlainKinds, Kinds DEF Decoded, ToJS, JSKindOf
  <2>3. b.val[1] = 3 => b.val = <<3, UuidLength>>
    BY <2>1
  <2>4. Converted(Value("BinData", b.val)) = Value("binary", b.val)
    BY <2>3, PlainKinds, Kinds, ValueIs DEF Converted
  <2> QED
    BY <1>1, <1>5, <2>2, <2>4, ValueIs DEF ToGenerate
<1>6. CASE b.kind = "timestamp"
  <2>1. b.val[1] # 0 /\ b.val \in Ints \X Ints
    BY <1>6 DEF BSONValue, LostOnSaveBack
  <2>2. Decoded(b) = b /\ ToJS(b) = Value("Timestamp", b.val)
    BY <1>6, PlainKinds, Kinds DEF Decoded, ToJS, JSKindOf
  <2>3. ToInt(b.val[1]) = b.val[1] /\ ToInt(b.val[2]) = b.val[2]
    BY <2>1, IntsKept
  <2>4. <<ToInt(b.val[1]), ToInt(b.val[2])>> = b.val
    BY <2>1, <2>3
  <2>5. Converted(Value("Timestamp", b.val)) = Value("timestamp", b.val)
    BY <2>4, PlainKinds, Kinds, ValueIs DEF Converted, AsGiven
  <2>6. ~ToGenerate(Value("Timestamp", b.val))
    BY <2>1, <2>3, ValueIs DEF ToGenerate
  <2> QED
    BY <1>1, <1>6, <2>2, <2>5, <2>6
<1> QED
  BY <1>2, <1>3, <1>4, <1>5, <1>6

\* The inductive invariant.
Counted ==
  /\ clock \in Nat /\ made \in Seq(Int \X Nat) /\ Len(made) <= MaxMade
  /\ ordinal \in 1 .. Len(made) + 1
HeldWell == held = None \/ HeldValue(held)
StoredWell == stored = None \/ BSONValue(stored)
FoundAsIs == readFrom # None => BSONValue(readFrom) /\ held = ToJS(Decoded(readFrom))
FieldInv == Counted /\ HeldWell /\ StoredWell /\ FoundAsIs

LEMMA FieldInit == Init => FieldInv
<1>1. ASSUME Init PROVE FieldInv
  <2>1. /\ clock = 1 /\ made = << >> /\ ordinal = 1
        /\ held = None /\ stored = None /\ readFrom = None
    BY <1>1 DEF Init
  <2>2. Counted
    BY <2>1, SizesAssumption DEF Counted
  <2> QED
    BY <2>1, <2>2 DEF FieldInv, HeldWell, StoredWell, FoundAsIs
<1> QED
  BY <1>1

LEMMA FieldStep == FieldInv /\ [Next]_vars => FieldInv'
<1> SUFFICES ASSUME FieldInv, [Next]_vars PROVE FieldInv'
  OBVIOUS
<1>1. ASSUME NEW v \in Scripted, Make(v) PROVE FieldInv'
  <2>1. HeldValue(v)
    BY <1>1, ValuesAssumption DEF Make, Constructible, HeldValue
  <2> QED
    BY <1>1, <2>1 DEF Make, genVars, FieldInv, Counted, HeldWell, StoredWell, FoundAsIs
<1>2. CASE Save
  <2> DEFINE sec == ToInt(clock)
             now == <<sec, NextOrdinal(sec)>>
  <2>1. held # None /\ UNCHANGED <<held, readFrom, clock>>
    BY <1>2 DEF Save
  <2>2. HeldWell' /\ FoundAsIs'
    BY <2>1 DEF FieldInv, HeldWell, FoundAsIs
  <2>3. CASE ToGenerate(held)
    <3>1. /\ Len(made) < MaxMade /\ stored' = Value("timestamp", now)
          /\ ordinal' = NextOrdinal(sec) /\ made' = Append(made, now)
      BY <1>2, <2>3 DEF Save
    <3>2. sec \in Ints
      <4>1. clock \in Int
        BY DEF FieldInv, Counted
      <4> QED
        BY <4>1, CastIsInt
    <3>3. NextOrdinal(sec) \in 1 .. Len(made) + 2
      BY DEF FieldInv, Counted, NextOrdinal
    <3>4. IntMax \in Nat /\ MaxMade \in Nat /\ MaxMade < IntMax
      BY SizesAssumption
    <3> HIDE DEF sec
    <3>5. NextOrdinal(sec) \in Ints /\ NextOrdinal(sec) \in Nat /\ sec \in Int
      BY <3>1, <3>2, <3>3, <3>4 DEF FieldInv, Counted, Ints
    <3>6. Counted'
      <4>1. now \in Int \X Nat /\ made \in Seq(Int \X Nat)
        BY <3>5 DEF FieldInv, Counted
      <4> HIDE DEF now
      <4>2. made' \in Seq(Int \X Nat) /\ Len(made') = Len(made) + 1
        BY <3>1, <4>1
      <4> QED
        BY <2>1, <3>1, <3>3, <3>4, <4>2 DEF FieldInv, Counted
    <3>7. BSONValue(stored')
      <4>1. now \in Ints \X Ints
        BY <3>2, <3>5
      <4> HIDE DEF now
      <4> QED
        BY <3>1, <4>1, Kinds, ValueIs DEF BSONValue
    <3> QED
      BY <2>2, <3>6, <3>7 DEF FieldInv, StoredWell
  <2>4. CASE ~ToGenerate(held)
    <3>1. stored' = Converted(held) /\ UNCHANGED genVars
      BY <1>2, <2>4 DEF Save
    <3>2. BSONValue(stored')
      BY <2>1, <3>1, ConvertedWell DEF FieldInv, HeldWell
    <3> QED
      BY <2>1, <2>2, <3>1, <3>2 DEF FieldInv, Counted, StoredWell, genVars
  <2> QED
    BY <2>3, <2>4
<1>3. CASE Find
  <2>1. /\ stored # None /\ Readable(Decoded(stored))
        /\ held' = ToJS(Decoded(stored)) /\ readFrom' = stored
        /\ UNCHANGED <<stored, clock, genVars>>
    BY <1>3 DEF Find
  <2>2. BSONValue(stored) /\ HeldValue(held')
    BY <2>1, ReadWell DEF FieldInv, StoredWell
  <2> QED
    BY <2>1, <2>2 DEF genVars, FieldInv, Counted, HeldWell, StoredWell, FoundAsIs
<1>4. ASSUME NEW b \in Foreign, ForeignStore(b) PROVE FieldInv'
  <2>1. BSONValue(b)
    BY ValuesAssumption
  <2> QED
    BY <1>4, <2>1 DEF ForeignStore, genVars, FieldInv, Counted, HeldWell, StoredWell, FoundAsIs
<1>5. ASSUME NEW sec \in 1 .. MaxClock, Tick(sec) PROVE FieldInv'
  <2>1. sec \in Nat
    BY SizesAssumption
  <2> QED
    BY <1>5, <2>1 DEF Tick, genVars, FieldInv, Counted, HeldWell, StoredWell, FoundAsIs
<1>6. CASE UNCHANGED vars
  BY <1>6 DEF vars, FieldInv, Counted, HeldWell, StoredWell, FoundAsIs
<1> QED
  BY <1>1, <1>2, <1>3, <1>4, <1>5, <1>6 DEF Next

\* A script that finds a document and saves it leaves a field it did not touch as it
\* was, but for the values that a script cannot tell from others.
THEOREM SavingBackKeeps == Spec => SaveBackKeeps
<1>1. ASSUME FieldInv, Save, readFrom # None
      PROVE  stored' = readFrom \/ LostOnSaveBack(readFrom)
  <2>1. BSONValue(readFrom) /\ held = ToJS(Decoded(readFrom)) /\ Convertible(held)
    BY <1>1 DEF FieldInv, FoundAsIs, Save
  <2>2. CASE ~LostOnSaveBack(readFrom)
    <3>1. ~ToGenerate(held) /\ Converted(held) = readFrom
      BY <2>1, <2>2, SavedBack
    <3> QED
      BY <1>1, <3>1 DEF Save
  <2> QED
    BY <2>2
<1>2. FieldInv /\ [Next]_vars =>
        [Save /\ readFrom # None => stored' = readFrom \/ LostOnSaveBack(readFrom)]_vars
  BY <1>1
<1> QED
  BY <1>2, FieldInit, FieldStep, PTL DEF Spec, SaveBackKeeps

=============================================================================
