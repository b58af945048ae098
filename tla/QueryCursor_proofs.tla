------------------------- MODULE QueryCursor_proofs -------------------------
(***************************************************************************)
(* Proofs about QueryCursor, for any result, replies, shapes of the query  *)
(* and faults: the counts of its three layers, and that it implements      *)
(* ResultStream.                                                           *)
(***************************************************************************)
EXTENDS QueryCursor, SequenceTheorems, WellFoundedInduction, TLAPS

-----------------------------------------------------------------------------
(* Sums.  SumOf is a recursive function; that there is one that satisfies  *)
(* its equation, and what it computes, follows by induction.               *)

(* Induction over the natural numbers, for a set: otherwise there were a   *)
(* smallest number outside.                                                *)
LEMMA NatInduct ==
  ASSUME NEW S \in SUBSET Nat, 0 \in S, \A n \in S : n + 1 \in S
  PROVE  \A n \in Nat : n \in S
<1> SUFFICES ASSUME Nat \ S # {} PROVE FALSE
  OBVIOUS
<1> DEFINE R == {ss \in Nat \X Nat : ss[1] < ss[2]}
           T == Nat \ S
<1>1. IsWellFoundedOn(R, Nat)
  BY NatLessThanWellFounded DEF OpToRel
<1>2. PICK n \in T : \A m \in T : ~(<<m, n>> \in R)
  <2>1. T \subseteq Nat /\ T # {}
    OBVIOUS
  <2> HIDE DEF R, T
  <2> QED
    BY <1>1, <2>1, WFMin
<1>3. n \in Nat /\ n \notin S
  <2> HIDE DEF R
  <2> QED
    BY <1>2
<1>4. n - 1 \in Nat
  <2>1. n # 0
    BY <1>3
  <2> QED
    BY <1>3, <2>1
<1>5. <<n - 1, n>> \in R
  BY <1>3, <1>4
<1>6. n - 1 \in S
  <2> HIDE DEF R
  <2> QED
    BY <1>2, <1>4, <1>5
<1>7. n - 1 + 1 \in S
  BY <1>6
<1> QED
  BY <1>3, <1>7

IsSum(f, s, N) ==
  f = [n \in 0 .. N |-> IF n = 0 THEN 0 ELSE f[n - 1] + s[n]]

LEMMA SumDefined ==
  ASSUME NEW s, NEW N \in Nat
  PROVE  \E f : IsSum(f, s, N)
<1> DEFINE S == {n \in Nat : \E f : IsSum(f, s, n)}
<1>1. 0 \in S
  <2> DEFINE f == [n \in 0 .. 0 |-> 0]
  <2>1. f = [n \in 0 .. 0 |-> IF n = 0 THEN 0 ELSE f[n - 1] + s[n]]
    OBVIOUS
  <2> QED
    BY <2>1 DEF IsSum
<1>2. ASSUME NEW n \in S PROVE n + 1 \in S
  <2>1. PICK g : IsSum(g, s, n)
    OBVIOUS
  <2> DEFINE f == [m \in 0 .. n + 1 |-> IF m = n + 1 THEN g[n] + s[n + 1] ELSE g[m]]
  <2>2. \A m \in 0 .. n : g[m] = IF m = 0 THEN 0 ELSE g[m - 1] + s[m]
    BY <2>1 DEF IsSum
  <2>3. ASSUME NEW m \in 0 .. n + 1
        PROVE  f[m] = IF m = 0 THEN 0 ELSE f[m - 1] + s[m]
    <3>1. CASE m = n + 1
      <4>1. m # 0 /\ m - 1 = n /\ n \in 0 .. n + 1 /\ n # n + 1
        BY <3>1
      <4>2. f[n] = g[n]
        BY <4>1
      <4> QED
        BY <3>1, <4>1, <4>2
    <3>2. CASE m # n + 1
      <4>1. m \in 0 .. n /\ f[m] = g[m]
        BY <3>2
      <4>2. m # 0 => m - 1 \in 0 .. n + 1 /\ m - 1 # n + 1
        BY <4>1
      <4>3. m # 0 => f[m - 1] = g[m - 1]
        BY <4>2
      <4> QED
        BY <2>2, <4>1, <4>3
    <3> QED
      BY <3>1, <3>2
  <2>4. f = [m \in 0 .. n + 1 |-> f[m]]
    OBVIOUS
  <2> HIDE DEF f
  <2>5. f = [m \in 0 .. n + 1 |-> IF m = 0 THEN 0 ELSE f[m - 1] + s[m]]
    BY <2>3, <2>4
  <2> QED
    BY <2>5 DEF IsSum
<1>3. \A n \in Nat : n \in S
  <2> HIDE DEF S
  <2>1. S \in SUBSET Nat
    BY DEF S
  <2> QED
    BY <1>1, <1>2, <2>1, NatInduct
<1> QED
  BY <1>3

(* The partial sums.                                                       *)
Sums(s) == CHOOSE f : IsSum(f, s, Len(s))

LEMMA SumEquation ==
  ASSUME NEW s \in Seq(Nat)
  PROVE  /\ SumOf(s) = Sums(s)[Len(s)]
         /\ Sums(s)[0] = 0
         /\ \A n \in 1 .. Len(s) : Sums(s)[n] = Sums(s)[n - 1] + s[n]
<1>1. SumOf(s) = Sums(s)[Len(s)]
  BY Zenon DEF SumOf, Sums, IsSum
<1>2. IsSum(Sums(s), s, Len(s))
  <2>1. Len(s) \in Nat
    OBVIOUS
  <2>2. \E f : IsSum(f, s, Len(s))
    BY <2>1, SumDefined
  <2> QED
    BY <2>2, Zenon DEF Sums
<1>3. \A n \in 0 .. Len(s) : Sums(s)[n] = IF n = 0 THEN 0 ELSE Sums(s)[n - 1] + s[n]
  <2>1. \A f : IsSum(f, s, Len(s)) =>
          \A n \in 0 .. Len(s) : f[n] = IF n = 0 THEN 0 ELSE f[n - 1] + s[n]
    BY DEF IsSum
  <2> QED
    BY <1>2, <2>1
<1> QED
  BY <1>1, <1>3

(* Partial sums are numbers, and depend on the terms up to there only.     *)
LEMMA SumsAgree ==
  ASSUME NEW s \in Seq(Nat), NEW t \in Seq(Nat), NEW N \in 0 .. Len(s), N <= Len(t),
         \A i \in 1 .. N : s[i] = t[i]
  PROVE  Sums(s)[N] = Sums(t)[N] /\ Sums(s)[N] \in Nat
<1> DEFINE S == {n \in Nat : n <= N => Sums(s)[n] = Sums(t)[n] /\ Sums(s)[n] \in Nat}
<1>1. 0 \in S
  BY SumEquation
<1>2. ASSUME NEW n \in S PROVE n + 1 \in S
  <2>1. CASE n + 1 <= N
    <3>1. n + 1 \in 1 .. N /\ n + 1 - 1 = n
      BY <2>1
    <3>2. Sums(s)[n + 1] = Sums(s)[n] + s[n + 1] /\ Sums(t)[n + 1] = Sums(t)[n] + t[n + 1]
      BY <3>1, SumEquation
    <3>3. s[n + 1] = t[n + 1] /\ s[n + 1] \in Nat
      BY <3>1
    <3> QED
      BY <2>1, <3>2, <3>3
  <2>2. CASE ~(n + 1 <= N)
    BY <2>2
  <2> QED
    BY <2>1, <2>2
<1>3. \A n \in Nat : n \in S
  <2> HIDE DEF S
  <2>1. S \in SUBSET Nat
    BY DEF S
  <2> QED
    BY <1>1, <1>2, <2>1, NatInduct
<1> QED
  BY <1>3

LEMMA SumIsNat ==
  ASSUME NEW s \in Seq(Nat)
  PROVE  SumOf(s) \in Nat /\ (s = << >> => SumOf(s) = 0)
<1>1. SumOf(s) = Sums(s)[Len(s)] /\ Sums(s)[0] = 0
  BY SumEquation
<1>2. Sums(s)[Len(s)] \in Nat
  BY SumsAgree
<1> QED
  BY <1>1, <1>2

LEMMA SumAppend ==
  ASSUME NEW s \in Seq(Nat), NEW k \in Nat
  PROVE  SumOf(Append(s, k)) = SumOf(s) + k
<1> DEFINE t == Append(s, k)
<1>1. /\ t \in Seq(Nat) /\ Len(t) = Len(s) + 1 /\ t[Len(s) + 1] = k
      /\ \A i \in 1 .. Len(s) : s[i] = t[i]
  BY AppendProperties
<1> HIDE DEF t
<1>2. Sums(t)[Len(s) + 1] = Sums(t)[Len(s)] + k
  <2>1. Len(s) + 1 \in 1 .. Len(t) /\ Len(s) + 1 - 1 = Len(s)
    BY <1>1
  <2>2. \A n \in 1 .. Len(t) : Sums(t)[n] = Sums(t)[n - 1] + t[n]
    BY <1>1, SumEquation
  <2>3. Sums(t)[Len(s) + 1] = Sums(t)[Len(s) + 1 - 1] + t[Len(s) + 1]
    BY <2>1, <2>2
  <2> QED
    BY <1>1, <2>1, <2>3
<1>3. Sums(s)[Len(s)] = Sums(t)[Len(s)]
  <2>1. Len(s) \in 0 .. Len(s) /\ Len(s) <= Len(t) /\ t \in Seq(Nat)
    BY <1>1
  <2> QED
    BY <1>1, <2>1, SumsAgree
<1>4. SumOf(s) = Sums(s)[Len(s)] /\ SumOf(t) = Sums(t)[Len(t)]
  BY <1>1, SumEquation
<1> QED
  BY <1>1, <1>2, <1>3, <1>4 DEF t

(* All but the last term.                                                  *)
LEMMA SumFront ==
  ASSUME NEW s \in Seq(Nat), NEW n \in Nat, n + 1 = Len(s)
  PROVE  SumOf(SubSeq(s, 1, n)) + s[n + 1] = SumOf(s) /\ SumOf(SubSeq(s, 1, n)) \in Nat
<1> DEFINE t == SubSeq(s, 1, n)
<1>1. t \in Seq(Nat) /\ Len(t) = n /\ \A i \in 1 .. n : t[i] = s[i]
  <2>1. \A i \in 1 .. n : s[i] \in Nat
    OBVIOUS
  <2> QED
    BY <2>1, SubSeqProperties
<1> HIDE DEF t
<1>2. Sums(t)[n] = Sums(s)[n]
  BY <1>1, SumsAgree
<1>3. Sums(s)[n + 1] = Sums(s)[n] + s[n + 1]
  <2>1. n + 1 \in 1 .. Len(s) /\ n + 1 - 1 = n
    OBVIOUS
  <2> QED
    BY <2>1, SumEquation
<1>4. SumOf(s) = Sums(s)[n + 1] /\ SumOf(t) = Sums(t)[n] /\ SumOf(t) \in Nat
  BY <1>1, SumEquation, SumIsNat
<1> QED
  BY <1>2, <1>3, <1>4 DEF t

-----------------------------------------------------------------------------
(* The inductive invariant.                                                *)

(* What is true before the driver has a reply; and the query's shape is    *)
(* fixed by then.                                                          *)
Unstarted ==
  IF driver.started
  THEN executed
  ELSE /\ driver.left = 0 /\ driver.num = 0 /\ driver.sizes = << >> /\ ~driver.live
       /\ ~server.dead /\ got = << >>

(* The three layers count the same documents: what DBQuery has seen the    *)
(* driver has handed out, and that and what it has left is what it fetched. *)
(* Each document seen was given to the script, but for those that failed.  *)
Counted ==
  /\ seen = driver.num
  /\ driver.num + driver.left = Fetched(driver)
  /\ Len(got) <= driver.num
  /\ faults = 0 => Len(got) = driver.num

(* The server is ahead of the driver by what the driver has left, and ahead *)
(* of where it would be by the replies that were lost.                     *)
Ahead ==
  driver.started =>
    /\ server.next - driver.left >= FirstResult + driver.num
    /\ faults = 0 => server.next - driver.left = FirstResult + driver.num
    /\ \/ server.next <= NumResults + 1
       \/ server.next = FirstResult /\ driver.left = 0
    /\ got # << >> => got[Len(got)] < server.next - driver.left

(* The driver never fetches more than the query wants, and gives up the    *)
(* server's cursor only when it has all of it.                             *)
Bounded ==
  driver.started =>
    /\ limit > 0 => Fetched(driver) <= limit
    /\ driver.live /\ limit > 0 => Fetched(driver) < limit
    /\ DriverBatch < 0 =>
         ~driver.live /\ Fetched(driver) <= Least(Abs(DriverBatch), MaxReply)
    /\ ~driver.live /\ faults = 0 => Fetched(driver) = Stream!Size

EndsWhole ==
  ended => executed /\ (faults = 0 => Len(got) = Stream!Size)

(* The driver counts a fetch that failed because the cursor was forgotten, *)
(* and there are no further batches after that.                            *)
Batches ==
  driver.started /\ (driver.left > 0 \/ ~server.dead) =>
    driver.getMores + 1 = Len(driver.sizes)

(* A loop has read the last documents that the script was given.           *)
FillsFromGot ==
  filling # None =>
    /\ Len(filling) <= Len(got)
    /\ \A i \in 1 .. Len(filling) : filling[i] = got[Len(got) - Len(filling) + i]

Inv ==
  /\ TypeOK /\ Unstarted /\ Counted /\ Ahead /\ Bounded /\ EndsWhole /\ Batches
  /\ FillsFromGot /\ ArrayIsTheRest

-----------------------------------------------------------------------------
(* The window of the query, and what one reply adds to it.                 *)

Positive(x) == IF x > 0 THEN x ELSE 0

LEMMA MaxZero ==
  ASSUME NEW x \in Int
  PROVE  Max({0, x}) = Positive(x)
<1> DEFINE IsMax(y) == y \in {0, x} /\ \A z \in {0, x} : y >= z
<1>1. Max({0, x}) = CHOOSE y \in {0, x} : \A z \in {0, x} : y >= z
  BY DEF Max
<1>2. IsMax(Positive(x))
  BY DEF Positive
<1>3. IsMax(CHOOSE y \in {0, x} : \A z \in {0, x} : y >= z)
  BY <1>2, Zenon
<1> QED
  BY <1>1, <1>3 DEF Positive

LEMMA ShapeTypes ==
  ASSUME TypeOK
  PROVE  /\ limit \in Int /\ skip \in Nat /\ batchSize \in Int
         /\ FirstResult \in Nat /\ FirstResult >= 1 /\ NumResults \in Nat
         /\ DriverBatch \in Int /\ DriverLimit \in Nat
         /\ DriverBatch < 0 <=> limit < 0 \/ batchSize < 0
         /\ Fetched(driver) \in Nat
<1>1. limit \in Int /\ skip \in Nat /\ batchSize \in Int
  BY SizesAssumption DEF TypeOK
<1>2. driver.sizes \in Seq(Nat)
  BY DEF TypeOK
<1>3. Fetched(driver) \in Nat
  BY <1>2, SumIsNat DEF Fetched
<1> QED
  BY <1>1, <1>3, SizesAssumption DEF FirstResult, NumResults, DriverBatch, DriverLimit

(* The window is the largest number that the result, the limit and a       *)
(* single reply allow.                                                     *)
LEMMA WindowIs ==
  ASSUME TypeOK
  PROVE  /\ Stream!Size \in Nat
         /\ limit > 0 => Stream!Size <= limit
         /\ DriverBatch < 0 => Stream!Size <= Least(Abs(DriverBatch), MaxReply)
         /\ Stream!Size <= Positive(NumResults + 1 - FirstResult)
         /\ \A x \in Nat :
              /\ limit > 0 => x <= limit
              /\ DriverBatch < 0 => x <= Least(Abs(DriverBatch), MaxReply)
              /\ x <= Positive(NumResults + 1 - FirstResult)
              => x <= Stream!Size
         /\ Stream!Size = Positive(LastWanted + 1 - FirstResult)
         /\ LastWanted \in Int
<1>1. /\ limit \in Int /\ batchSize \in Int /\ MaxReply \in Nat \ {0}
      /\ FirstResult \in Nat /\ FirstResult >= 1 /\ NumResults \in Nat
  BY ShapeTypes, SizesAssumption
<1>2. Wanted \in Nat
  BY <1>1 DEF Wanted, Least
<1>3. /\ LastWanted = Least(NumResults, FirstResult - 1 + Wanted)
      /\ Stream!Size = IF LastWanted < FirstResult THEN 0 ELSE LastWanted - FirstResult + 1
  BY DEF LastWanted, Stream!Size
<1>4. /\ LastWanted \in Int
      /\ Stream!Size = Positive(LastWanted + 1 - FirstResult)
      /\ Stream!Size = Least(Wanted, Positive(NumResults + 1 - FirstResult))
  BY <1>1, <1>2, <1>3 DEF Least, Positive
<1>5. CASE DriverBatch < 0
  <2>1. Wanted = IF limit > 0 THEN Least(limit, Least(Abs(DriverBatch), MaxReply))
                 ELSE Least(NumResults, Least(Abs(DriverBatch), MaxReply))
    BY <1>1, <1>5 DEF Wanted, Least, Abs, DriverBatch
  <2>2. Least(Abs(DriverBatch), MaxReply) \in Nat
    BY <1>1, <1>5 DEF Least, Abs, DriverBatch
  <2> QED
    BY <1>1, <1>4, <1>5, <2>1, <2>2 DEF Least, Positive
<1>6. CASE ~(DriverBatch < 0)
  <2>1. Wanted = IF limit > 0 THEN limit ELSE NumResults
    BY <1>1, <1>6, ShapeTypes DEF Wanted
  <2> QED
    BY <1>1, <1>4, <1>6, <2>1 DEF Least, Positive
<1> QED
  BY <1>5, <1>6

(* A reply has no more documents than there are, than the limit leaves and *)
(* than a single reply has; and it is the last only when it comes to one of *)
(* these.                                                                  *)
LEMMA ReplyFits ==
  ASSUME TypeOK, NEW first \in Nat, NEW default \in Nat \ {0},
         limit > 0 => Fetched(driver) < limit,
         DriverBatch < 0 => Fetched(driver) = 0,
         NEW k, k = Sent(Asked(driver), first, default)
  PROVE  /\ Asked(driver) \in Int
         /\ k \in Nat /\ k <= Positive(NumResults + 1 - first)
         /\ limit > 0 => Fetched(driver) + k <= limit
         /\ DriverBatch < 0 =>
              Asked(driver) < 0 /\ k <= Least(Abs(DriverBatch), MaxReply)
         /\ (\/ Asked(driver) < 0
             \/ first + k > NumResults \/ k # Room(Asked(driver), default))
            => \/ k = Positive(NumResults + 1 - first)
               \/ limit > 0 /\ Fetched(driver) + k >= limit
               \/ DriverBatch < 0 /\ k >= Least(Abs(DriverBatch), MaxReply)
<1> DEFINE n == Asked(driver)
           f == Fetched(driver)
<1>1. /\ limit \in Int /\ MaxReply \in Nat \ {0} /\ NumResults \in Nat /\ f \in Nat
      /\ DriverBatch \in Int /\ DriverLimit = (IF limit > 0 THEN limit ELSE 0)
  BY ShapeTypes, SizesAssumption DEF DriverLimit
<1>2. /\ n \in Int
      /\ limit > 0 /\ n # 0 => Abs(n) <= limit - f
      /\ limit > 0 => n # 0
      /\ DriverBatch < 0 => n < 0 /\ Abs(n) <= Abs(DriverBatch)
      /\ DriverBatch < 0 => Abs(n) = Abs(DriverBatch) \/ (limit > 0 /\ f + Abs(n) = limit)
      /\ n < 0 /\ ~(DriverBatch < 0) => limit > 0 /\ f + Abs(n) = limit /\ Abs(n) = 1
  <2> DEFINE size == Abs(DriverBatch)
             remaining == IF DriverLimit > 0 THEN DriverLimit - f ELSE 0
             m == IF size = 0 \/ remaining = 0 THEN size + remaining ELSE Least(size, remaining)
  <2>1. n = IF DriverBatch < 0 \/ m = 1 THEN -m ELSE m
    BY DEF Asked
  <2>2. /\ size \in Nat
        /\ DriverBatch < 0 => size > 0
        /\ size = 0 <=> DriverBatch = 0
        /\ size = 1 => DriverBatch < 0
    BY <1>1, ShapeTypes DEF Abs, DriverBatch
  <2>3. remaining = (IF limit > 0 THEN limit - f ELSE 0) /\ remaining \in Nat
        /\ (limit > 0 <=> remaining > 0)
    BY <1>1
  <2> HIDE DEF size, remaining
  <2>4. /\ m \in Nat /\ (remaining > 0 => m > 0 /\ m <= remaining)
        /\ (size > 0 => m > 0 /\ m <= size)
        /\ (m = size \/ m = remaining) 
    BY <2>2, <2>3 DEF Least
  <2> HIDE DEF n, f, m
  <2>5. n \in Int /\ Abs(n) = m /\ (n < 0 <=> m > 0 /\ (DriverBatch < 0 \/ m = 1))
        /\ (n = 0 <=> m = 0)
    BY <2>1, <2>4 DEF Abs
  <2>6. limit > 0 => n # 0 /\ Abs(n) <= limit - f
    BY <1>1, <2>3, <2>4, <2>5
  <2>7. DriverBatch < 0 => n < 0 /\ Abs(n) <= size /\ (Abs(n) = size \/ Abs(n) = remaining)
    BY <1>1, <2>2, <2>4, <2>5
  <2>8. n < 0 /\ ~(DriverBatch < 0) => Abs(n) = 1 /\ Abs(n) = remaining
    BY <1>1, <2>2, <2>4, <2>5
  <2>9. DriverBatch < 0 /\ Abs(n) # size => limit > 0 /\ f + Abs(n) = limit
    BY <1>1, <2>2, <2>3, <2>4, <2>5, <2>7
  <2>10. Abs(n) = 1 /\ Abs(n) = remaining => limit > 0 /\ f + Abs(n) = limit
    BY <1>1, <2>3
  <2> QED
    BY <2>5, <2>6, <2>7, <2>8, <2>9, <2>10 DEF size
<1>3. Max({0, NumResults + 1 - first}) = Positive(NumResults + 1 - first)
  BY <1>1, MaxZero
<1> DEFINE r == Room(n, default)
           rest == Positive(NumResults + 1 - first)
<1>4. k = Least(r, rest)
  BY <1>3 DEF Sent
<1>5. /\ r \in Nat \ {0} /\ r <= MaxReply
      /\ n # 0 => r = Least(Abs(n), MaxReply)
  BY <1>1, <1>2 DEF Room, Least, Abs
<1>6. rest \in Nat /\ (rest > 0 => rest = NumResults + 1 - first)
      /\ (rest = 0 => NumResults + 1 <= first)
  BY <1>1 DEF Positive
<1>7. (n < 0 => n # 0) /\ Abs(n) \in Nat
  BY <1>2 DEF Abs
<1>8. Abs(DriverBatch) \in Nat
  BY <1>1 DEF Abs
<1> HIDE DEF n, f, r, rest
<1>9. k \in Nat /\ k <= rest /\ k <= r /\ (k = r \/ k = rest)
  BY <1>4, <1>5, <1>6 DEF Least
<1>10. limit > 0 => f + k <= limit
  BY <1>1, <1>2, <1>5, <1>7, <1>9 DEF Least
<1>11. DriverBatch < 0 => n < 0 /\ k <= Least(Abs(DriverBatch), MaxReply)
  BY <1>1, <1>2, <1>5, <1>7, <1>8, <1>9 DEF Least
<1>12. ASSUME n < 0 \/ first + k > NumResults \/ k # r, k # rest
       PROVE  \/ limit > 0 /\ f + k >= limit
              \/ DriverBatch < 0 /\ k >= Least(Abs(DriverBatch), MaxReply)
  <2>1. k = r /\ k < rest
    BY <1>5, <1>6, <1>9, <1>12
  <2>2. first + k <= NumResults
    BY <1>1, <1>6, <1>9, <2>1
  <2>3. n < 0
    BY <1>1, <1>9, <1>12, <2>1, <2>2
  <2> QED
    BY <1>1, <1>2, <1>5, <1>7, <1>8, <2>1, <2>3 DEF Least
<1> QED
  BY <1>2, <1>9, <1>10, <1>11, <1>12 DEF n, f, r, rest

-----------------------------------------------------------------------------
(* Steps keep the invariant.                                               *)

LEMMA InitInv == ASSUME Init PROVE Inv
<1>1. SumOf(<< >>) = 0
  <2>1. << >> \in Seq(Nat)
    OBVIOUS
  <2> QED
    BY <2>1, SumIsNat
<1>2. TypeOK
  <2>1. driver \in [ started : BOOLEAN, left : Nat, num : Nat, sizes : Seq(Nat),
                     getMores : Nat, live : BOOLEAN ]
    BY DEF Init, FreshDriver
  <2>2. server \in [ next : Nat, dead : BOOLEAN, unreadable : SUBSET Unreadable ]
    <3>1. CASE server = FreshServer({})
      BY <3>1 DEF FreshServer
    <3>2. CASE server = FreshServer(Unreadable)
      BY <3>2 DEF FreshServer
    <3> QED
      BY <3>1, <3>2 DEF Init
  <2>3. got \in Seq(Nat)
    BY DEF Init
  <2> QED
    BY <2>1, <2>2, <2>3 DEF Init, Find, TypeOK
<1>3. driver.started = FALSE /\ ended = FALSE /\ filling = None /\ arr = None
  BY DEF Init, FreshDriver
<1>4. Unstarted
  BY DEF Init, FreshDriver, FreshServer, Unstarted
<1>5. Counted
  BY <1>1 DEF Init, FreshDriver, Counted, Fetched
<1> QED
  BY <1>2, <1>3, <1>4, <1>5
  DEF Inv, Ahead, Bounded, EndsWhole, Batches, FillsFromGot, ArrayIsTheRest

(* Once the query has been sent, its window stays.                         *)
LEMMA WindowStays ==
  ASSUME UNCHANGED shape
  PROVE  /\ UNCHANGED <<limit, skip, batchSize, query>>
         /\ FirstResult' = FirstResult /\ NumResults' = NumResults
         /\ DriverBatch' = DriverBatch /\ LastWanted' = LastWanted
         /\ (Stream!Size)' = Stream!Size
<1>1. UNCHANGED <<limit, skip, batchSize, query>>
  BY DEF shape, numbers
<1>2. /\ FirstResult' = FirstResult /\ NumResults' = NumResults
      /\ DriverBatch' = DriverBatch
  BY <1>1 DEF FirstResult, NumResults, DriverBatch
<1>3. Wanted' = Wanted
  BY <1>1, <1>2 DEF Wanted
<1>4. LastWanted' = LastWanted
  BY <1>2, <1>3 DEF LastWanted
<1> QED
  BY <1>1, <1>2, <1>4 DEF Stream!Size

(* What has been fetched is in the window, with what is left of it: a      *)
(* document at hand is one the script still wants.                         *)
LEMMA InWindow ==
  ASSUME Inv, driver.started
  PROVE  Fetched(driver) <= Stream!Size
<1>1. /\ NumResults \in Nat /\ FirstResult \in Nat /\ Fetched(driver) \in Nat
  BY ShapeTypes DEF Inv
<1>2. /\ driver.num \in Nat /\ driver.left \in Nat /\ server.next \in Nat
      /\ driver.num + driver.left = Fetched(driver)
  BY DEF Inv, TypeOK, Counted
<1>3. Fetched(driver) <= Positive(NumResults + 1 - FirstResult)
  BY <1>1, <1>2 DEF Inv, Ahead, Positive
<1>4. /\ limit > 0 => Fetched(driver) <= limit
      /\ DriverBatch < 0 => Fetched(driver) <= Least(Abs(DriverBatch), MaxReply)
  BY DEF Inv, Bounded
<1> QED
  BY <1>1, <1>3, <1>4, WindowIs DEF Inv

(* Before the query is sent.                                               *)
LEMMA ShapeKeeps ==
  ASSUME Inv, \/ \E l \in Limits, s \in Skips, b \in BatchSizes : Modify(l, s, b)
              \/ AddSpecial \/ Explain
  PROVE  Inv'
<1>1. /\ ~executed /\ limit' \in Limits \union {0, -1} /\ skip' \in Skips \union {0}
      /\ batchSize' \in BatchSizes \union {0}
      /\ query' \in {"plain", "special", "explained"}
      /\ UNCHANGED <<executed, seen, returned, arr, filling, loop, it, driver, server, got,
                     faults, ended>>
  BY DEF Inv, TypeOK, Modify, AddSpecial, Explain, numbers
<1>2. ~driver.started /\ ~ended /\ arr = None
  BY <1>1 DEF Inv, Unstarted, EndsWhole, ArrayIsTheRest
<1>3. TypeOK'
  BY <1>1 DEF Inv, TypeOK
<1>4. Unstarted' /\ FillsFromGot' /\ Batches'
  BY <1>1 DEF Inv, Unstarted, FillsFromGot, Batches
<1>5. Counted'
  BY <1>1 DEF Inv, Counted, Fetched
<1>6. Ahead' /\ Bounded' /\ EndsWhole' /\ ArrayIsTheRest'
  BY <1>1, <1>2 DEF Ahead, Bounded, EndsWhole, ArrayIsTheRest
<1> QED
  BY <1>3, <1>4, <1>5, <1>6 DEF Inv

LEMMA DriverReceives ==
  ASSUME NEW d \in [ started : BOOLEAN, left : Nat, num : Nat, sizes : Seq(Nat),
                     getMores : Nat, live : BOOLEAN ],
         NEW e, NEW k \in Nat, NEW s \in Seq(Nat), NEW g \in Nat,
         e = [d EXCEPT !.started = TRUE, !.left = k, !.sizes = s, !.getMores = g]
  PROVE  e = [ started |-> TRUE, left |-> k, num |-> d.num, sizes |-> s, getMores |-> g,
               live |-> d.live ]
  OBVIOUS

(* The reply that a fetch gets.                                            *)
LEMMA FetchGets ==
  ASSUME Inv, Fetch
  PROVE  \E k \in Nat, live \in BOOLEAN :
           /\ driver' = [ started |-> TRUE, left |-> k, num |-> driver.num,
                          sizes |-> Append(driver.sizes, k),
                          getMores |-> IF driver.started THEN driver.getMores + 1 ELSE 0,
                          live |-> live ]
           /\ server' = [server EXCEPT !.next =
                           (IF driver.started THEN server.next ELSE FirstResult) + k]
           /\ k <= Positive(NumResults + 1 -
                              (IF driver.started THEN server.next ELSE FirstResult))
           /\ limit > 0 => Fetched(driver) + k <= limit
           /\ DriverBatch < 0 => /\ ~live /\ Fetched(driver) = 0
                                 /\ k <= Least(Abs(DriverBatch), MaxReply)
           /\ live /\ limit > 0 => Fetched(driver) + k < limit
           /\ ~live => \/ k = Positive(NumResults + 1 -
                                 (IF driver.started THEN server.next ELSE FirstResult))
                       \/ limit > 0 /\ Fetched(driver) + k >= limit
                       \/ DriverBatch < 0 /\ k >= Least(Abs(DriverBatch), MaxReply)
<1> DEFINE first == IF driver.started THEN server.next ELSE FirstResult
           default == IF driver.started THEN MaxReply ELSE FirstReply
<1>1. Receive(first, default) /\ (driver.started => driver.live)
  BY DEF Fetch, MustFetch
<1>2. /\ TypeOK /\ first \in Nat /\ default \in Nat \ {0}
      /\ driver \in [ started : BOOLEAN, left : Nat, num : Nat, sizes : Seq(Nat),
                      getMores : Nat, live : BOOLEAN ]
  BY ShapeTypes, SizesAssumption DEF Inv, TypeOK
<1>3. /\ limit > 0 => Fetched(driver) < limit
      /\ DriverBatch < 0 => Fetched(driver) = 0
  <2>1. CASE driver.started
    BY <1>1, <2>1 DEF Inv, Bounded
  <2>2. CASE ~driver.started
    <3>1. << >> \in Seq(Nat) /\ driver.sizes = << >>
      BY <2>2 DEF Inv, Unstarted
    <3>2. Fetched(driver) = 0
      BY <3>1, SumIsNat DEF Fetched
    <3> QED
      BY <3>2, ShapeTypes DEF Inv
  <2> QED
    BY <2>1, <2>2
<1> DEFINE k == Sent(Asked(driver), first, default)
<1>4. PICK open \in {first + k <= NumResults, k = Room(Asked(driver), default)} :
        LET d == [driver EXCEPT !.started = TRUE, !.left = k,
                                !.sizes = Append(@, k),
                                !.getMores = IF driver.started THEN @ + 1 ELSE 0]
        IN /\ driver' = [d EXCEPT !.live = /\ Asked(driver) >= 0 /\ open
                                           /\ DriverLimit > 0 => Fetched(d) < DriverLimit]
           /\ server' = [server EXCEPT !.next = first + k]
  <2>1. {first + k <= NumResults} \union {k = Room(Asked(driver), default)}
          = {first + k <= NumResults, k = Room(Asked(driver), default)}
    BY Zenon
  <2> HIDE DEF first, default
  <2> QED
    BY <1>1, <2>1, Zenon DEF Receive, k
<1> DEFINE live == /\ Asked(driver) >= 0 /\ open
                   /\ DriverLimit > 0 => Fetched(driver) + k < DriverLimit
<1> HIDE DEF first, default, k
<1>5. /\ k \in Nat
      /\ Asked(driver) \in Int
      /\ k <= Positive(NumResults + 1 - first)
      /\ limit > 0 => Fetched(driver) + k <= limit
      /\ DriverBatch < 0 => ~live /\ k <= Least(Abs(DriverBatch), MaxReply)
      /\ live /\ limit > 0 => Fetched(driver) + k < limit
      /\ ~live => \/ k = Positive(NumResults + 1 - first)
                  \/ limit > 0 /\ Fetched(driver) + k >= limit
                  \/ DriverBatch < 0 /\ k >= Least(Abs(DriverBatch), MaxReply)
  <2>1. k = Sent(Asked(driver), first, default)
    BY DEF k
  <2>2. /\ k \in Nat
        /\ Asked(driver) \in Int
        /\ k <= Positive(NumResults + 1 - first)
        /\ limit > 0 => Fetched(driver) + k <= limit
        /\ DriverBatch < 0 =>
             Asked(driver) < 0 /\ k <= Least(Abs(DriverBatch), MaxReply)
        /\ (\/ Asked(driver) < 0
            \/ first + k > NumResults \/ k # Room(Asked(driver), default))
           => \/ k = Positive(NumResults + 1 - first)
              \/ limit > 0 /\ Fetched(driver) + k >= limit
              \/ DriverBatch < 0 /\ k >= Least(Abs(DriverBatch), MaxReply)
    BY <1>2, <1>3, <2>1, ReplyFits, ZenonT(60)
  <2>3. /\ NumResults \in Nat /\ limit \in Int /\ Fetched(driver) \in Nat
        /\ DriverLimit = IF limit > 0 THEN limit ELSE 0
    BY <1>2, ShapeTypes DEF DriverLimit
  <2>4. ~open => first + k > NumResults \/ k # Room(Asked(driver), default)
    <3>1. ASSUME first + k <= NumResults, k = Room(Asked(driver), default) PROVE open
      BY <3>1, Zenon
    <3>2. first + k <= NumResults \/ first + k > NumResults
      BY <1>2, <2>2, <2>3
    <3> QED
      BY <3>1, <3>2
  <2>5. live <=> /\ Asked(driver) >= 0 /\ open
                 /\ DriverLimit > 0 => Fetched(driver) + k < DriverLimit
    OBVIOUS
  <2> HIDE DEF live
  <2>6. live /\ limit > 0 => Fetched(driver) + k < limit
    BY <2>3, <2>5
  <2>7. ~live => \/ Asked(driver) < 0
                 \/ first + k > NumResults \/ k # Room(Asked(driver), default)
                 \/ limit > 0 /\ Fetched(driver) + k >= limit
    BY <2>2, <2>3, <2>4, <2>5
  <2>8. DriverBatch < 0 => ~live
    BY <2>2, <2>5
  <2> QED
    BY <2>2, <2>6, <2>7, <2>8
<1>6. driver' = [ started |-> TRUE, left |-> k, num |-> driver.num,
                  sizes |-> Append(driver.sizes, k),
                  getMores |-> IF driver.started THEN driver.getMores + 1 ELSE 0,
                  live |-> live ]
  <2> DEFINE d == [driver EXCEPT !.started = TRUE, !.left = k,
                                 !.sizes = Append(@, k),
                                 !.getMores = IF driver.started THEN @ + 1 ELSE 0]
  <2>1. d = [ started |-> TRUE, left |-> k, num |-> driver.num,
              sizes |-> Append(driver.sizes, k),
              getMores |-> IF driver.started THEN driver.getMores + 1 ELSE 0,
              live |-> driver.live ]
    <3> DEFINE s == Append(driver.sizes, k)
               g == IF driver.started THEN driver.getMores + 1 ELSE 0
    <3>1. /\ d = [driver EXCEPT !.started = TRUE, !.left = k, !.sizes = s, !.getMores = g]
          /\ s \in Seq(Nat) /\ g \in Nat
      BY <1>2, <1>5
    <3> HIDE DEF s, g, d
    <3> QED
      BY <1>2, <1>5, <3>1, DriverReceives DEF s, g
  <2>2. Fetched(d) = Fetched(driver) + k
    <3>1. d.sizes = Append(driver.sizes, k) /\ driver.sizes \in Seq(Nat)
      BY <1>2, <2>1
    <3> HIDE DEF d
    <3> QED
      BY <1>5, <3>1, SumAppend DEF Fetched
  <2>3. driver' = [d EXCEPT !.live = /\ Asked(driver) >= 0 /\ open
                                     /\ DriverLimit > 0 => Fetched(d) < DriverLimit]
    BY <1>4
  <2> HIDE DEF d
  <2>4. driver' = [d EXCEPT !.live = live]
    BY <2>2, <2>3
  <2> HIDE DEF live
  <2> QED
    BY <2>1, <2>4
<1>7. live \in BOOLEAN
  BY Zenon
<1>8. server' = [server EXCEPT !.next = first + k]
  BY <1>4
<1> HIDE DEF live
<1> QED
  BY <1>3, <1>5, <1>6, <1>7, <1>8 DEF first

(* What the steps that leave the arrays alone keep of them.                *)
LEMMA ArraysStay ==
  ASSUME Inv, UNCHANGED <<shape, arr, got>>, ended => ended', faults' = 0 => faults = 0,
         filling' = filling \/ filling' = None
  PROVE  ArrayIsTheRest' /\ FillsFromGot'
<1>1. FirstResult' = FirstResult /\ LastWanted' = LastWanted
  BY WindowStays
<1>2. ArrayIsTheRest'
  BY <1>1 DEF Inv, ArrayIsTheRest
<1>3. FillsFromGot'
  BY DEF Inv, FillsFromGot
<1> QED
  BY <1>2, <1>3

(* The array of a loop that ends is the last documents the script was given.*)
LEMMA LoopDoneKeeps ==
  ASSUME Inv, LoopDone, ended', UNCHANGED <<shape, got>>,
         faults' = 0 => faults = 0 /\ Len(got) = Stream!Size
  PROVE  /\ ArrayIsTheRest' /\ FillsFromGot'
         /\ arr' \in Seq(Nat) \union {None} /\ filling' = None /\ loop' = "none"
         /\ it' \in BOOLEAN
<1>1. /\ FirstResult' = FirstResult /\ LastWanted' = LastWanted /\ got' = got
      /\ Stream!Size = Max({0, LastWanted + 1 - FirstResult})
  <2>1. LastWanted + 1 - FirstResult \in Int
    BY ShapeTypes, WindowIs DEF Inv
  <2>2. Max({0, LastWanted + 1 - FirstResult}) = Positive(LastWanted + 1 - FirstResult)
    BY <2>1, MaxZero
  <2> QED
    BY <2>2, WindowStays, WindowIs DEF Inv
<1>2. /\ got \in Seq(Nat) /\ filling \in Seq(Nat) \union {None}
      /\ arr \in Seq(Nat) \union {None} /\ it \in BOOLEAN
      /\ loop = "toArray" => filling # None
  BY DEF Inv, TypeOK
<1>3. /\ arr' = IF loop = "toArray" THEN filling ELSE arr
      /\ filling' = None /\ loop' = "none" /\ it' \in BOOLEAN
  BY <1>2 DEF LoopDone, EndLoop
<1>4. ArrayIsTheRest'
  <2>1. CASE loop = "toArray"
    <3>1. /\ arr' = filling /\ filling \in Seq(Nat) /\ Len(filling) <= Len(got)
          /\ \A i \in 1 .. Len(filling) : filling[i] = got[Len(got) - Len(filling) + i]
      BY <1>2, <1>3, <2>1 DEF Inv, FillsFromGot
    <3> DEFINE before == Len(got) - Len(filling)
    <3>2. before \in 0 .. Len(got) - Len(filling) /\ before + Len(filling) = Len(got)
      BY <1>2, <3>1
    <3>3. filling = SubSeq(got, before + 1, before + Len(filling))
      <4> DEFINE s == SubSeq(got, before + 1, before + Len(filling))
      <4>1. /\ s \in Seq(Nat) /\ Len(s) = Len(filling)
            /\ \A i \in 1 .. Len(filling) : s[i] = got[before + i]
        <5>1. \A i \in before + 1 .. before + Len(filling) : got[i] \in Nat
          BY <1>2, <3>1, <3>2
        <5>2. before \in Nat /\ Len(filling) \in Nat
          BY <3>1, <3>2
        <5> DEFINE m == before + 1
                   n == before + Len(filling)
        <5>3. m \in Int /\ n \in Int /\ \A i \in m .. n : got[i] \in Nat
          BY <5>1, <5>2
        <5> HIDE DEF before, m, n
        <5>4. /\ s \in Seq(Nat) /\ Len(s) = IF m <= n THEN n - m + 1 ELSE 0
              /\ \A i \in 1 .. n - m + 1 : s[i] = got[m + i - 1]
          BY <5>3, SubSeqProperties DEF m, n
        <5> HIDE DEF s
        <5>5. n - m + 1 = Len(filling) /\ \A i \in Int : m + i - 1 = before + i
          BY <5>2 DEF m, n
        <5>6. Len(s) = Len(filling)
          BY <5>2, <5>4, <5>5 DEF m, n
        <5>7. ASSUME NEW i \in 1 .. Len(filling) PROVE s[i] = got[before + i]
          <6>1. s[i] = got[m + i - 1]
            BY <5>4, <5>5
          <6>2. i \in Int
            BY <5>2
          <6>3. m + i - 1 = before + i
            BY <5>5, <6>2
          <6> QED
            BY <6>1, <6>3
        <5> QED
          BY <5>4, <5>6, <5>7
      <4>2. \A i \in 1 .. Len(s) : s[i] = filling[i]
        BY <3>1, <4>1
      <4> HIDE DEF s, before
      <4> QED
        BY <3>1, <4>1, <4>2, SeqEqual DEF s
    <3> HIDE DEF before
    <3> QED
      BY <1>1, <3>1, <3>2, <3>3 DEF ArrayIsTheRest
  <2>2. CASE loop # "toArray"
    BY <1>1, <1>3, <2>2 DEF Inv, ArrayIsTheRest
  <2> QED
    BY <2>1, <2>2
<1>5. FillsFromGot'
  BY <1>3 DEF FillsFromGot
<1> QED
  BY <1>2, <1>3, <1>4, <1>5

LEMMA FetchKeeps ==
  ASSUME Inv, Fetch
  PROVE  Inv'
<1> DEFINE f == Fetched(driver)
           first == IF driver.started THEN server.next ELSE FirstResult
           rest == Positive(NumResults + 1 - first)
<1>1. PICK k \in Nat, live \in BOOLEAN :
        /\ driver' = [ started |-> TRUE, left |-> k, num |-> driver.num,
                       sizes |-> Append(driver.sizes, k),
                       getMores |-> IF driver.started THEN driver.getMores + 1 ELSE 0,
                       live |-> live ]
        /\ server' = [server EXCEPT !.next = first + k]
        /\ k <= rest
        /\ limit > 0 => f + k <= limit
        /\ DriverBatch < 0 => /\ ~live /\ f = 0
                              /\ k <= Least(Abs(DriverBatch), MaxReply)
        /\ live /\ limit > 0 => f + k < limit
        /\ ~live => \/ k = rest
                    \/ limit > 0 /\ f + k >= limit
                    \/ DriverBatch < 0 /\ k >= Least(Abs(DriverBatch), MaxReply)
  BY FetchGets
<1>2. /\ executed' = TRUE /\ driver.left = 0 /\ (driver.started => ~server.dead)
      /\ UNCHANGED <<shape, seen, returned, arr, filling, loop, it, got, faults, ended>>
  BY DEF Fetch, MustFetch
<1>3. /\ TypeOK /\ driver.num \in Nat /\ driver.sizes \in Seq(Nat) /\ driver.getMores \in Nat
      /\ driver.started \in BOOLEAN /\ driver.left \in Nat
      /\ server \in [ next : Nat, dead : BOOLEAN, unreadable : SUBSET Unreadable ]
      /\ faults \in Nat /\ got \in Seq(Nat)
  BY DEF Inv, TypeOK
<1>4. /\ limit \in Int /\ FirstResult \in Nat /\ FirstResult >= 1 /\ NumResults \in Nat
      /\ f \in Nat /\ first \in Nat
  BY <1>3, ShapeTypes
<1>5. /\ driver.num = f /\ seen = driver.num
      /\ Len(got) <= driver.num
      /\ faults = 0 => Len(got) = driver.num
  BY <1>2, <1>3, <1>4 DEF Inv, Counted
<1>6. /\ UNCHANGED <<limit, skip, batchSize, query>>
      /\ FirstResult' = FirstResult /\ NumResults' = NumResults
      /\ DriverBatch' = DriverBatch /\ (Stream!Size)' = Stream!Size
  BY <1>2, WindowStays
<1>7. /\ driver'.started = TRUE /\ driver'.left = k /\ driver'.num = driver.num
      /\ driver'.sizes = Append(driver.sizes, k) /\ driver'.live = live
      /\ driver'.getMores = IF driver.started THEN driver.getMores + 1 ELSE 0
      /\ server'.next = first + k /\ server'.dead = server.dead
  BY <1>1, <1>3
<1>8. Fetched(driver)' = f + k
  BY <1>3, <1>7, SumAppend DEF Fetched
<1> HIDE DEF f, first, rest
<1>9. TypeOK'
  <2>1. driver' \in [ started : BOOLEAN, left : Nat, num : Nat, sizes : Seq(Nat),
                      getMores : Nat, live : BOOLEAN ]
    BY <1>1, <1>3
  <2>2. server' \in [ next : Nat, dead : BOOLEAN, unreadable : SUBSET Unreadable ]
    <3>1. first + k \in Nat
      BY <1>4
    <3> QED
      BY <1>1, <1>3, <3>1
  <2> QED
    BY <1>2, <1>6, <2>1, <2>2 DEF Inv, TypeOK
<1>10. Unstarted'
  BY <1>2, <1>7 DEF Unstarted
<1>11. Counted'
  BY <1>2, <1>4, <1>5, <1>7, <1>8 DEF Counted
<1>12. /\ first >= FirstResult + driver.num
       /\ faults = 0 => first = FirstResult + driver.num
       /\ first <= NumResults + 1 \/ first = FirstResult
       /\ got # << >> => got[Len(got)] < first
  <2>1. CASE driver.started
    BY <1>2, <1>3, <1>4, <2>1 DEF Inv, Ahead, first
  <2>2. CASE ~driver.started
    BY <1>4, <2>2 DEF Inv, Unstarted, first
  <2> QED
    BY <2>1, <2>2
<1>13. /\ first + k <= NumResults + 1 \/ (first + k = FirstResult /\ k = 0)
       /\ k = rest => first + k >= NumResults + 1
  <2>1. k \in Nat /\ first \in Nat /\ NumResults \in Nat /\ FirstResult \in Nat
    BY <1>4
  <2>2. k <= rest /\ (first <= NumResults + 1 \/ first = FirstResult)
    BY <1>1, <1>12
  <2>3. CASE NumResults + 1 - first > 0
    <3>1. rest = NumResults + 1 - first
      BY <2>3 DEF rest, Positive
    <3> QED
      BY <2>1, <2>2, <3>1
  <2>4. CASE ~(NumResults + 1 - first > 0)
    <3>1. rest = 0
      BY <2>4 DEF rest, Positive
    <3> QED
      BY <2>1, <2>2, <2>4, <3>1
  <2> QED
    BY <2>3, <2>4
<1>14. Ahead'
  <2>1. got # << >> => got[Len(got)] < first + k - k
    BY <1>4, <1>12
  <2> QED
    BY <1>2, <1>3, <1>4, <1>6, <1>7, <1>12, <1>13, <2>1 DEF Ahead
<1>15. ~live /\ faults = 0 => f + k = Stream!Size
  <2> SUFFICES ASSUME ~live, faults = 0 PROVE f + k = Stream!Size
    OBVIOUS
  <2>1. f + k <= Positive(NumResults + 1 - FirstResult)
    BY <1>1, <1>4, <1>5, <1>12, <1>13, SMTT(30) DEF Positive
  <2>2. DriverBatch < 0 => f + k <= Least(Abs(DriverBatch), MaxReply)
    BY <1>1
  <2>3. f + k <= Stream!Size
    <3>1. f + k \in Nat /\ (limit > 0 => f + k <= limit)
      BY <1>1, <1>4
    <3> DEFINE x == f + k
    <3> HIDE DEF x
    <3>2. x \in Nat /\ (limit > 0 => x <= limit)
          /\ (DriverBatch < 0 => x <= Least(Abs(DriverBatch), MaxReply))
          /\ x <= Positive(NumResults + 1 - FirstResult)
      BY <2>1, <2>2, <3>1 DEF x
    <3>3. x <= Stream!Size
      BY <1>3, <3>2, WindowIs
    <3> QED
      BY <3>3 DEF x
  <2>4. /\ Stream!Size \in Nat
        /\ limit > 0 => Stream!Size <= limit
        /\ DriverBatch < 0 => Stream!Size <= Least(Abs(DriverBatch), MaxReply)
        /\ Stream!Size <= Positive(NumResults + 1 - FirstResult)
    BY <1>3, WindowIs
  <2>5. k = rest => Stream!Size <= f + k
    BY <1>4, <1>5, <1>12, <1>13, <2>4 DEF Positive
  <2>6. limit > 0 /\ f + k >= limit => Stream!Size <= f + k
    BY <1>4, <2>4
  <2>7. DriverBatch < 0 /\ k >= Least(Abs(DriverBatch), MaxReply) => Stream!Size <= f + k
    <3>1. DriverBatch < 0 => Least(Abs(DriverBatch), MaxReply) \in Int
      BY <1>3, ShapeTypes, SizesAssumption DEF Least, Abs
    <3> QED
      BY <1>1, <2>4, <3>1
  <2>8. Stream!Size <= f + k
    BY <1>1, <2>5, <2>6, <2>7
  <2> QED
    BY <1>4, <2>3, <2>4, <2>8
<1>16. Bounded'
  <2>1. DriverBatch < 0 => f + k <= Least(Abs(DriverBatch), MaxReply)
    BY <1>1
  <2> QED
    BY <1>1, <1>2, <1>6, <1>7, <1>8, <1>15, <2>1 DEF Bounded, Least, Abs
<1>17. EndsWhole'
  BY <1>2, <1>6 DEF Inv, EndsWhole
<1>18. Batches'
  <2>1. Len(driver'.sizes) = Len(driver.sizes) + 1 /\ Len(driver.sizes) \in Nat
    BY <1>3, <1>7, AppendProperties
  <2>2. CASE driver.started
    BY <1>2, <1>3, <1>7, <2>1, <2>2 DEF Inv, Batches
  <2>3. CASE ~driver.started
    <3>1. Len(driver.sizes) = 0
      BY <2>3 DEF Inv, Unstarted
    <3> QED
      BY <1>7, <2>1, <2>3, <3>1 DEF Batches
  <2> QED
    BY <2>2, <2>3
<1>19. ArrayIsTheRest' /\ FillsFromGot'
  BY <1>2, ArraysStay
<1> QED
  BY <1>9, <1>10, <1>11, <1>14, <1>16, <1>17, <1>18, <1>19 DEF Inv

LEMMA QueryFailsKeeps ==
  ASSUME Inv, NEW silent \in BOOLEAN, QueryFails(silent)
  PROVE  Inv'
<1>1. /\ ~driver.started /\ executed' = TRUE /\ faults' = faults + 1
      /\ UNCHANGED <<shape, seen, returned, driver, server, got>>
  BY DEF QueryFails, Throw
<1>2. faults \in Nat /\ faults' # 0 /\ ended \in BOOLEAN
  BY <1>1 DEF Inv, TypeOK
<1>3. /\ ArrayIsTheRest' /\ FillsFromGot' /\ ended' \in BOOLEAN
      /\ arr' \in Seq(Nat) \union {None} /\ filling' = None /\ loop' = "none"
      /\ it' \in BOOLEAN
  <2>1. CASE silent
    <3>1. LoopDone /\ ended' = TRUE
      BY <2>1 DEF QueryFails
    <3> QED
      BY <1>1, <1>2, <3>1, LoopDoneKeeps
  <2>2. CASE ~silent
    <3>1. /\ filling' = None /\ loop' = "none" /\ it' = it /\ arr' = arr /\ ended' = ended
      BY <2>2 DEF QueryFails, Throw, EndLoop
    <3>2. ArrayIsTheRest' /\ FillsFromGot'
      BY <1>1, <1>2, <3>1, ArraysStay
    <3> QED
      BY <1>2, <3>1, <3>2 DEF Inv, TypeOK
  <2> QED
    BY <2>1, <2>2
<1>4. UNCHANGED <<limit, skip, batchSize, query>> /\ Fetched(driver)' = Fetched(driver)
  BY <1>1, WindowStays DEF Fetched
<1>5. TypeOK'
  BY <1>1, <1>3, <1>4 DEF Inv, TypeOK
<1>6. Unstarted' /\ Ahead' /\ Bounded' /\ Batches'
  BY <1>1 DEF Inv, Unstarted, Ahead, Bounded, Batches
<1>7. Counted' /\ EndsWhole'
  BY <1>1, <1>2, <1>4 DEF Inv, Counted, EndsWhole
<1> QED
  BY <1>3, <1>5, <1>6, <1>7 DEF Inv

LEMMA GetMoreFailsKeeps ==
  ASSUME Inv, NEW reached \in BOOLEAN, GetMoreFails(reached)
  PROVE  Inv'
<1>1. /\ driver.started /\ driver.live /\ driver.left = 0 /\ faults' = faults + 1
      /\ filling' = None /\ loop' = "none"
      /\ UNCHANGED <<shape, executed, seen, returned, arr, it, got, ended>>
  BY DEF GetMoreFails, MustFetch, Throw, EndLoop
<1>2. /\ TypeOK /\ faults \in Nat /\ faults' # 0
      /\ driver \in [ started : BOOLEAN, left : Nat, num : Nat, sizes : Seq(Nat),
                      getMores : Nat, live : BOOLEAN ]
      /\ server \in [ next : Nat, dead : BOOLEAN, unreadable : SUBSET Unreadable ]
      /\ FirstResult \in Nat /\ NumResults \in Nat
  BY <1>1, ShapeTypes, SMTT(30) DEF Inv, TypeOK
<1>3. PICK k \in Nat :
        /\ server' = [server EXCEPT !.next = server.next + k]
        /\ k <= Positive(NumResults + 1 - server.next)
  <2>1. CASE server.dead \/ ~reached
    <3>1. server' = [server EXCEPT !.next = server.next + 0]
      BY <1>2, <2>1 DEF GetMoreFails
    <3>2. 0 <= Positive(NumResults + 1 - server.next)
      BY <1>2 DEF Positive
    <3> QED
      BY <3>1, <3>2
  <2>2. CASE ~server.dead /\ reached
    <3> DEFINE k == Sent(Asked(driver), server.next, MaxReply)
    <3>1. server' = [server EXCEPT !.next = server.next + k]
      BY <2>2 DEF GetMoreFails
    <3>2. /\ limit > 0 => Fetched(driver) < limit
          /\ ~(DriverBatch < 0)
      BY <1>1 DEF Inv, Bounded
    <3>3. server.next \in Nat /\ MaxReply \in Nat \ {0}
      BY <1>2, SizesAssumption
    <3>4. k = Sent(Asked(driver), server.next, MaxReply)
      OBVIOUS
    <3> HIDE DEF k
    <3>5. k \in Nat /\ k <= Positive(NumResults + 1 - server.next)
      <4>1. TypeOK /\ (limit > 0 => Fetched(driver) < limit) /\ ~(DriverBatch < 0)
        BY <1>2, <3>2
      <4> QED
        BY <3>3, <3>4, <4>1, ReplyFits
    <3> QED
      BY <3>1, <3>5
  <2> QED
    BY <2>1, <2>2
<1>4. /\ server'.next = server.next + k /\ server'.dead = server.dead
      /\ server' \in [ next : Nat, dead : BOOLEAN, unreadable : SUBSET Unreadable ]
  <2>1. server.next + k \in Nat
    BY <1>2
  <2> QED
    BY <1>2, <1>3, <2>1
<1>5. /\ driver' \in [ started : BOOLEAN, left : Nat, num : Nat, sizes : Seq(Nat),
                       getMores : Nat, live : BOOLEAN ]
      /\ driver'.started = driver.started /\ driver'.left = driver.left
      /\ driver'.num = driver.num /\ driver'.sizes = driver.sizes
      /\ driver'.live = driver.live
      /\ ~server.dead => driver' = driver
  <2>1. CASE server.dead
    <3>1. driver' = [driver EXCEPT !.getMores = driver.getMores + 1]
      BY <2>1 DEF GetMoreFails
    <3>2. driver.getMores + 1 \in Nat
      BY <1>2
    <3> QED
      BY <1>2, <2>1, <3>1, <3>2
  <2>2. CASE ~server.dead
    BY <1>2, <2>2 DEF GetMoreFails
  <2> QED
    BY <2>1, <2>2
<1>6. /\ UNCHANGED <<limit, skip, batchSize, query>>
      /\ FirstResult' = FirstResult /\ NumResults' = NumResults
      /\ DriverBatch' = DriverBatch
  BY <1>1, WindowStays
<1>7. TypeOK'
  BY <1>1, <1>2, <1>4, <1>5, <1>6 DEF Inv, TypeOK
<1>8. Unstarted'
  BY <1>1, <1>5 DEF Inv, Unstarted
<1>9. Counted'
  BY <1>1, <1>2, <1>5 DEF Inv, Counted, Fetched
<1>10. Ahead'
  <2>1. /\ server.next >= FirstResult + driver.num
        /\ server.next <= NumResults + 1 \/ server.next = FirstResult
        /\ got # << >> => got[Len(got)] < server.next
        /\ server.next \in Nat /\ driver.num \in Nat
    BY <1>1, <1>2 DEF Inv, Ahead
  <2>2. server.next + k <= NumResults + 1 \/ server.next + k = FirstResult
    BY <1>2, <1>3, <2>1 DEF Positive
  <2>3. got # << >> => got[Len(got)] < server.next + k
    <3>1. got # << >> => got[Len(got)] \in Nat
      BY DEF Inv, TypeOK
    <3> QED
      BY <1>3, <2>1, <3>1
  <2> QED
    BY <1>1, <1>2, <1>4, <1>5, <1>6, <2>1, <2>2, <2>3 DEF Ahead
<1>11. Bounded'
  BY <1>1, <1>2, <1>5, <1>6 DEF Inv, Bounded, Fetched, Least, Abs
<1>12. EndsWhole'
  BY <1>1, <1>2 DEF Inv, EndsWhole
<1>13. Batches'
  BY <1>1, <1>4, <1>5 DEF Inv, Batches
<1>14. ArrayIsTheRest' /\ FillsFromGot'
  BY <1>1, <1>2, ArraysStay
<1> QED
  BY <1>7, <1>8, <1>9, <1>10, <1>11, <1>12, <1>13, <1>14 DEF Inv

(* hasNext() is false only when the script has all the query wants, but for *)
(* errors.                                                                 *)
LEMMA NoNextMeansAll ==
  ASSUME Inv, NoNext, faults = 0
  PROVE  Len(got) = Stream!Size
<1>1. /\ driver.num \in Nat /\ driver.left \in Nat /\ limit \in Int /\ TypeOK
      /\ seen = driver.num /\ Len(got) = driver.num
      /\ driver.num + driver.left = Fetched(driver)
      /\ executed
  BY ShapeTypes DEF Inv, TypeOK, Counted, NoNext
<1>2. CASE AtLimit(driver.num)
  <2>1. limit > 0 /\ driver.num >= limit
    BY <1>2 DEF AtLimit
  <2>2. driver.started
    BY <1>1, <2>1 DEF Inv, Unstarted
  <2>3. Fetched(driver) <= limit /\ Fetched(driver) <= Stream!Size
    BY <2>1, <2>2, InWindow DEF Inv, Bounded
  <2> QED
    BY <1>1, <2>1, <2>3, WindowIs
<1>3. CASE driver.started /\ driver.left = 0 /\ ~driver.live
  <2>1. Fetched(driver) = Stream!Size
    BY <1>3 DEF Inv, Bounded
  <2> QED
    BY <1>1, <1>3, <2>1
<1> QED
  BY <1>1, <1>2, <1>3 DEF NoNext

LEMMA NoNextKeeps ==
  ASSUME Inv, NoNext
  PROVE  Inv'
<1>1. /\ executed /\ ended' = TRUE /\ LoopDone
      /\ UNCHANGED <<shape, executed, seen, returned, driver, server, got, faults>>
  BY DEF NoNext
<1>2. faults = 0 => Len(got) = Stream!Size
  BY NoNextMeansAll
<1>3. /\ ArrayIsTheRest' /\ FillsFromGot'
      /\ arr' \in Seq(Nat) \union {None} /\ filling' = None /\ loop' = "none"
      /\ it' \in BOOLEAN
  BY <1>1, <1>2, LoopDoneKeeps
<1>4. /\ UNCHANGED <<limit, skip, batchSize, query>>
      /\ FirstResult' = FirstResult /\ NumResults' = NumResults
      /\ DriverBatch' = DriverBatch /\ (Stream!Size)' = Stream!Size
  BY <1>1, WindowStays
<1>5. TypeOK'
  BY <1>1, <1>3, <1>4 DEF Inv, TypeOK
<1>6. Unstarted' /\ Batches'
  BY <1>1 DEF Inv, Unstarted, Batches
<1>7. Counted'
  BY <1>1 DEF Inv, Counted, Fetched
<1>8. Ahead' /\ Bounded'
  BY <1>1, <1>4 DEF Inv, Ahead, Bounded, Fetched, Least, Abs
<1>9. EndsWhole'
  BY <1>1, <1>2, <1>4 DEF EndsWhole
<1> QED
  BY <1>3, <1>5, <1>6, <1>7, <1>8, <1>9 DEF Inv

(* A part of a sequence that has been added to.                            *)
LEMMA SubSeqAppend ==
  ASSUME NEW s \in Seq(Nat), NEW d \in Nat, NEW m \in Nat \ {0}, NEW n \in Nat, n <= Len(s)
  PROVE  SubSeq(Append(s, d), m, n) = SubSeq(s, m, n)
<1> DEFINE t == Append(s, d)
           a == SubSeq(t, m, n)
           b == SubSeq(s, m, n)
<1>1. /\ t \in Seq(Nat) /\ Len(t) = Len(s) + 1 /\ \A i \in 1 .. Len(s) : t[i] = s[i]
  BY AppendProperties
<1> HIDE DEF t
<1>2. \A i \in m .. n : t[i] = s[i] /\ s[i] \in Nat
  <2>1. \A i \in m .. n : i \in 1 .. Len(s)
    OBVIOUS
  <2>2. \A i \in 1 .. Len(s) : s[i] \in Nat
    BY ElementOfSeq
  <2> QED
    BY <1>1, <2>1, <2>2
<1>3. /\ a \in Seq(Nat) /\ Len(a) = IF m <= n THEN n - m + 1 ELSE 0
      /\ \A i \in 1 .. n - m + 1 : a[i] = t[m + i - 1]
  BY <1>2, SubSeqProperties
<1>4. /\ b \in Seq(Nat) /\ Len(b) = IF m <= n THEN n - m + 1 ELSE 0
      /\ \A i \in 1 .. n - m + 1 : b[i] = s[m + i - 1]
  BY <1>2, SubSeqProperties
<1> HIDE DEF a, b
<1>5. ASSUME NEW i \in 1 .. Len(a) PROVE a[i] = b[i]
  <2>1. i \in 1 .. n - m + 1 /\ m + i - 1 \in m .. n
    BY <1>3
  <2>2. t[m + i - 1] = s[m + i - 1]
    BY <1>2, <2>1
  <2> QED
    BY <1>3, <1>4, <2>1, <2>2
<1>6. a = b
  BY <1>3, <1>4, <1>5, SeqEqual
<1> QED
  BY <1>6 DEF a, b, t

(* The document at hand is one of the window that the script has not been  *)
(* given, and when no error came up, it is the next one.                   *)
LEMMA DocumentIsNew ==
  ASSUME Inv, HasDocument
  PROVE  /\ driver.started /\ executed
         /\ server.next - driver.left \in Nat
         /\ server.next - driver.left >= FirstResult + Len(got)
         /\ got # << >> => got[Len(got)] < server.next - driver.left
         /\ faults = 0 => server.next - driver.left = FirstResult + Len(got)
         /\ Len(got) < Stream!Size
         /\ ended => faults # 0
<1>1. /\ driver.num \in Nat /\ driver.left \in Nat /\ driver.left > 0
      /\ driver.started \in BOOLEAN /\ server.next \in Nat /\ TypeOK
      /\ driver.num + driver.left = Fetched(driver)
      /\ Len(got) \in Nat /\ Len(got) <= driver.num /\ (faults = 0 => Len(got) = driver.num)
      /\ FirstResult \in Nat
  BY ShapeTypes, SMTT(30) DEF Inv, TypeOK, Counted, HasDocument
<1>2. driver.started /\ executed
  BY <1>1 DEF Inv, Unstarted
<1>3. Fetched(driver) <= Stream!Size /\ Stream!Size \in Nat /\ Fetched(driver) \in Nat
  BY <1>1, <1>2, InWindow, WindowIs, ShapeTypes
<1>4. /\ server.next - driver.left >= FirstResult + driver.num
      /\ faults = 0 => server.next - driver.left = FirstResult + driver.num
      /\ got # << >> => got[Len(got)] < server.next - driver.left
  BY <1>2 DEF Inv, Ahead
<1>5. Len(got) < Stream!Size
  BY <1>1, <1>3
<1>6. ended => faults # 0
  BY <1>1, <1>3, <1>5 DEF Inv, EndsWhole
<1> QED
  BY <1>1, <1>2, <1>4, <1>5, <1>6

LEMMA TakeKeeps ==
  ASSUME Inv, Take
  PROVE  Inv'
<1> DEFINE d == server.next - driver.left
<1>1. /\ HasDocument /\ driver.left > 0 /\ seen' = seen + 1
      /\ driver' = [driver EXCEPT !.left = driver.left - 1, !.num = driver.num + 1]
      /\ UNCHANGED <<shape, executed, arr, server, ended>>
  BY DEF Take, HasDocument
<1>2. \/ /\ faults' = faults + 1 /\ filling' = None /\ loop' = "none" /\ it' = it
         /\ UNCHANGED <<returned, got>>
      \/ /\ returned' = returned + 1 /\ got' = Append(got, d)
         /\ filling' = IF filling = None THEN None ELSE Append(filling, d)
         /\ UNCHANGED <<loop, it, faults>>
  BY DEF Take, Throw, EndLoop
<1>3. /\ TypeOK /\ driver.left \in Nat /\ driver.num \in Nat /\ seen \in Nat
      /\ returned \in Nat /\ faults \in Nat /\ got \in Seq(Nat) /\ Len(got) \in Nat
      /\ server.next \in Nat /\ FirstResult \in Nat
      /\ driver \in [ started : BOOLEAN, left : Nat, num : Nat, sizes : Seq(Nat),
                      getMores : Nat, live : BOOLEAN ]
      /\ filling \in Seq(Nat) \union {None} /\ (loop = "none" <=> filling = None)
      /\ driver.num + driver.left = Fetched(driver)
  BY ShapeTypes, SMTT(30) DEF Inv, TypeOK, Counted
<1>4. /\ driver.started /\ d \in Nat
      /\ got # << >> => got[Len(got)] < d
      /\ ended => faults # 0
  BY <1>1, DocumentIsNew
<1>5. /\ driver' \in [ started : BOOLEAN, left : Nat, num : Nat, sizes : Seq(Nat),
                       getMores : Nat, live : BOOLEAN ]
      /\ driver'.left = driver.left - 1 /\ driver'.num = driver.num + 1
      /\ driver'.started = driver.started /\ driver'.sizes = driver.sizes
      /\ driver'.getMores = driver.getMores /\ driver'.live = driver.live
  <2>1. driver.left - 1 \in Nat /\ driver.num + 1 \in Nat
    <3>1. driver.left \in Nat /\ driver.left > 0 /\ driver.num \in Nat
      BY <1>1, <1>3
    <3> QED
      BY <3>1
  <2> QED
    BY <1>1, <1>3, <2>1
<1>6. /\ UNCHANGED <<limit, skip, batchSize, query>>
      /\ FirstResult' = FirstResult /\ NumResults' = NumResults
      /\ DriverBatch' = DriverBatch /\ LastWanted' = LastWanted
      /\ (Stream!Size)' = Stream!Size
  BY <1>1, WindowStays
<1>7. /\ Append(got, d) \in Seq(Nat) /\ Len(Append(got, d)) = Len(got) + 1
      /\ Append(got, d)[Len(got) + 1] = d /\ Append(got, d) # << >>
      /\ \A i \in 1 .. Len(got) : Append(got, d)[i] = got[i]
  <2>1. /\ Append(got, d) \in Seq(Nat) /\ Len(Append(got, d)) = Len(got) + 1
        /\ Append(got, d)[Len(got) + 1] = d
        /\ \A i \in 1 .. Len(got) : Append(got, d)[i] = got[i]
    BY <1>3, <1>4, AppendProperties
  <2>2. Len(Append(got, d)) # 0
    BY <1>3, <2>1
  <2> QED
    BY <2>1, <2>2
<1>8. \/ /\ got' = got /\ faults' = faults + 1
      \/ /\ got' = Append(got, d) /\ faults' = faults
  BY <1>2
<1> HIDE DEF d
<1>9. TypeOK'
  <2>1. /\ filling' \in Seq(Nat) \union {None} /\ (loop' = "none" <=> filling' = None)
        /\ loop' \in {"none", "toArray", "forEach", "shellPrint"} /\ it' \in BOOLEAN
        /\ returned' \in Nat
    <3>1. CASE filling' = None /\ loop' = "none" /\ it' = it /\ returned' = returned
      BY <3>1 DEF Inv, TypeOK
    <3>2. CASE /\ returned' = returned + 1 /\ UNCHANGED <<loop, it>>
               /\ filling' = IF filling = None THEN None ELSE Append(filling, d)
      <4>1. CASE filling = None
        BY <3>2, <4>1 DEF Inv, TypeOK
      <4>2. CASE filling # None
        <5>1. Append(filling, d) \in Seq(Nat)
          BY <1>3, <1>4, <4>2
        <5>2. filling' \in Seq(Nat) /\ filling' # None
          BY <3>2, <4>2, <5>1, NoneAssumption, Zenon
        <5>3. /\ loop \in {"none", "toArray", "forEach", "shellPrint"} /\ loop # "none"
              /\ it \in BOOLEAN /\ returned + 1 \in Nat
          BY <4>2 DEF Inv, TypeOK
        <5> QED
          BY <3>2, <5>2, <5>3
      <4> QED
        BY <4>1, <4>2
    <3> QED
      BY <1>2, <3>1, <3>2
  <2>2. got' \in Seq(Nat) /\ faults' \in Nat /\ seen' \in Nat
    <3>1. faults + 1 \in Nat /\ seen + 1 \in Nat
      BY <1>3
    <3> QED
      BY <1>1, <1>3, <1>7, <1>8, <3>1
  <2> QED
    BY <1>1, <1>5, <1>6, <2>1, <2>2 DEF Inv, TypeOK
<1>10. Unstarted'
  BY <1>1, <1>4, <1>5 DEF Inv, Unstarted
<1>11. Counted'
  <2>1. Fetched(driver)' = Fetched(driver)
    BY <1>5 DEF Fetched
  <2>2. /\ seen = driver.num /\ Len(got) <= driver.num
        /\ faults = 0 => Len(got) = driver.num
    BY DEF Inv, Counted
  <2>3. Len(got') <= driver.num + 1 /\ (faults' = 0 => Len(got') = driver.num + 1)
    BY <1>3, <1>7, <1>8, <2>2, SMTT(30)
  <2> QED
    BY <1>1, <1>3, <1>5, <2>1, <2>2, <2>3 DEF Counted
<1>12. Ahead'
  <2>1. /\ d >= FirstResult + driver.num
        /\ faults = 0 => d = FirstResult + driver.num
        /\ \/ server.next <= NumResults + 1
           \/ server.next = FirstResult /\ driver.left = 0
    BY <1>4 DEF Inv, Ahead, d
  <2>2. server'.next - driver'.left = d + 1
    BY <1>1, <1>3, <1>5, SMTT(30) DEF d
  <2>3. got' # << >> => got'[Len(got')] < d + 1
    <3>1. CASE got' = got
      <4>1. got # << >> => got[Len(got)] \in Nat
        BY <1>3
      <4> QED
        BY <1>4, <3>1, <4>1
    <3>2. CASE got' = Append(got, d)
      BY <1>4, <1>7, <3>2
    <3> QED
      BY <1>8, <3>1, <3>2
  <2>4. driver'.num = driver.num + 1 /\ server'.next = server.next /\ (faults' = 0 => faults = 0)
    BY <1>1, <1>3, <1>5, <1>8
  <2>5. server.next <= NumResults + 1
    BY <1>1, <1>3, <2>1
  <2> QED
    BY <1>3, <1>4, <1>6, <2>1, <2>2, <2>3, <2>4, <2>5 DEF Ahead
<1>13. Bounded'
  <2>1. faults' = 0 => faults = 0
    BY <1>3, <1>8
  <2> QED
    BY <1>4, <1>5, <1>6, <2>1 DEF Inv, Bounded, Fetched, Least, Abs
<1>14. EndsWhole'
  <2>1. ended' => executed' /\ faults' # 0
    BY <1>1, <1>3, <1>4, <1>8 DEF Inv, EndsWhole
  <2> QED
    BY <2>1 DEF EndsWhole
<1>15. Batches'
  BY <1>1, <1>4, <1>5 DEF Inv, Batches
<1>16. FillsFromGot'
  <2>1. CASE filling' = None
    BY <2>1 DEF FillsFromGot
  <2>2. CASE /\ filling # None /\ filling' = Append(filling, d)
             /\ got' = Append(got, d)
    <3>1. /\ filling \in Seq(Nat) /\ Len(filling) \in Nat /\ Len(filling) <= Len(got)
          /\ \A i \in 1 .. Len(filling) : filling[i] = got[Len(got) - Len(filling) + i]
      BY <1>3, <2>2 DEF Inv, FillsFromGot
    <3>2. /\ Len(filling') = Len(filling) + 1 /\ filling'[Len(filling) + 1] = d
          /\ \A i \in 1 .. Len(filling) : filling'[i] = filling[i]
      BY <1>4, <2>2, <3>1, AppendProperties
    <3>3. /\ Len(got') = Len(got) + 1 /\ got'[Len(got) + 1] = d
          /\ \A i \in 1 .. Len(got) : got'[i] = got[i]
      BY <1>7, <2>2
    <3>4. ASSUME NEW i \in 1 .. Len(filling) + 1
          PROVE  filling'[i] = got'[Len(got') - Len(filling') + i]
      <4>1. CASE i = Len(filling) + 1
        <5>1. Len(got') - Len(filling') + i = Len(got) + 1
          BY <1>3, <3>1, <3>2, <3>3, <4>1
        <5> QED
          BY <3>2, <3>3, <4>1, <5>1
      <4>2. CASE i # Len(filling) + 1
        <5>1. /\ Len(got') - Len(filling') + i = Len(got) - Len(filling) + i
              /\ Len(got) - Len(filling) + i \in 1 .. Len(got) /\ i \in 1 .. Len(filling)
          <6>1. i \in 1 .. Len(filling)
            BY <3>1, <4>2
          <6> QED
            BY <1>3, <3>1, <3>2, <3>3, <6>1
        <5>2. /\ filling'[i] = filling[i]
              /\ filling[i] = got[Len(got) - Len(filling) + i]
          BY <3>1, <3>2, <5>1
        <5> QED
          BY <3>3, <5>1, <5>2
      <4> QED
        BY <4>1, <4>2
    <3>5. Len(filling') <= Len(got')
      BY <1>3, <3>1, <3>2, <3>3
    <3> QED
      BY <3>2, <3>4, <3>5 DEF FillsFromGot
  <2> QED
    BY <1>2, <2>1, <2>2 DEF d
<1>17. ArrayIsTheRest'
  <2>1. CASE arr = None
    BY <1>1, <2>1 DEF ArrayIsTheRest
  <2>2. CASE arr # None
    <3>1. ended /\ arr \in Seq(Nat) /\ faults # 0
      BY <1>3, <1>4, <2>2 DEF Inv, ArrayIsTheRest, TypeOK
    <3>2. PICK before \in 0 .. Len(got) - Len(arr) :
            arr = SubSeq(got, before + 1, before + Len(arr))
      BY <2>2 DEF Inv, ArrayIsTheRest
    <3>3. /\ Len(arr) \in Nat /\ before + 1 \in Nat \ {0} /\ before + Len(arr) \in Nat
          /\ before + Len(arr) <= Len(got)
      BY <1>3, <3>1
    <3>4. arr = SubSeq(got', before + 1, before + Len(arr))
      <4>1. CASE got' = got
        BY <3>2, <4>1
      <4>2. CASE got' = Append(got, d)
        <5> DEFINE m == before + 1
                   n == before + Len(arr)
        <5>1. m \in Nat \ {0} /\ n \in Nat /\ n <= Len(got) /\ arr = SubSeq(got, m, n)
          BY <3>2, <3>3
        <5> HIDE DEF m, n
        <5>2. SubSeq(Append(got, d), m, n) = SubSeq(got, m, n)
          BY <1>3, <1>4, <5>1, SubSeqAppend
        <5> QED
          BY <4>2, <5>1, <5>2 DEF m, n
      <4> QED
        BY <1>8, <4>1, <4>2
    <3>5. before \in 0 .. Len(got') - Len(arr)
      BY <1>3, <1>7, <1>8, <3>3
    <3>6. faults' # 0
      BY <1>3, <1>8, <3>1
    <3> QED
      BY <1>1, <3>1, <3>4, <3>5, <3>6 DEF ArrayIsTheRest
  <2> QED
    BY <2>1, <2>2
<1> QED
  BY <1>9, <1>10, <1>11, <1>12, <1>13, <1>14, <1>15, <1>16, <1>17 DEF Inv

(* Loops that begin, a page that ends, and a cursor that times out.        *)
LEMMA OthersKeep ==
  ASSUME Inv, ToArray \/ ForEach \/ ShellPrint \/ PageEnds \/ CursorTimesOut
  PROVE  Inv'
<1>1. /\ UNCHANGED <<shape, executed, seen, returned, arr, driver, got, faults, ended>>
      /\ \/ /\ filling' = << >> /\ loop' \in {"toArray", "forEach", "shellPrint"}
            /\ UNCHANGED <<it, server>>
         \/ filling' = None /\ loop' = "none" /\ it' = TRUE /\ UNCHANGED server
         \/ /\ driver.live /\ server' = [server EXCEPT !.dead = TRUE]
            /\ UNCHANGED <<filling, loop, it>>
  BY DEF ToArray, ForEach, ShellPrint, BeginLoop, PageEnds, EndLoop, CursorTimesOut
<1>2. /\ server \in [ next : Nat, dead : BOOLEAN, unreadable : SUBSET Unreadable ]
      /\ got \in Seq(Nat)
  BY DEF Inv, TypeOK
<1>3. /\ UNCHANGED <<limit, skip, batchSize, query>>
      /\ FirstResult' = FirstResult /\ NumResults' = NumResults
      /\ DriverBatch' = DriverBatch /\ (Stream!Size)' = Stream!Size
      /\ LastWanted' = LastWanted
  BY <1>1, WindowStays
<1>4. /\ server' \in [ next : Nat, dead : BOOLEAN, unreadable : SUBSET Unreadable ]
      /\ server'.next = server.next
      /\ server' = server \/ (driver.live /\ server'.dead)
  <2>1. CASE server' = server
    BY <1>2, <2>1
  <2>2. CASE driver.live /\ server' = [server EXCEPT !.dead = TRUE]
    BY <1>2, <2>2
  <2> QED
    BY <1>1, <2>1, <2>2
<1>5. TypeOK'
  <2>1. << >> \in Seq(Nat) /\ << >> # None
    <3>1. << >> \in Seq(Nat)
      OBVIOUS
    <3> QED
      BY <3>1, NoneAssumption, Zenon
  <2>2. /\ filling' \in Seq(Nat) \union {None} /\ (loop' = "none" <=> filling' = None)
        /\ loop' \in {"none", "toArray", "forEach", "shellPrint"} /\ it' \in BOOLEAN
    BY <1>1, <2>1 DEF Inv, TypeOK
  <2> QED
    BY <1>1, <1>3, <1>4, <2>2 DEF Inv, TypeOK
<1>6. Unstarted'
  BY <1>1, <1>4 DEF Inv, Unstarted
<1>7. Counted'
  BY <1>1 DEF Inv, Counted, Fetched
<1>8. Ahead' /\ Bounded' /\ EndsWhole'
  BY <1>1, <1>3, <1>4 DEF Inv, Ahead, Bounded, EndsWhole, Fetched, Least, Abs
<1>9. Batches'
  BY <1>1, <1>2, <1>4 DEF Inv, Batches
<1>10. ArrayIsTheRest'
  BY <1>1, <1>3 DEF Inv, ArrayIsTheRest
<1>11. FillsFromGot'
  <2>1. CASE filling' = << >>
    <3>1. Len(filling') = 0 /\ Len(got') \in Nat
      BY <1>1, <1>2, <2>1
    <3> QED
      BY <3>1 DEF FillsFromGot
  <2>2. CASE filling' = None \/ filling' = filling
    BY <1>1, <2>2 DEF Inv, FillsFromGot
  <2> QED
    BY <1>1, <2>1, <2>2
<1> QED
  BY <1>5, <1>6, <1>7, <1>8, <1>9, <1>10, <1>11 DEF Inv

LEMMA StepKeeps ==
  ASSUME Inv, [Next]_vars
  PROVE  Inv'
<1>1. CASE UNCHANGED vars
  <2>1. /\ UNCHANGED shape
        /\ UNCHANGED <<executed, seen, returned, arr, filling, loop, it, driver, server, got,
                       faults, ended>>
    BY <1>1 DEF vars
  <2>2. /\ UNCHANGED <<limit, skip, batchSize, query>>
        /\ FirstResult' = FirstResult /\ NumResults' = NumResults
        /\ DriverBatch' = DriverBatch /\ (Stream!Size)' = Stream!Size
    BY <2>1, WindowStays
  <2>3. TypeOK' /\ Unstarted' /\ Counted' /\ Ahead' /\ Batches'
    BY <2>1, <2>2 DEF Inv, TypeOK, Unstarted, Counted, Ahead, Batches, Fetched
  <2>4. Bounded' /\ EndsWhole'
    BY <2>1, <2>2 DEF Inv, Bounded, EndsWhole, Fetched, Least, Abs
  <2>5. ArrayIsTheRest' /\ FillsFromGot'
    BY <2>1, ArraysStay
  <2> QED
    BY <2>3, <2>4, <2>5 DEF Inv
<1>2. CASE \/ \E l \in Limits, s \in Skips, b \in BatchSizes : Modify(l, s, b)
           \/ AddSpecial \/ Explain
  BY <1>2, ShapeKeeps
<1>3. CASE Fetch
  BY <1>3, FetchKeeps
<1>4. CASE \E silent \in BOOLEAN : QueryFails(silent)
  BY <1>4, QueryFailsKeeps
<1>5. CASE \E reached \in BOOLEAN : GetMoreFails(reached)
  BY <1>5, GetMoreFailsKeeps
<1>6. CASE NoNext
  BY <1>6, NoNextKeeps
<1>7. CASE Take
  BY <1>7, TakeKeeps
<1>8. CASE ToArray \/ ForEach \/ ShellPrint \/ PageEnds \/ CursorTimesOut
  BY <1>8, OthersKeep
<1> QED
  BY <1>1, <1>2, <1>3, <1>4, <1>5, <1>6, <1>7, <1>8 DEF Next

(* The invariant is one of the specification.                              *)
THEOREM InvHolds == Spec => []Inv
  BY InitInv, StepKeeps, PTL DEF Spec

-----------------------------------------------------------------------------
(* What follows from it.                                                   *)

(* Every variable has its type.                                            *)
THEOREM TypeCorrect == Spec => []TypeOK
<1>1. Inv => TypeOK
  BY DEF Inv
<1> QED
  BY <1>1, InvHolds, PTL

(* size() and countReturn() agree with reading to the end.                 *)
THEOREM CountsRight == Spec => []CountsAgree
<1>1. Inv => CountsAgree
  <2> SUFFICES ASSUME Inv, ended, faults = 0, query # "explained", batchSize >= 0,
                      -limit <= MaxReply
               PROVE  /\ Size = Len(got)
                      /\ limit >= 0 /\ skip <= NumDocs => CountReturn = Len(got)
    BY DEF CountsAgree
  <2>1. Len(got) = Stream!Size
    BY DEF Inv, EndsWhole
  <2>2. /\ limit \in Int /\ skip \in Nat /\ batchSize \in Int /\ MaxReply \in Nat \ {0}
        /\ NumDocs \in Nat
    BY ShapeTypes, SizesAssumption DEF Inv
  <2>3. FirstResult = skip + 1 /\ NumResults = NumDocs
    BY DEF FirstResult, NumResults
  <2>4. Wanted = IF limit < 0 THEN Least(NumDocs, -limit)
                 ELSE IF limit > 0 THEN limit ELSE NumDocs
    BY <2>2, <2>3 DEF Wanted, Least
  <2>5. Stream!Size = Positive(Least(NumDocs, skip + Wanted) - skip)
    BY <2>2, <2>3, <2>4 DEF Stream!Size, LastWanted, Least, Positive
  <2>6. Size = LET rest == Positive(NumDocs - skip)
               IN IF limit = 0 THEN rest ELSE Least(Abs(limit), rest)
    BY <2>2, MaxZero DEF Size
  <2>7. Size = Stream!Size
    BY <2>2, <2>4, <2>5, <2>6 DEF Least, Positive, Abs
  <2>8. limit >= 0 /\ skip <= NumDocs => CountReturn = Stream!Size
    BY <2>2, <2>4, <2>5 DEF CountReturn, Least, Positive
  <2> QED
    BY <2>1, <2>7, <2>8
<1> QED
  BY <1>1, InvHolds, PTL

(* objsLeftInBatch() is what the driver has left to hand out without asking *)
(* the server.                                                             *)
THEOREM BatchCountExact == Spec => []ObjsLeftExact
<1>1. Inv => ObjsLeftExact
  <2> SUFFICES ASSUME Inv, HasDocument PROVE ObjsLeftInBatch = driver.left
    BY DEF ObjsLeftExact
  <2>1. /\ driver.started /\ driver.left > 0
        /\ driver.sizes \in Seq(Nat) /\ driver.getMores \in Nat
        /\ driver.left \in Nat /\ driver.num \in Nat
        /\ driver.num + driver.left = SumOf(driver.sizes)
    BY DocumentIsNew DEF Inv, TypeOK, Counted, Fetched, HasDocument
  <2>2. driver.getMores + 1 = Len(driver.sizes)
    BY <2>1 DEF Inv, Batches
  <2> DEFINE front == SumOf(SubSeq(driver.sizes, 1, driver.getMores))
             last == driver.sizes[driver.getMores + 1]
  <2>3. front + last = SumOf(driver.sizes) /\ front \in Nat
    BY <2>1, <2>2, SumFront
  <2>4. last \in Nat
    <3>1. driver.getMores + 1 \in 1 .. Len(driver.sizes)
      BY <2>1, <2>2
    <3> QED
      BY <2>1, <3>1
  <2>5. ObjsLeftInBatch = last - (driver.num - front)
    BY DEF ObjsLeftInBatch
  <2> HIDE DEF front, last
  <2> QED
    BY <2>1, <2>3, <2>4, <2>5
<1> QED
  BY <1>1, InvHolds, PTL

(* An array that toArray() keeps is the rest of the result.                *)
THEOREM ArrayWhole == Spec => []ArrayIsTheRest
<1>1. Inv => ArrayIsTheRest
  BY DEF Inv
<1> QED
  BY <1>1, InvHolds, PTL

-----------------------------------------------------------------------------
(* Refinement: the three layers, with their batches and their retries, are *)
(* a ResultStream.                                                         *)

(* A document taken is delivered.                                          *)
LEMMA TakeDelivers ==
  ASSUME Inv, Take
  PROVE  Stream!Deliver \/ Stream!Fault
<1> DEFINE d == server.next - driver.left
<1>1. HasDocument /\ UNCHANGED <<shape, executed, ended>>
  BY DEF Take
<1>2. /\ FirstResult' = FirstResult /\ LastWanted' = LastWanted
      /\ executed' = executed /\ ended' = ended
  BY <1>1, WindowStays
<1>3. /\ executed /\ d \in Nat /\ d >= FirstResult + Len(got)
      /\ got # << >> => got[Len(got)] < d
      /\ faults = 0 => d = FirstResult + Len(got)
      /\ Len(got) < Stream!Size
      /\ ended => faults # 0
  BY <1>1, DocumentIsNew
<1>4. faults \in Nat /\ got \in Seq(Nat) /\ Len(got) \in Nat
  BY DEF Inv, TypeOK
<1>5. CASE got' = got /\ faults' = faults + 1
  <2>1. faults' > 0
    BY <1>4, <1>5
  <2> QED
    BY <1>2, <1>3, <1>5, <2>1 DEF Stream!Fault
<1>6. CASE got' = Append(got, d) /\ faults' = faults
  <2> HIDE DEF d
  <2>1. /\ Len(got') = Len(got) + 1 /\ got'[Len(got) + 1] = d
    BY <1>3, <1>4, <1>6, AppendProperties
  <2>2. SubSeq(got', 1, Len(got)) = got
    <3>1. SubSeq(got', 1, Len(got)) = SubSeq(got, 1, Len(got))
      <4> DEFINE n == Len(got)
      <4>1. 1 \in Nat \ {0} /\ n \in Nat /\ n <= Len(got)
        BY <1>4
      <4> HIDE DEF n
      <4>2. SubSeq(Append(got, d), 1, n) = SubSeq(got, 1, n)
        BY <1>3, <1>4, <4>1, SubSeqAppend
      <4> QED
        BY <1>6, <4>2 DEF n
    <3>2. SubSeq(got, 1, Len(got)) = got
      BY <1>4, SubSeqFull
    <3> QED
      BY <3>1, <3>2
  <2>3. /\ got'[Len(got')] = d
        /\ d >= FirstResult + Len(got)
        /\ got # << >> => d > got[Len(got)]
        /\ ~(faults > 0) => d = FirstResult + Len(got)
        /\ ended => faults > 0
    <3>1. got # << >> => got[Len(got)] \in Nat
      BY <1>4
    <3> QED
      BY <1>3, <1>4, <2>1, <3>1
  <2> QED
    BY <1>2, <1>3, <1>6, <2>1, <2>2, <2>3 DEF Stream!Deliver
<1> QED
  BY <1>5, <1>6 DEF Take, Throw

LEMMA StepRefines ==
  ASSUME Inv, [Next]_vars
  PROVE  [Stream!Next]_(Stream!vars)
<1>1. faults \in Nat
  BY DEF Inv, TypeOK
<1>2. ASSUME UNCHANGED <<shape, executed, got, faults, ended>>
      PROVE  UNCHANGED Stream!vars
  BY <1>2, WindowStays DEF Stream!vars
<1>3. CASE UNCHANGED vars
  BY <1>2, <1>3 DEF vars
<1>4. CASE \/ \E l \in Limits, s \in Skips, b \in BatchSizes : Modify(l, s, b)
           \/ AddSpecial \/ Explain
  <2>1. ~executed /\ UNCHANGED <<executed, got, faults, ended>>
    BY <1>4 DEF Modify, AddSpecial, Explain
  <2> QED
    BY <2>1 DEF Stream!Next, Stream!Shape
<1>5. CASE Fetch
  <2>1. executed' = TRUE /\ UNCHANGED <<shape, got, faults, ended>>
    BY <1>5 DEF Fetch
  <2>2. CASE executed
    <3>1. executed \in BOOLEAN
      BY DEF Inv, TypeOK
    <3>2. executed' = executed
      BY <2>1, <2>2, <3>1
    <3> QED
      BY <1>2, <2>1, <3>2
  <2>3. CASE ~executed
    <3>1. FirstResult' = FirstResult /\ LastWanted' = LastWanted
      BY <2>1, WindowStays
    <3> QED
      BY <2>1, <2>3, <3>1 DEF Stream!Next, Stream!Run
  <2> QED
    BY <2>2, <2>3
<1>6. CASE \E silent \in BOOLEAN : QueryFails(silent)
  <2>1. /\ executed' = TRUE /\ faults' = faults + 1 /\ UNCHANGED <<shape, got>>
        /\ ended => ended'
    BY <1>6 DEF QueryFails, Throw
  <2>2. FirstResult' = FirstResult /\ LastWanted' = LastWanted /\ faults' > 0
    BY <1>1, <2>1, WindowStays
  <2> QED
    BY <2>1, <2>2 DEF Stream!Next, Stream!Fault
<1>7. CASE \E reached \in BOOLEAN : GetMoreFails(reached)
  <2>1. /\ driver.started /\ executed' = executed /\ faults' = faults + 1
        /\ UNCHANGED <<shape, got, ended>>
    BY <1>7 DEF GetMoreFails, Throw
  <2>2. FirstResult' = FirstResult /\ LastWanted' = LastWanted /\ faults' > 0 /\ executed
    BY <1>1, <2>1, WindowStays DEF Inv, Unstarted
  <2> QED
    BY <2>1, <2>2 DEF Stream!Next, Stream!Fault
<1>8. CASE NoNext
  <2>1. /\ executed /\ ended' = TRUE /\ UNCHANGED <<shape, executed, got, faults>>
    BY <1>8 DEF NoNext
  <2>2. FirstResult' = FirstResult /\ LastWanted' = LastWanted
    BY <2>1, WindowStays
  <2>3. faults > 0 \/ Len(got) = Stream!Size
    BY <1>1, <1>8, NoNextMeansAll
  <2> QED
    BY <2>1, <2>2, <2>3 DEF Stream!Next, Stream!End
<1>9. CASE Take
  BY <1>9, TakeDelivers DEF Stream!Next
<1>10. CASE ToArray \/ ForEach \/ ShellPrint \/ PageEnds \/ CursorTimesOut
  BY <1>2, <1>10 DEF ToArray, ForEach, ShellPrint, BeginLoop, PageEnds, CursorTimesOut
<1> QED
  BY <1>3, <1>4, <1>5, <1>6, <1>7, <1>8, <1>9, <1>10 DEF Next

LEMMA InitRefines == Init => Stream!Init
<1>1. ASSUME Init PROVE faults = 0
  BY <1>1 DEF Init
<1> QED
  BY <1>1 DEF Init, Stream!Init

(* DBQuery over InternalCursor over DBCursor gives the script what a       *)
(* ResultStream promises, whatever the batches, and however often a failed *)
(* fetch is tried again.                                                   *)
THEOREM Implements == Spec => RefinesStream
<1>1. Spec => [][Stream!Next]_(Stream!vars)
  BY InvHolds, StepRefines, PTL DEF Spec
<1> QED
  BY <1>1, InitRefines, PTL DEF Spec, Stream!Spec, RefinesStream

=============================================================================
