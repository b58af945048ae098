------------------------- MODULE ReplSetWaits_proofs -------------------------
(***************************************************************************)
(* Proofs about ReplSetWaits, for any set, oplogs, faults, elections and   *)
(* number of tries: what a test may conclude when a wait returns; and      *)
(* about ReplSetMembers, for any number of members and any calls.          *)
(***************************************************************************)
EXTENDS ReplSetWaits, ReplSetMembers, SequenceTheorems, FiniteSetTheorems,
        WellFoundedInduction, TLAPS

-----------------------------------------------------------------------------
(* Prefixes.                                                               *)

(* Lengths.                                                                *)
LEMMA LengthIs ==
  ASSUME NEW S, NEW s \in Seq(S)
  PROVE  Len(s) \in Nat /\ DOMAIN s = 1 .. Len(s) /\ (s # << >> <=> Len(s) > 0)
<1>1. Len(s) \in Nat /\ DOMAIN s = 1 .. Len(s)
  OBVIOUS
<1>2. s = << >> <=> Len(s) = 0
  BY EmptySeq
<1> QED
  BY <1>1, <1>2

LEMMA PrefixIs ==
  ASSUME NEW S, NEW s \in Seq(S), NEW t \in Seq(S)
  PROVE  IsPrefix(s, t) <=> Len(s) <= Len(t) /\ \A j \in 1 .. Len(s) : s[j] = t[j]
<1> DEFINE n == Len(s)
<1>1. n \in Nat /\ 1 \in Int /\ n \in Int /\ \A j \in 1 .. n : s[j] \in S
  OBVIOUS
<1>2. SubSeq(s, 1, n) = s
  BY SubSeqFull
<1>3. CASE n <= Len(t)
  <2>1. \A j \in 1 .. n : t[j] \in S
    BY <1>3
  <2> DEFINE u == SubSeq(t, 1, n)
  <2> HIDE DEF n
  <2>2. u \in Seq(S) /\ Len(u) = n /\ \A j \in 1 .. n : u[j] = t[j]
    <3>1. /\ u \in Seq(S) /\ Len(u) = IF 1 <= n THEN n - 1 + 1 ELSE 0
          /\ \A j \in 1 .. n - 1 + 1 : u[j] = t[1 + j - 1]
      BY <1>1, <2>1, SubSeqProperties
    <3> HIDE DEF u
    <3> QED
      BY <1>1, <3>1
  <2> HIDE DEF u
  <2>3. s = u <=> \A j \in 1 .. n : s[j] = t[j]
    <3>1. Len(s) = n
      BY DEF n
    <3>2. ASSUME \A j \in 1 .. n : s[j] = t[j] PROVE s = u
      BY <2>2, <3>1, <3>2, SeqEqual
    <3> QED
      BY <2>2, <3>2
  <2> QED
    BY <1>2, <1>3, <2>3 DEF IsPrefix, n, u
<1>4. CASE ~(n <= Len(t))
  BY <1>4 DEF IsPrefix
<1> QED
  BY <1>3, <1>4

LEMMA PrefixSelf ==
  ASSUME NEW S, NEW s \in Seq(S)
  PROVE  IsPrefix(s, s)
<1>1. Len(s) <= Len(s)
  OBVIOUS
<1> QED
  BY <1>1, PrefixIs

LEMMA PrefixTransitive ==
  ASSUME NEW S, NEW s \in Seq(S), NEW t \in Seq(S), NEW u \in Seq(S),
         IsPrefix(s, t), IsPrefix(t, u)
  PROVE  IsPrefix(s, u)
<1>1. /\ Len(s) <= Len(t) /\ \A j \in 1 .. Len(s) : s[j] = t[j]
      /\ Len(t) <= Len(u) /\ \A j \in 1 .. Len(t) : t[j] = u[j]
  BY PrefixIs
<1>2. Len(s) \in Nat /\ Len(t) \in Nat /\ Len(u) \in Nat
  OBVIOUS
<1>3. Len(s) <= Len(u) /\ \A j \in 1 .. Len(s) : s[j] = u[j]
  BY <1>1, <1>2
<1> QED
  BY <1>3, PrefixIs

(* A number of a set of them that is smallest, and one that is largest.    *)
LEMMA SmallestIs ==
  ASSUME NEW T \in SUBSET Nat, T # {}
  PROVE  \E x \in T : \A y \in T : x <= y
<1> DEFINE R == {ss \in Nat \X Nat : ss[1] < ss[2]}
<1>1. IsWellFoundedOn(R, Nat)
  BY NatLessThanWellFounded DEF OpToRel
<1>2. PICK x \in T : \A y \in T : ~(<<y, x>> \in R)
  <2> HIDE DEF R
  <2> QED
    BY <1>1, WFMin
<1>3. ASSUME NEW y \in T PROVE x <= y
  <2>1. ~(<<y, x>> \in R)
    <3> HIDE DEF R
    <3> QED
      BY <1>2
  <2> QED
    BY <2>1
<1> QED
  BY <1>3

LEMMA LargestIs ==
  ASSUME NEW N \in Nat, NEW T \in SUBSET (0 .. N), T # {}
  PROVE  \E x \in T : \A y \in T : y <= x
<1> DEFINE U == {N - x : x \in T}
<1>1. U \in SUBSET Nat /\ U # {}
  <2>1. \A x \in T : N - x \in Nat
    OBVIOUS
  <2>2. U \subseteq Nat
    BY <2>1
  <2>3. PICK x \in T : TRUE
    OBVIOUS
  <2>4. N - x \in U
    OBVIOUS
  <2> HIDE DEF U
  <2> QED
    BY <2>2, <2>4
<1>2. PICK u \in U : \A v \in U : u <= v
  <2> HIDE DEF U
  <2> QED
    BY <1>1, SmallestIs
<1>3. PICK x \in T : u = N - x
  OBVIOUS
<1>4. ASSUME NEW y \in T PROVE y <= x
  <2>1. N - y \in U
    OBVIOUS
  <2>2. u <= N - y
    <3> HIDE DEF U
    <3> QED
      BY <1>2, <2>1
  <2> QED
    BY <1>3, <2>2
<1> QED
  BY <1>4

(* LongestCommonPrefix is a prefix of both, and what is a prefix of both is *)
(* one of it.                                                              *)
LEMMA LongestIs ==
  ASSUME NEW S, NEW a \in Seq(S), NEW b \in Seq(S)
  PROVE  /\ LongestCommonPrefix({a, b}) \in Seq(S)
         /\ IsPrefix(LongestCommonPrefix({a, b}), a)
         /\ IsPrefix(LongestCommonPrefix({a, b}), b)
         /\ \A o \in Seq(S) : IsPrefix(o, a) /\ IsPrefix(o, b)
                              => IsPrefix(o, LongestCommonPrefix({a, b}))
<1> DEFINE C == CommonPrefixes({a, b})
           c == LongestCommonPrefix({a, b})
<1>1. ASSUME NEW s \in Seq(S) PROVE Prefixes(s) \subseteq Seq(S)
  <2>1. ASSUME NEW l \in 0 .. Len(s) PROVE SubSeq(s, 1, l) \in Seq(S)
    <3>1. \A j \in 1 .. l : s[j] \in S
      OBVIOUS
    <3> QED
      BY <3>1, SubSeqProperties
  <2> QED
    BY <2>1 DEF Prefixes
<1>2. ASSUME NEW s \in Seq(S), NEW o \in Seq(S), IsPrefix(o, s) PROVE o \in Prefixes(s)
  <2>1. o = SubSeq(s, 1, Len(o)) /\ Len(o) \in 0 .. Len(s)
    BY <1>2, SubSeqFull DEF IsPrefix
  <2> QED
    BY <2>1 DEF Prefixes
<1>3. C = {o \in UNION {Prefixes(a), Prefixes(b)} : IsPrefix(o, a) /\ IsPrefix(o, b)}
  <2>1. {Prefixes(seq) : seq \in {a, b}} = {Prefixes(a), Prefixes(b)}
    OBVIOUS
  <2>2. C = {o \in UNION {Prefixes(seq) : seq \in {a, b}} : \A t \in {a, b} : IsPrefix(o, t)}
    BY DEF CommonPrefixes
  <2> QED
    BY <2>1, <2>2
<1> HIDE DEF C, c
<1>4. C \subseteq Seq(S) /\ \A o \in Seq(S) : o \in C <=> IsPrefix(o, a) /\ IsPrefix(o, b)
  BY <1>1, <1>2, <1>3
<1>5. \E o \in C : \A p \in C : Len(p) <= Len(o)
  <2> DEFINE T == {Len(o) : o \in C}
  <2>1. << >> \in C
    <3>1. << >> \in Seq(S) /\ Len(<< >>) = 0 /\ Len(a) \in Nat /\ Len(b) \in Nat
      OBVIOUS
    <3> DEFINE e == << >>
    <3> HIDE DEF e
    <3>2. IsPrefix(e, a) /\ IsPrefix(e, b)
      <4>1. e \in Seq(S) /\ Len(e) <= Len(a) /\ Len(e) <= Len(b) /\ 1 .. Len(e) = {}
        BY <3>1 DEF e
      <4> QED
        BY <4>1, PrefixIs
    <3>3. e = << >>
      BY DEF e
    <3> QED
      BY <1>4, <3>1, <3>2, <3>3
  <2>2. Len(a) \in Nat /\ T \in SUBSET (0 .. Len(a)) /\ T # {}
    <3>1. ASSUME NEW o \in C PROVE Len(o) \in 0 .. Len(a)
      BY <1>4 DEF IsPrefix
    <3>2. Len(<< >>) \in T
      BY <2>1
    <3>3. T \subseteq 0 .. Len(a)
      BY <3>1
    <3> HIDE DEF T
    <3> QED
      BY <3>2, <3>3
  <2>3. PICK x \in T : \A y \in T : y <= x
    <3> HIDE DEF T
    <3> QED
      BY <2>2, LargestIs
  <2>4. PICK o \in C : x = Len(o)
    OBVIOUS
  <2> QED
    BY <2>3, <2>4
<1>6. c \in C /\ \A p \in C : Len(p) <= Len(c)
  <2>1. c = CHOOSE o \in C : \A p \in C : Len(p) <= Len(o)
    BY DEF LongestCommonPrefix, c, C
  <2> QED
    BY <1>5, <2>1
<1>7. c \in Seq(S) /\ IsPrefix(c, a) /\ IsPrefix(c, b)
  BY <1>4, <1>6
<1>8. ASSUME NEW o \in Seq(S), IsPrefix(o, a), IsPrefix(o, b) PROVE IsPrefix(o, c)
  <2>1. Len(o) <= Len(c)
    BY <1>4, <1>6, <1>8
  <2>2. /\ \A j \in 1 .. Len(o) : o[j] = a[j]
        /\ \A j \in 1 .. Len(c) : c[j] = a[j]
    BY <1>7, <1>8, PrefixIs
  <2>3. \A j \in 1 .. Len(o) : o[j] = c[j]
    <3>1. Len(o) \in Nat /\ Len(c) \in Nat
      BY <1>7
    <3> QED
      BY <2>1, <2>2, <3>1
  <2> QED
    BY <1>7, <2>1, <2>3, PrefixIs
<1> QED
  BY <1>7, <1>8 DEF c

-----------------------------------------------------------------------------
(* Oplogs that match.                                                      *)

LEMMA MatchingTurned ==
  ASSUME NEW S, NEW a \in Seq(S), NEW b \in Seq(S), Matching(a, b)
  PROVE  Matching(b, a)
<1>1. ASSUME NEW j \in DOMAIN b, NEW k \in DOMAIN a, b[j] = a[k]
      PROVE  j = k /\ \A l \in 1 .. j : b[l] = a[l]
  <2>1. k = j /\ \A l \in 1 .. k : a[l] = b[l]
    BY <1>1 DEF Matching
  <2> QED
    BY <2>1
<1> QED
  BY <1>1 DEF Matching

LEMMA MatchingPrefixes ==
  ASSUME NEW S, NEW a \in Seq(S), NEW b \in Seq(S), NEW c \in Seq(S), NEW d \in Seq(S),
         Matching(c, d), IsPrefix(a, c), IsPrefix(b, d)
  PROVE  Matching(a, b)
<1>1. /\ Len(a) \in Nat /\ Len(b) \in Nat /\ Len(c) \in Nat /\ Len(d) \in Nat
      /\ DOMAIN a = 1 .. Len(a) /\ DOMAIN b = 1 .. Len(b)
      /\ DOMAIN c = 1 .. Len(c) /\ DOMAIN d = 1 .. Len(d)
  OBVIOUS
<1>2. /\ Len(a) <= Len(c) /\ \A j \in 1 .. Len(a) : a[j] = c[j]
      /\ Len(b) <= Len(d) /\ \A j \in 1 .. Len(b) : b[j] = d[j]
  BY PrefixIs
<1>3. ASSUME NEW j \in DOMAIN a, NEW k \in DOMAIN b, a[j] = b[k]
      PROVE  j = k /\ \A l \in 1 .. j : a[l] = b[l]
  <2>1. j \in DOMAIN c /\ k \in DOMAIN d /\ c[j] = d[k]
    BY <1>1, <1>2, <1>3
  <2>2. j = k /\ \A l \in 1 .. j : c[l] = d[l]
    BY <2>1 DEF Matching
  <2>3. ASSUME NEW l \in 1 .. j PROVE a[l] = b[l]
    <3>1. l \in 1 .. Len(a) /\ l \in 1 .. Len(b)
      BY <1>1, <2>2
    <3> QED
      BY <1>2, <2>2, <3>1
  <2> QED
    BY <2>2, <2>3
<1>4. a # << >> /\ b # << >> => a[1] = b[1]
  <2> SUFFICES ASSUME a # << >>, b # << >> PROVE a[1] = b[1]
    OBVIOUS
  <2>1. Len(a) > 0 /\ Len(b) > 0
    BY EmptySeq
  <2>2. 1 \in 1 .. Len(a) /\ 1 \in 1 .. Len(b) /\ c # << >> /\ d # << >>
    BY <1>1, <1>2, <2>1
  <2>3. c[1] = d[1]
    BY <2>2 DEF Matching
  <2> QED
    BY <1>2, <2>2, <2>3
<1> QED
  BY <1>3, <1>4 DEF Matching

(* An entry that is new.                                                   *)
LEMMA MatchingAppend ==
  ASSUME NEW N \in Nat, NEW a \in Seq(1 .. N), NEW b \in Seq(1 .. N), NEW x \in 1 .. N,
         a # << >>, Matching(a, a), Matching(a, b),
         \A j \in DOMAIN a : a[j] < x, \A j \in DOMAIN b : b[j] < x
  PROVE  /\ Matching(Append(a, x), b) /\ Matching(b, Append(a, x))
         /\ Matching(Append(a, x), Append(a, x))
<1> DEFINE c == Append(a, x)
<1>1. /\ c \in Seq(1 .. N) /\ Len(c) = Len(a) + 1 /\ c[Len(a) + 1] = x
      /\ \A j \in 1 .. Len(a) : c[j] = a[j]
  BY AppendProperties
<1> HIDE DEF c
<1>2. /\ Len(a) \in Nat /\ DOMAIN a = 1 .. Len(a) /\ DOMAIN c = 1 .. Len(a) + 1
      /\ DOMAIN b = 1 .. Len(b) /\ Len(b) \in Nat /\ 1 \in 1 .. Len(a)
      /\ \A j \in 1 .. Len(a) : a[j] \in Nat
      /\ \A j \in 1 .. Len(b) : b[j] \in Nat
  <2>1. /\ Len(a) \in Nat /\ DOMAIN a = 1 .. Len(a) /\ Len(a) > 0
        /\ DOMAIN b = 1 .. Len(b) /\ Len(b) \in Nat /\ DOMAIN c = 1 .. Len(a) + 1
    BY <1>1, LengthIs
  <2>2. /\ \A j \in 1 .. Len(a) : a[j] \in 1 .. N
        /\ \A j \in 1 .. Len(b) : b[j] \in 1 .. N
    BY ElementOfSeq
  <2> QED
    BY <2>1, <2>2
<1>3. Matching(c, b)
  <2>1. ASSUME NEW j \in DOMAIN c, NEW k \in DOMAIN b, c[j] = b[k]
        PROVE  j = k /\ \A l \in 1 .. j : c[l] = b[l]
    <3>1. b[k] < x /\ b[k] \in Nat
      BY <1>2
    <3>2. j \in DOMAIN a
      BY <1>1, <1>2, <2>1, <3>1
    <3>3. a[j] = b[k]
      BY <1>1, <1>2, <2>1, <3>2
    <3>4. j = k /\ \A l \in 1 .. j : a[l] = b[l]
      BY <3>2, <3>3 DEF Matching
    <3> QED
      BY <1>1, <1>2, <3>2, <3>4
  <2>2. c[1] = a[1] /\ (b # << >> => a[1] = b[1])
    BY <1>1, <1>2 DEF Matching
  <2> QED
    BY <2>1, <2>2 DEF Matching
<1>4. Matching(b, c)
  BY <1>1, <1>3, MatchingTurned
<1>5. Matching(c, c)
  <2>1. ASSUME NEW j \in DOMAIN c, NEW k \in DOMAIN c, c[j] = c[k]
        PROVE  j = k
    <3>1. CASE j \in DOMAIN a /\ k \in DOMAIN a
      <4>1. a[j] = a[k]
        BY <1>1, <1>2, <2>1, <3>1
      <4> QED
        BY <3>1, <4>1 DEF Matching
    <3>2. CASE j \notin DOMAIN a /\ k \notin DOMAIN a
      BY <1>2, <3>2
    <3>3. CASE j \in DOMAIN a /\ k \notin DOMAIN a
      <4>1. k = Len(a) + 1 /\ c[j] = a[j] /\ a[j] < x /\ a[j] \in Nat
        BY <1>1, <1>2, <3>3
      <4> QED
        BY <1>1, <2>1, <4>1
    <3>4. CASE j \notin DOMAIN a /\ k \in DOMAIN a
      <4>1. j = Len(a) + 1 /\ c[k] = a[k] /\ a[k] < x /\ a[k] \in Nat
        BY <1>1, <1>2, <3>4
      <4> QED
        BY <1>1, <2>1, <4>1
    <3> QED
      BY <3>1, <3>2, <3>3, <3>4
  <2> QED
    BY <2>1 DEF Matching
<1> QED
  BY <1>3, <1>4, <1>5 DEF c

-----------------------------------------------------------------------------
(* The inductive invariant.                                                *)

EnvTypes ==
  /\ up \in [Nodes -> BOOLEAN] /\ masters \subseteq {n \in Nodes \ Arbiters : up[n]}
  /\ oplog \in [Nodes -> Seq(1 .. MaxOpTime)] /\ opTime \in 0 .. MaxOpTime
  /\ life \in Nat \ {0} /\ view \in [Nodes -> 0 .. life]
  /\ elections \in Nat /\ faults \in Nat /\ known \subseteq Nodes

ShellTypes ==
  /\ call \in Calls \union {"none"} /\ target \in Nodes \union {None}
  /\ pc \in {"idle", "start", "isMaster", "oplog", "state", "hasNext", "next", "count",
             "reset", "secondary", "hosts"}
  /\ i \in Nat \ {0} /\ live \in [master : Nodes \union {None}, slaves : Seq(Nodes)]
  /\ IsInjective(live.slaves) /\ live.master \notin ToSet(live.slaves)
  /\ latest \in 0 .. MaxOpTime
  /\ after \in {"none", "oplog", "soon", "secondary", "hosts", "status"}
  /\ tries \in 0 .. Tries + 1 /\ outer \in 0 .. Tries + 1
  /\ caught \in BOOLEAN /\ ready \in BOOLEAN /\ goal \in {"none", "DOWN", "UP"}
  /\ result \in {"none", "returned", "threw", "failed"}

PastTypes ==
  /\ owed \in Seq(1 .. MaxOpTime) /\ stayed \subseteq Nodes /\ steady \in BOOLEAN
  /\ witness \in (Nodes \union {None}) \X (Nodes \union {None})

(* No call yet, or one; which of them is at which question; a wait that    *)
(* has tries left goes on.                                                 *)
Calling ==
  /\ call = "none" => /\ pc = "idle" /\ result = "none" /\ ~steady /\ known = {}
                      /\ target = None /\ witness = <<None, None>> /\ live = NoLive
                      /\ tries = 0 /\ outer = 0
  /\ result = "none" /\ pc = "idle" => call = "none"
  /\ result # "none" => pc = "idle"
  /\ call # "restart" => target = None /\ witness[1] = None
  /\ pc # "idle" => tries <= Tries /\ outer <= Tries

Questions ==
  /\ pc \in {"oplog", "state", "hasNext", "next", "count", "reset"}
     => call = "awaitReplication"
  /\ pc = "secondary" => call = "awaitSecondaryNodes"
  /\ pc = "hosts" => call = "awaitRSClientHosts"
  /\ pc = "start" => call = "restart" /\ goal = "DOWN"
  /\ pc = "isMaster" => /\ after # "none"
                        /\ after = "oplog" => call = "awaitReplication"
                        /\ after \in {"soon", "secondary"} => call = "awaitSecondaryNodes"
                        /\ after = "hosts" => call = "awaitRSClientHosts"
                        /\ after = "status" => call = "restart"
  /\ call = "awaitRSClientHosts" => NumNodes > 1

(* Oplogs with an entry in common are the same up to there, and a master   *)
(* has one.                                                                *)
OplogsMatch ==
  /\ \A n, m \in Nodes : Matching(oplog[n], oplog[m])
  /\ \A n \in Nodes : \A j \in DOMAIN oplog[n] : oplog[n][j] <= opTime
  /\ \A m \in masters : oplog[m] # << >>

Has(n) == IsPrefix(owed, oplog[n])

(* A wait but restart sees who is up, and one master that has what is owed. *)
Steady ==
  call # "restart" =>
    /\ \A n \in stayed : up[n]
    /\ steady => (\E m \in Nodes : masters = {m}) /\ \A m \in masters : Has(m)

(* Whom callIsMaster has found so far.                                     *)
LiveFound ==
  /\ pc \in {"oplog", "state", "hasNext", "next", "count", "reset", "secondary", "hosts"}
     => live.master # None
  /\ pc = "isMaster" => /\ \A k \in DOMAIN live.slaves : live.slaves[k] < i
                        /\ live.master # None => live.master < i
  /\ live.master # None =>
       oplog[live.master] # << >> /\ (steady /\ call # "restart" => live.master \in masters)
  /\ pc \notin {"idle", "start"} /\ steady /\ call # "restart" =>
       \A n \in stayed :
         (pc = "isMaster" => n < i) => n = live.master \/ n \in ToSet(live.slaves)

(* What awaitReplication compares with, and whom it has passed.            *)
Passes ==
  pc \in {"state", "hasNext", "next", "count", "reset"} =>
    /\ pc = "next" => i \in DOMAIN live.slaves /\ oplog[live.slaves[i]] # << >>
    /\ \A k \in 1 .. i - 1 : k \in DOMAIN live.slaves
    /\ steady =>
         /\ \E j \in DOMAIN oplog[live.master] :
              j >= Len(owed) /\ oplog[live.master][j] = latest
         /\ \A k \in 1 .. i - 1 : live.slaves[k] \notin Arbiters => Has(live.slaves[k])

(* Whom awaitSecondaryNodes has found ready, and whom a client knows.      *)
Secondaries ==
  /\ pc = "secondary" =>
       /\ \A k \in 1 .. i - 1 : k \in DOMAIN live.slaves
       /\ ready => \A k \in 1 .. i - 1 :
                     live.slaves[k] \notin Arbiters => oplog[live.slaves[k]] # << >>
  /\ call = "awaitRSClientHosts" =>
       \A n \in known : oplog[n] # << >> /\ (steady => n \notin masters)

(* A node that says the other is down, as it is, sees it again only after  *)
(* it was started.                                                         *)
Restarts ==
  call = "restart" =>
    /\ target \in Nodes /\ goal \in {"DOWN", "UP"}
    /\ goal = "DOWN" => /\ ~up[target] /\ witness[2] = None
                        /\ witness[1] # None => view[witness[1]] = 0
    /\ goal = "UP" /\ witness[1] # None => view[witness[1]] \in {0, life}
    /\ result = "returned" => goal = "UP" /\ witness[2] # None /\ view[witness[2]] # 0

Inv ==
  /\ EnvTypes /\ ShellTypes /\ PastTypes
  /\ Calling /\ Questions /\ OplogsMatch /\ Steady /\ LiveFound
  /\ Passes /\ Secondaries /\ Restarts
  /\ ReturnMeansReplicated /\ SecondariesReady

-----------------------------------------------------------------------------
(* What a test may find changed after a step of a node.                    *)
Moves ==
  /\ pc # "idle" /\ UNCHANGED <<shellVars, owed, witness>> /\ life' = life
  /\ EnvTypes' /\ OplogsMatch' /\ steady' \in BOOLEAN /\ stayed' \subseteq stayed
  /\ \A n \in Nodes : oplog[n] # << >> => oplog'[n] # << >>
  /\ \A m \in masters : /\ DOMAIN oplog[m] \subseteq DOMAIN oplog'[m]
                        /\ \A j \in DOMAIN oplog[m] : oplog'[m][j] = oplog[m][j]
  /\ steady' => steady /\ masters' = masters
  /\ steady' /\ call # "restart" => \A n \in Nodes : Has(n) => IsPrefix(owed, oplog'[n])
  /\ (\A n \in stayed : up[n]) => \A n \in stayed' : up'[n]
  /\ target # None /\ ~up[target] => ~up'[target]
  /\ \A n \in Nodes : \/ view'[n] = view[n] \/ view'[n] = 0
                      \/ view'[n] = life /\ target # None /\ up[target]
  /\ \A n \in known' : n \in known \/ (IsSecondary(n) /\ masters' = masters /\ oplog' = oplog)

(* Steps that leave the oplogs alone.                                      *)
LEMMA OplogsStay ==
  ASSUME Inv, UNCHANGED <<oplog, opTime>>, EnvTypes',
         \A m \in masters' : m \in masters \/ oplog[m] # << >>
  PROVE  /\ OplogsMatch'
         /\ \A n \in Nodes : oplog[n] # << >> => oplog'[n] # << >>
         /\ \A m \in masters : /\ DOMAIN oplog[m] \subseteq DOMAIN oplog'[m]
                               /\ \A j \in DOMAIN oplog[m] : oplog'[m][j] = oplog[m][j]
         /\ \A n \in Nodes : Has(n) => IsPrefix(owed, oplog'[n])
<1>1. OplogsMatch'
  BY DEF Inv, OplogsMatch
<1> QED
  BY <1>1 DEF Has

LEMMA WriteMoves ==
  ASSUME Inv, NEW w \in Nodes, Write(w)
  PROVE  Moves
<1>1. /\ pc # "idle" /\ UNCHANGED <<shellVars, owed, witness, known>>
      /\ w \in masters /\ opTime < MaxOpTime /\ opTime' = opTime + 1
      /\ oplog' = [oplog EXCEPT ![w] = Append(oplog[w], opTime')]
      /\ UNCHANGED <<up, masters, life, view, elections, faults, stayed, steady>>
  BY DEF Write, NodeStep
<1>2. /\ oplog \in [Nodes -> Seq(1 .. MaxOpTime)] /\ opTime \in 0 .. MaxOpTime
      /\ MaxOpTime \in Nat /\ oplog[w] # << >> /\ oplog[w] \in Seq(1 .. MaxOpTime)
      /\ owed \in Seq(1 .. MaxOpTime)
  BY <1>1, SizesAssumption DEF Inv, EnvTypes, PastTypes, OplogsMatch
<1>3. opTime' \in 1 .. MaxOpTime
  BY <1>1, <1>2
<1>4. /\ oplog'[w] = Append(oplog[w], opTime')
      /\ \A n \in Nodes \ {w} : oplog'[n] = oplog[n]
  BY <1>1, <1>2
<1>5. /\ oplog'[w] \in Seq(1 .. MaxOpTime) /\ Len(oplog'[w]) = Len(oplog[w]) + 1
      /\ oplog'[w][Len(oplog[w]) + 1] = opTime'
      /\ \A j \in 1 .. Len(oplog[w]) : oplog'[w][j] = oplog[w][j]
  BY <1>2, <1>3, <1>4, AppendProperties
<1>6. /\ Len(oplog[w]) \in Nat /\ DOMAIN oplog[w] = 1 .. Len(oplog[w])
      /\ DOMAIN oplog'[w] = 1 .. Len(oplog[w]) + 1
  BY <1>2, <1>5
<1>7. oplog' \in [Nodes -> Seq(1 .. MaxOpTime)]
  BY <1>1, <1>2, <1>4, <1>5
<1>8. EnvTypes'
  BY <1>1, <1>3, <1>7 DEF Inv, EnvTypes
<1>9. \A n \in Nodes : IsPrefix(oplog[n], oplog'[n])
  <2>1. IsPrefix(oplog[w], oplog'[w])
    <3>1. Len(oplog[w]) <= Len(oplog'[w])
      BY <1>5, <1>6
    <3>2. \A j \in 1 .. Len(oplog[w]) : oplog[w][j] = oplog'[w][j]
      BY <1>5
    <3> QED
      BY <1>2, <1>5, <3>1, <3>2, PrefixIs
  <2>2. ASSUME NEW n \in Nodes \ {w} PROVE IsPrefix(oplog[n], oplog'[n])
    <3>1. oplog[n] \in Seq(1 .. MaxOpTime) /\ oplog'[n] = oplog[n]
      BY <1>2, <1>4
    <3> QED
      BY <3>1, PrefixSelf
  <2> QED
    BY <2>1, <2>2
<1>10. \A n \in Nodes : oplog[n] # << >> => oplog'[n] # << >>
  <2>1. oplog'[w] # << >>
    BY <1>5, <1>6
  <2> QED
    BY <1>4, <2>1
<1>11. OplogsMatch'
  <2>1. \A n \in Nodes : \A j \in DOMAIN oplog[n] : oplog[n][j] < opTime'
    <3>1. ASSUME NEW n \in Nodes, NEW j \in DOMAIN oplog[n] PROVE oplog[n][j] < opTime'
      <4>1. oplog[n][j] <= opTime /\ oplog[n][j] \in 1 .. MaxOpTime
        BY <1>2 DEF Inv, OplogsMatch
      <4> QED
        BY <1>1, <1>2, <4>1
    <3> QED
      BY <3>1
  <2>2. ASSUME NEW n \in Nodes, NEW m \in Nodes PROVE Matching(oplog'[n], oplog'[m])
    <3>1. /\ oplog[n] \in Seq(1 .. MaxOpTime) /\ oplog[m] \in Seq(1 .. MaxOpTime)
          /\ \A k \in Nodes : Matching(oplog[w], oplog[k])
          /\ Matching(oplog[n], oplog[m])
      BY <1>2 DEF Inv, OplogsMatch
    <3>2. \A b \in Seq(1 .. MaxOpTime) :
            Matching(oplog[w], b) /\ (\A j \in DOMAIN b : b[j] < opTime') =>
              /\ Matching(oplog'[w], b) /\ Matching(b, oplog'[w])
              /\ Matching(oplog'[w], oplog'[w])
      BY <1>2, <1>3, <1>4, <2>1, <3>1, MatchingAppend
    <3>3. CASE n = w /\ m = w
      BY <1>2, <2>1, <3>1, <3>2, <3>3
    <3>4. CASE n = w /\ m # w
      BY <1>4, <2>1, <3>1, <3>2, <3>4
    <3>5. CASE n # w /\ m = w
      BY <1>4, <2>1, <3>1, <3>2, <3>5
    <3>6. CASE n # w /\ m # w
      BY <1>4, <3>1, <3>6
    <3> QED
      BY <3>3, <3>4, <3>5, <3>6
  <2>3. ASSUME NEW n \in Nodes, NEW j \in DOMAIN oplog'[n] PROVE oplog'[n][j] <= opTime'
    <3>1. CASE n = w
      <4>1. CASE j \in DOMAIN oplog[w]
        <5>1. oplog'[n][j] = oplog[w][j] /\ oplog[w][j] < opTime' /\ oplog[w][j] \in 1 .. MaxOpTime
          BY <1>2, <1>5, <1>6, <2>1, <3>1, <4>1
        <5> QED
          BY <1>3, <5>1
      <4>2. CASE j \notin DOMAIN oplog[w]
        BY <1>3, <1>5, <1>6, <3>1, <4>2
      <4> QED
        BY <4>1, <4>2
    <3>2. CASE n # w
      <4>1. oplog'[n] = oplog[n] /\ oplog[n][j] < opTime' /\ oplog[n][j] \in 1 .. MaxOpTime
        BY <1>2, <1>4, <2>1, <3>2
      <4> QED
        BY <1>3, <4>1
    <3> QED
      BY <3>1, <3>2
  <2>4. \A m \in masters' : oplog'[m] # << >>
    BY <1>1, <1>10 DEF Inv, EnvTypes, OplogsMatch
  <2> QED
    BY <2>2, <2>3, <2>4 DEF OplogsMatch
<1>12. \A m \in masters : /\ DOMAIN oplog[m] \subseteq DOMAIN oplog'[m]
                          /\ \A j \in DOMAIN oplog[m] : oplog'[m][j] = oplog[m][j]
  <2>1. masters \subseteq Nodes
    BY DEF Inv, EnvTypes
  <2> QED
    BY <1>4, <1>5, <1>6, <2>1
<1>13. \A n \in Nodes : Has(n) => IsPrefix(owed, oplog'[n])
  <2> SUFFICES ASSUME NEW n \in Nodes, IsPrefix(owed, oplog[n])
               PROVE  IsPrefix(owed, oplog'[n])
    BY DEF Has
  <2>1. oplog[n] \in Seq(1 .. MaxOpTime) /\ oplog'[n] \in Seq(1 .. MaxOpTime)
    BY <1>2, <1>7
  <2> QED
    BY <1>2, <1>9, <2>1, PrefixTransitive
<1> QED
  BY <1>1, <1>8, <1>10, <1>11, <1>12, <1>13 DEF Moves, Inv, PastTypes

(* A node replicates: what it has then is a part of what it or the master  *)
(* had, and has what was in both.                                          *)
Fetched(a, b) == IF IsPrefix(a, b) THEN SubSeq(b, 1, Len(a) + 1)
                 ELSE LongestCommonPrefix({a, b})

LEMMA Replicated ==
  ASSUME NEW S, NEW a \in Seq(S), NEW b \in Seq(S), a # b, Matching(a, b), b # << >>
  PROVE  /\ Fetched(a, b) \in Seq(S)
         /\ IsPrefix(Fetched(a, b), a) \/ IsPrefix(Fetched(a, b), b)
         /\ \A o \in Seq(S) : IsPrefix(o, a) /\ IsPrefix(o, b) => IsPrefix(o, Fetched(a, b))
         /\ a # << >> => Fetched(a, b) # << >>
<1> DEFINE c == Fetched(a, b)
<1> SUFFICES /\ c \in Seq(S) /\ (IsPrefix(c, a) \/ IsPrefix(c, b))
             /\ \A o \in Seq(S) : IsPrefix(o, a) /\ IsPrefix(o, b) => IsPrefix(o, c)
             /\ a # << >> => c # << >>
  OBVIOUS
<1> HIDE DEF c
<1>1. /\ Len(a) \in Nat /\ Len(b) \in Nat
      /\ \A j \in 1 .. Len(b) : b[j] \in S
  OBVIOUS
<1>2. CASE IsPrefix(a, b)
  <2>1. Len(a) <= Len(b) /\ \A j \in 1 .. Len(a) : a[j] = b[j]
    BY <1>2, PrefixIs
  <2>2. Len(a) < Len(b)
    <3> SUFFICES ASSUME Len(a) = Len(b) PROVE a = b
      BY <1>1, <2>1
    <3> QED
      BY <2>1, SeqEqual
  <2> DEFINE n == Len(a) + 1
  <2>3. /\ c = SubSeq(b, 1, n) /\ n \in Nat \ {0} /\ n <= Len(b) /\ 1 \in Int /\ n \in Int
        /\ Len(a) <= n
    BY <1>1, <1>2, <2>2 DEF c, Fetched
  <2> HIDE DEF n
  <2>4. c \in Seq(S) /\ Len(c) = n /\ \A j \in 1 .. n : c[j] = b[j]
    <3> DEFINE u == SubSeq(b, 1, n)
    <3>1. \A j \in 1 .. n : b[j] \in S
      BY <1>1, <2>3
    <3>2. /\ u \in Seq(S) /\ Len(u) = IF 1 <= n THEN n - 1 + 1 ELSE 0
          /\ \A j \in 1 .. n - 1 + 1 : u[j] = b[1 + j - 1]
      BY <2>3, <3>1, SubSeqProperties
    <3> HIDE DEF u
    <3>3. Len(u) = n /\ \A j \in 1 .. n : u[j] = b[j]
      BY <2>3, <3>2
    <3>4. u = c
      BY <2>3 DEF u
    <3> QED
      BY <3>2, <3>3, <3>4
  <2>5. ASSUME NEW u \in Seq(S), Len(u) = n, \A j \in 1 .. n : u[j] = b[j]
        PROVE  IsPrefix(a, u) /\ IsPrefix(u, b)
    <3>1. Len(a) <= Len(u) /\ \A j \in 1 .. Len(a) : a[j] = u[j]
      <4>1. \A j \in 1 .. Len(a) : j \in 1 .. n
        BY <1>1, <2>3
      <4> QED
        BY <2>1, <2>3, <2>5, <4>1
    <3>2. Len(u) <= Len(b) /\ \A j \in 1 .. Len(u) : u[j] = b[j]
      BY <2>3, <2>5
    <3> QED
      BY <3>1, <3>2, PrefixIs
  <2>6. IsPrefix(a, c) /\ IsPrefix(c, b)
    BY <2>4, <2>5
  <2>7. \A o \in Seq(S) : IsPrefix(o, a) => IsPrefix(o, c)
    BY <2>4, <2>6, PrefixTransitive
  <2>8. c # << >>
    BY <2>3, <2>4
  <2> QED
    BY <2>4, <2>6, <2>7, <2>8
<1>3. CASE ~IsPrefix(a, b)
  <2>1. c = LongestCommonPrefix({a, b})
    BY <1>3 DEF c, Fetched
  <2>2. /\ c \in Seq(S) /\ IsPrefix(c, a)
        /\ \A o \in Seq(S) : IsPrefix(o, a) /\ IsPrefix(o, b) => IsPrefix(o, c)
    <3> DEFINE d == LongestCommonPrefix({a, b})
    <3>1. /\ d \in Seq(S) /\ IsPrefix(d, a)
          /\ \A o \in Seq(S) : IsPrefix(o, a) /\ IsPrefix(o, b) => IsPrefix(o, d)
      BY LongestIs
    <3>2. c = d
      BY <2>1
    <3> HIDE DEF d
    <3> QED
      BY <3>1, <3>2
  <2>3. ASSUME a # << >> PROVE c # << >>
    <3> DEFINE o == << a[1] >>
    <3>1. Len(a) > 0 /\ Len(b) > 0
      BY <2>3, EmptySeq
    <3>2. a[1] \in S /\ a[1] = b[1]
      BY <1>1, <2>3, <3>1 DEF Matching
    <3>3. o \in Seq(S) /\ Len(o) = 1 /\ o[1] = a[1]
      BY <3>2
    <3> HIDE DEF o
    <3>4. IsPrefix(o, a) /\ IsPrefix(o, b)
      <4>1. Len(o) <= Len(a) /\ Len(o) <= Len(b) /\ \A j \in 1 .. Len(o) : o[j] = a[j] /\ o[j] = b[j]
        BY <1>1, <3>1, <3>2, <3>3
      <4> QED
        BY <3>3, <4>1, PrefixIs
    <3>5. Len(o) <= Len(c)
      BY <2>2, <3>3, <3>4 DEF IsPrefix
    <3> QED
      BY <3>3, <3>5
  <2> QED
    BY <2>2, <2>3
<1> QED
  BY <1>2, <1>3

LEMMA ReplicateMoves ==
  ASSUME Inv, NEW n \in Nodes, NEW m \in Nodes, Replicate(n, m)
  PROVE  Moves
<1> DEFINE d == Fetched(oplog[n], oplog[m])
<1>1. /\ pc # "idle" /\ UNCHANGED <<shellVars, owed, witness, known>>
      /\ m \in masters /\ n \notin masters /\ oplog[n] # oplog[m] /\ call # "restart"
      /\ oplog' = [oplog EXCEPT ![n] = d]
      /\ UNCHANGED <<up, masters, life, view, opTime, elections, faults, stayed, steady>>
  BY DEF Replicate, NodeStep, Fetched
<1>2. /\ oplog \in [Nodes -> Seq(1 .. MaxOpTime)] /\ opTime \in 0 .. MaxOpTime
      /\ oplog[m] # << >> /\ Matching(oplog[n], oplog[m])
      /\ owed \in Seq(1 .. MaxOpTime) /\ masters \subseteq Nodes
      /\ oplog[n] \in Seq(1 .. MaxOpTime) /\ oplog[m] \in Seq(1 .. MaxOpTime)
  BY <1>1 DEF Inv, EnvTypes, PastTypes, OplogsMatch
<1>3. /\ d \in Seq(1 .. MaxOpTime) /\ (IsPrefix(d, oplog[n]) \/ IsPrefix(d, oplog[m]))
      /\ \A o \in Seq(1 .. MaxOpTime) :
           IsPrefix(o, oplog[n]) /\ IsPrefix(o, oplog[m]) => IsPrefix(o, d)
      /\ oplog[n] # << >> => d # << >>
  BY <1>1, <1>2, Replicated
<1> HIDE DEF d
<1>4. /\ oplog'[n] = d /\ \A k \in Nodes \ {n} : oplog'[k] = oplog[k]
      /\ oplog' \in [Nodes -> Seq(1 .. MaxOpTime)]
  BY <1>1, <1>2, <1>3
<1>5. EnvTypes'
  BY <1>1, <1>4 DEF Inv, EnvTypes
<1>6. \A k \in Nodes : oplog[k] # << >> => oplog'[k] # << >>
  BY <1>3, <1>4
<1>7. \A k \in Nodes : \E x \in Nodes : IsPrefix(oplog'[k], oplog[x])
  <2> SUFFICES ASSUME NEW k \in Nodes PROVE \E x \in Nodes : IsPrefix(oplog'[k], oplog[x])
    OBVIOUS
  <2>1. CASE k = n
    BY <1>3, <1>4, <2>1
  <2>2. CASE k # n
    <3>1. oplog[k] \in Seq(1 .. MaxOpTime) /\ oplog'[k] = oplog[k]
      BY <1>2, <1>4, <2>2
    <3> QED
      BY <3>1, PrefixSelf
  <2> QED
    BY <2>1, <2>2
<1>8. OplogsMatch'
  <2>1. ASSUME NEW k \in Nodes, NEW l \in Nodes PROVE Matching(oplog'[k], oplog'[l])
    <3>1. PICK x \in Nodes : IsPrefix(oplog'[k], oplog[x])
      BY <1>7
    <3>2. PICK y \in Nodes : IsPrefix(oplog'[l], oplog[y])
      BY <1>7
    <3>3. /\ Matching(oplog[x], oplog[y])
          /\ oplog'[k] \in Seq(1 .. MaxOpTime) /\ oplog'[l] \in Seq(1 .. MaxOpTime)
          /\ oplog[x] \in Seq(1 .. MaxOpTime) /\ oplog[y] \in Seq(1 .. MaxOpTime)
      BY <1>2, <1>4 DEF Inv, OplogsMatch
    <3> QED
      BY <3>1, <3>2, <3>3, MatchingPrefixes
  <2>2. ASSUME NEW k \in Nodes, NEW j \in DOMAIN oplog'[k] PROVE oplog'[k][j] <= opTime'
    <3>1. PICK x \in Nodes : IsPrefix(oplog'[k], oplog[x])
      BY <1>7
    <3>2. oplog'[k] \in Seq(1 .. MaxOpTime) /\ oplog[x] \in Seq(1 .. MaxOpTime)
      BY <1>2, <1>4
    <3>3. j \in DOMAIN oplog[x] /\ oplog'[k][j] = oplog[x][j]
      BY <3>1, <3>2, PrefixIs
    <3> QED
      BY <1>1, <3>3 DEF Inv, OplogsMatch
  <2>3. \A k \in masters' : oplog'[k] # << >>
    BY <1>1, <1>2, <1>6 DEF Inv, OplogsMatch
  <2> QED
    BY <2>1, <2>2, <2>3 DEF OplogsMatch
<1>9. \A k \in masters : /\ DOMAIN oplog[k] \subseteq DOMAIN oplog'[k]
                         /\ \A j \in DOMAIN oplog[k] : oplog'[k][j] = oplog[k][j]
  BY <1>1, <1>2, <1>4
<1>10. ASSUME steady', call # "restart", NEW k \in Nodes, Has(k) PROVE IsPrefix(owed, oplog'[k])
  <2>1. Has(m)
    BY <1>1, <1>10 DEF Inv, Steady
  <2>2. CASE k = n
    BY <1>2, <1>3, <1>4, <1>10, <2>1, <2>2 DEF Has
  <2>3. CASE k # n
    BY <1>4, <1>10, <2>3 DEF Has
  <2> QED
    BY <2>2, <2>3
<1> QED
  BY <1>1, <1>5, <1>6, <1>8, <1>9, <1>10 DEF Moves, Inv, PastTypes

LEMMA ElectMoves ==
  ASSUME Inv, NEW n \in Nodes, Elect(n)
  PROVE  Moves
<1>1. /\ pc # "idle" /\ UNCHANGED <<shellVars, owed, witness, known>>
      /\ up[n] /\ n \notin Arbiters /\ oplog[n] # << >>
      /\ elections' = elections + 1 /\ masters' = masters \union {n} /\ steady' = FALSE
      /\ UNCHANGED <<up, oplog, life, view, opTime, faults, stayed>>
  BY DEF Elect, NodeStep
<1>2. EnvTypes'
  BY <1>1 DEF Inv, EnvTypes
<1> QED
  BY <1>1, <1>2, OplogsStay DEF Moves

LEMMA StepDownMoves ==
  ASSUME Inv, NEW m \in Nodes, StepDown(m)
  PROVE  Moves
<1>1. /\ pc # "idle" /\ UNCHANGED <<shellVars, owed, witness, known>>
      /\ masters' = masters \ {m} /\ steady' = FALSE
      /\ UNCHANGED <<up, oplog, life, view, opTime, elections, faults, stayed>>
  BY DEF StepDown, NodeStep
<1>2. EnvTypes'
  BY <1>1 DEF Inv, EnvTypes
<1> QED
  BY <1>1, <1>2, OplogsStay DEF Moves

LEMMA FailMoves ==
  ASSUME Inv, NEW n \in Nodes, Fail(n)
  PROVE  Moves
<1>1. /\ pc # "idle" /\ UNCHANGED <<shellVars, owed, witness, known>>
      /\ up[n] /\ faults' = faults + 1 /\ up' = [up EXCEPT ![n] = FALSE]
      /\ masters' = masters \ {n} /\ steady' = (steady /\ n \notin masters)
      /\ stayed' = stayed \ {n}
      /\ UNCHANGED <<oplog, life, view, opTime, elections>>
  BY DEF Fail, NodeStep
<1>2. /\ up \in [Nodes -> BOOLEAN] /\ masters \subseteq {m \in Nodes \ Arbiters : up[m]}
      /\ target \in Nodes \union {None} /\ stayed \subseteq Nodes
  BY DEF Inv, EnvTypes, ShellTypes, PastTypes
<1>3. up' \in [Nodes -> BOOLEAN] /\ ~up'[n] /\ \A m \in Nodes \ {n} : up'[m] = up[m]
  BY <1>1, <1>2
<1>4. EnvTypes'
  BY <1>1, <1>2, <1>3 DEF Inv, EnvTypes
<1>5. (steady' => steady /\ masters' = masters) /\ steady' \in BOOLEAN
  <2>1. steady' => steady /\ n \notin masters
    BY <1>1, Zenon
  <2>2. steady' \in BOOLEAN
    BY <1>1, Zenon
  <2> QED
    BY <1>1, <2>1, <2>2
<1>6. target # None /\ ~up[target] => ~up'[target]
  BY <1>2, <1>3
<1>7. (\A m \in stayed : up[m]) => \A m \in stayed' : up'[m]
  BY <1>1, <1>2, <1>3
<1> QED
  BY <1>1, <1>4, <1>5, <1>6, <1>7, OplogsStay DEF Moves

LEMMA RecoverMoves ==
  ASSUME Inv, NEW n \in Nodes, Recover(n)
  PROVE  Moves
<1>1. /\ pc # "idle" /\ UNCHANGED <<shellVars, owed, witness, known>>
      /\ n # target /\ up' = [up EXCEPT ![n] = TRUE] /\ view' = [view EXCEPT ![n] = 0]
      /\ UNCHANGED <<masters, oplog, life, opTime, elections, faults, stayed, steady>>
  BY DEF Recover, NodeStep
<1>2. /\ up \in [Nodes -> BOOLEAN] /\ masters \subseteq {m \in Nodes \ Arbiters : up[m]}
      /\ target \in Nodes \union {None} /\ stayed \subseteq Nodes
      /\ life \in Nat \ {0} /\ view \in [Nodes -> 0 .. life]
  BY DEF Inv, EnvTypes, ShellTypes, PastTypes
<1>3. /\ up' \in [Nodes -> BOOLEAN] /\ \A m \in Nodes : (m # n => up'[m] = up[m]) /\ (up[m] => up'[m])
      /\ view' \in [Nodes -> 0 .. life] /\ \A m \in Nodes : view'[m] = view[m] \/ view'[m] = 0
  <2>1. 0 \in 0 .. life
    BY <1>2
  <2>2. view' \in [Nodes -> 0 .. life] /\ \A m \in Nodes : view'[m] = view[m] \/ view'[m] = 0
    BY <1>1, <1>2, <2>1
  <2> QED
    BY <1>1, <1>2, <2>2
<1>4. EnvTypes'
  BY <1>1, <1>2, <1>3 DEF Inv, EnvTypes
<1>5. target # None /\ ~up[target] => ~up'[target]
  BY <1>1, <1>2, <1>3
<1>6. (\A m \in stayed : up[m]) => \A m \in stayed' : up'[m]
  BY <1>1, <1>2, <1>3
<1>7. steady' \in BOOLEAN
  BY <1>1 DEF Inv, PastTypes
<1> QED
  BY <1>1, <1>3, <1>4, <1>5, <1>6, <1>7, OplogsStay DEF Moves

LEMMA BeatMoves ==
  ASSUME Inv, NEW n \in Nodes, Beat(n)
  PROVE  Moves
<1>1. /\ pc # "idle" /\ UNCHANGED <<shellVars, owed, witness, known>>
      /\ target # None /\ view' = [view EXCEPT ![n] = IF up[target] THEN life ELSE 0]
      /\ UNCHANGED <<up, masters, oplog, life, opTime, elections, faults, stayed, steady>>
  BY DEF Beat, NodeStep
<1>2. life \in Nat \ {0} /\ view \in [Nodes -> 0 .. life]
  BY DEF Inv, EnvTypes
<1>3. /\ view' \in [Nodes -> 0 .. life]
      /\ \A m \in Nodes : \/ view'[m] = view[m] \/ view'[m] = 0
                          \/ view'[m] = life /\ target # None /\ up[target]
  <2>1. CASE up[target]
    BY <1>1, <1>2, <2>1
  <2>2. CASE ~up[target]
    <3>1. view' = [view EXCEPT ![n] = 0]
      BY <1>1, <2>2
    <3>2. 0 \in 0 .. life
      BY <1>2
    <3>3. view' \in [Nodes -> 0 .. life] /\ \A m \in Nodes : view'[m] = view[m] \/ view'[m] = 0
      BY <1>2, <3>1, <3>2
    <3> QED
      BY <3>3
  <2> QED
    BY <2>1, <2>2
<1>4. EnvTypes'
  BY <1>1, <1>3 DEF Inv, EnvTypes
<1>5. steady' \in BOOLEAN
  BY <1>1 DEF Inv, PastTypes
<1> QED
  BY <1>1, <1>3, <1>4, <1>5, OplogsStay DEF Moves

LEMMA WatchMoves ==
  ASSUME Inv, NEW n \in Nodes, Watch(n)
  PROVE  Moves
<1>1. /\ pc # "idle" /\ UNCHANGED <<shellVars, owed, witness, stayed, steady>>
      /\ known' = IF IsSecondary(n) THEN known \union {n} ELSE known \ {n}
      /\ UNCHANGED <<up, masters, oplog, life, view, opTime, elections, faults>>
  BY DEF Watch, pastVars
<1>2. known' \subseteq Nodes /\ \A m \in known' : m \in known \/ IsSecondary(m)
  BY <1>1 DEF Inv, EnvTypes
<1>3. EnvTypes'
  BY <1>1, <1>2 DEF Inv, EnvTypes
<1>4. steady' \in BOOLEAN
  BY <1>1 DEF Inv, PastTypes
<1> QED
  BY <1>1, <1>2, <1>3, <1>4, OplogsStay DEF Moves

(* Whatever the nodes do between two questions.                            *)
LEMMA MovesKeep ==
  ASSUME Inv, Moves
  PROVE  Inv'
<1>1. /\ pc # "idle" /\ UNCHANGED <<shellVars, owed, witness>> /\ life' = life
      /\ EnvTypes' /\ OplogsMatch' /\ steady' \in BOOLEAN /\ stayed' \subseteq stayed
  BY DEF Moves
<1>2. UNCHANGED <<call, target, pc, i, live, latest, after, tries, outer, caught,
                  ready, goal, result, owed, witness>>
  BY <1>1 DEF shellVars
<1>3. /\ call # "none" /\ result = "none"
      /\ live.master \in Nodes \union {None} /\ live.slaves \in Seq(Nodes)
      /\ masters \subseteq Nodes /\ stayed \subseteq Nodes /\ witness[1] \in Nodes \union {None}
      /\ \A k \in DOMAIN live.slaves : live.slaves[k] \in Nodes
  <2>1. call # "none" /\ result = "none"
    BY <1>1 DEF Inv, Calling
  <2>2. live \in [master : Nodes \union {None}, slaves : Seq(Nodes)]
    BY DEF Inv, ShellTypes
  <2>3. masters \subseteq Nodes
    BY DEF Inv, EnvTypes
  <2>4. stayed \subseteq Nodes /\ witness[1] \in Nodes \union {None}
    BY DEF Inv, PastTypes
  <2>5. live.master \in Nodes \union {None} /\ live.slaves \in Seq(Nodes)
    BY <2>2
  <2>6. \A k \in DOMAIN live.slaves : live.slaves[k] \in Nodes
    BY <2>5, LengthIs, ElementOfSeq
  <2> QED
    BY <2>1, <2>3, <2>4, <2>5, <2>6
<1>4. ShellTypes' /\ PastTypes'
  BY <1>1, <1>2 DEF Inv, ShellTypes, PastTypes
<1>5. Calling'
  BY <1>1, <1>2, <1>3 DEF Inv, Calling
<1>6. Questions'
  BY <1>2 DEF Inv, Questions
<1>7. Steady'
  <2> SUFFICES ASSUME call # "restart"
               PROVE  /\ \A n \in stayed' : up'[n]
                      /\ steady' => /\ \E m \in Nodes : masters' = {m}
                                    /\ \A m \in masters' : IsPrefix(owed, oplog'[m])
    BY <1>2 DEF Steady, Has
  <2>1. \A n \in stayed' : up'[n]
    BY DEF Inv, Steady, Moves
  <2>2. ASSUME steady' PROVE /\ \E m \in Nodes : masters' = {m}
                             /\ \A m \in masters' : IsPrefix(owed, oplog'[m])
    <3>1. steady /\ masters' = masters /\ \A n \in Nodes : Has(n) => IsPrefix(owed, oplog'[n])
      BY <2>2 DEF Moves
    <3> QED
      BY <1>3, <3>1 DEF Inv, Steady
  <2> QED
    BY <2>1, <2>2
<1>8. LiveFound'
  <2>1. live.master # None => oplog'[live.master] # << >>
    BY <1>3 DEF Moves, Inv, LiveFound
  <2>2. steady' => steady /\ masters' = masters
    BY DEF Moves
  <2>3. live.master # None /\ steady' /\ call # "restart" => live.master \in masters'
    BY <2>2 DEF Inv, LiveFound
  <2>4. pc \notin {"idle", "start"} /\ steady' /\ call # "restart" =>
          \A n \in stayed' :
            (pc = "isMaster" => n < i) => n = live.master \/ n \in ToSet(live.slaves)
    BY <1>1, <2>2 DEF Inv, LiveFound
  <2>5. /\ pc \in {"oplog", "state", "hasNext", "next", "count", "reset", "secondary", "hosts"}
           => live.master # None
        /\ pc = "isMaster" => /\ \A k \in DOMAIN live.slaves : live.slaves[k] < i
                              /\ live.master # None => live.master < i
    BY DEF Inv, LiveFound
  <2> QED
    BY <1>2, <2>1, <2>3, <2>4, <2>5 DEF LiveFound
<1>9. Passes'
  <2> SUFFICES ASSUME pc \in {"state", "hasNext", "next", "count", "reset"}
               PROVE  /\ pc = "next" => i \in DOMAIN live.slaves /\ oplog'[live.slaves[i]] # << >>
                      /\ \A k \in 1 .. i - 1 : k \in DOMAIN live.slaves
                      /\ steady' =>
                           /\ \E j \in DOMAIN oplog'[live.master] :
                                j >= Len(owed) /\ oplog'[live.master][j] = latest
                           /\ \A k \in 1 .. i - 1 : live.slaves[k] \notin Arbiters =>
                                IsPrefix(owed, oplog'[live.slaves[k]])
    BY <1>2 DEF Passes, Has
  <2>1. \A k \in 1 .. i - 1 : k \in DOMAIN live.slaves
    BY DEF Inv, Passes
  <2>2. pc = "next" => i \in DOMAIN live.slaves /\ oplog'[live.slaves[i]] # << >>
    BY <1>3 DEF Inv, Passes, Moves
  <2>3. ASSUME steady'
        PROVE  /\ \E j \in DOMAIN oplog'[live.master] :
                    j >= Len(owed) /\ oplog'[live.master][j] = latest
               /\ \A k \in 1 .. i - 1 : live.slaves[k] \notin Arbiters =>
                    IsPrefix(owed, oplog'[live.slaves[k]])
    <3>1. steady /\ call = "awaitReplication" /\ call # "restart" /\ live.master # None
      BY <2>3 DEF Inv, Questions, LiveFound, Moves
    <3>2. live.master \in masters
      BY <3>1 DEF Inv, LiveFound
    <3>3. PICK j \in DOMAIN oplog[live.master] : j >= Len(owed) /\ oplog[live.master][j] = latest
      BY <3>1 DEF Inv, Passes
    <3>4. j \in DOMAIN oplog'[live.master] /\ oplog'[live.master][j] = latest
      BY <3>2, <3>3 DEF Moves
    <3>5. \A n \in Nodes : Has(n) => IsPrefix(owed, oplog'[n])
      BY <2>3, <3>1 DEF Moves
    <3>6. \A k \in 1 .. i - 1 : live.slaves[k] \notin Arbiters => Has(live.slaves[k])
      BY <3>1 DEF Inv, Passes
    <3> QED
      BY <1>3, <2>1, <3>3, <3>4, <3>5, <3>6
  <2> QED
    BY <2>1, <2>2, <2>3
<1>10. Secondaries'
  <2>1. pc = "secondary" =>
          /\ \A k \in 1 .. i - 1 : k \in DOMAIN live.slaves
          /\ ready => \A k \in 1 .. i - 1 :
                        live.slaves[k] \notin Arbiters => oplog'[live.slaves[k]] # << >>
    BY <1>3 DEF Inv, Secondaries, Moves
  <2>2. ASSUME call = "awaitRSClientHosts", NEW n \in known'
        PROVE  oplog'[n] # << >> /\ (steady' => n \notin masters')
    <3>1. steady' => steady /\ masters' = masters
      BY DEF Moves
    <3>2. CASE n \in known
      <4>1. n \in Nodes /\ oplog[n] # << >> /\ (steady => n \notin masters)
        BY <2>2, <3>2 DEF Inv, Secondaries, EnvTypes
      <4> QED
        BY <3>1, <4>1 DEF Moves
    <3>3. CASE n \notin known
      <4>1. IsSecondary(n) /\ masters' = masters /\ oplog' = oplog
        BY <3>3 DEF Moves
      <4> QED
        BY <4>1 DEF IsSecondary
    <3> QED
      BY <3>2, <3>3
  <2> QED
    BY <1>2, <2>1, <2>2 DEF Secondaries
<1>11. Restarts'
  <2> SUFFICES ASSUME call = "restart"
               PROVE  /\ target \in Nodes /\ goal \in {"DOWN", "UP"}
                      /\ goal = "DOWN" => /\ ~up'[target] /\ witness[2] = None
                                          /\ witness[1] # None => view'[witness[1]] = 0
                      /\ goal = "UP" /\ witness[1] # None => view'[witness[1]] \in {0, life}
    BY <1>1, <1>2, <1>3 DEF Restarts
  <2>1. target \in Nodes /\ target # None /\ goal \in {"DOWN", "UP"}
    BY NodesAssumption DEF Inv, Restarts
  <2>2. \A n \in Nodes : \/ view'[n] = view[n] \/ view'[n] = 0
                         \/ view'[n] = life /\ target # None /\ up[target]
    BY DEF Moves
  <2>3. target # None /\ ~up[target] => ~up'[target]
    BY DEF Moves
  <2>4. goal = "DOWN" => /\ ~up[target] /\ witness[2] = None
                         /\ witness[1] # None => view[witness[1]] = 0
    BY DEF Inv, Restarts
  <2>5. goal = "UP" /\ witness[1] # None => view[witness[1]] \in {0, life}
    BY DEF Inv, Restarts
  <2>6. goal = "DOWN" => /\ ~up'[target] /\ witness[2] = None
                         /\ witness[1] # None => view'[witness[1]] = 0
    BY <1>3, <2>1, <2>2, <2>3, <2>4
  <2>7. goal = "UP" /\ witness[1] # None => view'[witness[1]] \in {0, life}
    BY <1>3, <2>2, <2>5
  <2> QED
    BY <2>1, <2>6, <2>7
<1>12. ReturnMeansReplicated' /\ SecondariesReady'
  BY <1>2, <1>3 DEF ReturnMeansReplicated, SecondariesReady
<1> QED
  BY <1>1, <1>4, <1>5, <1>6, <1>7, <1>8, <1>9, <1>10, <1>11, <1>12 DEF Inv

-----------------------------------------------------------------------------
(* The test.                                                               *)

(* The nodes stay as they are while a question is answered.                *)
Quiet ==
  /\ pc # "idle"
  /\ UNCHANGED <<up, masters, oplog, life, view, opTime, elections, faults, known,
                 owed, stayed, steady, call, target>>

LEMMA QuietKeeps ==
  ASSUME Inv, Quiet
  PROVE  /\ EnvTypes' /\ OplogsMatch' /\ Steady'
         /\ call # "none" /\ result = "none" /\ tries <= Tries /\ outer <= Tries
         /\ tries \in Nat /\ outer \in Nat /\ Tries \in Nat
<1>1. EnvTypes'
  BY DEF Inv, Quiet, EnvTypes
<1>2. OplogsMatch'
  BY DEF Inv, Quiet, OplogsMatch
<1>3. Steady'
  BY DEF Inv, Quiet, Steady, Has
<1>4. call # "none" /\ result = "none" /\ tries <= Tries /\ outer <= Tries
  BY DEF Inv, Quiet, Calling
<1>5. tries \in Nat /\ outer \in Nat /\ Tries \in Nat
  BY SizesAssumption DEF Inv, ShellTypes
<1> QED
  BY <1>1, <1>2, <1>3, <1>4, <1>5

LEMMA NoLiveIs ==
  /\ NoLive \in [master : Nodes \union {None}, slaves : Seq(Nodes)]
  /\ NoLive.master = None /\ NoLive.slaves = << >> /\ DOMAIN NoLive.slaves = {}
  /\ IsInjective(NoLive.slaves) /\ NoLive.master \notin ToSet(NoLive.slaves)
<1>1. NoLive = [master |-> None, slaves |-> << >>] /\ << >> \in Seq(Nodes)
  BY DEF NoLive
<1>2. DOMAIN << >> = {}
  OBVIOUS
<1> QED
  BY <1>1, <1>2 DEF IsInjective, ToSet

(* callIsMaster begins.                                                    *)
LEMMA AnewKeeps ==
  ASSUME Inv, Quiet, pc' = "isMaster", i' = 1, live' = NoLive,
         UNCHANGED <<latest, goal, result, witness>>,
         tries' \in Nat, tries' <= Tries, outer' \in Nat, outer' <= Tries,
         caught' \in BOOLEAN, ready' \in BOOLEAN,
         \/ after' = "oplog" /\ call = "awaitReplication"
         \/ after' \in {"soon", "secondary"} /\ call = "awaitSecondaryNodes"
         \/ after' = "hosts" /\ call = "awaitRSClientHosts"
         \/ after' = "status" /\ call = "restart"
  PROVE  Inv'
<1>1. /\ EnvTypes' /\ OplogsMatch' /\ Steady'
      /\ call # "none" /\ result = "none" /\ tries <= Tries /\ outer <= Tries
      /\ Tries \in Nat
  BY QuietKeeps
<1>2. UNCHANGED <<up, masters, oplog, life, view, opTime, elections, faults, known,
                  owed, stayed, steady, call, target>>
  BY DEF Quiet
<1>3. ShellTypes'
  <2>1. /\ live' \in [master : Nodes \union {None}, slaves : Seq(Nodes)]
        /\ IsInjective(live'.slaves) /\ live'.master \notin ToSet(live'.slaves)
    BY NoLiveIs
  <2>2. tries' \in 0 .. Tries + 1 /\ outer' \in 0 .. Tries + 1
    BY <1>1
  <2> QED
    BY <1>2, <2>1, <2>2 DEF Inv, ShellTypes
<1>4. PastTypes'
  BY <1>2 DEF Inv, PastTypes
<1>5. Calling'
  BY <1>1, <1>2 DEF Inv, Calling
<1>6. Questions'
  BY <1>2 DEF Inv, Questions
<1>7. LiveFound'
  <2>1. live'.master = None /\ DOMAIN live'.slaves = {}
    BY NoLiveIs
  <2>2. \A n \in stayed' : ~(n < i')
    <3>1. \A n \in Nodes : ~(n < 1)
      BY SizesAssumption DEF Nodes
    <3> QED
      BY <1>2, <3>1 DEF Inv, PastTypes
  <2> QED
    BY <2>1, <2>2 DEF LiveFound
<1>8. Passes' /\ Secondaries'
  BY <1>2 DEF Inv, Passes, Secondaries
<1>9. Restarts'
  BY <1>1, <1>2 DEF Inv, Restarts
<1>10. ReturnMeansReplicated' /\ SecondariesReady'
  BY <1>1 DEF ReturnMeansReplicated, SecondariesReady
<1> QED
  BY <1>1, <1>3, <1>4, <1>5, <1>6, <1>7, <1>8, <1>9, <1>10 DEF Inv

(* A call ends.                                                            *)
LEMMA EndKeeps ==
  ASSUME Inv, Quiet, pc' = "idle", result' \in {"returned", "threw", "failed"},
         UNCHANGED <<i, live, after>>, goal' \in {"none", "DOWN", "UP"}, ready' \in BOOLEAN,
         latest' \in 0 .. MaxOpTime, caught' \in BOOLEAN,
         tries' \in 0 .. Tries + 1, outer' \in 0 .. Tries + 1,
         call # "restart" => witness' = witness,
         PastTypes', Restarts', ReturnMeansReplicated', SecondariesReady'
  PROVE  Inv'
<1>1. /\ EnvTypes' /\ OplogsMatch' /\ Steady' /\ call # "none"
  BY QuietKeeps
<1>2. UNCHANGED <<up, masters, oplog, life, view, opTime, elections, faults, known,
                  owed, stayed, steady, call, target>>
  BY DEF Quiet
<1>3. ShellTypes'
  BY <1>2 DEF Inv, ShellTypes
<1>4. Calling'
  BY <1>1, <1>2 DEF Inv, Calling
<1>5. Questions'
  BY <1>2 DEF Inv, Questions
<1>6. LiveFound'
  BY <1>2 DEF Inv, LiveFound
<1>7. Passes' /\ Secondaries'
  BY <1>2 DEF Inv, Passes, Secondaries
<1> QED
  BY <1>1, <1>3, <1>4, <1>5, <1>6, <1>7 DEF Inv

LEMMA ThrowKeeps ==
  ASSUME Inv, Quiet, pc' = "idle", result' \in {"threw", "failed"},
         UNCHANGED <<i, live, after, ready, goal, witness>>,
         latest' \in 0 .. MaxOpTime, caught' \in BOOLEAN,
         tries' \in 0 .. Tries + 1, outer' \in 0 .. Tries + 1
  PROVE  Inv'
<1>1. UNCHANGED <<up, masters, oplog, life, view, opTime, elections, faults, known,
                  owed, stayed, steady, call, target>>
  BY DEF Quiet
<1>2. PastTypes'
  BY <1>1 DEF Inv, PastTypes
<1>3. Restarts'
  BY <1>1 DEF Inv, Restarts
<1>4. ReturnMeansReplicated' /\ SecondariesReady'
  BY DEF ReturnMeansReplicated, SecondariesReady
<1>5. /\ result' \in {"returned", "threw", "failed"}
      /\ goal' \in {"none", "DOWN", "UP"} /\ ready' \in BOOLEAN
  BY DEF Inv, ShellTypes
<1> QED
  BY <1>2, <1>3, <1>4, <1>5, EndKeeps

(* The test asks on, about whom it has found.                              *)
LEMMA GoesOn ==
  ASSUME Inv, Quiet, pc' \notin {"idle", "start", "isMaster"}, live.master # None,
         pc = "isMaster" => i > NumNodes, pc # "start",
         UNCHANGED <<live, after, goal, result, witness>>, ShellTypes',
         Questions', tries' <= Tries, outer' <= Tries, Passes', Secondaries'
  PROVE  Inv'
<1>1. /\ EnvTypes' /\ OplogsMatch' /\ Steady' /\ call # "none" /\ result = "none"
  BY QuietKeeps
<1>2. UNCHANGED <<up, masters, oplog, life, view, opTime, elections, faults, known,
                  owed, stayed, steady, call, target>>
  BY DEF Quiet
<1>3. PastTypes'
  BY <1>2 DEF Inv, PastTypes
<1>4. Calling'
  BY <1>1, <1>2 DEF Inv, Calling
<1>5. LiveFound'
  <2>1. oplog[live.master] # << >> /\ (steady /\ call # "restart" => live.master \in masters)
    BY DEF Inv, LiveFound
  <2>2. ASSUME steady, call # "restart", NEW n \in stayed
        PROVE  n = live.master \/ n \in ToSet(live.slaves)
    <3>1. pc = "isMaster" => n < i
      <4>1. n \in 1 .. NumNodes /\ i \in Nat /\ NumNodes \in Nat
        BY SizesAssumption DEF Inv, PastTypes, ShellTypes, Nodes
      <4> QED
        BY <4>1
    <3> QED
      BY <2>2, <3>1 DEF Inv, LiveFound, Quiet
  <2> QED
    BY <1>2, <2>1, <2>2 DEF LiveFound
<1>6. Restarts'
  BY <1>1, <1>2 DEF Inv, Restarts
<1>7. ReturnMeansReplicated' /\ SecondariesReady'
  BY <1>1 DEF ReturnMeansReplicated, SecondariesReady
<1> QED
  BY <1>1, <1>3, <1>4, <1>5, <1>6, <1>7 DEF Inv

LEMMA StartKeeps ==
  ASSUME Inv, NEW started \in BOOLEAN, Start(started)
  PROVE  Inv'
<1>1. /\ pc = "start" /\ goal' = "UP" /\ outer' = 0
      /\ UNCHANGED <<masters, oplog, opTime, elections, faults, known, call, target, latest,
                     tries, caught, ready, owed, stayed, steady, witness>>
  BY DEF Start, pastVars
<1>2. /\ call = "restart" /\ goal = "DOWN" /\ target \in Nodes /\ ~up[target]
      /\ witness[2] = None /\ (witness[1] # None => view[witness[1]] = 0)
      /\ result = "none" /\ witness[1] \in Nodes \union {None} /\ tries <= Tries
  BY <1>1 DEF Inv, Questions, Restarts, Calling, PastTypes
<1>3. CASE started
  <2>1. /\ up' = [up EXCEPT ![target] = TRUE] /\ life' = life + 1
        /\ view' = [view EXCEPT ![target] = life + 1]
        /\ pc' = "isMaster" /\ i' = 1 /\ live' = NoLive /\ after' = "status" /\ result' = result
    BY <1>3 DEF Start, CallIsMaster, InitLiveNodes
  <2>2. EnvTypes'
    <3>1. life' \in Nat \ {0} /\ view' \in [Nodes -> 0 .. life']
      <4>1. life \in Nat \ {0} /\ view \in [Nodes -> 0 .. life]
        BY DEF Inv, EnvTypes
      <4>2. life + 1 \in Nat \ {0} /\ life + 1 \in 0 .. life + 1
        BY <4>1
      <4>3. \A n \in Nodes : view[n] \in 0 .. life + 1
        BY <4>1
      <4> QED
        BY <1>2, <2>1, <4>1, <4>2, <4>3
    <3>2. up' \in [Nodes -> BOOLEAN] /\ \A n \in Nodes : up[n] => up'[n]
      BY <1>2, <2>1 DEF Inv, EnvTypes
    <3> QED
      BY <1>1, <3>1, <3>2 DEF Inv, EnvTypes
  <2>3. ShellTypes'
    <3>1. 0 \in 0 .. Tries + 1
      BY SizesAssumption
    <3> QED
      BY <1>1, <1>2, <2>1, <3>1, NoLiveIs DEF Inv, ShellTypes
  <2>4. PastTypes'
    BY <1>1 DEF Inv, PastTypes
  <2>5. Calling'
    <3>1. 0 <= Tries
      BY SizesAssumption
    <3> QED
      BY <1>1, <1>2, <2>1, <3>1 DEF Inv, Calling
  <2>6. Questions' /\ Passes' /\ Secondaries' /\ Steady'
    BY <1>1, <1>2, <2>1 DEF Inv, Questions, Passes, Secondaries, Steady
  <2>7. OplogsMatch'
    BY <1>1 DEF Inv, OplogsMatch
  <2>8. LiveFound'
    BY <1>1, <1>2, <2>1, NoLiveIs DEF LiveFound
  <2>9. Restarts'
    <3>1. witness[1] # None => view'[witness[1]] \in {0, life'}
      BY <1>2, <2>1 DEF Inv, EnvTypes
    <3> QED
      BY <1>1, <1>2, <2>1, <3>1 DEF Restarts
  <2>10. ReturnMeansReplicated' /\ SecondariesReady'
    BY <1>2, <2>1 DEF ReturnMeansReplicated, SecondariesReady
  <2> QED
    BY <2>2, <2>3, <2>4, <2>5, <2>6, <2>7, <2>8, <2>9, <2>10 DEF Inv
<1>4. CASE ~started
  <2>1. /\ pc' = "idle" /\ result' = "failed" /\ UNCHANGED <<i, live, after, up, life, view>>
    BY <1>4 DEF Start, End
  <2>2. Quiet
    BY <1>1, <2>1 DEF Quiet
  <2>3. Restarts'
    BY <1>1, <1>2, <2>1 DEF Restarts
  <2>4. /\ latest' \in 0 .. MaxOpTime /\ caught' \in BOOLEAN /\ ready' \in BOOLEAN
        /\ tries' \in 0 .. Tries + 1 /\ outer' \in 0 .. Tries + 1 /\ PastTypes'
    <3>1. 0 \in 0 .. Tries + 1
      BY SizesAssumption
    <3> QED
      BY <1>1, <3>1 DEF Inv, ShellTypes, PastTypes
  <2>5. ReturnMeansReplicated' /\ SecondariesReady'
    BY <2>1 DEF ReturnMeansReplicated, SecondariesReady
  <2> QED
    BY <1>1, <2>1, <2>2, <2>3, <2>4, <2>5, EndKeeps
<1> QED
  BY <1>3, <1>4

LEMMA NoMasterKeeps ==
  ASSUME Inv, NoMaster
  PROVE  Inv'
<1>1. /\ pc = "isMaster" /\ after # "status" /\ tries' = tries + 1
      /\ UNCHANGED <<latest, outer, caught, ready, goal, witness>> /\ Quiet
  BY DEF NoMaster, IsMasterDone, Quiet, envVars, pastVars
<1>2. tries <= Tries /\ outer <= Tries /\ tries \in Nat /\ outer \in Nat /\ Tries \in Nat
  BY <1>1, QuietKeeps
<1>3. CASE tries' > Tries
  <2>1. pc' = "idle" /\ result' = "threw" /\ UNCHANGED <<i, live, after>>
    BY <1>3 DEF NoMaster, End
  <2>2. tries' \in 0 .. Tries + 1 /\ outer' \in 0 .. Tries + 1
    BY <1>1, <1>2
  <2>3. latest' \in 0 .. MaxOpTime /\ caught' \in BOOLEAN
    BY <1>1 DEF Inv, ShellTypes
  <2> QED
    BY <1>1, <2>1, <2>2, <2>3, ThrowKeeps
<1>4. CASE ~(tries' > Tries)
  <2>1. pc' = "isMaster" /\ i' = 1 /\ live' = NoLive /\ after' = after /\ result' = result
    BY <1>4 DEF NoMaster, CallIsMaster, InitLiveNodes
  <2>2. tries' \in Nat /\ tries' <= Tries /\ outer' \in Nat /\ outer' <= Tries
    BY <1>1, <1>2, <1>4
  <2>3. caught' \in BOOLEAN /\ ready' \in BOOLEAN
    BY <1>1 DEF Inv, ShellTypes
  <2>4. \/ after' = "oplog" /\ call = "awaitReplication"
        \/ after' \in {"soon", "secondary"} /\ call = "awaitSecondaryNodes"
        \/ after' = "hosts" /\ call = "awaitRSClientHosts"
        \/ after' = "status" /\ call = "restart"
    BY <1>1, <2>1 DEF Inv, Questions, ShellTypes
  <2> QED
    BY <1>1, <2>1, <2>2, <2>3, <2>4, AnewKeeps
<1> QED
  BY <1>3, <1>4

LEMMA NoOpTimeKeeps ==
  ASSUME Inv, NoOpTime
  PROVE  Inv'
<1>1. /\ pc = "oplog" /\ tries' = tries + 1
      /\ UNCHANGED <<latest, outer, caught, ready, goal, witness>> /\ Quiet
  BY DEF NoOpTime, Quiet, envVars, pastVars
<1>2. tries <= Tries /\ outer <= Tries /\ tries \in Nat /\ outer \in Nat /\ Tries \in Nat
  BY <1>1, QuietKeeps
<1>3. tries' \in 0 .. Tries + 1 /\ outer' \in 0 .. Tries + 1
  BY <1>1, <1>2
<1>4. CASE tries' > Tries
  <2>1. pc' = "idle" /\ result' = "threw" /\ UNCHANGED <<i, live, after>>
    BY <1>4 DEF NoOpTime, End
  <2>2. latest' \in 0 .. MaxOpTime /\ caught' \in BOOLEAN
    BY <1>1 DEF Inv, ShellTypes
  <2> QED
    BY <1>1, <1>3, <2>1, <2>2, ThrowKeeps
<1>5. CASE ~(tries' > Tries)
  <2>1. UNCHANGED <<pc, i, live, after, result>>
    BY <1>5 DEF NoOpTime
  <2>2. tries' <= Tries /\ outer' <= Tries
    BY <1>1, <1>2, <1>5
  <2>3. ShellTypes'
    BY <1>1, <1>3, <2>1 DEF Inv, ShellTypes, Quiet
  <2>4. Questions' /\ Passes' /\ Secondaries'
    BY <1>1, <2>1 DEF Inv, Questions, Passes, Secondaries, Quiet
  <2>5. live.master # None
    BY <1>1 DEF Inv, LiveFound
  <2>6. pc' \notin {"idle", "start", "isMaster"} /\ pc # "start" /\ pc # "isMaster"
    BY <1>1, <2>1
  <2> QED
    BY <1>1, <2>1, <2>2, <2>3, <2>4, <2>5, <2>6, GoesOn
<1> QED
  BY <1>4, <1>5

(* A pass over the slaves begins.                                          *)
LEMMA PassBegins ==
  ASSUME Inv, Quiet, pc \in {"oplog", "state", "hasNext", "next", "count", "reset"},
         pc' = "state", i' = 1, UNCHANGED <<live, after, ready, goal, result, witness, tries>>,
         outer' \in Nat, outer' <= Tries, latest' \in 0 .. MaxOpTime, caught' \in BOOLEAN,
         steady => \E j \in DOMAIN oplog[live.master] :
                     j >= Len(owed) /\ oplog[live.master][j] = latest'
  PROVE  Inv'
<1>1. UNCHANGED <<up, masters, oplog, life, view, opTime, elections, faults, known,
                  owed, stayed, steady, call, target>>
  BY DEF Quiet
<1>2. tries <= Tries /\ Tries \in Nat
  BY QuietKeeps
<1>3. live.master # None /\ call = "awaitReplication"
  BY DEF Inv, LiveFound, Questions
<1>4. ShellTypes'
  <2>1. outer' \in 0 .. Tries + 1 /\ 1 \in Nat \ {0}
    BY <1>2
  <2> QED
    BY <1>1, <2>1 DEF Inv, ShellTypes
<1>5. Questions'
  BY <1>1, <1>3 DEF Inv, Questions
<1>6. Passes'
  BY <1>1 DEF Passes
<1>7. Secondaries'
  BY <1>1, <1>3 DEF Inv, Secondaries
<1>8. /\ pc' \notin {"idle", "start", "isMaster"} /\ pc # "start" /\ pc # "isMaster"
      /\ tries' <= Tries
  BY <1>2
<1> QED
  BY <1>3, <1>4, <1>5, <1>6, <1>7, <1>8, GoesOn

LEMMA TryAgainKeeps ==
  ASSUME Inv, Quiet, pc \in {"oplog", "state", "hasNext", "next", "count", "reset"},
         TryAgain, UNCHANGED <<live, after, ready, goal, witness, tries>>,
         latest' \in 0 .. MaxOpTime, caught' \in BOOLEAN,
         steady => \E j \in DOMAIN oplog[live.master] :
                     j >= Len(owed) /\ oplog[live.master][j] = latest'
  PROVE  Inv'
<1>1. outer <= Tries /\ outer \in Nat /\ Tries \in Nat
  BY QuietKeeps
<1>2. outer' = outer + 1 /\ outer' \in 0 .. Tries + 1 /\ tries' \in 0 .. Tries + 1
  BY <1>1 DEF TryAgain, Inv, ShellTypes
<1>3. CASE outer' > Tries
  <2>1. pc' = "idle" /\ result' \in {"threw", "failed"} /\ UNCHANGED i
    BY <1>3 DEF TryAgain
  <2> QED
    BY <1>2, <2>1, ThrowKeeps
<1>4. CASE ~(outer' > Tries)
  <2>1. pc' = "state" /\ i' = 1 /\ result' = result
    BY <1>4 DEF TryAgain, NextTry
  <2>2. outer' \in Nat /\ outer' <= Tries
    BY <1>1, <1>2, <1>4
  <2> QED
    BY <2>1, <2>2, PassBegins
<1> QED
  BY <1>3, <1>4

(* What the master has last is no older than what is owed.                 *)
LEMMA MasterHas ==
  ASSUME Inv, pc \in {"oplog", "state", "hasNext", "next", "count", "reset"}
  PROVE  /\ live.master \in Nodes /\ oplog[live.master] # << >>
         /\ Last(oplog[live.master]) \in 0 .. MaxOpTime
         /\ steady => \E j \in DOMAIN oplog[live.master] :
                        j >= Len(owed) /\ oplog[live.master][j] = Last(oplog[live.master])
<1>1. /\ live.master \in Nodes /\ oplog[live.master] # << >> /\ call = "awaitReplication"
      /\ steady => live.master \in masters
  BY DEF Inv, LiveFound, Questions, ShellTypes
<1> DEFINE o == oplog[live.master]
           k == Len(o)
<1>2. o \in Seq(1 .. MaxOpTime) /\ o # << >> /\ owed \in Seq(1 .. MaxOpTime)
  BY <1>1 DEF Inv, EnvTypes, PastTypes
<1>3. k \in DOMAIN o /\ Last(o) = o[k]
  <2> HIDE DEF o
  <2> QED
    BY <1>2, EmptySeq DEF Last
<1>4. o[k] \in 1 .. MaxOpTime /\ MaxOpTime \in Nat
  <2> HIDE DEF o, k
  <2> QED
    BY <1>2, <1>3, SizesAssumption
<1>5. ASSUME steady PROVE k >= Len(owed)
  <2>1. IsPrefix(owed, o)
    BY <1>1, <1>5 DEF Inv, Steady, Has
  <2>2. Len(owed) <= k
    <3> HIDE DEF o
    <3> QED
      BY <1>2, <2>1, PrefixIs DEF k
  <2>3. k \in Nat /\ Len(owed) \in Nat
    <3> HIDE DEF o
    <3> QED
      BY <1>2 DEF k
  <2> HIDE DEF k
  <2> QED
    BY <2>2, <2>3
<1>6. Last(o) \in 0 .. MaxOpTime
  <2> HIDE DEF o, k
  <2> QED
    BY <1>3, <1>4
<1> QED
  BY <1>1, <1>3, <1>5, <1>6

LEMMA LastOpTimeKeeps ==
  ASSUME Inv, LastOpTime
  PROVE  Inv'
<1>1. /\ pc = "oplog" /\ latest' = Last(oplog[live.master]) /\ caught' = FALSE
      /\ UNCHANGED <<live, after, tries, ready, goal, witness>> /\ Quiet
  BY DEF LastOpTime, Quiet, envVars, pastVars
<1>2. /\ latest' \in 0 .. MaxOpTime /\ caught' \in BOOLEAN
      /\ steady => \E j \in DOMAIN oplog[live.master] :
                     j >= Len(owed) /\ oplog[live.master][j] = latest'
  BY <1>1, MasterHas
<1>3. pc \in {"oplog", "state", "hasNext", "next", "count", "reset"}
  BY <1>1
<1>4. CASE caught
  <2>1. TryAgain
    BY <1>4 DEF LastOpTime
  <2> QED
    BY <1>1, <1>2, <1>3, <2>1, TryAgainKeeps
<1>5. CASE ~caught
  <2>1. pc' = "state" /\ i' = 1 /\ UNCHANGED <<outer, result>>
    BY <1>5 DEF LastOpTime, NextTry
  <2>2. outer' \in Nat /\ outer' <= Tries
    BY <1>1, <2>1, QuietKeeps
  <2> QED
    BY <1>1, <1>2, <1>3, <2>1, <2>2, PassBegins
<1> QED
  BY <1>4, <1>5

LEMMA ResetLatestKeeps ==
  ASSUME Inv, ResetLatest
  PROVE  Inv'
<1>1. /\ pc = "reset" /\ latest' = Last(oplog[live.master]) /\ TryAgain
      /\ UNCHANGED <<live, after, tries, ready, goal, witness, caught>> /\ Quiet
  BY DEF ResetLatest, WaitUnchanged, Quiet, envVars, pastVars
<1>2. /\ latest' \in 0 .. MaxOpTime /\ caught' \in BOOLEAN
      /\ steady => \E j \in DOMAIN oplog[live.master] :
                     j >= Len(owed) /\ oplog[live.master][j] = latest'
  BY <1>1, MasterHas DEF Inv, ShellTypes
<1>3. pc \in {"oplog", "state", "hasNext", "next", "count", "reset"}
  BY <1>1
<1> QED
  BY <1>1, <1>2, <1>3, TryAgainKeeps

(* A pass that finds a slave without what is compared with.                *)
LEMMA BehindKeeps ==
  ASSUME Inv, Quiet, pc \in {"hasNext", "next", "count"}, TryAgain,
         UNCHANGED <<live, after, ready, goal, witness, latest, tries, caught>>
  PROVE  Inv'
<1>1. /\ latest' \in 0 .. MaxOpTime /\ caught' \in BOOLEAN
      /\ steady => \E j \in DOMAIN oplog[live.master] :
                     j >= Len(owed) /\ oplog[live.master][j] = latest'
  BY DEF Inv, ShellTypes, Passes
<1>2. pc \in {"oplog", "state", "hasNext", "next", "count", "reset"}
  OBVIOUS
<1> QED
  BY <1>1, <1>2, TryAgainKeeps

LEMMA CountKeeps ==
  ASSUME Inv, Count
  PROVE  Inv'
<1>1. /\ pc = "count" /\ TryAgain
      /\ UNCHANGED <<live, after, ready, goal, witness, latest, tries, caught>> /\ Quiet
  BY DEF Count, Checking, WaitUnchanged, Quiet, envVars, pastVars
<1> QED
  BY <1>1, BehindKeeps

(* An entry in common, no older than what is owed.                         *)
LEMMA CommonEntry ==
  ASSUME NEW S, NEW o \in Seq(S), NEW a \in Seq(S), NEW b \in Seq(S),
         Matching(a, b), IsPrefix(o, a), NEW j \in DOMAIN a, NEW k \in DOMAIN b,
         a[j] = b[k], j >= Len(o)
  PROVE  IsPrefix(o, b)
<1>1. j = k /\ \A l \in 1 .. j : a[l] = b[l]
  BY DEF Matching
<1>2. \A l \in 1 .. Len(o) : o[l] = a[l]
  BY PrefixIs
<1>3. Len(o) \in Nat /\ j \in Nat /\ k <= Len(b) /\ Len(b) \in Nat
  OBVIOUS
<1>4. Len(o) <= Len(b) /\ \A l \in 1 .. Len(o) : o[l] = b[l]
  BY <1>1, <1>2, <1>3
<1> QED
  BY <1>4, PrefixIs

(* The slave that is asked is one of the nodes.                            *)
LEMMA SlaveIs ==
  ASSUME Inv, i <= Len(live.slaves)
  PROVE  /\ i \in Nat \ {0} /\ i \in DOMAIN live.slaves /\ Slave \in Nodes
         /\ oplog[Slave] \in Seq(1 .. MaxOpTime) /\ 1 .. (i + 1) - 1 = 1 .. i
         /\ \A k \in 1 .. i : k \in 1 .. i - 1 \/ k = i
<1>1. i \in Nat \ {0} /\ live.slaves \in Seq(Nodes)
  BY DEF Inv, ShellTypes
<1>2. i \in DOMAIN live.slaves /\ Slave \in Nodes
  BY <1>1 DEF Slave
<1>3. oplog[Slave] \in Seq(1 .. MaxOpTime)
  BY <1>2 DEF Inv, EnvTypes
<1>4. (i + 1) - 1 = i /\ \A k \in 1 .. i : k \in 1 .. i - 1 \/ k = i
  BY <1>1
<1> QED
  BY <1>1, <1>2, <1>3, <1>4

(* A pass goes on.                                                         *)
LEMMA PassGoesOn ==
  ASSUME Inv, Quiet, pc \in {"state", "hasNext", "next"},
         pc' \in {"state", "hasNext", "next", "count", "reset"}, i' \in Nat \ {0},
         UNCHANGED <<live, after, ready, goal, result, witness, latest, tries, outer, caught>>,
         Passes'
  PROVE  Inv'
<1>1. call = "awaitReplication" /\ live.master # None
  BY DEF Inv, Questions, LiveFound
<1>2. ShellTypes'
  BY DEF Inv, ShellTypes, Quiet
<1>3. Questions'
  BY <1>1 DEF Inv, Questions, Quiet
<1>4. Secondaries'
  BY <1>1 DEF Inv, Secondaries, Quiet
<1>5. tries' <= Tries /\ outer' <= Tries
  BY QuietKeeps
<1>6. pc' \notin {"idle", "start", "isMaster"} /\ pc # "start" /\ pc # "isMaster"
  OBVIOUS
<1> QED
  BY <1>1, <1>2, <1>3, <1>4, <1>5, <1>6, GoesOn

LEMMA AskStateKeeps ==
  ASSUME Inv, AskState
  PROVE  Inv'
<1>1. /\ pc = "state" /\ i <= Len(live.slaves)
      /\ UNCHANGED <<live, after, ready, goal, result, witness, latest, tries, outer, caught>>
      /\ Quiet
  BY DEF AskState, Checking, WaitUnchanged, Quiet, envVars, pastVars
<1>2. /\ i \in Nat \ {0} /\ i \in DOMAIN live.slaves /\ 1 .. (i + 1) - 1 = 1 .. i
      /\ \A k \in 1 .. i : k \in 1 .. i - 1 \/ k = i
  BY <1>1, SlaveIs
<1>3. CASE Slave \in Arbiters
  <2>1. pc' = "state" /\ i' = i + 1 /\ i' \in Nat \ {0}
    BY <1>1, <1>2, <1>3 DEF AskState
  <2>2. live.slaves[i] \in Arbiters
    BY <1>3 DEF Slave
  <2>3. Passes'
    BY <1>1, <1>2, <2>1, <2>2 DEF Inv, Passes, Quiet, Has
  <2> QED
    BY <1>1, <2>1, <2>3, PassGoesOn
<1>4. CASE Slave \notin Arbiters
  <2>1. pc' = "hasNext" /\ i' = i
    BY <1>4 DEF AskState
  <2>2. Passes'
    BY <1>1, <2>1 DEF Inv, Passes, Quiet, Has
  <2> QED
    BY <1>1, <1>2, <2>1, <2>2, PassGoesOn
<1> QED
  BY <1>3, <1>4

LEMMA HasNextKeeps ==
  ASSUME Inv, HasNext
  PROVE  Inv'
<1>1. /\ pc = "hasNext" /\ i <= Len(live.slaves)
      /\ UNCHANGED <<live, after, ready, goal, witness, latest, tries, caught>>
      /\ Quiet
  BY DEF HasNext, Checking, WaitUnchanged, Quiet, envVars, pastVars
<1>2. i \in Nat \ {0} /\ i \in DOMAIN live.slaves
  BY <1>1, SlaveIs
<1>3. CASE oplog[Slave] # << >>
  <2>1. pc' = "next" /\ UNCHANGED <<i, outer, result>>
    BY <1>3 DEF HasNext
  <2>2. oplog[live.slaves[i]] # << >>
    BY <1>3 DEF Slave
  <2>3. Passes'
    BY <1>1, <1>2, <2>1, <2>2 DEF Inv, Passes, Quiet, Has
  <2> QED
    BY <1>1, <1>2, <2>1, <2>3, PassGoesOn
<1>4. CASE ~(oplog[Slave] # << >>)
  <2>1. TryAgain
    BY <1>4 DEF HasNext
  <2> QED
    BY <1>1, <2>1, BehindKeeps
<1> QED
  BY <1>3, <1>4

LEMMA NextEntryKeeps ==
  ASSUME Inv, NextEntry
  PROVE  Inv'
<1>1. /\ pc = "next" /\ i <= Len(live.slaves)
      /\ UNCHANGED <<live, after, ready, goal, witness, latest, tries, outer, caught, result>>
      /\ Quiet
  BY DEF NextEntry, Checking, WaitUnchanged, Quiet, envVars, pastVars
<1>2. /\ i \in Nat \ {0} /\ i \in DOMAIN live.slaves /\ 1 .. (i + 1) - 1 = 1 .. i
      /\ \A k \in 1 .. i : k \in 1 .. i - 1 \/ k = i
      /\ Slave \in Nodes /\ oplog[Slave] \in Seq(1 .. MaxOpTime)
  BY <1>1, SlaveIs
<1>3. CASE Last(oplog[Slave]) = latest
  <2>1. pc' = "state" /\ i' = i + 1 /\ i' \in Nat \ {0}
    BY <1>2, <1>3 DEF NextEntry, Synced
  <2>2. oplog[Slave] # << >>
    BY <1>1 DEF Inv, Passes, Slave
  <2>3. ASSUME steady PROVE Has(Slave)
    <3>1. PICK j \in DOMAIN oplog[live.master] :
                 j >= Len(owed) /\ oplog[live.master][j] = latest
      BY <1>1, <2>3 DEF Inv, Passes
    <3>2. live.master \in Nodes /\ live.master \in masters /\ call = "awaitReplication"
      BY <1>1, <2>3 DEF Inv, LiveFound, Questions, ShellTypes
    <3>3. Has(live.master)
      BY <2>3, <3>2 DEF Inv, Steady
    <3>4. /\ oplog[live.master] \in Seq(1 .. MaxOpTime) /\ owed \in Seq(1 .. MaxOpTime)
          /\ Matching(oplog[live.master], oplog[Slave])
      BY <1>2, <3>2 DEF Inv, EnvTypes, PastTypes, OplogsMatch
    <3>5. \E k \in DOMAIN oplog[Slave] : oplog[Slave][k] = latest
      <4> DEFINE o == oplog[Slave]
      <4>1. o # << >> /\ o \in Seq(1 .. MaxOpTime) /\ Last(o) = latest
        BY <1>2, <1>3, <2>2
      <4> HIDE DEF o
      <4>2. Len(o) \in DOMAIN o /\ Last(o) = o[Len(o)]
        BY <4>1, EmptySeq DEF Last
      <4>3. \E k \in DOMAIN o : o[k] = latest
        BY <4>1, <4>2
      <4> QED
        BY <4>3 DEF o
    <3>6. PICK k \in DOMAIN oplog[Slave] : oplog[Slave][k] = latest
      BY <3>5
    <3>7. IsPrefix(owed, oplog[Slave])
      BY <1>2, <3>1, <3>3, <3>4, <3>6, CommonEntry DEF Has
    <3> QED
      BY <3>7 DEF Has
  <2>4. steady => Has(live.slaves[i])
    BY <2>3 DEF Slave
  <2>5. Passes'
    BY <1>1, <1>2, <2>1, <2>4 DEF Inv, Passes, Quiet, Has
  <2> QED
    BY <1>1, <2>1, <2>5, PassGoesOn
<1>4. CASE Last(oplog[Slave]) # latest
  <2>1. pc' \in {"reset", "count"} /\ i' = i
    BY <1>4 DEF NextEntry, Synced
  <2>2. Passes'
    BY <1>1, <2>1 DEF Inv, Passes, Quiet, Has
  <2> QED
    BY <1>1, <1>2, <2>1, <2>2, PassGoesOn
<1> QED
  BY <1>3, <1>4

LEMMA CaughtKeeps ==
  ASSUME Inv, Caught
  PROVE  Inv'
<1>1. /\ pc' = "isMaster" /\ i' = 1 /\ live' = NoLive /\ after' = "oplog"
      /\ caught' = TRUE /\ tries' = 0
      /\ UNCHANGED <<latest, outer, ready, goal, result, witness>> /\ Quiet
      /\ pc \in {"state", "hasNext", "next", "count", "reset"}
  BY DEF Caught, CallIsMaster, InitLiveNodes, Quiet, envVars, pastVars
<1>2. call = "awaitReplication"
  BY <1>1 DEF Inv, Questions
<1>3. /\ tries' \in Nat /\ tries' <= Tries /\ outer' \in Nat /\ outer' <= Tries
      /\ caught' \in BOOLEAN /\ ready' \in BOOLEAN
  BY <1>1, QuietKeeps DEF Inv, ShellTypes
<1> QED
  BY <1>1, <1>2, <1>3, AnewKeeps

(* Every node that stayed is the master or a slave, and all have been passed. *)
LEMMA AllSyncedKeeps ==
  ASSUME Inv, AllSynced
  PROVE  Inv'
<1>1. /\ pc = "state" /\ i > Len(live.slaves) /\ pc' = "idle" /\ result' = "returned"
      /\ UNCHANGED <<i, live, after, latest, tries, outer, caught, ready, goal, witness>>
      /\ Quiet
  BY DEF AllSynced, End, Quiet, envVars, pastVars
<1>2. call = "awaitReplication" /\ live.slaves \in Seq(Nodes) /\ i \in Nat
  BY <1>1 DEF Inv, Questions, ShellTypes
<1>3. ASSUME steady, NEW n \in stayed \ Arbiters
      PROVE  Has(n)
  <2>1. n = live.master \/ n \in ToSet(live.slaves)
    BY <1>1, <1>2, <1>3 DEF Inv, LiveFound
  <2>2. CASE n = live.master
    <3>1. live.master \in masters
      BY <1>1, <1>2, <1>3 DEF Inv, LiveFound
    <3> QED
      BY <1>2, <1>3, <2>2, <3>1 DEF Inv, Steady
  <2>3. CASE n \in ToSet(live.slaves)
    <3>1. PICK k \in DOMAIN live.slaves : live.slaves[k] = n
      BY <2>3 DEF ToSet
    <3>2. k \in 1 .. i - 1
      BY <1>1, <1>2
    <3> QED
      BY <1>1, <1>3, <3>1, <3>2 DEF Inv, Passes
  <2> QED
    BY <2>1, <2>2, <2>3
<1>4. ReturnMeansReplicated'
  BY <1>1, <1>3 DEF ReturnMeansReplicated, Quiet, Has
<1>5. SecondariesReady' /\ Restarts'
  BY <1>1, <1>2 DEF SecondariesReady, Restarts, Quiet
<1>6. /\ latest' \in 0 .. MaxOpTime /\ caught' \in BOOLEAN /\ ready' \in BOOLEAN
      /\ goal' \in {"none", "DOWN", "UP"}
      /\ tries' \in 0 .. Tries + 1 /\ outer' \in 0 .. Tries + 1 /\ PastTypes'
  BY <1>1 DEF Inv, ShellTypes, PastTypes, Quiet
<1> QED
  BY <1>1, <1>4, <1>5, <1>6, EndKeeps

(* One more node is asked whether it is the master.                        *)
LEMMA FoundTypes ==
  ASSUME Inv, pc = "isMaster", i <= NumNodes,
         NEW l, l = IF ~up[i] THEN live
                    ELSE IF i \in masters THEN [live EXCEPT !.master = i]
                    ELSE [live EXCEPT !.slaves = Append(live.slaves, i)]
  PROVE  /\ l \in [master : Nodes \union {None}, slaves : Seq(Nodes)]
         /\ IsInjective(l.slaves) /\ l.master \notin ToSet(l.slaves)
         /\ \A k \in DOMAIN l.slaves : l.slaves[k] < i + 1
         /\ l.master # None => l.master < i + 1
         /\ ToSet(live.slaves) \subseteq ToSet(l.slaves)
         /\ up[i] => \/ i \in masters /\ l.master = i
                     \/ i \notin masters /\ l.master = live.master /\ i \in ToSet(l.slaves)
         /\ ~up[i] => l.master = live.master
<1>1. /\ i \in Nodes /\ live \in [master : Nodes \union {None}, slaves : Seq(Nodes)]
      /\ IsInjective(live.slaves) /\ live.master \notin ToSet(live.slaves)
      /\ \A k \in DOMAIN live.slaves : live.slaves[k] < i
      /\ live.master # None => live.master < i
  BY SizesAssumption DEF Inv, ShellTypes, LiveFound, Nodes
<1>2. /\ live.slaves \in Seq(Nodes) /\ live.master \in Nodes \union {None}
      /\ i \in Nat /\ \A n \in Nodes : n \in Nat
      /\ \A k \in DOMAIN live.slaves : live.slaves[k] \in Nodes
  <2>1. live.slaves \in Seq(Nodes) /\ live.master \in Nodes \union {None}
    BY <1>1
  <2>2. \A k \in DOMAIN live.slaves : live.slaves[k] \in Nodes
    BY <2>1
  <2>3. i \in Nat /\ \A n \in Nodes : n \in Nat
    BY <1>1, SizesAssumption DEF Nodes
  <2> QED
    BY <2>1, <2>2, <2>3
<1>3. /\ \A k \in DOMAIN live.slaves : live.slaves[k] < i + 1
      /\ live.master # None => live.master < i + 1
  BY <1>1, <1>2
<1>4. CASE ~up[i]
  <2>1. l = live
    BY <1>4
  <2> QED
    BY <1>1, <1>3, <1>4, <2>1
<1>5. CASE up[i] /\ i \in masters
  <2>1. l = [live EXCEPT !.master = i]
    BY <1>5
  <2>2. l.master = i /\ l.slaves = live.slaves
    BY <1>1, <2>1
  <2>3. l \in [master : Nodes \union {None}, slaves : Seq(Nodes)]
    BY <1>1, <2>1
  <2>4. i \notin ToSet(live.slaves) /\ i < i + 1
    BY <1>1, <1>2 DEF ToSet
  <2> QED
    BY <1>1, <1>3, <1>5, <2>2, <2>3, <2>4
<1>6. CASE up[i] /\ i \notin masters
  <2> DEFINE s == Append(live.slaves, i)
  <2>1. l = [live EXCEPT !.slaves = s]
    BY <1>6
  <2>2. /\ s \in Seq(Nodes) /\ Len(s) = Len(live.slaves) + 1
        /\ s[Len(live.slaves) + 1] = i
        /\ \A k \in 1 .. Len(live.slaves) : s[k] = live.slaves[k]
    BY <1>1, <1>2, AppendProperties
  <2> HIDE DEF s
  <2>3. l.master = live.master /\ l.slaves = s
    BY <1>1, <2>1
  <2>4. l \in [master : Nodes \union {None}, slaves : Seq(Nodes)]
    BY <1>1, <2>1, <2>2
  <2>5. /\ DOMAIN s = 1 .. Len(live.slaves) + 1 /\ DOMAIN live.slaves = 1 .. Len(live.slaves)
        /\ Len(live.slaves) \in Nat
    BY <1>2, <2>2
  <2>6. \A k \in DOMAIN s : s[k] < i + 1
    <3>1. \A k \in DOMAIN live.slaves : s[k] < i + 1
      BY <1>3, <2>2, <2>5
    <3>2. s[Len(live.slaves) + 1] < i + 1
      BY <1>2, <2>2
    <3> QED
      BY <2>5, <3>1, <3>2
  <2>7. IsInjective(s)
    <3>1. ASSUME NEW a \in DOMAIN s, NEW b \in DOMAIN s, s[a] = s[b] PROVE a = b
      <4>1. \A k \in DOMAIN s : k \in DOMAIN live.slaves \/ k = Len(live.slaves) + 1
        BY <2>5
      <4>2. \A k \in DOMAIN live.slaves : s[k] = live.slaves[k] /\ s[k] < i /\ s[k] \in Nat
        BY <1>1, <1>2, <2>2, <2>5
      <4>3. \A a2, b2 \in DOMAIN live.slaves : live.slaves[a2] = live.slaves[b2] => a2 = b2
        BY <1>1 DEF IsInjective
      <4>4. s[Len(live.slaves) + 1] = i /\ i \in Nat
        BY <1>2, <2>2
      <4>5. CASE a \in DOMAIN live.slaves /\ b \in DOMAIN live.slaves
        BY <3>1, <4>2, <4>3, <4>5
      <4>6. CASE a = Len(live.slaves) + 1 /\ b = Len(live.slaves) + 1
        BY <4>6
      <4>7. CASE a \in DOMAIN live.slaves /\ b = Len(live.slaves) + 1
        BY <3>1, <4>2, <4>4, <4>7
      <4>8. CASE a = Len(live.slaves) + 1 /\ b \in DOMAIN live.slaves
        BY <3>1, <4>2, <4>4, <4>8
      <4> QED
        BY <4>1, <4>5, <4>6, <4>7, <4>8
    <3> QED
      BY <3>1 DEF IsInjective
  <2>8. ToSet(live.slaves) \subseteq ToSet(s) /\ i \in ToSet(s)
    BY <2>2, <2>5 DEF ToSet
  <2>9. live.master \notin ToSet(s)
    <3>1. \A k \in DOMAIN s : s[k] # live.master
      <4>1. \A k \in DOMAIN live.slaves : s[k] = live.slaves[k] /\ s[k] # live.master
        BY <1>1, <2>2, <2>5 DEF ToSet
      <4>2. i # live.master
        BY <1>1, <1>2, NodesAssumption
      <4> QED
        BY <2>2, <2>5, <4>1, <4>2
    <3> QED
      BY <3>1 DEF ToSet
  <2> QED
    BY <1>3, <1>6, <2>3, <2>4, <2>6, <2>7, <2>8, <2>9
<1> QED
  BY <1>4, <1>5, <1>6

LEMMA AskIsMasterKeeps ==
  ASSUME Inv, AskIsMaster
  PROVE  Inv'
<1>1. /\ pc = "isMaster" /\ i <= NumNodes /\ i' = i + 1
      /\ live' = IF ~up[i] THEN live
                 ELSE IF i \in masters THEN [live EXCEPT !.master = i]
                 ELSE [live EXCEPT !.slaves = Append(live.slaves, i)]
      /\ UNCHANGED <<pc, latest, after, tries, outer, caught, ready, goal, result, witness>>
      /\ Quiet
  BY DEF AskIsMaster, Quiet, envVars, pastVars
<1>2. UNCHANGED <<up, masters, oplog, life, view, opTime, elections, faults, known,
                  owed, stayed, steady, call, target>>
  BY <1>1 DEF Quiet
<1> DEFINE l == live'
<1>3. /\ l \in [master : Nodes \union {None}, slaves : Seq(Nodes)]
      /\ IsInjective(l.slaves) /\ l.master \notin ToSet(l.slaves)
      /\ \A k \in DOMAIN l.slaves : l.slaves[k] < i + 1
      /\ l.master # None => l.master < i + 1
      /\ ToSet(live.slaves) \subseteq ToSet(l.slaves)
      /\ up[i] => \/ i \in masters /\ l.master = i
                  \/ i \notin masters /\ l.master = live.master /\ i \in ToSet(l.slaves)
      /\ ~up[i] => l.master = live.master
  BY <1>1, FoundTypes
<1> HIDE DEF l
<1>4. /\ EnvTypes' /\ OplogsMatch' /\ Steady' /\ call # "none" /\ result = "none"
  BY <1>1, QuietKeeps
<1>5. i \in Nodes /\ i \in Nat \ {0} /\ \A n \in Nodes : n \in Nat
  BY <1>1, SizesAssumption DEF Inv, ShellTypes, Nodes
<1>6. ShellTypes'
  <2>1. /\ live' \in [master : Nodes \union {None}, slaves : Seq(Nodes)]
        /\ IsInjective(live'.slaves) /\ live'.master \notin ToSet(live'.slaves)
    BY <1>3 DEF l
  <2>2. i' \in Nat \ {0}
    BY <1>1, <1>5
  <2> QED
    BY <1>1, <1>2, <2>1, <2>2 DEF Inv, ShellTypes
<1>7. PastTypes'
  BY <1>1, <1>2 DEF Inv, PastTypes
<1>8. Calling'
  BY <1>1, <1>2, <1>4 DEF Inv, Calling
<1>9. Questions'
  BY <1>1, <1>2 DEF Inv, Questions
<1>10. LiveFound'
  <2>1. ASSUME l.master # None
        PROVE  oplog[l.master] # << >> /\ (steady /\ call # "restart" => l.master \in masters)
    <3>1. CASE l.master = live.master
      BY <2>1, <3>1 DEF Inv, LiveFound
    <3>2. CASE l.master # live.master
      <4>1. i \in masters /\ l.master = i
        BY <1>3, <3>2
      <4> QED
        BY <4>1 DEF Inv, OplogsMatch
    <3> QED
      BY <3>1, <3>2
  <2>2. ASSUME steady, call # "restart", NEW n \in stayed, n < i + 1
        PROVE  n = l.master \/ n \in ToSet(l.slaves)
    <3>1. n \in Nodes /\ n \in Nat /\ up[n]
      BY <1>5, <2>2 DEF Inv, Steady, PastTypes
    <3>2. CASE n = i
      BY <1>3, <3>1, <3>2
    <3>3. CASE n # i
      <4>1. n < i
        BY <1>5, <2>2, <3>1, <3>3
      <4>2. n = live.master \/ n \in ToSet(live.slaves)
        BY <1>1, <2>2, <4>1 DEF Inv, LiveFound
      <4>3. CASE n = live.master
        <5>1. n # None
          BY <3>1, NodesAssumption
        <5>2. n \in masters
          BY <2>2, <4>3, <5>1 DEF Inv, LiveFound
        <5>3. i \notin masters
          BY <2>2, <3>3, <5>2 DEF Inv, Steady
        <5> QED
          BY <1>3, <4>3, <5>3
      <4>4. CASE n \in ToSet(live.slaves)
        BY <1>3, <4>4
      <4> QED
        BY <4>2, <4>3, <4>4
    <3> QED
      BY <3>2, <3>3
  <2> QED
    BY <1>1, <1>2, <1>3, <2>1, <2>2 DEF LiveFound, l
<1>11. Passes'
  BY <1>1 DEF Passes
<1>12. Secondaries'
  BY <1>1, <1>2 DEF Inv, Secondaries
<1>13. Restarts'
  BY <1>1, <1>2 DEF Inv, Restarts
<1>14. ReturnMeansReplicated' /\ SecondariesReady'
  BY <1>1, <1>4 DEF ReturnMeansReplicated, SecondariesReady
<1> QED
  BY <1>4, <1>6, <1>7, <1>8, <1>9, <1>10, <1>11, <1>12, <1>13, <1>14 DEF Inv

(* A set of more than one has a node that is not the one found.            *)
LEMMA SecondaryIs ==
  ASSUME Inv, call = "awaitRSClientHosts"
  PROVE  GetSecondary \in Nodes
<1> DEFINE T == {n \in Nodes : n # live.master}
<1>1. NumNodes \in Nat /\ NumNodes > 1
  BY SizesAssumption DEF Inv, Questions
<1>2. T \in SUBSET Nat /\ T # {}
  <2>1. 1 \in Nodes /\ 2 \in Nodes /\ Nodes \subseteq Nat
    BY <1>1 DEF Nodes
  <2>2. 1 \in T \/ 2 \in T
    BY <2>1
  <2> QED
    BY <2>1, <2>2
<1> HIDE DEF T
<1>3. \E x \in T : \A y \in T : x <= y
  BY <1>2, SmallestIs
<1>4. Min(T) \in T
  BY <1>3 DEF Min
<1> QED
  BY <1>4 DEF GetSecondary, T

LEMMA MasterFoundKeeps ==
  ASSUME Inv, MasterFound
  PROVE  Inv'
<1>1. /\ pc = "isMaster" /\ i > NumNodes /\ after # "status" /\ live.master # None
      /\ UNCHANGED <<latest, outer, caught, goal, result, witness>> /\ Quiet
  BY DEF MasterFound, IsMasterDone, Quiet, envVars, pastVars
<1>2. UNCHANGED <<up, masters, oplog, life, view, opTime, elections, faults, known,
                  owed, stayed, steady, call, target>>
  BY <1>1 DEF Quiet
<1>3. /\ tries <= Tries /\ outer <= Tries /\ tries \in Nat /\ outer \in Nat /\ Tries \in Nat
      /\ 0 \in 0 .. Tries + 1 /\ 0 <= Tries /\ outer' <= Tries
  BY <1>1, QuietKeeps
<1>4. after \in {"oplog", "soon", "secondary", "hosts"}
  BY <1>1 DEF Inv, Questions, ShellTypes
<1>5. CASE after = "oplog"
  <2>1. pc' = "oplog" /\ tries' = 0 /\ UNCHANGED <<i, live, after, ready>>
    BY <1>5 DEF MasterFound
  <2>2. call = "awaitReplication"
    BY <1>1, <1>5 DEF Inv, Questions
  <2>3. ShellTypes'
    BY <1>1, <1>2, <1>3, <2>1 DEF Inv, ShellTypes
  <2>4. Questions' /\ Passes' /\ Secondaries'
    BY <1>2, <2>1, <2>2 DEF Inv, Questions, Passes, Secondaries
  <2>5. pc' \notin {"idle", "start", "isMaster"} /\ pc # "start"
    BY <1>1, <2>1
  <2> QED
    BY <1>1, <1>3, <2>1, <2>3, <2>4, <2>5, GoesOn
<1>6. CASE after = "soon"
  <2>1. /\ pc' = "isMaster" /\ i' = 1 /\ live' = NoLive /\ after' = "secondary" /\ tries' = 0
        /\ ready' = ready
    BY <1>6 DEF MasterFound, CallIsMaster, InitLiveNodes
  <2>2. call = "awaitSecondaryNodes"
    BY <1>1, <1>6 DEF Inv, Questions
  <2>3. caught' \in BOOLEAN /\ ready' \in BOOLEAN
    BY <1>1, <2>1 DEF Inv, ShellTypes
  <2>4. tries' \in Nat /\ tries' <= Tries /\ outer' \in Nat /\ outer' <= Tries
    BY <1>1, <1>3, <2>1
  <2> QED
    BY <1>1, <2>1, <2>2, <2>3, <2>4, AnewKeeps
<1>7. CASE after = "secondary"
  <2>1. pc' = "secondary" /\ i' = 1 /\ ready' = TRUE /\ tries' = 0 /\ UNCHANGED <<live, after>>
    BY <1>7 DEF MasterFound
  <2>2. call = "awaitSecondaryNodes"
    BY <1>1, <1>7 DEF Inv, Questions
  <2>3. ShellTypes'
    BY <1>1, <1>2, <1>3, <2>1 DEF Inv, ShellTypes
  <2>4. Questions' /\ Passes' /\ Secondaries'
    BY <1>2, <2>1, <2>2 DEF Inv, Questions, Passes, Secondaries
  <2>5. pc' \notin {"idle", "start", "isMaster"} /\ pc # "start"
    BY <1>1, <2>1
  <2> QED
    BY <1>1, <1>3, <2>1, <2>3, <2>4, <2>5, GoesOn
<1>8. CASE after = "hosts"
  <2>1. pc' = "hosts" /\ i' = GetSecondary /\ UNCHANGED <<live, after, ready, tries>>
    BY <1>8 DEF MasterFound
  <2>2. call = "awaitRSClientHosts"
    BY <1>1, <1>8 DEF Inv, Questions
  <2>3. ShellTypes'
    <3>1. i' \in Nat \ {0}
      BY <2>1, <2>2, SecondaryIs, SizesAssumption DEF Nodes
    <3> QED
      BY <1>1, <1>2, <2>1, <3>1 DEF Inv, ShellTypes
  <2>4. Questions' /\ Passes' /\ Secondaries'
    BY <1>2, <2>1, <2>2 DEF Inv, Questions, Passes, Secondaries
  <2>5. pc' \notin {"idle", "start", "isMaster"} /\ pc # "start"
    BY <1>1, <2>1
  <2> QED
    BY <1>1, <1>3, <2>1, <2>3, <2>4, <2>5, GoesOn
<1> QED
  BY <1>4, <1>5, <1>6, <1>7, <1>8

LEMMA AskSecondaryKeeps ==
  ASSUME Inv, AskSecondary
  PROVE  Inv'
<1>1. /\ pc = "secondary" /\ i <= Len(live.slaves)
      /\ UNCHANGED <<latest, tries, outer, caught, goal, witness>> /\ Quiet
  BY DEF AskSecondary, Checking, Quiet, envVars, pastVars
<1>2. UNCHANGED <<up, masters, oplog, life, view, opTime, elections, faults, known,
                  owed, stayed, steady, call, target>>
  BY <1>1 DEF Quiet
<1>3. /\ i \in Nat \ {0} /\ i \in DOMAIN live.slaves /\ 1 .. (i + 1) - 1 = 1 .. i
      /\ \A k \in 1 .. i : k \in 1 .. i - 1 \/ k = i
  BY <1>1, SlaveIs
<1>4. CASE up[Slave]
  <2>1. /\ ready' = ReadyAnd(Slave \in Arbiters \/ (Slave \notin masters /\ oplog[Slave] # << >>))
        /\ i' = i + 1 /\ UNCHANGED <<pc, live, after, result>>
    BY <1>4 DEF AskSecondary
  <2>2. /\ ready' \in BOOLEAN
        /\ ready' => ready /\ (Slave \in Arbiters \/ oplog[Slave] # << >>)
    BY <2>1, Zenon DEF ReadyAnd
  <2>3. i' \in Nat \ {0}
    BY <1>3, <2>1
  <2>4. ShellTypes'
    BY <1>1, <1>2, <2>1, <2>2, <2>3 DEF Inv, ShellTypes
  <2>5. Questions' /\ Passes'
    BY <1>1, <1>2, <2>1 DEF Inv, Questions, Passes
  <2>6. Secondaries'
    <3>1. \A k \in 1 .. i' - 1 : k \in DOMAIN live.slaves
      BY <1>1, <1>3, <2>1 DEF Inv, Secondaries
    <3>2. ready' => \A k \in 1 .. i' - 1 :
                      live.slaves[k] \notin Arbiters => oplog[live.slaves[k]] # << >>
      BY <1>1, <1>3, <2>1, <2>2 DEF Inv, Secondaries, Slave
    <3>3. call # "awaitRSClientHosts"
      BY <1>1 DEF Inv, Questions
    <3> QED
      BY <1>2, <2>1, <3>1, <3>2, <3>3 DEF Secondaries
  <2>7. /\ pc' \notin {"idle", "start", "isMaster"} /\ pc # "start" /\ pc # "isMaster"
        /\ live.master # None
    BY <1>1, <2>1 DEF Inv, LiveFound
  <2>8. tries' <= Tries /\ outer' <= Tries
    BY <1>1, QuietKeeps
  <2> QED
    BY <1>1, <2>1, <2>4, <2>5, <2>6, <2>7, <2>8, GoesOn
<1>5. CASE ~up[Slave]
  <2>1. pc' = "idle" /\ result' = "threw" /\ UNCHANGED <<i, live, after, ready>>
    BY <1>5 DEF AskSecondary, End
  <2>2. /\ latest' \in 0 .. MaxOpTime /\ caught' \in BOOLEAN
        /\ tries' \in 0 .. Tries + 1 /\ outer' \in 0 .. Tries + 1
    BY <1>1 DEF Inv, ShellTypes
  <2> QED
    BY <1>1, <2>1, <2>2, ThrowKeeps
<1> QED
  BY <1>4, <1>5

LEMMA SecondariesAskedKeeps ==
  ASSUME Inv, SecondariesAsked
  PROVE  Inv'
<1>1. /\ pc = "secondary" /\ i > Len(live.slaves)
      /\ UNCHANGED <<latest, tries, caught, ready, goal, witness>> /\ Quiet
  BY DEF SecondariesAsked, Quiet, envVars, pastVars
<1>2. /\ call = "awaitSecondaryNodes" /\ live.slaves \in Seq(Nodes) /\ i \in Nat
      /\ ready \in BOOLEAN /\ live.master # None
  BY <1>1 DEF Inv, Questions, ShellTypes, LiveFound
<1>3. tries <= Tries /\ outer <= Tries /\ tries \in Nat /\ outer \in Nat /\ Tries \in Nat
  BY <1>1, QuietKeeps
<1>4. latest' \in 0 .. MaxOpTime /\ caught' \in BOOLEAN /\ ready' \in BOOLEAN
      /\ goal' \in {"none", "DOWN", "UP"} /\ tries' \in 0 .. Tries + 1
  BY <1>1 DEF Inv, ShellTypes
<1>5. CASE ready
  <2>1. pc' = "idle" /\ result' = "returned" /\ UNCHANGED <<i, live, after, outer>>
    BY <1>5 DEF SecondariesAsked, End
  <2>2. ASSUME steady, NEW n \in stayed \ Arbiters
        PROVE  oplog[n] # << >>
    <3>1. n = live.master \/ n \in ToSet(live.slaves)
      BY <1>1, <1>2, <2>2 DEF Inv, LiveFound
    <3>2. CASE n = live.master
      BY <1>2, <3>2 DEF Inv, LiveFound
    <3>3. CASE n \in ToSet(live.slaves)
      <4>1. PICK k \in DOMAIN live.slaves : live.slaves[k] = n
        BY <3>3 DEF ToSet
      <4>2. k \in 1 .. i - 1
        BY <1>1, <1>2
      <4> QED
        BY <1>1, <1>5, <2>2, <4>1, <4>2 DEF Inv, Secondaries
    <3> QED
      BY <3>1, <3>2, <3>3
  <2>3. SecondariesReady'
    BY <1>1, <1>2, <2>2 DEF SecondariesReady, Quiet
  <2>4. ReturnMeansReplicated' /\ Restarts'
    BY <1>1, <1>2 DEF ReturnMeansReplicated, Restarts, Quiet
  <2>5. outer' \in 0 .. Tries + 1 /\ PastTypes'
    BY <1>1, <1>3, <2>1 DEF Inv, PastTypes, Quiet
  <2> QED
    BY <1>1, <1>4, <2>1, <2>3, <2>4, <2>5, EndKeeps
<1>6. CASE ~ready
  <2>1. outer' = outer + 1 /\ outer' \in 0 .. Tries + 1
    BY <1>3, <1>6 DEF SecondariesAsked
  <2>2. CASE outer' > Tries
    <3>1. pc' = "idle" /\ result' = "threw" /\ UNCHANGED <<i, live, after>>
      BY <1>6, <2>2 DEF SecondariesAsked, End
    <3> QED
      BY <1>1, <1>4, <2>1, <3>1, ThrowKeeps
  <2>3. CASE ~(outer' > Tries)
    <3>1. /\ pc' = "isMaster" /\ i' = 1 /\ live' = NoLive /\ after' = "secondary"
          /\ result' = result
      BY <1>6, <2>3 DEF SecondariesAsked, CallIsMaster, InitLiveNodes
    <3>2. tries' \in Nat /\ tries' <= Tries /\ outer' \in Nat /\ outer' <= Tries
      BY <1>1, <1>3, <2>1, <2>3
    <3> QED
      BY <1>1, <1>2, <1>4, <3>1, <3>2, AnewKeeps
  <2> QED
    BY <2>2, <2>3
<1> QED
  BY <1>5, <1>6

LEMMA AskHostsKeeps ==
  ASSUME Inv, AskHosts
  PROVE  Inv'
<1>1. /\ pc = "hosts" /\ UNCHANGED <<latest, tries, caught, ready, goal, witness>> /\ Quiet
  BY DEF AskHosts, Quiet, envVars, pastVars
<1>2. UNCHANGED <<up, masters, oplog, life, view, opTime, elections, faults, known,
                  owed, stayed, steady, call, target>>
  BY <1>1 DEF Quiet
<1>3. call = "awaitRSClientHosts" /\ live.master # None
  BY <1>1 DEF Inv, Questions, LiveFound
<1>4. tries <= Tries /\ outer <= Tries /\ tries \in Nat /\ outer \in Nat /\ Tries \in Nat
  BY <1>1, QuietKeeps
<1>5. latest' \in 0 .. MaxOpTime /\ caught' \in BOOLEAN /\ ready' \in BOOLEAN
      /\ goal' \in {"none", "DOWN", "UP"} /\ tries' \in 0 .. Tries + 1
  BY <1>1 DEF Inv, ShellTypes
<1>6. CASE i \in known
  <2>1. pc' = "idle" /\ result' = "returned" /\ UNCHANGED <<i, live, after, outer>>
    BY <1>6 DEF AskHosts, End
  <2>2. oplog[i] # << >> /\ (steady => i \notin masters)
    BY <1>3, <1>6 DEF Inv, Secondaries
  <2>3. SecondariesReady'
    BY <1>2, <1>3, <2>1, <2>2 DEF SecondariesReady
  <2>4. ReturnMeansReplicated' /\ Restarts'
    BY <1>2, <1>3 DEF ReturnMeansReplicated, Restarts
  <2>5. outer' \in 0 .. Tries + 1 /\ PastTypes'
    BY <1>1, <1>2, <1>4, <2>1 DEF Inv, PastTypes
  <2> QED
    BY <1>1, <1>5, <2>1, <2>3, <2>4, <2>5, EndKeeps
<1>7. CASE i \notin known
  <2>1. outer' = outer + 1 /\ outer' \in 0 .. Tries + 1
    BY <1>4, <1>7 DEF AskHosts
  <2>2. CASE outer' > Tries
    <3>1. pc' = "idle" /\ result' = "threw" /\ UNCHANGED <<i, live, after>>
      BY <1>7, <2>2 DEF AskHosts, End
    <3> QED
      BY <1>1, <1>5, <2>1, <3>1, ThrowKeeps
  <2>3. CASE ~(outer' > Tries)
    <3>1. UNCHANGED <<pc, i, live, after, result>>
      BY <1>7, <2>3 DEF AskHosts
    <3>2. tries' <= Tries /\ outer' <= Tries
      BY <1>1, <1>4, <2>1, <2>3
    <3>3. ShellTypes'
      BY <1>1, <1>2, <2>1, <3>1 DEF Inv, ShellTypes
    <3>4. Questions' /\ Passes' /\ Secondaries'
      BY <1>1, <1>2, <3>1 DEF Inv, Questions, Passes, Secondaries
    <3>5. pc' \notin {"idle", "start", "isMaster"} /\ pc # "start" /\ pc # "isMaster"
      BY <1>1, <3>1
    <3> QED
      BY <1>1, <1>3, <3>1, <3>2, <3>3, <3>4, <3>5, GoesOn
  <2> QED
    BY <2>2, <2>3
<1> QED
  BY <1>6, <1>7

LEMMA StatusThrowsKeeps ==
  ASSUME Inv, StatusThrows
  PROVE  Inv'
<1>1. /\ pc = "isMaster" /\ pc' = "idle" /\ result' = "threw"
      /\ UNCHANGED <<i, live, after, latest, tries, outer, caught, ready, goal, witness>>
      /\ Quiet
  BY DEF StatusThrows, IsMasterDone, End, Quiet, envVars, pastVars
<1>2. /\ latest' \in 0 .. MaxOpTime /\ caught' \in BOOLEAN
      /\ tries' \in 0 .. Tries + 1 /\ outer' \in 0 .. Tries + 1
  BY <1>1 DEF Inv, ShellTypes
<1> QED
  BY <1>1, <1>2, ThrowKeeps

(* status has somebody to ask.                                             *)
LEMMA StatusNodeIs ==
  ASSUME Inv, live # NoLive
  PROVE  StatusNode \in Nodes
<1>1. live \in [master : Nodes \union {None}, slaves : Seq(Nodes)]
  BY DEF Inv, ShellTypes
<1>2. CASE live.master # None
  BY <1>1, <1>2 DEF StatusNode
<1>3. CASE live.master = None
  <2>1. live.slaves # << >>
    BY <1>1, <1>3 DEF NoLive
  <2>2. live.slaves[1] \in Nodes
    <3> DEFINE s == live.slaves
    <3>1. s \in Seq(Nodes) /\ s # << >>
      BY <1>1, <2>1
    <3> HIDE DEF s
    <3>2. 1 \in DOMAIN s
      BY <3>1, EmptySeq
    <3>3. s[1] \in Nodes
      BY <3>1, <3>2
    <3> QED
      BY <3>3 DEF s
  <2> QED
    BY <1>3, <2>2 DEF StatusNode
<1> QED
  BY <1>2, <1>3

LEMMA AskStatusKeeps ==
  ASSUME Inv, AskStatus
  PROVE  Inv'
<1>1. /\ pc = "isMaster" /\ i > NumNodes /\ after = "status" /\ live # NoLive
      /\ UNCHANGED <<latest, tries, caught, ready, goal>> /\ Quiet
  BY DEF AskStatus, IsMasterDone, Quiet, envVars
<1>2. UNCHANGED <<up, masters, oplog, life, view, opTime, elections, faults, known,
                  owed, stayed, steady, call, target>>
  BY <1>1 DEF Quiet
<1>3. call = "restart" /\ StatusNode \in Nodes /\ StatusNode # None
  BY <1>1, StatusNodeIs, NodesAssumption DEF Inv, Questions
<1>4. /\ tries <= Tries /\ outer <= Tries /\ tries \in Nat /\ outer \in Nat /\ Tries \in Nat
      /\ EnvTypes' /\ OplogsMatch' /\ Steady' /\ result = "none"
  BY <1>1, QuietKeeps
<1>5. latest' \in 0 .. MaxOpTime /\ caught' \in BOOLEAN /\ ready' \in BOOLEAN
      /\ goal' \in {"none", "DOWN", "UP"} /\ tries' \in 0 .. Tries + 1
  BY <1>1 DEF Inv, ShellTypes
<1>6. /\ target \in Nodes /\ goal \in {"DOWN", "UP"}
      /\ goal = "DOWN" => ~up[target] /\ witness[2] = None
      /\ goal = "UP" /\ witness[1] # None => view[witness[1]] \in {0, life}
      /\ witness[1] \in Nodes \union {None}
  BY <1>3 DEF Inv, Restarts, PastTypes
<1>7. CASE HasHealth(view[StatusNode]) /\ goal = "DOWN"
  <2>1. /\ witness' = <<StatusNode, None>> /\ pc' = "start"
        /\ UNCHANGED <<i, live, after, result, outer>>
    BY <1>7 DEF AskStatus
  <2>2. view[StatusNode] = 0
    BY <1>7 DEF HasHealth
  <2>3. ShellTypes'
    BY <1>1, <1>2, <2>1 DEF Inv, ShellTypes
  <2>4. PastTypes'
    BY <1>2, <1>3, <2>1 DEF Inv, PastTypes
  <2>5. Calling'
    BY <1>1, <1>2, <1>3, <1>4, <2>1 DEF Calling
  <2>6. Questions'
    BY <1>1, <1>2, <1>3, <1>7, <2>1 DEF Questions
  <2>7. LiveFound'
    BY <1>2, <2>1 DEF Inv, LiveFound
  <2>8. Passes' /\ Secondaries'
    BY <1>2, <1>3, <2>1 DEF Passes, Secondaries
  <2>9. Restarts'
    <3>1. witness'[1] = StatusNode /\ witness'[2] = None
      BY <2>1
    <3>2. goal' = "DOWN" /\ result' = "none" /\ UNCHANGED <<call, target, up, view, life>>
      BY <1>1, <1>2, <1>4, <1>7, <2>1
    <3> QED
      BY <1>6, <1>7, <2>2, <3>1, <3>2 DEF Restarts
  <2>10. ReturnMeansReplicated' /\ SecondariesReady'
    BY <1>4, <2>1 DEF ReturnMeansReplicated, SecondariesReady
  <2> QED
    BY <1>4, <2>3, <2>4, <2>5, <2>6, <2>7, <2>8, <2>9, <2>10 DEF Inv
<1>8. CASE HasHealth(view[StatusNode]) /\ goal = "UP"
  <2>1. /\ witness' = <<witness[1], StatusNode>> /\ pc' = "idle" /\ result' = "returned"
        /\ UNCHANGED <<i, live, after, outer>>
    BY <1>8 DEF AskStatus, End
  <2>2. view[StatusNode] # 0
    BY <1>8 DEF HasHealth
  <2>3. PastTypes'
    BY <1>2, <1>3, <1>6, <2>1 DEF Inv, PastTypes
  <2>4. Restarts'
    <3>1. witness'[1] = witness[1] /\ witness'[2] = StatusNode
      BY <2>1
    <3>2. goal' = "UP" /\ UNCHANGED <<call, target, up, view, life>>
      BY <1>1, <1>2, <1>8
    <3> QED
      BY <1>3, <1>6, <1>8, <2>2, <3>1, <3>2 DEF Restarts
  <2>5. ReturnMeansReplicated' /\ SecondariesReady'
    BY <1>2, <1>3 DEF ReturnMeansReplicated, SecondariesReady
  <2>6. outer' \in 0 .. Tries + 1
    BY <1>4, <2>1
  <2> QED
    BY <1>1, <1>3, <1>5, <2>1, <2>3, <2>4, <2>5, <2>6, EndKeeps
<1>9. CASE ~HasHealth(view[StatusNode])
  <2>1. outer' = outer + 1 /\ outer' \in 0 .. Tries + 1 /\ witness' = witness
    BY <1>4, <1>9 DEF AskStatus
  <2>2. CASE outer' > Tries
    <3>1. pc' = "idle" /\ result' = "threw" /\ UNCHANGED <<i, live, after>>
      BY <1>9, <2>2 DEF AskStatus, End
    <3> QED
      BY <1>1, <1>5, <2>1, <3>1, ThrowKeeps
  <2>3. CASE ~(outer' > Tries)
    <3>1. /\ pc' = "isMaster" /\ i' = 1 /\ live' = NoLive /\ after' = "status"
          /\ result' = result
      BY <1>9, <2>3 DEF AskStatus, CallIsMaster, InitLiveNodes
    <3>2. tries' \in Nat /\ tries' <= Tries /\ outer' \in Nat /\ outer' <= Tries
      BY <1>1, <1>4, <2>1, <2>3
    <3> QED
      BY <1>1, <1>3, <1>5, <2>1, <3>1, <3>2, AnewKeeps
  <2> QED
    BY <2>2, <2>3
<1> QED
  BY <1>6, <1>7, <1>8, <1>9

-----------------------------------------------------------------------------
(* A call begins.                                                          *)
LEMMA Begins ==
  ASSUME Inv, NEW c, Begin(c)
  PROVE  /\ pc = "idle" /\ result = "none" /\ call' = c /\ target = None /\ live = NoLive
         /\ witness' = <<None, None>> /\ tries = 0 /\ outer = 0 /\ known = {}
         /\ PastTypes' /\ \A n \in stayed' : up[n]
         /\ steady' => (\E m \in Nodes : masters = {m}) /\ \A m \in masters : owed' = oplog[m]
<1>1. /\ pc = "idle" /\ result = "none" /\ call' = c
      /\ steady' = (Cardinality(masters) = 1)
      /\ owed' = IF Cardinality(masters) = 1 THEN oplog[CHOOSE m \in masters : TRUE] ELSE << >>
      /\ stayed' = {n \in Nodes : up[n]} /\ witness' = witness
  BY DEF Begin
<1>2. /\ call = "none" /\ target = None /\ live = NoLive /\ witness = <<None, None>>
      /\ tries = 0 /\ outer = 0 /\ known = {}
  BY <1>1 DEF Inv, Calling
<1>3. IsFiniteSet(masters) /\ masters \subseteq Nodes
  <2>1. masters \subseteq Nodes
    BY DEF Inv, EnvTypes
  <2>2. IsFiniteSet(Nodes)
    BY FS_Interval, SizesAssumption DEF Nodes
  <2> QED
    BY <2>1, <2>2, FS_Subset
<1>4. Cardinality(masters) = 1 => \E m \in Nodes : masters = {m}
  BY <1>3, FS_Singleton
<1>5. steady' \in BOOLEAN /\ (steady' => Cardinality(masters) = 1)
  BY <1>1, Zenon
<1>6. owed' \in Seq(1 .. MaxOpTime)
      /\ (steady' => (\E m \in Nodes : masters = {m}) /\ \A m \in masters : owed' = oplog[m])
  <2>1. CASE Cardinality(masters) = 1
    <3>1. PICK m \in Nodes : masters = {m}
      BY <1>4, <2>1
    <3>2. (CHOOSE x \in masters : TRUE) = m
      BY <3>1
    <3>3. owed' = oplog[m]
      BY <1>1, <2>1, <3>2
    <3>4. oplog[m] \in Seq(1 .. MaxOpTime)
      BY DEF Inv, EnvTypes
    <3> QED
      BY <3>1, <3>3, <3>4
  <2>2. CASE Cardinality(masters) # 1
    <3>1. owed' = << >> /\ << >> \in Seq(1 .. MaxOpTime)
      BY <1>1, <2>2
    <3> QED
      BY <1>5, <2>2, <3>1
  <2> QED
    BY <2>1, <2>2
<1>7. PastTypes'
  BY <1>1, <1>5, <1>6 DEF Inv, PastTypes
<1> QED
  BY <1>1, <1>2, <1>6, <1>7

(* Of a wait that begins with callIsMaster.                                *)
LEMMA WaitBegins ==
  ASSUME Inv, NEW c \in Calls \ {"restart"}, Begin(c),
         pc' = "isMaster", i' = 1, live' = NoLive,
         UNCHANGED <<up, masters, oplog, life, view, opTime, elections, faults, target, latest,
                     tries, outer, caught, ready, goal, result>>,
         \/ after' = "oplog" /\ c = "awaitReplication"
         \/ after' = "soon" /\ c = "awaitSecondaryNodes"
         \/ after' = "hosts" /\ c = "awaitRSClientHosts",
         known' \subseteq Nodes,
         c = "awaitRSClientHosts" => NumNodes > 1 /\ \A n \in known' : IsSecondary(n)
  PROVE  Inv'
<1>1. /\ pc = "idle" /\ result = "none" /\ call' = c /\ target = None
      /\ witness' = <<None, None>> /\ tries = 0 /\ outer = 0
      /\ PastTypes' /\ \A n \in stayed' : up[n]
      /\ steady' => (\E m \in Nodes : masters = {m}) /\ \A m \in masters : owed' = oplog[m]
  BY Begins
<1>2. EnvTypes'
  BY DEF Inv, EnvTypes
<1>3. ShellTypes'
  BY <1>1, NoLiveIs DEF Inv, ShellTypes
<1>4. Calling'
  <2>1. 0 <= Tries
    BY SizesAssumption
  <2> QED
    BY <1>1, <2>1 DEF Calling, Calls
<1>5. Questions'
  BY <1>1 DEF Questions
<1>6. OplogsMatch'
  BY DEF Inv, OplogsMatch
<1>7. Steady'
  <2>1. \A m \in masters : oplog[m] \in Seq(1 .. MaxOpTime)
    BY DEF Inv, EnvTypes
  <2>2. \A m \in masters : IsPrefix(oplog[m], oplog[m])
    BY <2>1, PrefixSelf
  <2> QED
    BY <1>1, <2>2 DEF Steady, Has
<1>8. LiveFound'
  <2>1. \A n \in stayed' : ~(n < 1)
    <3>1. \A n \in Nodes : ~(n < 1)
      BY SizesAssumption DEF Nodes
    <3> QED
      BY <1>1, <3>1 DEF PastTypes
  <2> QED
    BY <2>1, NoLiveIs DEF LiveFound
<1>9. Passes' /\ Restarts'
  BY <1>1 DEF Passes, Restarts
<1>10. Secondaries'
  BY <1>1 DEF Secondaries, IsSecondary
<1>11. ReturnMeansReplicated' /\ SecondariesReady'
  BY <1>1 DEF ReturnMeansReplicated, SecondariesReady
<1> QED
  BY <1>1, <1>2, <1>3, <1>4, <1>5, <1>6, <1>7, <1>8, <1>9, <1>10, <1>11 DEF Inv

LEMMA AwaitReplicationKeeps ==
  ASSUME Inv, AwaitReplication
  PROVE  Inv'
<1>1. /\ Begin("awaitReplication") /\ pc' = "isMaster" /\ i' = 1 /\ live' = NoLive
      /\ after' = "oplog"
      /\ UNCHANGED <<envVars, target, latest, tries, outer, caught, ready, goal, result>>
  BY DEF AwaitReplication, CallIsMaster, InitLiveNodes
<1>2. UNCHANGED <<up, masters, oplog, life, view, opTime, elections, faults, known>>
  BY <1>1 DEF envVars
<1>3. known' \subseteq Nodes /\ "awaitReplication" \in Calls \ {"restart"}
  BY <1>2 DEF Inv, EnvTypes, Calls
<1> QED
  BY <1>1, <1>2, <1>3, WaitBegins

LEMMA AwaitSecondaryNodesKeeps ==
  ASSUME Inv, AwaitSecondaryNodes
  PROVE  Inv'
<1>1. /\ Begin("awaitSecondaryNodes") /\ pc' = "isMaster" /\ i' = 1 /\ live' = NoLive
      /\ after' = "soon"
      /\ UNCHANGED <<envVars, target, latest, tries, outer, caught, ready, goal, result>>
  BY DEF AwaitSecondaryNodes, CallIsMaster, InitLiveNodes
<1>2. UNCHANGED <<up, masters, oplog, life, view, opTime, elections, faults, known>>
  BY <1>1 DEF envVars
<1>3. known' \subseteq Nodes /\ "awaitSecondaryNodes" \in Calls \ {"restart"}
  BY <1>2 DEF Inv, EnvTypes, Calls
<1> QED
  BY <1>1, <1>2, <1>3, WaitBegins

LEMMA AwaitRSClientHostsKeeps ==
  ASSUME Inv, AwaitRSClientHosts
  PROVE  Inv'
<1>1. /\ NumNodes > 1 /\ Begin("awaitRSClientHosts") /\ pc' = "isMaster" /\ i' = 1
      /\ live' = NoLive /\ after' = "hosts"
      /\ known' \in {{}, {n \in Nodes : IsSecondary(n)}}
      /\ UNCHANGED <<up, masters, oplog, life, view, opTime, elections, faults, target, latest,
                     tries, outer, caught, ready, goal, result>>
  BY DEF AwaitRSClientHosts, CallIsMaster, InitLiveNodes
<1>2. known' \subseteq Nodes /\ \A n \in known' : IsSecondary(n)
  BY <1>1
<1>3. "awaitRSClientHosts" \in Calls \ {"restart"}
  BY DEF Calls
<1> QED
  BY <1>1, <1>2, <1>3, WaitBegins

LEMMA RestartKeeps ==
  ASSUME Inv, NEW n \in Nodes, NEW code \in {0, 9}, Restart(n, code)
  PROVE  Inv'
<1>1. /\ up[n] /\ Begin("restart")
      /\ up' = [up EXCEPT ![n] = FALSE] /\ masters' = masters \ {n}
      /\ \/ pc' = "start" /\ UNCHANGED <<i, live, after>>
         \/ pc' = "isMaster" /\ i' = 1 /\ live' = NoLive /\ after' = "status"
      /\ target' = n /\ goal' = "DOWN" /\ view' = [m \in Nodes |-> life]
      /\ UNCHANGED <<oplog, life, opTime, elections, faults, known, latest, tries, outer, caught,
                     ready, result>>
  <2>1. CASE code = 0
    BY <2>1 DEF Restart, Down
  <2>2. CASE code # 0
    BY <2>2 DEF Restart, Down, CallIsMaster, InitLiveNodes
  <2> QED
    BY <2>1, <2>2
<1>2. /\ pc = "idle" /\ result = "none" /\ call' = "restart" /\ live = NoLive
      /\ witness' = <<None, None>> /\ tries = 0 /\ outer = 0 /\ PastTypes'
  BY <1>1, Begins
<1>3. live' = NoLive
  BY <1>1, <1>2
<1>4. EnvTypes'
  <2>1. /\ up \in [Nodes -> BOOLEAN] /\ masters \subseteq {m \in Nodes \ Arbiters : up[m]}
        /\ life \in Nat \ {0}
    BY DEF Inv, EnvTypes
  <2>2. up' \in [Nodes -> BOOLEAN] /\ \A m \in Nodes : m # n => up'[m] = up[m]
    BY <1>1, <2>1
  <2>3. masters' \subseteq {m \in Nodes \ Arbiters : up'[m]}
    BY <1>1, <2>1, <2>2
  <2>4. view' \in [Nodes -> 0 .. life']
    <3>1. life \in 0 .. life
      BY <2>1
    <3> QED
      BY <1>1, <3>1
  <2> QED
    BY <1>1, <2>2, <2>3, <2>4 DEF Inv, EnvTypes
<1>5. ShellTypes'
  <2>1. i' \in Nat \ {0} /\ after' \in {"none", "oplog", "soon", "secondary", "hosts", "status"}
    BY <1>1 DEF Inv, ShellTypes
  <2>2. pc' \in {"start", "isMaster"} /\ call' \in Calls
    BY <1>1, <1>2 DEF Calls
  <2> QED
    BY <1>1, <1>3, <2>1, <2>2, NoLiveIs DEF Inv, ShellTypes
<1>6. Calling'
  <2>1. 0 <= Tries
    BY SizesAssumption
  <2> QED
    BY <1>1, <1>2, <2>1 DEF Calling
<1>7. Questions'
  BY <1>1, <1>2 DEF Questions
<1>8. OplogsMatch'
  BY <1>1 DEF Inv, OplogsMatch
<1>9. Steady' /\ Passes' /\ Secondaries'
  BY <1>1, <1>2 DEF Steady, Passes, Secondaries
<1>10. LiveFound'
  BY <1>1, <1>2, <1>3, NoLiveIs DEF LiveFound
<1>11. Restarts'
  <2>1. ~up'[n]
    BY <1>1 DEF Inv, EnvTypes
  <2> QED
    BY <1>1, <1>2, <2>1 DEF Restarts
<1>12. ReturnMeansReplicated' /\ SecondariesReady'
  BY <1>1, <1>2 DEF ReturnMeansReplicated, SecondariesReady
<1> QED
  BY <1>2, <1>4, <1>5, <1>6, <1>7, <1>8, <1>9, <1>10, <1>11, <1>12 DEF Inv

-----------------------------------------------------------------------------
LEMMA InvStarts == Init => Inv
<1> SUFFICES ASSUME Init PROVE Inv
  OBVIOUS
<1>1. /\ up = [n \in Nodes |-> TRUE]
      /\ masters \in {{}} \union {{n} : n \in Nodes \ Arbiters}
      /\ oplog \in {o \in [Nodes -> Oplogs] :
                      \A n \in Nodes : /\ n \in Arbiters => o[n] = << >>
                                       /\ n \in masters => o[n] # << >>}
      /\ life = 1 /\ view = [n \in Nodes |-> 1]
      /\ opTime = MaxOpTime - 1 /\ elections = 0 /\ faults = 0 /\ known = {}
      /\ call = "none" /\ target = None /\ pc = "idle" /\ i = 1 /\ live = NoLive
      /\ latest = 0 /\ after = "none" /\ tries = 0 /\ outer = 0 /\ caught = FALSE
      /\ ready = FALSE /\ goal = "none" /\ result = "none"
      /\ owed = << >> /\ stayed = {} /\ steady = FALSE /\ witness = <<None, None>>
  BY DEF Init
<1>2. /\ MaxOpTime \in Nat \ {0} /\ MaxOpTime - 1 \in Nat /\ 0 \in 0 .. MaxOpTime
      /\ MaxOpTime - 1 \in 0 .. MaxOpTime /\ Tries \in Nat /\ 0 \in 0 .. Tries + 1
  BY SizesAssumption
<1>3. masters \subseteq Nodes \ Arbiters /\ \A n \in masters : up[n]
  BY <1>1
<1>4. ASSUME NEW n \in Nodes
      PROVE  /\ oplog[n] \in Oplogs /\ oplog[n] \in Seq(1 .. MaxOpTime)
             /\ \A j \in DOMAIN oplog[n] : oplog[n][j] <= opTime
  <2> DEFINE o == oplog[n]
  <2>1. o \in Oplogs
    BY <1>1
  <2> HIDE DEF o
  <2>2. o \in Seq(1 .. MaxOpTime - 1)
    BY <2>1, OplogsAssumption
  <2>3. Len(o) \in Nat /\ o \in [1 .. Len(o) -> 1 .. MaxOpTime - 1]
    <3> DEFINE S == 1 .. MaxOpTime - 1
    <3>1. o \in Seq(S)
      BY <2>2
    <3> HIDE DEF S
    <3>2. Len(o) \in Nat /\ o \in [1 .. Len(o) -> S]
      BY <3>1
    <3> QED
      BY <3>2 DEF S
  <2>4. \A j \in DOMAIN o : o[j] \in 1 .. MaxOpTime /\ o[j] <= opTime
    BY <1>1, <1>2, <2>3
  <2>5. o \in Seq(1 .. MaxOpTime)
    <3> DEFINE S == 1 .. MaxOpTime
    <3>1. Len(o) \in Nat /\ o \in [1 .. Len(o) -> S]
      BY <2>3, <2>4
    <3> HIDE DEF S
    <3>2. o \in Seq(S)
      BY <3>1, SeqDef
    <3> QED
      BY <3>2 DEF S
  <2> QED
    BY <2>1, <2>4, <2>5 DEF o
<1>5. EnvTypes
  <2>1. oplog \in [Nodes -> Seq(1 .. MaxOpTime)]
    BY <1>1, <1>4
  <2>2. view \in [Nodes -> 0 .. life] /\ up \in [Nodes -> BOOLEAN]
    BY <1>1
  <2> QED
    BY <1>1, <1>2, <1>3, <2>1, <2>2 DEF EnvTypes
<1>6. ShellTypes
  <2>1. /\ live \in [master : Nodes \union {None}, slaves : Seq(Nodes)]
        /\ IsInjective(live.slaves) /\ live.master \notin ToSet(live.slaves)
    BY <1>1, NoLiveIs
  <2>2. /\ call \in Calls \union {"none"} /\ target \in Nodes \union {None}
        /\ pc \in {"idle", "start", "isMaster", "oplog", "state", "hasNext", "next", "count",
                   "reset", "secondary", "hosts"}
        /\ after \in {"none", "oplog", "soon", "secondary", "hosts", "status"}
        /\ goal \in {"none", "DOWN", "UP"}
        /\ result \in {"none", "returned", "threw", "failed"}
    BY <1>1
  <2>3. /\ i \in Nat \ {0} /\ latest \in 0 .. MaxOpTime
        /\ tries \in 0 .. Tries + 1 /\ outer \in 0 .. Tries + 1
    BY <1>1, <1>2
  <2>4. caught \in BOOLEAN /\ ready \in BOOLEAN
    BY <1>1
  <2> QED
    BY <2>1, <2>2, <2>3, <2>4 DEF ShellTypes
<1>7. PastTypes
  <2>1. owed \in Seq(1 .. MaxOpTime) /\ stayed \subseteq Nodes
    <3>1. << >> \in Seq(1 .. MaxOpTime) /\ {} \subseteq Nodes
      OBVIOUS
    <3> QED
      BY <1>1, <3>1
  <2>2. steady \in BOOLEAN
    BY <1>1
  <2>3. witness \in (Nodes \union {None}) \X (Nodes \union {None})
    BY <1>1
  <2> QED
    BY <2>1, <2>2, <2>3 DEF PastTypes
<1>8. Calling /\ Questions
  BY <1>1 DEF Calling, Questions, Calls
<1>9. OplogsMatch
  <2>1. \A n, m \in Nodes : Matching(oplog[n], oplog[m])
    BY <1>4, OplogsAssumption
  <2>2. \A m \in masters : oplog[m] # << >>
    BY <1>1, <1>3
  <2> QED
    BY <1>4, <2>1, <2>2 DEF OplogsMatch
<1>10. Steady /\ Passes /\ Secondaries /\ Restarts
  BY <1>1 DEF Steady, Passes, Secondaries, Restarts
<1>11. LiveFound
  BY <1>1, NoLiveIs DEF LiveFound
<1>12. ReturnMeansReplicated /\ SecondariesReady
  BY <1>1 DEF ReturnMeansReplicated, SecondariesReady
<1> QED
  BY <1>5, <1>6, <1>7, <1>8, <1>9, <1>10, <1>11, <1>12 DEF Inv

(* Every step of the nodes and of the test keeps the invariant.            *)
LEMMA InvKept == Inv /\ [Next]_vars => Inv'
<1> SUFFICES ASSUME Inv, [Next]_vars PROVE Inv'
  OBVIOUS
<1>1. ASSUME NEW n \in Nodes,
             Write(n) \/ Elect(n) \/ StepDown(n) \/ Fail(n) \/ Recover(n) \/ Beat(n) \/ Watch(n)
      PROVE  Inv'
  <2>1. Moves
    BY <1>1, WriteMoves, ElectMoves, StepDownMoves, FailMoves, RecoverMoves, BeatMoves,
       WatchMoves
  <2> QED
    BY <2>1, MovesKeep
<1>2. ASSUME NEW n \in Nodes, NEW m \in Nodes, Replicate(n, m) PROVE Inv'
  <2>1. Moves
    BY <1>2, ReplicateMoves
  <2> QED
    BY <2>1, MovesKeep
<1>3. CASE AwaitReplication \/ AwaitSecondaryNodes \/ AwaitRSClientHosts
  BY <1>3, AwaitReplicationKeeps, AwaitSecondaryNodesKeeps, AwaitRSClientHostsKeeps
<1>4. ASSUME NEW n \in Nodes, NEW code \in {0, 9}, Restart(n, code) PROVE Inv'
  BY <1>4, RestartKeeps
<1>5. CASE ShellStep
  <2>1. CASE Start(TRUE) \/ Start(FALSE)
    <3>1. TRUE \in BOOLEAN /\ FALSE \in BOOLEAN
      OBVIOUS
    <3> QED
      BY <2>1, <3>1, StartKeeps, Zenon
  <2>2. CASE AskIsMaster \/ MasterFound \/ NoMaster
    BY <2>2, AskIsMasterKeeps, MasterFoundKeeps, NoMasterKeeps
  <2>3. CASE LastOpTime \/ NoOpTime
    BY <2>3, LastOpTimeKeeps, NoOpTimeKeeps
  <2>4. CASE \/ AskState \/ HasNext \/ NextEntry \/ Count \/ ResetLatest \/ Caught
             \/ AllSynced
    BY <2>4, AskStateKeeps, HasNextKeeps, NextEntryKeeps, CountKeeps, ResetLatestKeeps,
       CaughtKeeps, AllSyncedKeeps
  <2>5. CASE AskSecondary \/ SecondariesAsked \/ AskHosts
    BY <2>5, AskSecondaryKeeps, SecondariesAskedKeeps, AskHostsKeeps
  <2>6. CASE StatusThrows \/ AskStatus
    BY <2>6, StatusThrowsKeeps, AskStatusKeeps
  <2> QED
    BY <1>5, <2>1, <2>2, <2>3, <2>4, <2>5, <2>6 DEF ShellStep
<1>6. CASE UNCHANGED vars
  <2>1. UNCHANGED <<up, masters, oplog, life, view, opTime, elections, faults, known,
                    call, target, pc, i, live, latest, after, tries, outer, caught,
                    ready, goal, result, owed, stayed, steady, witness>>
    BY <1>6 DEF vars, envVars, shellVars, pastVars
  <2>2. EnvTypes' /\ ShellTypes' /\ PastTypes'
    <3>1. EnvTypes'
      BY <2>1 DEF Inv, EnvTypes
    <3>2. ShellTypes'
      BY <2>1 DEF Inv, ShellTypes
    <3>3. PastTypes'
      BY <2>1 DEF Inv, PastTypes
    <3> QED
      BY <3>1, <3>2, <3>3
  <2>3. Calling' /\ Questions' /\ OplogsMatch' /\ Steady'
    BY <2>1 DEF Inv, Calling, Questions, OplogsMatch, Steady, Has
  <2>4. LiveFound' /\ Passes' /\ Secondaries' /\ Restarts'
    BY <2>1 DEF Inv, LiveFound, Passes, Secondaries, Restarts, Has
  <2>5. ReturnMeansReplicated' /\ SecondariesReady'
    BY <2>1 DEF Inv, ReturnMeansReplicated, SecondariesReady
  <2> QED
    BY <2>2, <2>3, <2>4, <2>5 DEF Inv
<1> QED
  BY <1>1, <1>2, <1>3, <1>4, <1>5, <1>6 DEF Next

-----------------------------------------------------------------------------
(* The invariant holds in every state the nodes and the test can reach.    *)
THEOREM InvHolds == Spec => []Inv
<1> QED
  BY InvStarts, InvKept, PTL DEF Spec

(* Every variable of the waits has its type: whom callIsMaster has found   *)
(* are nodes, each of them once, and no wait tries more than once more than *)
(* it may.                                                                 *)
THEOREM TypeCorrect == Spec => []TypeOK
<1>1. Inv => TypeOK
  BY DEF Inv, EnvTypes, ShellTypes, PastTypes, TypeOK
<1> QED
  BY <1>1, InvHolds, PTL

(* When awaitReplication returns, and one master was there all the time,   *)
(* every node that was up all the time has what the master had at the call, *)
(* however often the test had to begin again and whatever was written,     *)
(* replicated, rolled back or reported meanwhile.                          *)
THEOREM ReturnReplicated == Spec => []ReturnMeansReplicated
<1>1. Inv => ReturnMeansReplicated
  BY DEF Inv
<1> QED
  BY <1>1, InvHolds, PTL

(* When awaitSecondaryNodes returns, and one master was there all the time, *)
(* every node that was up all the time has its data; when awaitRSClientHosts *)
(* returns, the node of getSecondary has, and it is not the master.        *)
THEOREM SecondariesAreReady == Spec => []SecondariesReady
<1>1. Inv => SecondariesReady
  BY DEF Inv
<1> QED
  BY <1>1, InvHolds, PTL

(* When restart returns, the node that says the other is up, and had said  *)
(* that it was down, has seen it since it was started: its answer is not   *)
(* one from before.                                                        *)
THEOREM RestartIsSeen == Spec => []RestartSeenUp
<1>1. Inv => RestartSeenUp
  BY NodesAssumption DEF Inv, Restarts, RestartSeenUp
<1> QED
  BY <1>1, InvHolds, PTL

-----------------------------------------------------------------------------
(* The members of the set (ReplSetMembers), for any number of them, any    *)
(* arbiters and any calls of the test: what its calls reach, and whom its  *)
(* nodes reach.  First, pairs of nodes and the ports of their bridges.     *)

(* Multiples of n are at least n apart.                                    *)
LEMMA Apart ==
  ASSUME NEW n \in Nat, NEW a \in Nat, NEW c \in Nat, a < c
  PROVE  a * n + n <= c * n
<1>1. PICK k \in Nat : c = a + 1 + k
  <2>1. c - a - 1 \in Nat /\ c = a + 1 + (c - a - 1)
    OBVIOUS
  <2> QED
    BY <2>1
<1>2. c * n = a * n + n + k * n
  BY <1>1
<1>3. k * n \in Nat /\ a * n \in Nat
  OBVIOUS
<1> QED
  BY <1>2, <1>3

(* The ports of the bridges differ, and are none of the nodes'.            *)
LEMMA BridgePortsAre ==
  ASSUME NEW n \in Nat, NEW p \in Pairs(n)
  PROVE  /\ p[1] \in 0 .. n - 1 /\ p[2] \in 0 .. n - 1 /\ p[1] # p[2] /\ p = <<p[1], p[2]>>
         /\ <<p[2], p[1]>> \in Pairs(n)
         /\ BridgePort(n, p[1], p[2]) \in Nat /\ BridgePort(n, p[1], p[2]) >= n
         /\ \A q \in Pairs(n) : BridgePort(n, q[1], q[2]) = BridgePort(n, p[1], p[2]) => q = p
<1>1. /\ p[1] \in 0 .. n - 1 /\ p[2] \in 0 .. n - 1 /\ p[1] # p[2] /\ p = <<p[1], p[2]>>
      /\ <<p[2], p[1]>> \in Pairs(n)
  BY DEF Pairs
<1>2. ASSUME NEW a \in 0 .. n - 1, NEW b \in 0 .. n - 1
      PROVE  a * n \in Nat /\ BridgePort(n, a, b) = n + a * n + b
  BY DEF BridgePort
<1>3. ASSUME NEW q \in Pairs(n), BridgePort(n, q[1], q[2]) = BridgePort(n, p[1], p[2])
      PROVE  q = p
  <2>1. /\ q[1] \in 0 .. n - 1 /\ q[2] \in 0 .. n - 1 /\ q = <<q[1], q[2]>>
    BY DEF Pairs
  <2> DEFINE x == q[1] * n
             y == p[1] * n
  <2>2. x \in Nat /\ y \in Nat /\ x + q[2] = y + p[2]
    BY <1>1, <1>2, <1>3, <2>1
  <2>3. CASE q[1] < p[1]
    <3>1. x + n <= y
      BY <1>1, <2>1, <2>3, Apart
    <3> HIDE DEF x, y
    <3> QED
      BY <1>1, <2>1, <2>2, <3>1
  <2>4. CASE p[1] < q[1]
    <3>1. y + n <= x
      BY <1>1, <2>1, <2>4, Apart
    <3> HIDE DEF x, y
    <3> QED
      BY <1>1, <2>1, <2>2, <3>1
  <2>5. CASE p[1] = q[1]
    <3>1. x = y
      BY <2>5
    <3> HIDE DEF x, y
    <3>2. q[2] = p[2]
      BY <1>1, <2>1, <2>2, <3>1
    <3> QED
      BY <1>1, <2>1, <2>5, <3>2
  <2> QED
    BY <1>1, <2>1, <2>3, <2>4, <2>5
<1>4. BridgePort(n, p[1], p[2]) \in Nat /\ BridgePort(n, p[1], p[2]) >= n
  <2> DEFINE y == p[1] * n
  <2>1. y \in Nat /\ BridgePort(n, p[1], p[2]) = n + y + p[2]
    BY <1>1, <1>2
  <2> HIDE DEF y
  <2> QED
    BY <1>1, <2>1
<1> QED
  BY <1>1, <1>3, <1>4

(* More nodes have more pairs.                                             *)
LEMMA MorePairs ==
  ASSUME NEW n \in Nat \ {0}, NEW m \in Nat, n <= m
  PROVE  Pairs(n) # Pairs(m + 1)
<1>1. <<0, m>> \in Pairs(m + 1)
  BY DEF Pairs
<1>2. <<0, m>> \notin Pairs(n)
  BY DEF Pairs
<1> QED
  BY <1>1, <1>2

(* What remains below twice n.                                             *)
LEMMA Remainders ==
  ASSUME NEW n \in Nat \ {0}, NEW h \in 1 .. n
  PROVE  (h - 1) % n = h - 1 /\ (n + h - 1) % n = h - 1
OBVIOUS

(* A remainder is less than n.                                             *)
LEMMA RemainderBounds ==
  ASSUME NEW n \in Nat \ {0}, NEW h \in Nat
  PROVE  h % n \in 0 .. n - 1
OBVIOUS

-----------------------------------------------------------------------------
(* Types.                                                                  *)

Conn == [nodeId : Positions, port : Ports \union {Unknown}]
Member == [port : Ports, arbiter : BOOLEAN]

(* The programs are told apart.                                            *)
LEMMA ProgramsAre ==
  /\ Nothing \in Programs /\ \A d \in Positions : Node(d) \in Programs
  /\ \A p \in Ports : Bridge(p) \in Programs
  /\ \A d, e : Node(d) = Node(e) => d = e
  /\ \A d, e : Bridge(d) # Node(e) /\ Nothing # Node(e) /\ Nothing # Bridge(e)
<1>1. \A d, e : Node(d).dir = d /\ Node(d).is = "node" /\ Bridge(e).is = "bridge"
  BY DEF Node, Bridge
<1>2. Nothing.is = "nothing"
  BY DEF Nothing
<1>3. \A d, e : Node(d) = Node(e) => d = e
  BY <1>1
<1>4. \A d, e : Bridge(d) # Node(e) /\ Nothing # Node(e) /\ Nothing # Bridge(e)
  BY <1>1, <1>2
<1>5. /\ Nothing \in Programs /\ \A d \in Positions : Node(d) \in Programs
      /\ \A p \in Ports : Bridge(p) \in Programs
  BY DEF Programs
<1> QED
  BY <1>3, <1>4, <1>5

(* A place in a sequence, counted from 0 or from 1.                        *)
LEMMA PlaceIs ==
  ASSUME NEW n \in Nat
  PROVE  /\ \A k \in 0 .. n - 1 : k + 1 \in 1 .. n /\ (k + 1) - 1 = k /\ k \in Nat
         /\ \A k \in 1 .. n : k - 1 \in 0 .. n - 1 /\ (k - 1) + 1 = k
OBVIOUS

(* The sequences and what they hold.                                       *)
LEMMA SeqTypesAre ==
  ASSUME MembersTypeOK
  PROVE  /\ ports \in Seq(Ports) /\ conns \in Seq(Conn) /\ nodes \in Seq(0 .. Len(conns))
         /\ config \in Seq(Member)
BY DEF MembersTypeOK, Conn, Member

(* How long they are.                                                      *)
LEMMA LengthsAre ==
  ASSUME MembersTypeOK
  PROVE  /\ Len(ports) \in Nat /\ Len(ports) <= MaxNodes /\ MaxNodes \in Nat
         /\ DOMAIN ports = 1 .. Len(ports) /\ DOMAIN config = 1 .. Len(config)
<1>1. /\ Len(ports) \in Nat /\ DOMAIN ports = 1 .. Len(ports)
      /\ DOMAIN config = 1 .. Len(config)
  BY SeqTypesAre, LengthIs
<1>2. MaxNodes \in Nat
  BY MembersAssumption
<1>3. Len(ports) \in 1 .. MaxNodes
  BY DEF MembersTypeOK
<1> QED
  BY <1>1, <1>2, <1>3

(* What the types say.                                                     *)
LEMMA TypesAre ==
  ASSUME MembersTypeOK
  PROVE  /\ Len(ports) \in Nat /\ Len(ports) > 0 /\ Len(ports) <= MaxNodes
         /\ MaxNodes \in Nat /\ MaxPort \in Nat /\ MaxRemoved \in Nat
         /\ ports \in Seq(Ports) /\ conns \in Seq(Conn) /\ nodes \in Seq(0 .. Len(conns))
         /\ Len(conns) \in Nat /\ Len(nodes) \in Nat /\ (nodes # << >> <=> Len(nodes) > 0)
         /\ \A h \in 1 .. Len(ports) : ports[h] \in Ports /\ ports[h] \in Nat
         /\ \A h \in 1 .. Len(nodes) : nodes[h] \in 0 .. Len(conns)
         /\ \A c \in 1 .. Len(conns) : /\ conns[c].nodeId \in Positions
                                       /\ conns[c].port \in Ports \union {Unknown}
         /\ config \in Seq(Member) /\ Len(config) \in Nat
         /\ (config # << >> <=> Len(config) > 0)
         /\ Ports \subseteq Int /\ Positions \subseteq Int /\ Unknown \notin Ports
         /\ Unknown \notin Positions /\ Unknown \in Int
<1>1. MaxNodes \in Nat /\ MaxPort \in Nat /\ MaxRemoved \in Nat
  BY MembersAssumption
<1>2. Len(ports) \in Nat /\ Len(conns) \in Nat /\ Len(nodes) \in Nat /\ Len(config) \in Nat
  BY SeqTypesAre, LengthIs
<1>3. (nodes # << >> <=> Len(nodes) > 0) /\ (config # << >> <=> Len(config) > 0)
  BY SeqTypesAre, LengthIs
<1>4. Ports \subseteq Nat /\ Positions \subseteq Nat /\ Unknown = -1
  BY <1>1 DEF Ports, Positions, Unknown
<1>5. /\ ports \in Seq(Ports) /\ conns \in Seq(Conn) /\ nodes \in Seq(0 .. Len(conns))
      /\ config \in Seq(Member)
  BY SeqTypesAre
<1>6. \A c \in 1 .. Len(conns) : /\ conns[c].nodeId \in Positions
                                /\ conns[c].port \in Ports \union {Unknown}
  <2>1. \A c \in 1 .. Len(conns) : conns[c] \in Conn
    BY <1>5, ElementOfSeq
  <2> QED
    BY <2>1 DEF Conn
<1>7. \A h \in 1 .. Len(ports) : ports[h] \in Ports /\ ports[h] \in Nat
  <2>1. \A h \in 1 .. Len(ports) : ports[h] \in Ports
    BY <1>5, ElementOfSeq
  <2> QED
    BY <1>4, <2>1
<1>8. \A h \in 1 .. Len(nodes) : nodes[h] \in 0 .. Len(conns)
  BY <1>5, ElementOfSeq
<1>9. Len(ports) > 0 /\ Len(ports) <= MaxNodes
  BY <1>1, <1>2 DEF MembersTypeOK
<1>10. /\ Ports \subseteq Int /\ Positions \subseteq Int /\ Unknown \notin Ports
       /\ Unknown \notin Positions /\ Unknown \in Int
  BY <1>4
<1> QED
  BY <1>1, <1>2, <1>3, <1>5, <1>6, <1>7, <1>8, <1>9, <1>10

(* How many nodes there are, and on what ports.                            *)
LEMMA NodesAre ==
  ASSUME MembersTypeOK
  PROVE  /\ Len(nodes) <= MaxNodes
         /\ nodes # << >> => Len(ports) <= Len(nodes)
         /\ nodes # << >> /\ ~removed.back => Len(nodes) = Len(ports)
         /\ removed.n = 0 => ~removed.back
         /\ ~removed.back => \A c \in 1 .. Len(conns) : conns[c].port \in Ports
BY DEF MembersTypeOK

(* The port of a node, if there is the node.                               *)
LEMMA GetPortIs ==
  ASSUME MembersTypeOK, NEW n
  PROVE  \/ n \notin 0 .. Len(ports) - 1 /\ GetPort(n) = Unknown
         \/ /\ n \in 0 .. Len(ports) - 1 /\ n \in Positions /\ n + 1 \in 1 .. Len(ports)
            /\ GetPort(n) = ports[n + 1] /\ GetPort(n) \in Ports /\ GetPort(n) # Unknown
<1>1. CASE n \in 0 .. Len(ports) - 1
  <2>1. n + 1 \in 1 .. Len(ports) /\ n \in Positions
    BY <1>1, TypesAre DEF Positions
  <2> QED
    BY <1>1, <2>1, TypesAre DEF GetPort, PortIn, Indices, At
<1>2. CASE n \notin 0 .. Len(ports) - 1
  BY <1>2 DEF GetPort, PortIn, Indices
<1> QED
  BY <1>1, <1>2

(* The position of a connection, or what it was started as.                *)
LEMMA GetNodeIdIs ==
  ASSUME MembersTypeOK, NEW c \in 1 .. Len(conns)
  PROVE  /\ GetNodeId(c) \in Positions \union {Unknown}
         /\ \/ GetNodeId(c) = Unknown
            \/ GetNodeId(c) = conns[c].nodeId
            \/ /\ GetNodeId(c) \in 0 .. Len(nodes) - 1 /\ GetNodeId(c) + 1 \in 1 .. Len(nodes)
               /\ nodes[GetNodeId(c) + 1] = c
<1>1. CASE \E n \in Indices(nodes) : At(nodes, n) = c
  <2>1. GetNodeId(c) \in Indices(nodes) /\ At(nodes, GetNodeId(c)) = c
    BY <1>1 DEF GetNodeId
  <2>2. /\ GetNodeId(c) \in 0 .. Len(nodes) - 1 /\ GetNodeId(c) + 1 \in 1 .. Len(nodes)
        /\ nodes[GetNodeId(c) + 1] = c
    <3>1. \A n \in 0 .. Len(nodes) - 1 : n + 1 \in 1 .. Len(nodes)
      <4>1. Len(nodes) \in Nat
        BY TypesAre
      <4> QED
        BY <4>1
    <3> QED
      BY <2>1, <3>1 DEF Indices, At
  <2>3. GetNodeId(c) \in Positions
    <3>1. Len(nodes) \in Nat /\ MaxNodes \in Nat /\ Len(nodes) <= MaxNodes
      BY TypesAre, NodesAre
    <3> DEFINE n == GetNodeId(c)
    <3>2. n \in 0 .. Len(nodes) - 1
      BY <2>2
    <3> HIDE DEF n
    <3>3. n \in 0 .. MaxNodes - 1
      BY <3>1, <3>2
    <3> QED
      BY <3>3 DEF Positions, n
  <2> QED
    BY <2>2, <2>3
<1>2. CASE ~ \E n \in Indices(nodes) : At(nodes, n) = c
  <2>1. GetNodeId(c) = IF conns[c].nodeId # 0 THEN conns[c].nodeId ELSE Unknown
    BY <1>2 DEF GetNodeId
  <2> QED
    BY <2>1, TypesAre
<1> QED
  BY <1>1, <1>2

(* A sequence without the member at n.                                     *)
LEMMA WithoutIs ==
  ASSUME NEW S, NEW s \in Seq(S), NEW n \in 0 .. Len(s) - 1
  PROVE  /\ Without(s, n) \in Seq(S) /\ Len(Without(s, n)) = Len(s) - 1
         /\ \A h \in 1 .. n : Without(s, n)[h] = s[h]
<1> DEFINE before == SubSeq(s, 1, n)
           final == SubSeq(s, n + 2, Len(s))
<1>1. n \in Nat /\ Len(s) \in Nat /\ n < Len(s)
  OBVIOUS
<1>2. before \in Seq(S) /\ Len(before) = n /\ \A h \in 1 .. n : before[h] = s[h]
  <2>1. \A h \in 1 .. n : s[h] \in S
    BY <1>1
  <2>2. 1 \in Int /\ n \in Int /\ n - 1 + 1 = n /\ (1 <= n \/ n = 0)
    BY <1>1
  <2>3. /\ before \in Seq(S) /\ Len(before) = IF 1 <= n THEN n - 1 + 1 ELSE 0
        /\ \A h \in 1 .. n - 1 + 1 : before[h] = s[1 + h - 1]
    BY <2>1, <2>2, SubSeqProperties
  <2>4. \A h \in 1 .. n : before[h] = s[h]
    BY <1>1, <2>2, <2>3
  <2> QED
    BY <1>1, <2>2, <2>3, <2>4
<1>3. final \in Seq(S) /\ Len(final) = Len(s) - n - 1
  <2>1. \A h \in n + 2 .. Len(s) : s[h] \in S
    BY <1>1
  <2>2. n + 2 \in Int /\ Len(s) \in Int
    BY <1>1
  <2>3. final \in Seq(S) /\ Len(final) = IF n + 2 <= Len(s) THEN Len(s) - (n + 2) + 1 ELSE 0
    BY <2>1, <2>2, SubSeqProperties
  <2> QED
    BY <1>1, <2>3
<1> HIDE DEF before, final
<1>4. /\ before \o final \in Seq(S) /\ Len(before \o final) = n + (Len(s) - n - 1)
      /\ \A h \in 1 .. n + (Len(s) - n - 1) :
           (before \o final)[h] = IF h <= n THEN before[h] ELSE final[h - n]
  <2>1. /\ before \o final \in Seq(S) /\ Len(before \o final) = Len(before) + Len(final)
        /\ \A h \in 1 .. Len(before) + Len(final) :
             (before \o final)[h] = IF h <= Len(before) THEN before[h]
                                                       ELSE final[h - Len(before)]
    BY <1>2, <1>3, ConcatProperties
  <2> QED
    BY <1>2, <1>3, <2>1
<1>5. \A h \in 1 .. n : h \in 1 .. n + (Len(s) - n - 1) /\ h <= n
  BY <1>1
<1>6. Without(s, n) = before \o final
  BY <1>1 DEF Without, before, final
<1> QED
  BY <1>1, <1>2, <1>4, <1>5, <1>6

(* A function from 1 to n is a sequence.                                   *)
LEMMA FunctionIsSeq ==
  ASSUME NEW S, NEW m \in Nat, NEW f \in [1 .. m -> S]
  PROVE  f \in Seq(S) /\ Len(f) = m
OBVIOUS

(* s after c was put in place n.                                           *)
PutIn(t, s, n, c) ==
  /\ Len(t) = IF n < Len(s) THEN Len(s) ELSE n + 1
  /\ \A h \in 1 .. Len(t) :
       t[h] = IF h = n + 1 THEN c ELSE IF h \in 1 .. Len(s) THEN s[h] ELSE Gap

(* A connection in its place.                                              *)
LEMMA PlacedIs ==
  ASSUME NEW S, NEW s \in Seq(S), NEW n \in Nat, NEW c \in S, Gap \in S
  PROVE  Placed(s, n, c) \in Seq(S) /\ PutIn(Placed(s, n, c), s, n, c)
<1> DEFINE len == IF n < Len(s) THEN Len(s) ELSE n + 1
<1>1. Len(s) \in Nat /\ DOMAIN s = 1 .. Len(s) /\ \A h \in 1 .. Len(s) : s[h] \in S
  <2>1. Len(s) \in Nat /\ DOMAIN s = 1 .. Len(s)
    BY LengthIs
  <2> QED
    BY <2>1, ElementOfSeq
<1>2. len \in Nat
  BY <1>1
<1>3. Placed(s, n, c) = [h \in 1 .. len |->
        IF h = n + 1 THEN c ELSE IF h \in 1 .. Len(s) THEN s[h] ELSE Gap]
  BY <1>1 DEF Placed
<1> HIDE DEF len
<1>4. Placed(s, n, c) \in [1 .. len -> S]
  BY <1>1, <1>3
<1>5. Placed(s, n, c) \in Seq(S) /\ Len(Placed(s, n, c)) = len
  BY <1>2, <1>4, FunctionIsSeq
<1>6. \A h \in 1 .. len :
        Placed(s, n, c)[h] = IF h = n + 1 THEN c ELSE IF h \in 1 .. Len(s) THEN s[h] ELSE Gap
  BY <1>3
<1> QED
  BY <1>5, <1>6 DEF len, PutIn

-----------------------------------------------------------------------------
(* The inductive invariant.                                                *)

(* Until a node before the last is removed, a node's position is its port, *)
(* what its connections were started as (unless MongoRunner chose their    *)
(* port), and its place in the configuration.                              *)
InPlace ==
  ~removed.inner =>
    /\ ~rejected
    /\ \A h \in 1 .. Len(ports) : ports[h] = h - 1
    /\ \A c \in 1 .. Len(conns) : conns[c].port \in {conns[c].nodeId, Unknown}
    /\ \A h \in 1 .. Len(nodes) : nodes[h] # Gap => conns[nodes[h]].nodeId = h - 1
    /\ \A h \in 1 .. Len(config) : /\ config[h].port = h - 1
                                   /\ config[h].arbiter = (h - 1 \in ArbiterPositions)

(* Until a node is removed, no connection was made for and no directory is *)
(* in use but those of the nodes, and without bridges no port.             *)
Housed ==
  removed.n = 0 =>
    /\ ~removed.inner
    /\ \A c \in 1 .. Len(conns) : conns[c].nodeId < Len(ports)
    /\ \A p \in Ports : \A d \in Positions : running[p] = Node(d) => d < Len(ports)
    /\ ~bridged => \A p \in Ports : p >= Len(ports) => running[p] = Nothing

(* The bridges are those of the nodes there were.                          *)
BridgesMade ==
  /\ ~bridged => DOMAIN bridges = {} /\ cut = {}
  /\ bridged => config # << >>
  /\ bridged /\ removed.n = 0 => \E n \in 1 .. Len(nodes) : DOMAIN bridges = Pairs(n)

Whole == bridged /\ ~over /\ removed.n = 0 /\ DOMAIN bridges = Pairs(Len(nodes))

(* While those are all, each is on its port unless it is cut, and one node *)
(* reaches another through it.                                             *)
Linked ==
  Whole =>
    \A p \in DOMAIN bridges :
      /\ bridges[p].port = BridgePort(Len(nodes), p[1], p[2]) /\ bridges[p].dest = p[2]
      /\ route[p[1]][p[2] + 1] = bridges[p].port
      /\ running[bridges[p].port] = IF {p[1], p[2]} \in cut THEN Nothing ELSE Bridge(p[2])

MembersInv == MembersTypeOK /\ InPlace /\ Housed /\ BridgesMade /\ Linked

(* A test that has not started the set.                                    *)
LEMMA MembersInitInv == MembersInit => MembersInv
<1> SUFFICES ASSUME MembersInit PROVE MembersInv
  OBVIOUS
<1>1. /\ NumMembers \in Nat /\ NumMembers > 0 /\ NumMembers <= MaxNodes /\ NumMembers <= MaxPort + 1
      /\ MaxPort \in Nat /\ MaxNodes \in Nat /\ MaxRemoved \in Nat
  BY MembersAssumption
<1>2. /\ ports \in Seq(Ports) /\ Len(ports) = NumMembers
      /\ \A h \in 1 .. NumMembers : ports[h] = h - 1
  <2>1. \A h \in 1 .. NumMembers : h - 1 \in Ports
    BY <1>1 DEF Ports
  <2>2. ports \in [1 .. NumMembers -> Ports]
    BY <2>1 DEF MembersInit
  <2> QED
    BY <1>1, <2>2 DEF MembersInit
<1>3. MembersTypeOK
  <2>1. bridges \in [Pairs(0) -> [port : Ports, dest : Ports]] /\ DOMAIN bridges = {}
    BY DEF MembersInit, NoBridges, Pairs
  <2>2. running \in [Ports -> Programs]
    BY ProgramsAre DEF MembersInit
  <2>3. nodes = << >> /\ conns = << >> /\ config = << >> /\ \A S : << >> \in Seq(S)
    BY DEF MembersInit
  <2>4. /\ removed \in [n : 0 .. MaxRemoved, inner : BOOLEAN, back : BOOLEAN] /\ ~removed.back
        /\ elsewhere = {} /\ \A c \in 1 .. Len(conns) : conns[c].port \in Ports
    <3>1. 1 .. Len(conns) = {}
      BY <2>3, EmptySeq
    <3> QED
      BY <1>1, <3>1 DEF MembersInit
  <2>5. route \in [Ports -> Seq(Ports)]
    BY <2>3 DEF MembersInit
  <2>6. 0 \in 0 .. MaxNodes /\ Len(ports) \in 1 .. MaxNodes /\ Len(nodes) <= MaxNodes
    BY <1>1, <1>2, <2>3, EmptySeq
  <2>7. /\ conns \in Seq([nodeId : Positions, port : Ports \union {Unknown}])
        /\ nodes \in Seq(0 .. Len(conns))
        /\ config \in Seq([port : Ports, arbiter : BOOLEAN])
    BY <2>3
  <2>8. /\ dbpaths \subseteq Positions /\ cut \subseteq SUBSET Positions
        /\ bridged \in BOOLEAN /\ rejected \in BOOLEAN /\ over \in BOOLEAN
    BY DEF MembersInit
  <2>9. \E n \in 0 .. MaxNodes : bridges \in [Pairs(n) -> [port : Ports, dest : Ports]]
    BY <2>1, <2>6
  <2> QED
    BY <1>2, <2>2, <2>3, <2>4, <2>5, <2>6, <2>7, <2>8, <2>9 DEF MembersTypeOK
<1>4. Len(nodes) = 0 /\ Len(conns) = 0 /\ Len(config) = 0 /\ DOMAIN bridges = {}
  BY EmptySeq DEF MembersInit, NoBridges
<1>5. InPlace
  <2>1. ~rejected /\ \A h \in 1 .. Len(ports) : ports[h] = h - 1
    BY <1>2 DEF MembersInit
  <2>2. 1 .. Len(nodes) = {} /\ 1 .. Len(conns) = {} /\ 1 .. Len(config) = {}
    BY <1>4
  <2> QED
    BY <2>1, <2>2 DEF InPlace
<1>6. Housed
  <2>1. 1 .. Len(conns) = {}
    BY <1>4
  <2> QED
    BY <2>1, ProgramsAre DEF MembersInit, Housed
<1>7. BridgesMade /\ Linked
  BY <1>4 DEF MembersInit, BridgesMade, Linked, Whole
<1> QED
  BY <1>3, <1>5, <1>6, <1>7 DEF MembersInv

(* The nodes after c was put in place n.                                   *)
Put(n, c) ==
  nodes' \in Seq(0 .. Len(conns')) /\ nodes' # << >> /\ PutIn(nodes', nodes, n, c)

(* The connections after a start as n on port p.                           *)
Grown(n, p) ==
  /\ conns' \in Seq(Conn) /\ Len(conns') = Len(conns) + 1
  /\ \A c \in 1 .. Len(conns) : conns'[c] = conns[c]
  /\ conns'[Len(conns) + 1].nodeId = n /\ conns'[Len(conns) + 1].port = p

(* this.nodes[n] = c makes the nodes so.                                   *)
LEMMA PutIs ==
  ASSUME MembersTypeOK, NEW n \in Positions, NEW c \in 0 .. Len(conns'),
         Len(conns') \in Nat, Len(conns) <= Len(conns'), nodes' = Placed(nodes, n, c)
  PROVE  Put(n, c)
<1> DEFINE S == 0 .. Len(conns')
<1>1. n \in Nat /\ Gap \in S
  BY DEF Positions, Gap
<1>2. nodes \in Seq(S)
  <2>1. 0 .. Len(conns) \subseteq S
    BY TypesAre
  <2>2. nodes \in Seq(0 .. Len(conns))
    BY TypesAre
  <2> HIDE DEF S
  <2> QED
    BY <2>1, <2>2
<1>3. c \in S
  OBVIOUS
<1> HIDE DEF S
<1>4. nodes' \in Seq(S) /\ PutIn(nodes', nodes, n, c)
  BY <1>1, <1>2, <1>3, PlacedIs
<1>5. Len(nodes') # 0
  BY <1>1, <1>4, TypesAre DEF PutIn
<1>6. nodes' # << >>
  BY <1>5, EmptySeq
<1> QED
  BY <1>4, <1>6 DEF Put, S

(* start makes the connections so, and the nodes.                          *)
LEMMA GrownIs ==
  ASSUME MembersTypeOK, NEW n \in Positions, NEW p \in Ports \union {Unknown},
         conns' = Append(conns, [nodeId |-> n, port |-> p]),
         nodes' = Placed(nodes, n, Len(conns'))
  PROVE  Grown(n, p) /\ Put(n, Len(conns) + 1)
<1> DEFINE new == [nodeId |-> n, port |-> p]
<1>1. new \in Conn /\ conns \in Seq(Conn)
  BY TypesAre DEF Conn
<1>2. /\ conns' \in Seq(Conn) /\ Len(conns') = Len(conns) + 1
      /\ \A c \in 1 .. Len(conns) : conns'[c] = conns[c]
      /\ conns'[Len(conns) + 1] = new
  BY <1>1, AppendProperties
<1>3. /\ Len(conns') \in Nat /\ Len(conns') \in 0 .. Len(conns') /\ Len(conns) <= Len(conns')
  BY <1>2, TypesAre
<1>4. Put(n, Len(conns'))
  <2> DEFINE c == Len(conns')
  <2>1. c \in 0 .. Len(conns') /\ nodes' = Placed(nodes, n, c)
    BY <1>3
  <2> HIDE DEF c
  <2>2. Put(n, c)
    BY <1>3, <2>1, PutIs
  <2> QED
    BY <2>2 DEF c
<1> QED
  BY <1>2, <1>4 DEF Grown

(* The new connection is in its place, and the others are still in theirs. *)
LEMMA GrownInPlace ==
  ASSUME MembersTypeOK, InPlace, ~removed.inner, NEW n \in Positions, NEW p \in {n, Unknown},
         Grown(n, p), Put(n, Len(conns) + 1)
  PROVE  /\ \A c \in 1 .. Len(conns') : conns'[c].port \in {conns'[c].nodeId, Unknown}
         /\ \A h \in 1 .. Len(nodes') : nodes'[h] # Gap => conns'[nodes'[h]].nodeId = h - 1
<1>1. \A c \in 1 .. Len(conns') : c \in 1 .. Len(conns) \/ c = Len(conns) + 1
  BY TypesAre DEF Grown
<1>2. \A c \in 1 .. Len(conns') : conns'[c].port \in {conns'[c].nodeId, Unknown}
  BY <1>1 DEF Grown, InPlace
<1>3. ASSUME NEW h \in 1 .. Len(nodes'), nodes'[h] # Gap
      PROVE  conns'[nodes'[h]].nodeId = h - 1
  <2>1. CASE h = n + 1
    <3>1. nodes'[h] = Len(conns) + 1
      BY <1>3, <2>1 DEF Put, PutIn
    <3>2. h - 1 = n
      <4>1. n \in Int
        BY TypesAre
      <4> QED
        BY <2>1, <4>1
    <3> QED
      BY <3>1, <3>2 DEF Grown
  <2>2. CASE h # n + 1
    <3>1. h \in 1 .. Len(nodes) /\ nodes'[h] = nodes[h]
      BY <1>3, <2>2 DEF Put, PutIn
    <3>2. nodes[h] \in 1 .. Len(conns)
      <4>1. nodes[h] \in 0 .. Len(conns) /\ nodes[h] # 0 /\ Len(conns) \in Nat
        BY <1>3, <3>1, TypesAre DEF Gap
      <4> QED
        BY <4>1
    <3>3. conns'[nodes[h]] = conns[nodes[h]] /\ conns[nodes[h]].nodeId = h - 1
      BY <1>3, <3>1, <3>2 DEF Grown, InPlace
    <3> QED
      BY <3>1, <3>3
  <2> QED
    BY <2>1, <2>2
<1> QED
  BY <1>2, <1>3

(* Where a node is of those the test knows by their ports.                 *)
LEMMA At0Is ==
  ASSUME MembersTypeOK, NEW p \in NodePorts
  PROVE  /\ p \in Ports /\ At0(p) \in 0 .. Len(ports) - 1 /\ At0(p) \in Positions
         /\ ports[At0(p) + 1] = p
<1>1. PICK h \in 1 .. Len(ports) : p = ports[h]
  BY TypesAre DEF NodePorts
<1>2. h - 1 \in Indices(ports) /\ At(ports, h - 1) = p
  BY <1>1, TypesAre DEF Indices, At
<1>3. At0(p) \in Indices(ports) /\ At(ports, At0(p)) = p
  BY <1>2 DEF At0
<1>4. /\ At0(p) \in 0 .. Len(ports) - 1 /\ ports[At0(p) + 1] = p
  BY <1>3 DEF Indices, At
<1>5. 0 .. Len(ports) - 1 \subseteq Positions
  BY TypesAre DEF Positions
<1> QED
  BY <1>1, <1>4, <1>5, TypesAre

(* As long as nothing was removed the ports of the nodes are the first.    *)
LEMMA NodePortsAre ==
  ASSUME MembersTypeOK, InPlace, ~removed.inner
  PROVE  /\ \A p \in NodePorts : p \in 0 .. Len(ports) - 1 /\ At0(p) = p
         /\ \A p \in 0 .. Len(ports) - 1 : p \in NodePorts
<1>1. ASSUME NEW p \in NodePorts PROVE p \in 0 .. Len(ports) - 1 /\ At0(p) = p
  <2>1. At0(p) \in 0 .. Len(ports) - 1 /\ ports[At0(p) + 1] = p
    BY At0Is
  <2>2. At0(p) + 1 \in 1 .. Len(ports) /\ (At0(p) + 1) - 1 = At0(p)
    BY <2>1, LengthsAre, PlaceIs
  <2>3. ports[At0(p) + 1] = (At0(p) + 1) - 1
    BY <2>2 DEF InPlace
  <2> QED
    BY <2>1, <2>2, <2>3
<1>2. ASSUME NEW p \in 0 .. Len(ports) - 1 PROVE p \in NodePorts
  <2>1. p + 1 \in 1 .. Len(ports) /\ (p + 1) - 1 = p
    BY LengthsAre, PlaceIs
  <2>2. ports[p + 1] = p
    BY <2>1 DEF InPlace
  <2>3. p + 1 \in DOMAIN ports
    BY <2>1, LengthsAre
  <2> QED
    BY <2>2, <2>3 DEF NodePorts
<1> QED
  BY <1>1, <1>2

(* A step that stops and starts nodes on ports that are theirs.            *)
LEMMA NodesChange ==
  ASSUME MembersInv, running' \in [Ports -> Programs],
         \A p \in Ports : \/ running'[p] = running[p]
                          \/ p \in NodePorts /\ running'[p] = Nothing
                          \/ p \in NodePorts /\ \E d \in 0 .. Len(ports) - 1 : running'[p] = Node(d),
         UNCHANGED <<ports, bridgeVars, config, rejected, over>>,
         removed'.n = removed.n, removed'.inner = removed.inner,
         removed.n = 0 => /\ Len(nodes') = Len(nodes)
                          /\ \A c \in 1 .. Len(conns') : conns'[c].nodeId < Len(ports)
  PROVE  Housed' /\ BridgesMade' /\ Linked'
<1> USE DEF MembersInv
<1>1. Housed'
  <2> SUFFICES ASSUME removed.n = 0 PROVE Housed'
    BY DEF Housed
  <2>1. ~removed.inner /\ ~removed'.inner /\ ports' = ports /\ bridged' = bridged
    BY DEF Housed, bridgeVars
  <2>2. ASSUME NEW p \in Ports, NEW d \in Positions, running'[p] = Node(d) PROVE d < Len(ports)
    <3>1. CASE running'[p] = running[p]
      BY <2>2, <3>1 DEF Housed
    <3>2. CASE running'[p] = Nothing
      BY <2>2, <3>2, ProgramsAre
    <3>3. CASE \E e \in 0 .. Len(ports) - 1 : running'[p] = Node(e)
      <4>1. d \in 0 .. Len(ports) - 1
        BY <2>2, <3>3, ProgramsAre
      <4> QED
        BY <4>1, TypesAre
    <3> QED
      BY <3>1, <3>2, <3>3
  <2>3. ASSUME ~bridged, NEW p \in Ports, p >= Len(ports) PROVE running'[p] = Nothing
    <3>1. p \notin NodePorts
      BY <2>1, <2>3, NodePortsAre, TypesAre
    <3> QED
      BY <2>3, <3>1 DEF Housed
  <2> QED
    BY <2>1, <2>2, <2>3 DEF Housed
<1>2. BridgesMade'
  BY DEF BridgesMade, bridgeVars
<1>3. Linked'
  <2> SUFFICES ASSUME Whole PROVE Linked'
    BY DEF Linked, Whole, bridgeVars
  <2>1. /\ UNCHANGED <<bridges, route, cut>> /\ ~removed.inner /\ DOMAIN bridges = Pairs(Len(nodes))
        /\ Len(nodes) \in Nat /\ Len(nodes') = Len(nodes) /\ removed.n = 0
    BY TypesAre DEF bridgeVars, Whole, Housed
  <2>2. ASSUME NEW p \in DOMAIN bridges
        PROVE  running'[bridges[p].port] = running[bridges[p].port]
    <3>1. bridges[p].port \in Ports
      BY DEF MembersTypeOK
    <3>2. bridges[p].port = BridgePort(Len(nodes), p[1], p[2])
      BY DEF Linked
    <3>3. bridges[p].port >= Len(nodes) /\ bridges[p].port \in Nat
      <4>1. p \in Pairs(Len(nodes)) /\ Len(nodes) \in Nat
        BY <2>1
      <4>2. /\ BridgePort(Len(nodes), p[1], p[2]) >= Len(nodes)
            /\ BridgePort(Len(nodes), p[1], p[2]) \in Nat
        BY <4>1, BridgePortsAre
      <4> QED
        BY <3>2, <4>2
    <3>4. Len(nodes) = Len(ports)
      <4>1. nodes # << >>
        BY DEF Whole, BridgesMade, MembersTypeOK
      <4> QED
        BY <2>1, <4>1, NodesAre
    <3>5. bridges[p].port \notin NodePorts
      <4> DEFINE x == bridges[p].port
      <4>1. x \in Nat /\ x >= Len(ports) /\ Len(ports) \in Nat
        BY <3>3, <3>4, LengthsAre
      <4>2. x \in NodePorts => x \in 0 .. Len(ports) - 1
        BY <2>1, NodePortsAre
      <4> HIDE DEF x
      <4>3. x \notin NodePorts
        BY <4>1, <4>2
      <4> QED
        BY <4>3 DEF x
    <3> QED
      BY <3>1, <3>5
  <2> QED
    BY <2>1, <2>2 DEF Linked
<1> QED
  BY <1>1, <1>2, <1>3

(* startSet: every position at once, on ports where nothing runs.          *)
LEMMA StartSetKeeps == ASSUME MembersInv, StartSet PROVE MembersInv'
<1> USE DEF MembersInv
<1>1. nodes = << >> /\ config = << >> /\ ~bridged /\ Len(nodes) = 0
  BY EmptySeq DEF StartSet, MembersTypeOK, BridgesMade
<1>2. /\ UNCHANGED <<ports, elsewhere, config, bridges, bridged, route, cut, removed, rejected, over>>
      /\ nodes' = [h \in 1 .. Len(ports) |-> h]
      /\ conns' = [h \in 1 .. Len(ports) |-> [nodeId |-> h - 1, port |-> ports[h]]]
  BY DEF StartSet, bridgeVars
<1>3. conns' \in Seq(Conn) /\ Len(conns') = Len(ports)
  <2>1. \A h \in 1 .. Len(ports) : h - 1 \in Positions /\ ports[h] \in Ports
    <3>1. \A h \in 1 .. Len(ports) : h - 1 \in Positions
      BY LengthsAre DEF Positions
    <3>2. \A h \in 1 .. Len(ports) : ports[h] \in Ports
      BY SeqTypesAre, ElementOfSeq
    <3> QED
      BY <3>1, <3>2
  <2>2. conns' \in [1 .. Len(ports) -> Conn]
    BY <1>2, <2>1 DEF Conn
  <2> QED
    BY <2>2, FunctionIsSeq, TypesAre
<1>4. nodes' \in Seq(0 .. Len(conns')) /\ Len(nodes') = Len(ports) /\ nodes' # << >>
  <2> DEFINE S == 0 .. Len(conns')
  <2>1. nodes' \in [1 .. Len(ports) -> S]
    BY <1>2, <1>3
  <2> HIDE DEF S
  <2>2. nodes' \in Seq(S) /\ Len(nodes') = Len(ports)
    BY <2>1, FunctionIsSeq, TypesAre
  <2> USE DEF S
  <2> QED
    BY <2>2, TypesAre, EmptySeq
<1>5. /\ running' \in [Ports -> Programs]
      /\ \A p \in Ports : \/ p \in NodePorts /\ running'[p] = Node(At0(p))
                          \/ p \notin NodePorts /\ running'[p] = running[p]
  BY At0Is, ProgramsAre DEF StartSet, MembersTypeOK
<1>6. MembersTypeOK'
  <2>1. dbpaths' \subseteq Positions
    BY TypesAre DEF StartSet, Indices, Positions
  <2>2. Len(nodes') <= MaxNodes /\ Len(ports) <= Len(nodes')
    BY <1>4, TypesAre
  <2>3. \A c \in 1 .. Len(conns') : conns'[c].port \in Ports
    BY <1>2, <1>3, TypesAre
  <2> QED
    BY <1>2, <1>3, <1>4, <1>5, <2>1, <2>2, <2>3 DEF MembersTypeOK, Conn
<1>7. InPlace'
  <2> SUFFICES ASSUME ~removed.inner PROVE InPlace'
    BY <1>2 DEF InPlace
  <2>1. \A h \in 1 .. Len(ports) : /\ conns'[h].nodeId = h - 1 /\ conns'[h].port = ports[h]
                                   /\ nodes'[h] = h /\ ports[h] = h - 1
    BY <1>2 DEF InPlace
  <2> QED
    BY <1>2, <1>3, <1>4, <2>1 DEF InPlace
<1>8. Housed'
  <2> SUFFICES ASSUME removed.n = 0 PROVE Housed'
    BY <1>2 DEF Housed
  <2>1. ~removed.inner
    BY DEF Housed
  <2>2. ASSUME NEW p \in Ports, NEW d \in Positions, running'[p] = Node(d) PROVE d < Len(ports)
    <3>1. CASE p \in NodePorts
      <4>1. d = At0(p)
        BY <1>5, <2>2, <3>1, ProgramsAre
      <4> QED
        BY <3>1, <4>1, At0Is, TypesAre
    <3>2. CASE p \notin NodePorts
      BY <1>5, <2>2, <3>2 DEF Housed
    <3> QED
      BY <3>1, <3>2
  <2>3. ASSUME NEW p \in Ports, p >= Len(ports) PROVE running'[p] = Nothing
    <3>1. p \notin NodePorts
      BY <2>1, <2>3, NodePortsAre, TypesAre
    <3> QED
      BY <1>1, <1>5, <2>3, <3>1 DEF Housed
  <2>4. ASSUME NEW c \in 1 .. Len(conns') PROVE conns'[c].nodeId < Len(ports)
    <3>1. conns'[c].nodeId = c - 1 /\ c \in 1 .. Len(ports) /\ Len(ports) \in Nat
      BY <1>2, <1>3, TypesAre
    <3> QED
      BY <3>1
  <2> QED
    BY <1>2, <2>1, <2>2, <2>3, <2>4 DEF Housed
<1>9. BridgesMade' /\ Linked'
  BY <1>1, <1>2 DEF BridgesMade, Linked, Whole
<1> QED
  BY <1>6, <1>7, <1>8, <1>9

(* stop: nothing runs on the node's port.                                  *)
LEMMA StopKeeps == ASSUME MembersInv, NEW c, Stop(c) PROVE MembersInv'
<1> USE DEF MembersInv
<1>1. UNCHANGED <<nodeVars, bridgeVars, elsewhere, config, removed, rejected, over>>
  BY DEF Stop
<1> DEFINE q == GetPort(GetNodeId(c))
<1>2. running' = IF q \in Ports THEN [running EXCEPT ![q] = Nothing] ELSE running
  BY DEF Stop, Stopped
<1>3. q \in Ports => q \in NodePorts
  <2>1. \/ q = Unknown
        \/ GetNodeId(c) + 1 \in 1 .. Len(ports) /\ q = ports[GetNodeId(c) + 1]
    BY GetPortIs
  <2> QED
    BY <2>1, TypesAre DEF NodePorts
<1> HIDE DEF q
<1>4. running' \in [Ports -> Programs]
  BY <1>2, ProgramsAre DEF MembersTypeOK
<1>5. \A p \in Ports : running'[p] = running[p] \/ (p \in NodePorts /\ running'[p] = Nothing)
  BY <1>2, <1>3 DEF MembersTypeOK
<1>6. MembersTypeOK' /\ InPlace'
  BY <1>1, <1>4 DEF MembersTypeOK, InPlace, nodeVars, bridgeVars
<1>7. Housed' /\ BridgesMade' /\ Linked'
  <2>1. removed.n = 0 => \A d \in 1 .. Len(conns') : conns'[d].nodeId < Len(ports)
    BY <1>1 DEF Housed, nodeVars
  <2> QED
    BY <1>1, <1>4, <1>5, <2>1, NodesChange DEF nodeVars
<1> QED
  BY <1>6, <1>7

(* restart: the node of the position is stopped, then started on its port, *)
(* or on another when the set has none for it.                             *)
LEMMA RestartNodeKeeps == ASSUME MembersInv, NEW c, RestartNode(c) PROVE MembersInv'
<1> USE DEF MembersInv
<1> DEFINE n == GetNodeId(c)
           q == GetPort(n)
           run == Stopped(running, q)
<1>1. /\ UNCHANGED <<ports, bridgeVars, config, rejected, over>>
      /\ c \in 1 .. Len(conns) /\ nodes # << >> /\ n # Unknown
      /\ IF Locked(n, run) THEN StartFails(n, run) ELSE StartNode(n, q, run)
      /\ removed' = [removed EXCEPT !.back = removed.back \/ q = Unknown]
  BY DEF RestartNode, InSet
<1>2. n \in Positions /\ (n = conns[c].nodeId \/ n \in 0 .. Len(nodes) - 1)
  BY <1>1, GetNodeIdIs
<1> HIDE DEF n
<1>3. \/ q = Unknown /\ n \notin 0 .. Len(ports) - 1
      \/ /\ n \in 0 .. Len(ports) - 1 /\ n + 1 \in 1 .. Len(ports)
         /\ q = ports[n + 1] /\ q \in Ports /\ q # Unknown /\ q \in NodePorts
  <2>1. CASE n \in 0 .. Len(ports) - 1
    <3>1. n + 1 \in 1 .. Len(ports) /\ q = ports[n + 1] /\ q \in Ports /\ q # Unknown
      BY <2>1, GetPortIs
    <3>2. n + 1 \in DOMAIN ports
      BY <3>1, LengthsAre
    <3> HIDE DEF q
    <3>3. q \in NodePorts
      BY <3>1, <3>2 DEF NodePorts
    <3> QED
      BY <2>1, <3>1, <3>3
  <2>2. CASE n \notin 0 .. Len(ports) - 1
    BY <2>2, GetPortIs
  <2> QED
    BY <2>1, <2>2
<1>4. q \in Ports \union {Unknown}
  BY <1>3
<1> HIDE DEF q
<1>5. /\ run \in [Ports -> Programs]
      /\ \A p \in Ports : run[p] = IF p = q THEN Nothing ELSE running[p]
  BY <1>3, ProgramsAre, TypesAre DEF Stopped, MembersTypeOK
<1> HIDE DEF run
<1>6. \/ /\ running' = run /\ nodes' = Placed(nodes, n, Gap) /\ UNCHANGED <<conns, elsewhere>>
         /\ dbpaths' = dbpaths \union {n}
      \/ /\ running' = Started(run, n, q) /\ nodes' = Placed(nodes, n, Len(conns'))
         /\ conns' = Append(conns, [nodeId |-> n, port |-> q])
         /\ elsewhere' = IF q = Unknown THEN elsewhere \union {n} ELSE elsewhere
         /\ dbpaths' = dbpaths \union {n}
  BY <1>1 DEF StartFails, StartNode
<1>7. \/ UNCHANGED <<conns, elsewhere>> /\ Put(n, Gap)
      \/ /\ Grown(n, q) /\ Put(n, Len(conns) + 1)
         /\ elsewhere' = IF q = Unknown THEN elsewhere \union {n} ELSE elsewhere
  <2>1. CASE running' = run /\ nodes' = Placed(nodes, n, Gap) /\ UNCHANGED <<conns, elsewhere>>
    <3>1. Gap \in 0 .. Len(conns') /\ Len(conns') \in Nat /\ Len(conns) <= Len(conns')
      BY <2>1, TypesAre DEF Gap
    <3> QED
      BY <1>2, <2>1, <3>1, PutIs
  <2>2. CASE /\ nodes' = Placed(nodes, n, Len(conns'))
             /\ conns' = Append(conns, [nodeId |-> n, port |-> q])
             /\ elsewhere' = IF q = Unknown THEN elsewhere \union {n} ELSE elsewhere
    <3>1. Grown(n, q) /\ Put(n, Len(conns) + 1)
      BY <1>2, <1>4, <2>2, GrownIs
    <3> QED
      BY <2>2, <3>1
  <2> QED
    BY <1>6, <2>1, <2>2
<1>8. removed.n = 0 => n < Len(ports) /\ n \in 0 .. Len(ports) - 1 /\ Len(nodes) = Len(ports)
  <2> SUFFICES ASSUME removed.n = 0
               PROVE  n < Len(ports) /\ n \in 0 .. Len(ports) - 1 /\ Len(nodes) = Len(ports)
    OBVIOUS
  <2>1. Len(nodes) = Len(ports) /\ Len(nodes) \in Nat
    BY <1>1, TypesAre, NodesAre
  <2>2. conns[c].nodeId < Len(ports)
    BY <1>1 DEF Housed
  <2>3. n \in Nat
    BY <1>2 DEF Positions
  <2> QED
    BY <1>2, <2>1, <2>2, <2>3
<1>9. ~removed'.back => ~removed.back /\ n \in 0 .. Len(ports) - 1 /\ Len(nodes) = Len(ports)
  <2>1. removed'.back = (removed.back \/ q = Unknown)
    BY <1>1 DEF MembersTypeOK
  <2> QED
    BY <1>1, <1>3, <2>1, NodesAre
<1>10. /\ Len(nodes') = IF n < Len(nodes) THEN Len(nodes) ELSE n + 1
       /\ nodes' \in Seq(0 .. Len(conns')) /\ nodes' # << >>
  BY <1>7 DEF Put, PutIn
<1>11. /\ running' \in [Ports -> Programs]
       /\ \A p \in Ports : \/ running'[p] = running[p]
                           \/ p \in NodePorts /\ running'[p] = Nothing
                           \/ p \in NodePorts /\ n \in 0 .. Len(ports) - 1 /\ running'[p] = Node(n)
  <2>1. CASE running' = run
    BY <1>3, <1>5, <2>1, TypesAre
  <2>2. CASE running' = Started(run, n, q)
    <3>1. running' = IF q \in Ports /\ run[q] = Nothing THEN [run EXCEPT ![q] = Node(n)] ELSE run
      BY <2>2 DEF Started
    <3>2. Node(n) \in Programs
      BY <1>2, ProgramsAre
    <3> QED
      BY <1>3, <1>5, <3>1, <3>2, TypesAre
  <2> QED
    BY <1>6, <2>1, <2>2
<1>12. Housed' /\ BridgesMade' /\ Linked'
  <2>1. removed'.n = removed.n /\ removed'.inner = removed.inner
    BY <1>1 DEF MembersTypeOK
  <2>2. removed.n = 0 => Len(nodes') = Len(nodes)
    BY <1>8, <1>10
  <2>3. ASSUME removed.n = 0, NEW d \in 1 .. Len(conns') PROVE conns'[d].nodeId < Len(ports)
    <3>1. CASE conns' = conns
      BY <2>3, <3>1 DEF Housed
    <3>2. CASE Grown(n, q)
      <4>1. d \in 1 .. Len(conns) \/ d = Len(conns) + 1
        BY <3>2, TypesAre DEF Grown
      <4> QED
        BY <1>8, <2>3, <3>2, <4>1 DEF Grown, Housed
    <3> QED
      BY <1>7, <3>1, <3>2
  <2> QED
    BY <1>1, <1>11, <2>1, <2>2, <2>3, NodesChange
<1>13. MembersTypeOK'
  <2>1. dbpaths' \subseteq Positions /\ elsewhere' \subseteq Positions
    BY <1>2, <1>6 DEF MembersTypeOK
  <2>2. removed' \in [n : 0 .. MaxRemoved, inner : BOOLEAN, back : BOOLEAN]
    BY <1>1 DEF MembersTypeOK
  <2>3. Len(nodes') <= MaxNodes /\ Len(ports) <= Len(nodes')
    <3>1. /\ Len(ports) <= Len(nodes) /\ Len(nodes) <= MaxNodes /\ Len(nodes) \in Nat
          /\ MaxNodes \in Nat /\ Len(ports) \in Nat
      BY <1>1, TypesAre, NodesAre
    <3>2. n \in 0 .. MaxNodes - 1
      BY <1>2 DEF Positions
    <3> QED
      BY <1>10, <3>1, <3>2
  <2>4. ~removed'.back => Len(nodes') = Len(ports)
    BY <1>9, <1>10
  <2>5. conns' \in Seq(Conn)
    BY <1>7, TypesAre DEF Grown
  <2>6. ASSUME ~removed'.back
        PROVE  elsewhere' = {} /\ \A d \in 1 .. Len(conns') : conns'[d].port \in Ports
    <3>1. elsewhere = {} /\ \A d \in 1 .. Len(conns) : conns[d].port \in Ports
      BY <1>9, <2>6 DEF MembersTypeOK
    <3>2. q # Unknown /\ q \in Ports
      BY <1>3, <1>9, <2>6
    <3>3. CASE Grown(n, q) /\ elsewhere' = IF q = Unknown THEN elsewhere \union {n} ELSE elsewhere
      <4>1. \A d \in 1 .. Len(conns') : d \in 1 .. Len(conns) \/ d = Len(conns) + 1
        BY <3>3, TypesAre DEF Grown
      <4> QED
        BY <3>1, <3>2, <3>3, <4>1 DEF Grown
    <3> QED
      BY <1>7, <3>1, <3>3
  <2>7. removed'.n = 0 => ~removed'.back
    <3>1. removed'.n = removed.n /\ removed'.back = (removed.back \/ q = Unknown)
      BY <1>1 DEF MembersTypeOK
    <3> QED
      BY <1>3, <1>8, <3>1, NodesAre
  <2> QED
    BY <1>1, <1>10, <1>11, <2>1, <2>2, <2>3, <2>4, <2>5, <2>6, <2>7
    DEF MembersTypeOK, Conn, bridgeVars
<1>14. InPlace'
  <2>1. removed'.inner = removed.inner
    BY <1>1 DEF MembersTypeOK
  <2> SUFFICES ASSUME ~removed.inner PROVE InPlace'
    BY <1>1, <2>1 DEF InPlace
  <2>2. q \in {n, Unknown}
    <3>1. CASE q = ports[n + 1] /\ n + 1 \in 1 .. Len(ports)
      <4>1. q = (n + 1) - 1
        BY <3>1 DEF InPlace
      <4>2. n \in Int
        BY <1>2, TypesAre
      <4> QED
        BY <4>1, <4>2
    <3> QED
      BY <1>3, <3>1
  <2>3. /\ \A d \in 1 .. Len(conns') : conns'[d].port \in {conns'[d].nodeId, Unknown}
        /\ \A h \in 1 .. Len(nodes') : nodes'[h] # Gap => conns'[nodes'[h]].nodeId = h - 1
    <3>1. CASE Grown(n, q) /\ Put(n, Len(conns) + 1)
      BY <1>2, <2>2, <3>1, GrownInPlace
    <3>2. CASE conns' = conns /\ Put(n, Gap)
      <4>1. \A h \in 1 .. Len(nodes') :
              nodes'[h] # Gap => h \in 1 .. Len(nodes) /\ nodes'[h] = nodes[h]
        BY <3>2 DEF Put, PutIn
      <4> QED
        BY <3>2, <4>1 DEF InPlace
    <3> QED
      BY <1>7, <3>1, <3>2
  <2> QED
    BY <1>1, <2>1, <2>3 DEF InPlace
<1> QED
  BY <1>12, <1>13, <1>14

(* add: a position after the last, on the next port, unless there are more *)
(* nodes than ports.                                                       *)
LEMMA AddKeeps == ASSUME MembersInv, Add PROVE MembersInv'
<1> USE DEF MembersInv
<1> DEFINE n == Len(nodes)
           m == Len(ports)
           q == NextPort
           w == PortIn(ports', n)
<1>1. /\ nodes # << >> /\ ~over /\ m < MaxNodes /\ q \in Ports
      /\ ports' = Append(ports, q) /\ StartNode(n, w, running)
      /\ UNCHANGED <<config, bridges, bridged, route, cut, removed, rejected, over>>
  BY DEF Add, NextId, bridgeVars
<1>2. /\ n \in Nat /\ m \in Nat /\ m > 0 /\ m <= n /\ n \in Positions /\ n < MaxNodes
      /\ MaxNodes \in Nat /\ (~removed.back => n = m)
  <2>1. n \in Positions /\ n \in Nat /\ MaxNodes \in Nat
    BY <1>1, TypesAre DEF StartNode
  <2>2. n < MaxNodes
    BY <2>1 DEF Positions
  <2> QED
    BY <1>1, <2>1, <2>2, TypesAre, NodesAre
<1>3. q = ports[m] + 1
  <2>1. ports # << >> /\ m - 1 + 1 = m
    BY <1>2, TypesAre, EmptySeq
  <2> QED
    BY <2>1 DEF NextPort, At
<1>4. /\ ports' \in Seq(Ports) /\ Len(ports') = m + 1 /\ ports'[m + 1] = q
      /\ \A h \in 1 .. m : ports'[h] = ports[h]
  <2>1. ports \in Seq(Ports) /\ q \in Ports
    BY <1>1, TypesAre
  <2> HIDE DEF q
  <2> QED
    BY <1>1, <1>2, <2>1, AppendProperties
<1>5. w = IF n = m THEN q ELSE Unknown
  <2>1. n \in 0 .. m <=> n = m
    BY <1>2
  <2>2. Indices(ports') = 0 .. m
    BY <1>2, <1>4 DEF Indices
  <2> QED
    BY <1>4, <2>1, <2>2 DEF PortIn, At
<1> HIDE DEF w
<1>6. /\ conns' = Append(conns, [nodeId |-> n, port |-> w])
      /\ nodes' = Placed(nodes, n, Len(conns'))
      /\ running' = Started(running, n, w) /\ dbpaths' = dbpaths \union {n}
      /\ elsewhere' = IF w = Unknown THEN elsewhere \union {n} ELSE elsewhere
  BY <1>1 DEF StartNode
<1> HIDE DEF n, q
<1>7. w \in Ports \union {Unknown} /\ (w \in Ports => n = m /\ w = q)
  BY <1>1, <1>5, TypesAre
<1>8. Grown(n, w) /\ Put(n, Len(conns) + 1)
  BY <1>2, <1>6, <1>7, GrownIs
<1>9. /\ Len(nodes') = n + 1 /\ nodes' # << >> /\ nodes' \in Seq(0 .. Len(conns'))
      /\ \A d \in 1 .. Len(conns') : d \in 1 .. Len(conns) \/ d = Len(conns) + 1
  <2>1. ~(n < Len(nodes))
    BY <1>2 DEF n
  <2> QED
    BY <1>8, <2>1, TypesAre DEF Put, PutIn, Grown
<1>10. running' = IF w \in Ports /\ running[w] = Nothing THEN [running EXCEPT ![w] = Node(n)]
                  ELSE running
  BY <1>6 DEF Started
<1>11. running' \in [Ports -> Programs]
  BY <1>2, <1>10, ProgramsAre DEF MembersTypeOK
<1>12. MembersTypeOK'
  <2>1. dbpaths' \subseteq Positions /\ elsewhere' \subseteq Positions
    BY <1>2, <1>6 DEF MembersTypeOK
  <2>2. Len(ports') \in 1 .. MaxNodes /\ Len(nodes') <= MaxNodes /\ Len(ports') <= Len(nodes')
    <3>1. /\ m \in Nat /\ n \in Nat /\ MaxNodes \in Nat /\ m < MaxNodes /\ n < MaxNodes /\ m <= n
          /\ Len(ports') = m + 1 /\ Len(nodes') = n + 1
      BY <1>1, <1>2, <1>4, <1>9
    <3> HIDE DEF m
    <3> QED
      BY <3>1
  <2>3. ASSUME ~removed.back
        PROVE  /\ Len(nodes') = Len(ports') /\ elsewhere' = {}
               /\ \A d \in 1 .. Len(conns') : conns'[d].port \in Ports
    <3>1. elsewhere = {} /\ (\A d \in 1 .. Len(conns) : conns[d].port \in Ports) /\ n = m
      BY <1>2, <2>3 DEF MembersTypeOK
    <3>2. w = q /\ w \in Ports /\ w # Unknown
      BY <1>1, <1>5, <3>1, TypesAre
    <3> QED
      BY <1>4, <1>6, <1>8, <1>9, <3>1, <3>2 DEF Grown
  <2>4. conns' \in Seq(Conn)
    BY <1>8 DEF Grown
  <2> QED
    BY <1>1, <1>4, <1>9, <1>11, <2>1, <2>2, <2>3, <2>4 DEF MembersTypeOK, Conn
<1>13. ASSUME ~removed.inner PROVE q = m
  <2>1. m \in 1 .. m
    BY <1>2
  <2>2. ports[m] = m - 1
    BY <1>13, <2>1 DEF InPlace
  <2> QED
    BY <1>2, <1>3, <2>2
<1>14. InPlace'
  <2> SUFFICES ASSUME ~removed.inner PROVE InPlace'
    BY <1>1 DEF InPlace
  <2>1. w \in {n, Unknown}
    BY <1>5, <1>13
  <2>2. /\ \A d \in 1 .. Len(conns') : conns'[d].port \in {conns'[d].nodeId, Unknown}
        /\ \A h \in 1 .. Len(nodes') : nodes'[h] # Gap => conns'[nodes'[h]].nodeId = h - 1
    BY <1>2, <1>8, <2>1, GrownInPlace
  <2>3. \A h \in 1 .. Len(ports') : ports'[h] = h - 1
    <3>1. \A h \in 1 .. m + 1 : h \in 1 .. m \/ (h = m + 1 /\ m = h - 1)
      BY <1>2
    <3> QED
      BY <1>4, <1>13, <3>1 DEF InPlace
  <2> QED
    BY <1>1, <2>2, <2>3 DEF InPlace
<1>15. Housed'
  <2> SUFFICES ASSUME removed.n = 0 PROVE Housed'
    BY <1>1 DEF Housed
  <2>1. ~removed.inner /\ n = m /\ w = n /\ w \in Ports
    BY <1>1, <1>2, <1>5, <1>13, NodesAre DEF Housed
  <2>2. ASSUME NEW p \in Ports, NEW d \in Positions, running'[p] = Node(d) PROVE d < m + 1
    <3>1. d \in Nat
      BY DEF Positions
    <3>2. CASE running'[p] = running[p]
      <4>1. d < m
        BY <2>2, <3>2 DEF Housed
      <4> QED
        BY <1>2, <3>1, <4>1
    <3>3. CASE running'[p] # running[p]
      <4>1. running'[p] = Node(n)
        BY <1>10, <3>3 DEF MembersTypeOK
      <4>2. d = n
        BY <2>2, <4>1, ProgramsAre
      <4> QED
        BY <1>2, <2>1, <4>2
    <3> QED
      BY <3>2, <3>3
  <2>3. ASSUME ~bridged, NEW p \in Ports, p >= m + 1 PROVE running'[p] = Nothing
    <3>1. p # w /\ p >= m
      <4>1. p \in Int /\ m \in Int
        BY <1>2, TypesAre
      <4> HIDE DEF m
      <4> QED
        BY <2>1, <2>3, <4>1
    <3> QED
      BY <1>10, <2>3, <3>1 DEF Housed, MembersTypeOK
  <2>4. ASSUME NEW d \in 1 .. Len(conns') PROVE conns'[d].nodeId < m + 1
    <3>1. CASE d \in 1 .. Len(conns)
      <4>1. conns'[d].nodeId = conns[d].nodeId /\ conns[d].nodeId < m
        BY <1>8, <3>1 DEF Grown, Housed
      <4>2. conns[d].nodeId \in Int
        BY <3>1, TypesAre
      <4> QED
        BY <1>2, <4>1, <4>2
    <3>2. CASE d = Len(conns) + 1
      BY <1>2, <1>8, <2>1, <3>2 DEF Grown
    <3> QED
      BY <1>9, <3>1, <3>2
  <2> QED
    BY <1>1, <1>4, <2>1, <2>2, <2>3, <2>4 DEF Housed
<1>16. BridgesMade' /\ ~Whole'
  <2>1. BridgesMade'
    <3>1. \A k \in 1 .. Len(nodes) : k \in 1 .. Len(nodes')
      BY <1>2, <1>9 DEF n
    <3> QED
      BY <1>1, <3>1 DEF BridgesMade
  <2>2. ASSUME bridged, removed.n = 0 PROVE DOMAIN bridges # Pairs(n + 1)
    <3>1. PICK k \in 1 .. Len(nodes) : DOMAIN bridges = Pairs(k)
      BY <2>2 DEF BridgesMade
    <3>2. k \in Nat \ {0} /\ k <= n
      BY <1>2, <3>1 DEF n
    <3> QED
      BY <1>2, <3>1, <3>2, MorePairs
  <2> QED
    BY <1>1, <1>9, <2>1, <2>2 DEF Whole
<1> QED
  BY <1>12, <1>14, <1>15, <1>16 DEF Linked

(* remove: what follows the node moves one down, unless it is the last.    *)
LEMMA RemoveMemberKeeps == ASSUME MembersInv, NEW c, RemoveMember(c) PROVE MembersInv'
<1> USE DEF MembersInv
<1> DEFINE n == IF GetNodeId(c) = Unknown THEN 0 ELSE GetNodeId(c)
<1>1. /\ nodes # << >> /\ n \in 0 .. Len(nodes) - 1 /\ Len(ports) > 1 /\ removed.n < MaxRemoved
      /\ nodes' = Without(nodes, n) /\ ports' = Without(ports, n)
      /\ removed' = [removed EXCEPT !.n = removed.n + 1,
                                    !.inner = removed.inner \/ n # Len(nodes) - 1]
      /\ UNCHANGED <<conns, running, elsewhere, dbpaths, config, bridges, bridged, route, cut,
                     rejected, over>>
  BY DEF RemoveMember, InSet, Indices, bridgeVars
<1> HIDE DEF n
<1>2. /\ Len(nodes) \in Nat /\ Len(ports) \in Nat /\ n \in Nat /\ Len(ports) <= Len(nodes)
      /\ Len(nodes) <= MaxNodes /\ MaxNodes \in Nat /\ Len(ports) <= MaxNodes
      /\ (~removed.back => Len(nodes) = Len(ports))
  BY <1>1, TypesAre, NodesAre
<1>3. /\ nodes' \in Seq(0 .. Len(conns)) /\ Len(nodes') = Len(nodes) - 1
      /\ \A h \in 1 .. n : nodes'[h] = nodes[h]
  <2>1. nodes \in Seq(0 .. Len(conns))
    BY TypesAre
  <2> QED
    BY <1>1, <2>1, WithoutIs
<1>4. /\ ports' \in Seq(Ports)
      /\ Len(ports') = IF n < Len(ports) THEN Len(ports) - 1 ELSE Len(ports)
      /\ \A h \in 1 .. Len(ports') : h <= n => ports'[h] = ports[h]
  <2>1. CASE n < Len(ports)
    <3>1. ports \in Seq(Ports) /\ n \in 0 .. Len(ports) - 1
      BY <1>2, <2>1, TypesAre
    <3>2. /\ ports' \in Seq(Ports) /\ Len(ports') = Len(ports) - 1
          /\ \A h \in 1 .. n : ports'[h] = ports[h]
      BY <1>1, <3>1, WithoutIs
    <3> QED
      BY <1>2, <2>1, <3>2
  <2>2. CASE ~(n < Len(ports))
    BY <1>1, <2>2, TypesAre DEF Without
  <2> QED
    BY <2>1, <2>2
<1>5. removed.n \in 0 .. MaxRemoved /\ removed.inner \in BOOLEAN /\ MaxRemoved \in Nat
  BY TypesAre DEF MembersTypeOK
<1>6. /\ removed'.n # 0 /\ removed'.back = removed.back
      /\ removed' \in [n : 0 .. MaxRemoved, inner : BOOLEAN, back : BOOLEAN]
      /\ ~removed'.inner => ~removed.inner /\ n = Len(nodes) - 1
  <2>1. /\ removed'.n = removed.n + 1 /\ removed'.inner = (removed.inner \/ n # Len(nodes) - 1)
        /\ removed'.back = removed.back
    BY <1>1 DEF MembersTypeOK
  <2>2. removed.n + 1 \in 0 .. MaxRemoved /\ removed.n + 1 # 0
    BY <1>1, <1>5
  <2>3. (removed.inner \/ n # Len(nodes) - 1) \in BOOLEAN
    OBVIOUS
  <2>4. removed' \in [n : 0 .. MaxRemoved, inner : BOOLEAN, back : BOOLEAN]
    BY <1>1, <2>2, <2>3 DEF MembersTypeOK
  <2> QED
    BY <2>1, <2>2, <2>4
<1>7. MembersTypeOK'
  <2> DEFINE m == Len(ports)
             k == Len(nodes)
  <2>1. /\ m \in Nat /\ k \in Nat /\ n \in Nat /\ m > 1 /\ m <= k /\ k <= MaxNodes /\ m <= MaxNodes
        /\ MaxNodes \in Nat /\ n < k /\ Len(nodes') = k - 1
        /\ Len(ports') = IF n < m THEN m - 1 ELSE m
        /\ (~removed.back => k = m)
    BY <1>1, <1>2, <1>3, <1>4
  <2> HIDE DEF m, k
  <2>2. /\ Len(nodes') # 0 /\ Len(ports') \in 1 .. MaxNodes /\ Len(nodes') <= MaxNodes
        /\ Len(ports') <= Len(nodes') /\ (~removed.back => Len(nodes') = Len(ports'))
    BY <2>1
  <2>3. nodes' # << >>
    BY <2>2, EmptySeq
  <2> QED
    BY <1>1, <1>3, <1>4, <1>6, <2>2, <2>3 DEF MembersTypeOK
<1>8. InPlace'
  <2> SUFFICES ASSUME ~removed'.inner PROVE InPlace'
    BY DEF InPlace
  <2>1. ~removed.inner /\ n = Len(nodes) - 1
    BY <1>6
  <2>2. 1 .. Len(nodes') = 1 .. n /\ 1 .. n \subseteq 1 .. Len(nodes)
    BY <1>2, <1>3, <2>1
  <2>3. \A h \in 1 .. Len(ports') : h \in 1 .. Len(ports) /\ h <= n
    BY <1>2, <1>4, <2>1
  <2> QED
    BY <1>1, <1>3, <1>4, <2>1, <2>2, <2>3 DEF InPlace
<1>9. Housed' /\ BridgesMade' /\ Linked'
  BY <1>1, <1>6 DEF Housed, BridgesMade, Linked, Whole
<1> QED
  BY <1>7, <1>8, <1>9

(* The configuration lists the ports in order.                             *)
LEMMA ConfigIs ==
  ASSUME MembersTypeOK
  PROVE  /\ GetReplSetConfig \in Seq(Member) /\ Len(GetReplSetConfig) = Len(ports)
         /\ GetReplSetConfig # << >>
         /\ \A h \in 1 .. Len(ports) :
              /\ GetReplSetConfig[h].port = ports[h]
              /\ GetReplSetConfig[h].arbiter = (h - 1 \in ArbiterPositions)
         /\ Direct(GetReplSetConfig) \in [Ports -> Seq(Ports)]
<1> DEFINE new == GetReplSetConfig
<1>1. new \in [1 .. Len(ports) -> Member]
  <2>1. \A h \in 1 .. Len(ports) : ports[h] \in Ports
    BY TypesAre
  <2> QED
    BY <2>1 DEF GetReplSetConfig, Member
<1>2. new \in Seq(Member) /\ Len(new) = Len(ports)
  BY <1>1, FunctionIsSeq, TypesAre
<1>3. new # << >>
  BY <1>2, TypesAre, EmptySeq
<1>4. \A h \in 1 .. Len(ports) : /\ new[h].port = ports[h]
                                 /\ new[h].arbiter = (h - 1 \in ArbiterPositions)
  BY DEF GetReplSetConfig
<1> HIDE DEF new
<1>5. [h \in 1 .. Len(new) |-> new[h].port] \in Seq(Ports)
  <2>1. [h \in 1 .. Len(new) |-> new[h].port] \in [1 .. Len(ports) -> Ports]
    BY <1>2, <1>4, TypesAre
  <2> QED
    BY <2>1, FunctionIsSeq, TypesAre
<1>6. Direct(new) \in [Ports -> Seq(Ports)]
  BY <1>5 DEF Direct
<1> QED
  BY <1>2, <1>3, <1>4, <1>6 DEF new

(* initiate: the first configuration, or without a first node none.        *)
LEMMA InitiateKeeps == ASSUME MembersInv, Initiate PROVE MembersInv'
<1> USE DEF MembersInv
<1>1. /\ nodes # << >> /\ config = << >>
      /\ UNCHANGED <<ports, nodes, conns, dbpaths, running, elsewhere, bridges, bridged, cut, removed,
                     rejected>>
      /\ \/ over' = TRUE /\ UNCHANGED <<config, route>>
         \/ UNCHANGED over /\ config' = GetReplSetConfig /\ route' = Direct(config')
  BY DEF Initiate, nodeVars
<1>2. ~bridged
  BY <1>1 DEF BridgesMade, MembersTypeOK
<1>3. MembersTypeOK'
  BY <1>1, ConfigIs DEF MembersTypeOK, Member
<1>4. InPlace'
  BY <1>1, ConfigIs DEF InPlace
<1> QED
  BY <1>1, <1>2, <1>3, <1>4 DEF Housed, BridgesMade, Linked, Whole

(* reInitiate: accepted while the members have kept their places.          *)
LEMMA ReInitiateKeeps == ASSUME MembersInv, ReInitiate PROVE MembersInv'
<1> USE DEF MembersInv
<1> DEFINE new == GetReplSetConfig
<1>1. /\ config # << >> /\ ~bridged
      /\ UNCHANGED <<ports, nodes, conns, dbpaths, running, elsewhere, bridges, bridged, cut, removed>>
  BY DEF ReInitiate, nodeVars
<1>2. CASE nodes[1] # Gap /\ Legal(config, new)
  <2>1. config' = new /\ route' = Direct(new) /\ UNCHANGED <<rejected, over>>
    BY <1>2 DEF ReInitiate
  <2>2. MembersTypeOK'
    BY <1>1, <2>1, ConfigIs DEF MembersTypeOK, Member
  <2>3. InPlace'
    BY <1>1, <2>1, ConfigIs DEF InPlace
  <2> QED
    BY <1>1, <2>1, <2>2, <2>3 DEF Housed, BridgesMade, Linked, Whole
<1>3. CASE nodes[1] # Gap /\ ~Legal(config, new)
  <2>1. UNCHANGED <<config, route>> /\ rejected' = TRUE /\ over' = TRUE
    BY <1>3 DEF ReInitiate
  <2>2. removed.inner
    <3> SUFFICES ASSUME ~removed.inner PROVE Legal(config, new)
      BY <1>3
    <3>1. DOMAIN config = 1 .. Len(config) /\ DOMAIN new = 1 .. Len(ports)
      <4>1. new \in Seq(Member) /\ Len(new) = Len(ports)
        BY ConfigIs DEF Member
      <4>2. DOMAIN config = 1 .. Len(config)
        BY LengthsAre
      <4> HIDE DEF new
      <4>3. DOMAIN new = 1 .. Len(new)
        BY <4>1, LengthIs
      <4> QED
        BY <4>1, <4>2, <4>3
    <3> SUFFICES ASSUME NEW h \in 1 .. Len(config), NEW j \in 1 .. Len(ports),
                        config[h].port = new[j].port
                 PROVE  h = j /\ config[h].arbiter = new[j].arbiter
      BY <3>1 DEF Legal
    <3>2. config[h].port = h - 1 /\ config[h].arbiter = (h - 1 \in ArbiterPositions)
      BY DEF InPlace
    <3>3. new[j].port = ports[j] /\ new[j].arbiter = (j - 1 \in ArbiterPositions)
      BY ConfigIs
    <3>4. ports[j] = j - 1
      BY DEF InPlace
    <3>5. h = j
      <4>1. h - 1 = j - 1
        BY <3>2, <3>3, <3>4
      <4> QED
        BY <4>1
    <3> QED
      BY <3>2, <3>3, <3>5
  <2>3. MembersTypeOK' /\ InPlace'
    BY <1>1, <2>1, <2>2 DEF MembersTypeOK, InPlace
  <2> QED
    BY <1>1, <2>1, <2>3 DEF Housed, BridgesMade, Linked, Whole
<1>4. CASE ~(nodes[1] # Gap)
  <2>1. UNCHANGED <<config, route>> /\ rejected' = FALSE /\ over' = TRUE
    BY <1>4 DEF ReInitiate
  <2>2. MembersTypeOK' /\ InPlace'
    BY <1>1, <2>1 DEF MembersTypeOK, InPlace
  <2> QED
    BY <1>1, <2>1, <2>2 DEF Housed, BridgesMade, Linked, Whole
<1> QED
  BY <1>2, <1>3, <1>4

(* stopSet: nothing runs on the ports of the nodes.                        *)
LEMMA StopSetKeeps == ASSUME MembersInv, StopSet PROVE MembersInv'
<1> USE DEF MembersInv
<1>1. /\ over' = TRUE
      /\ UNCHANGED <<ports, nodes, conns, elsewhere, dbpaths, bridges, bridged, route, cut, config,
                     removed, rejected>>
      /\ \E S : running' = [p \in Ports |-> IF p \in S THEN Nothing ELSE running[p]]
  BY DEF StopSet, nodeVars, bridgeVars
<1>2. /\ running' \in [Ports -> Programs]
      /\ \A p \in Ports : running'[p] = Nothing \/ running'[p] = running[p]
  BY <1>1, ProgramsAre DEF MembersTypeOK
<1>3. MembersTypeOK' /\ InPlace'
  BY <1>1, <1>2 DEF MembersTypeOK, InPlace
<1>4. Housed'
  BY <1>1, <1>2, ProgramsAre DEF Housed
<1> QED
  BY <1>1, <1>3, <1>4 DEF BridgesMade, Linked, Whole

(* The two ports of a pair are stopped or started together.                *)
LEMMA PairOf ==
  ASSUME MembersTypeOK, NEW h, NEW j, <<h, j>> \in DOMAIN bridges
  PROVE  /\ <<j, h>> \in DOMAIN bridges /\ h \in Positions /\ j \in Positions
         /\ bridges[<<h, j>>].port \in Ports /\ bridges[<<j, h>>].port \in Ports
         /\ bridges[<<h, j>>].dest \in Ports /\ bridges[<<j, h>>].dest \in Ports
<1>1. PICK n \in 0 .. MaxNodes : bridges \in [Pairs(n) -> [port : Ports, dest : Ports]]
  BY DEF MembersTypeOK
<1>2. /\ <<j, h>> \in DOMAIN bridges /\ h \in 0 .. n - 1 /\ j \in 0 .. n - 1
  BY <1>1 DEF Pairs
<1>3. \A p \in DOMAIN bridges : bridges[p].port \in Ports /\ bridges[p].dest \in Ports
  BY <1>1
<1> QED
  <2>1. 0 .. n - 1 \subseteq Positions
    BY TypesAre DEF Positions
  <2> QED
    BY <1>2, <1>3, <2>1

(* When they are all there, the ports of the bridges differ, and are none  *)
(* of the nodes'.                                                          *)
LEMMA WholePorts ==
  ASSUME MembersInv, Whole
  PROVE  /\ \A p, q \in DOMAIN bridges : bridges[p].port = bridges[q].port => p = q
         /\ \A p \in DOMAIN bridges : p = <<p[1], p[2]>> /\ bridges[p].port \in Ports
<1> USE DEF MembersInv
<1>1. DOMAIN bridges = Pairs(Len(nodes)) /\ Len(nodes) \in Nat
  BY TypesAre DEF Whole
<1>2. ASSUME NEW p \in DOMAIN bridges, NEW q \in DOMAIN bridges,
             bridges[p].port = bridges[q].port
      PROVE  p = q
  <2>1. BridgePort(Len(nodes), q[1], q[2]) = BridgePort(Len(nodes), p[1], p[2])
    BY <1>2 DEF Linked
  <2>2. p \in Pairs(Len(nodes)) /\ q \in Pairs(Len(nodes))
    BY <1>1, <1>2
  <2> QED
    BY <1>1, <2>1, <2>2, BridgePortsAre
<1>3. ASSUME NEW p \in DOMAIN bridges PROVE p = <<p[1], p[2]>> /\ bridges[p].port \in Ports
  <2>1. p = <<p[1], p[2]>>
    BY <1>1, <1>3, BridgePortsAre
  <2>2. bridges[p].port \in Ports
    BY <1>3 DEF MembersTypeOK
  <2> QED
    BY <2>1, <2>2
<1> QED
  BY <1>2, <1>3

(* partition: the two bridges of a pair stop.                              *)
LEMMA PartitionKeeps ==
  ASSUME MembersInv, NEW h \in Positions, NEW j \in Positions, Partition(h, j)
  PROVE  MembersInv'
<1> USE DEF MembersInv
<1> DEFINE a == bridges[<<h, j>>].port
           b == bridges[<<j, h>>].port
<1>1. /\ <<h, j>> \in DOMAIN bridges /\ cut' = cut \union {{h, j}}
      /\ UNCHANGED <<ports, nodes, conns, elsewhere, dbpaths, bridges, bridged, route, config,
                     removed, rejected, over>>
      /\ running' = Stopped(Stopped(running, a), b)
  BY DEF Partition, nodeVars
<1>2. a \in Ports /\ b \in Ports /\ <<j, h>> \in DOMAIN bridges
  BY <1>1, PairOf
<1>3. running' = [[running EXCEPT ![a] = Nothing] EXCEPT ![b] = Nothing]
  BY <1>1, <1>2 DEF Stopped
<1> HIDE DEF a, b
<1>4. /\ running' \in [Ports -> Programs]
      /\ \A p \in Ports : running'[p] = IF p = a \/ p = b THEN Nothing ELSE running[p]
  BY <1>2, <1>3, ProgramsAre DEF MembersTypeOK
<1>5. MembersTypeOK' /\ InPlace'
  <2>1. {h, j} \in SUBSET Positions
    OBVIOUS
  <2>2. cut' \subseteq SUBSET Positions
    BY <1>1, <2>1 DEF MembersTypeOK
  <2> QED
    BY <1>1, <1>4, <2>2 DEF MembersTypeOK, InPlace
<1>6. Housed'
  BY <1>1, <1>4, ProgramsAre DEF Housed
<1>7. BridgesMade'
  BY <1>1 DEF BridgesMade
<1>8. Linked'
  <2> SUFFICES ASSUME Whole PROVE Linked'
    BY <1>1 DEF Linked, Whole
  <2>1. ASSUME NEW p \in DOMAIN bridges
        PROVE  running'[bridges[p].port] = IF {p[1], p[2]} \in cut' THEN Nothing ELSE Bridge(p[2])
    <3>1. /\ bridges[p].port \in Ports /\ p = <<p[1], p[2]>>
          /\ bridges[p].port = a => p = <<h, j>>
          /\ bridges[p].port = b => p = <<j, h>>
      BY <1>1, <1>2, WholePorts DEF a, b
    <3>2. running[bridges[p].port] = IF {p[1], p[2]} \in cut THEN Nothing ELSE Bridge(p[2])
      BY DEF Linked
    <3>3. CASE p = <<h, j>> \/ p = <<j, h>>
      <4>1. {p[1], p[2]} = {h, j}
        BY <3>3
      <4>2. bridges[p].port = a \/ bridges[p].port = b
        BY <3>3 DEF a, b
      <4> QED
        BY <1>1, <1>4, <3>1, <4>1, <4>2
    <3>4. CASE ~(p = <<h, j>> \/ p = <<j, h>>)
      <4>1. {p[1], p[2]} # {h, j}
        BY <3>1, <3>4
      <4>2. running'[bridges[p].port] = running[bridges[p].port]
        BY <1>4, <3>1, <3>4
      <4> QED
        BY <1>1, <3>2, <4>1, <4>2
    <3> QED
      BY <3>3, <3>4
  <2> QED
    BY <1>1, <2>1 DEF Linked
<1> QED
  BY <1>5, <1>6, <1>7, <1>8

(* unPartition: they start, on ports where nothing runs.                   *)
LEMMA UnPartitionKeeps ==
  ASSUME MembersInv, NEW h \in Positions, NEW j \in Positions, UnPartition(h, j)
  PROVE  MembersInv'
<1> USE DEF MembersInv
<1> DEFINE x == bridges[<<h, j>>]
           y == bridges[<<j, h>>]
<1>1. /\ <<h, j>> \in DOMAIN bridges /\ {h, j} \in cut /\ cut' = cut \ {{h, j}}
      /\ UNCHANGED <<ports, nodes, conns, elsewhere, dbpaths, bridges, bridged, route, config,
                     removed, rejected, over>>
      /\ running' = BridgeStarted(BridgeStarted(running, x), y)
  BY DEF UnPartition, BothStart, nodeVars
<1>2. /\ x.port \in Ports /\ y.port \in Ports /\ x.dest \in Ports /\ y.dest \in Ports
      /\ <<j, h>> \in DOMAIN bridges
  BY <1>1, PairOf
<1>3. bridged
  BY <1>1 DEF BridgesMade, MembersTypeOK
<1> HIDE DEF x, y
<1> DEFINE half == BridgeStarted(running, x)
<1>4. /\ half \in [Ports -> Programs]
      /\ \A p \in Ports : half[p] = IF p = x.port /\ running[p] = Nothing THEN Bridge(x.dest)
                                    ELSE running[p]
  BY <1>2, ProgramsAre DEF BridgeStarted, MembersTypeOK
<1> HIDE DEF half
<1>5. /\ running' \in [Ports -> Programs]
      /\ \A p \in Ports : running'[p] = IF p = y.port /\ half[p] = Nothing THEN Bridge(y.dest)
                                        ELSE half[p]
  BY <1>1, <1>2, <1>4, ProgramsAre DEF BridgeStarted, half
<1>6. MembersTypeOK' /\ InPlace'
  BY <1>1, <1>5 DEF MembersTypeOK, InPlace
<1>7. Housed'
  <2>1. \A p \in Ports, d \in Positions : running'[p] = Node(d) => running[p] = Node(d)
    BY <1>4, <1>5, ProgramsAre
  <2> QED
    BY <1>1, <1>3, <2>1 DEF Housed
<1>8. BridgesMade'
  BY <1>1, <1>3 DEF BridgesMade
<1>9. Linked'
  <2> SUFFICES ASSUME Whole PROVE Linked'
    BY <1>1 DEF Linked, Whole
  <2>1. ASSUME NEW p \in DOMAIN bridges
        PROVE  running'[bridges[p].port] = IF {p[1], p[2]} \in cut' THEN Nothing ELSE Bridge(p[2])
    <3>1. /\ bridges[p].port \in Ports /\ p = <<p[1], p[2]>>
          /\ bridges[p].port = x.port => p = <<h, j>>
          /\ bridges[p].port = y.port => p = <<j, h>>
      BY <1>1, <1>2, WholePorts DEF x, y
    <3>2. /\ running[bridges[p].port] = IF {p[1], p[2]} \in cut THEN Nothing ELSE Bridge(p[2])
          /\ bridges[p].dest = p[2]
      BY DEF Linked
    <3>3. CASE p = <<h, j>>
      <4>1. /\ {p[1], p[2]} = {h, j} /\ bridges[p].port = x.port /\ bridges[p].dest = x.dest
        BY <3>3 DEF x
      <4>2. running[bridges[p].port] = Nothing
        BY <1>1, <3>2, <4>1
      <4>3. half[bridges[p].port] = Bridge(p[2]) /\ Bridge(p[2]) # Nothing
        BY <1>4, <3>1, <3>2, <4>1, <4>2, ProgramsAre
      <4> QED
        BY <1>1, <1>5, <3>1, <4>1, <4>3
    <3>4. CASE p = <<j, h>>
      <4>1. /\ {p[1], p[2]} = {h, j} /\ bridges[p].port = y.port /\ bridges[p].dest = y.dest
        BY <3>4 DEF y
      <4>2. running[bridges[p].port] = Nothing
        BY <1>1, <3>2, <4>1
      <4>3. bridges[p].port # x.port \/ p = <<h, j>>
        BY <3>1
      <4> QED
        BY <1>1, <1>4, <1>5, <3>1, <3>2, <3>3, <4>1, <4>2, <4>3
    <3>5. CASE ~(p = <<h, j>> \/ p = <<j, h>>)
      <4>1. {p[1], p[2]} # {h, j}
        BY <3>1, <3>5
      <4>2. running'[bridges[p].port] = running[bridges[p].port]
        BY <1>4, <1>5, <3>1, <3>5
      <4> QED
        BY <1>1, <3>2, <4>1, <4>2
    <3> QED
      BY <3>3, <3>4, <3>5
  <2> QED
    BY <1>1, <2>1 DEF Linked
<1> QED
  BY <1>6, <1>7, <1>8, <1>9

(* bridge() finds a configuration with all the nodes there are.            *)
LEMMA BridgeableIs ==
  ASSUME MembersInv, ~removed.inner, ~removed.back, nodes # << >>, Bridgeable(Len(nodes)),
         NEW h \in 0 .. Len(nodes) - 1
  PROVE  /\ Others(h) = Indices(config) \ {h}
         /\ h \in Indices(config)
<1> USE DEF MembersInv
<1>1. Len(nodes) = Len(ports) /\ Len(ports) \in Nat /\ Len(config) \in Nat
  BY TypesAre, NodesAre
<1>2. h + 1 \in 1 .. Len(ports) /\ ports[h + 1] = h /\ h \in Indices(ports)
  <2>1. h + 1 \in 1 .. Len(ports) /\ (h + 1) - 1 = h /\ h \in 0 .. Len(ports) - 1
    BY <1>1
  <2>2. ports[h + 1] = (h + 1) - 1
    BY <2>1 DEF InPlace
  <2> QED
    BY <2>1, <2>2 DEF Indices
<1>3. ASSUME NEW j \in Indices(config) PROVE At(config, j).port = j
  <2>1. j + 1 \in 1 .. Len(config) /\ (j + 1) - 1 = j
    BY <1>1 DEF Indices
  <2>2. config[j + 1].port = (j + 1) - 1
    BY <2>1 DEF InPlace
  <2> QED
    BY <2>1, <2>2 DEF At
<1>4. Others(h) = Indices(config) \ {h}
  BY <1>2, <1>3 DEF Others, At
<1>5. h \in Indices(config)
  <2> SUFFICES ASSUME h \notin Indices(config) PROVE FALSE
    OBVIOUS
  <2>1. Others(h) = 0 .. Len(config) - 1
    BY <1>4 DEF Indices
  <2>2. Cardinality(0 .. Len(config) - 1) = Len(config)
    <3>1. 0 \in Int /\ Len(config) - 1 \in Int
      BY <1>1
    <3>2. Cardinality(0 .. Len(config) - 1)
            = IF 0 > Len(config) - 1 THEN 0 ELSE Len(config) - 1 - 0 + 1
      BY <3>1, FS_Interval
    <3> QED
      BY <1>1, <3>2
  <2>3. Cardinality(Others(h)) < Len(config)
    BY <1>2 DEF Bridgeable
  <2> QED
    BY <1>1, <2>1, <2>2, <2>3
<1> QED
  BY <1>4, <1>5

(* bridge: all nodes start again, then the bridges, on ports of their own; *)
(* then all nodes anew, to reach the others through them.                  *)
LEMMA MakeBridgesKeeps == ASSUME MembersInv, MakeBridges PROVE MembersInv'
<1> USE DEF MembersInv
<1> DEFINE n == Len(nodes)
           made == [p \in Pairs(n) |->
                      [port |-> BridgePort(n, p[1], p[2]), dest |-> At(ports, p[2])]]
           starts == IF Bridgeable(n) THEN 2 * n ELSE n
           more == [k \in 1 .. starts |-> [nodeId |-> (k - 1) % n, port |-> At(ports, (k - 1) % n)]]
<1>1. /\ config # << >> /\ ~bridged /\ ~over /\ ~removed.back
      /\ \A p \in Pairs(n) : made[p].port \in Ports
      /\ bridged' = TRUE /\ bridges' = made
      /\ UNCHANGED <<ports, elsewhere, dbpaths, config, cut, removed, rejected>>
      /\ nodes' = [h \in 1 .. n |-> Len(conns) + starts - n + h]
      /\ conns' = conns \o more
      /\ over' = ~Bridgeable(n)
  BY DEF MakeBridges
<1>2. /\ running' = [p \in Ports |->
           IF p \in NodePorts THEN Node(At0(p))
           ELSE IF running[p] = Nothing /\ \E pair \in Pairs(n) : made[pair].port = p
           THEN Bridge(made[CHOOSE pair \in Pairs(n) : made[pair].port = p].dest)
           ELSE running[p]]
      /\ route' = IF ~Bridgeable(n) THEN route
                  ELSE [p \in Ports |->
                         IF p \notin NodePorts THEN route[p]
                         ELSE [k \in DOMAIN config |->
                                 IF k - 1 \in Others(At0(p)) THEN made[<<At0(p), k - 1>>].port
                                 ELSE config[k].port]]
  BY DEF MakeBridges
<1>3. /\ n = Len(ports) /\ n \in Nat \ {0} /\ n <= MaxNodes /\ MaxNodes \in Nat /\ nodes # << >>
      /\ cut = {} /\ DOMAIN bridges = {} /\ n \in 0 .. MaxNodes
  <2>1. nodes # << >>
    BY <1>1 DEF MembersTypeOK
  <2> QED
    BY <1>1, <2>1, TypesAre, NodesAre DEF BridgesMade
<1> HIDE DEF n
<1>4. ASSUME NEW p \in Pairs(n)
      PROVE  /\ p[1] \in 0 .. n - 1 /\ p[2] \in 0 .. n - 1
             /\ made[p].port = BridgePort(n, p[1], p[2]) /\ made[p].port \in Ports
             /\ made[p].dest = ports[p[2] + 1] /\ made[p].dest \in Ports
             /\ p[1] + 1 \in 1 .. Len(ports) /\ p[2] + 1 \in 1 .. Len(ports)
  <2>1. p[1] \in 0 .. n - 1 /\ p[2] \in 0 .. n - 1
    BY DEF Pairs
  <2>2. p[1] + 1 \in 1 .. Len(ports) /\ p[2] + 1 \in 1 .. Len(ports)
    <3>1. n = Len(ports) /\ n \in Nat
      BY <1>3
    <3>2. \A x \in 0 .. n - 1 : x + 1 \in 1 .. n
      BY <3>1
    <3>3. p[1] + 1 \in 1 .. n /\ p[2] + 1 \in 1 .. n
      BY <2>1, <3>2
    <3> QED
      BY <3>1, <3>3
  <2> QED
    BY <1>1, <2>1, <2>2, TypesAre DEF At
<1>5. made \in [Pairs(n) -> [port : Ports, dest : Ports]]
  BY <1>1, <1>4
<1>6. /\ starts \in Nat /\ (starts = n \/ starts = n + n)
      /\ more \in Seq(Conn) /\ Len(more) = starts
      /\ \A k \in 1 .. starts : /\ more[k].nodeId = (k - 1) % n
                                /\ more[k].port = ports[((k - 1) % n) + 1]
                                /\ (k - 1) % n \in 0 .. n - 1
  <2>1. starts \in Nat /\ (starts = n \/ starts = n + n)
    BY <1>3
  <2> HIDE DEF starts
  <2>2. ASSUME NEW k \in 1 .. starts
        PROVE  (k - 1) % n \in 0 .. n - 1 /\ (k - 1) % n \in Positions /\ ports[((k - 1) % n) + 1] \in Ports
    <3>1. k - 1 \in Nat
      BY <2>1
    <3>2. (k - 1) % n \in 0 .. n - 1
      BY <1>3, <3>1, RemainderBounds
    <3> DEFINE r == (k - 1) % n
    <3> HIDE DEF r
    <3>3. r \in 0 .. n - 1
      BY <3>2 DEF r
    <3>4. r \in Positions /\ r + 1 \in 1 .. Len(ports)
      BY <1>3, <3>3 DEF Positions
    <3>5. ports[r + 1] \in Ports
      BY <3>4, TypesAre
    <3> QED
      BY <3>2, <3>4, <3>5 DEF r
  <2>3. more \in [1 .. starts -> Conn]
    BY <2>2 DEF Conn, At
  <2>4. more \in Seq(Conn) /\ Len(more) = starts
    BY <2>1, <2>3, FunctionIsSeq
  <2>5. \A k \in 1 .. starts : /\ more[k].nodeId = (k - 1) % n
                               /\ more[k].port = ports[((k - 1) % n) + 1]
    BY DEF At
  <2> QED
    BY <2>1, <2>2, <2>4, <2>5
<1> HIDE DEF starts, more
<1>7. /\ conns' \in Seq(Conn) /\ Len(conns') = Len(conns) + starts
      /\ \A c \in 1 .. Len(conns) : conns'[c] = conns[c]
      /\ \A k \in 1 .. starts : conns'[Len(conns) + k] = more[k]
  <2>1. conns \in Seq(Conn) /\ Len(conns) \in Nat
    BY TypesAre
  <2>2. /\ conns' \in Seq(Conn) /\ Len(conns') = Len(conns) + Len(more)
        /\ \A c \in 1 .. Len(conns) + Len(more) :
             conns'[c] = IF c <= Len(conns) THEN conns[c] ELSE more[c - Len(conns)]
    BY <1>1, <1>6, <2>1, ConcatProperties
  <2>3. ASSUME NEW c \in 1 .. Len(conns) PROVE conns'[c] = conns[c]
    <3>1. c \in 1 .. Len(conns) + Len(more) /\ c <= Len(conns)
      BY <1>6, <2>1
    <3> QED
      BY <2>2, <3>1
  <2>4. ASSUME NEW k \in 1 .. starts PROVE conns'[Len(conns) + k] = more[k]
    <3>1. /\ Len(conns) + k \in 1 .. Len(conns) + Len(more) /\ ~(Len(conns) + k <= Len(conns))
          /\ Len(conns) + k - Len(conns) = k
      BY <1>6, <2>1
    <3> QED
      BY <2>2, <3>1
  <2> QED
    BY <1>6, <2>2, <2>3, <2>4
<1>8. /\ nodes' \in Seq(0 .. Len(conns')) /\ Len(nodes') = n /\ nodes' # << >>
      /\ \A h \in 1 .. n : /\ starts - n + h \in 1 .. starts
                           /\ nodes'[h] = Len(conns) + (starts - n + h)
  <2>1. ASSUME NEW h \in 1 .. n
        PROVE  /\ starts - n + h \in 1 .. starts
               /\ Len(conns) + starts - n + h = Len(conns) + (starts - n + h)
               /\ Len(conns) + starts - n + h \in 0 .. Len(conns')
    <3>1. Len(conns) \in Nat /\ starts \in Nat /\ Len(conns') = Len(conns) + starts
      BY <1>6, <1>7, TypesAre
    <3>2. starts - n \in Nat /\ starts - n + n = starts /\ n \in Nat
      BY <1>3, <1>6
    <3> DEFINE rest == starts - n
    <3> HIDE DEF rest
    <3>3. rest \in Nat /\ starts = rest + n
      BY <3>1, <3>2 DEF rest
    <3>4. rest + h \in 1 .. starts /\ Len(conns) + starts - n + h = Len(conns) + (rest + h)
      BY <3>1, <3>2, <3>3
    <3>5. Len(conns) + (rest + h) \in 0 .. Len(conns')
      BY <3>1, <3>2, <3>4
    <3> QED
      BY <3>4, <3>5 DEF rest
  <2> DEFINE S == 0 .. Len(conns')
  <2>2. nodes' \in [1 .. n -> S]
    BY <1>1, <2>1
  <2> HIDE DEF S
  <2>3. nodes' \in Seq(S) /\ Len(nodes') = n
    BY <1>3, <2>2, FunctionIsSeq
  <2>4. nodes' # << >>
    BY <1>3, <2>3, EmptySeq
  <2> QED
    BY <1>1, <2>1, <2>3, <2>4 DEF S
<1> DEFINE at(p) == CHOOSE pair \in Pairs(n) : made[pair].port = p
<1>9. ASSUME NEW p \in Ports, \E pair \in Pairs(n) : made[pair].port = p
      PROVE  at(p) \in Pairs(n) /\ made[at(p)].port = p
  BY <1>9
<1>10. running' \in [Ports -> Programs]
  <2>1. \A p \in NodePorts : Node(At0(p)) \in Programs
    BY At0Is, ProgramsAre
  <2>2. \A p \in Ports : (\E pair \in Pairs(n) : made[pair].port = p) => Bridge(made[at(p)].dest) \in Programs
    BY <1>4, <1>9, ProgramsAre
  <2>3. \A p \in Ports : running[p] \in Programs
    BY DEF MembersTypeOK
  <2> HIDE DEF made
  <2> QED
    BY <1>2, <2>1, <2>2, <2>3
<1>11. route' \in [Ports -> Seq(Ports)]
  <2>1. CASE ~Bridgeable(n)
    BY <1>2, <2>1 DEF MembersTypeOK
  <2>2. CASE Bridgeable(n)
    <3>1. ASSUME NEW p \in NodePorts
          PROVE  [k \in DOMAIN config |->
                    IF k - 1 \in Others(At0(p)) THEN made[<<At0(p), k - 1>>].port
                    ELSE config[k].port] \in Seq(Ports)
      <4> DEFINE ways == [k \in DOMAIN config |->
                            IF k - 1 \in Others(At0(p)) THEN made[<<At0(p), k - 1>>].port
                            ELSE config[k].port]
      <4>1. DOMAIN config = 1 .. Len(config) /\ Len(config) \in Nat
        BY TypesAre
      <4>2. \A k \in 1 .. Len(config) : config[k].port \in Ports
        <5>1. \A k \in 1 .. Len(config) : config[k] \in Member
          BY TypesAre, ElementOfSeq
        <5> QED
          BY <5>1 DEF Member
      <4>3. At0(p) \in Indices(ports)
        BY At0Is DEF Indices
      <4>4. \A j \in Others(At0(p)) : <<At0(p), j>> \in Pairs(n)
        BY <2>2, <4>3 DEF Bridgeable
      <4>5. \A j \in Others(At0(p)) : made[<<At0(p), j>>].port \in Ports
        BY <1>1, <4>4
      <4> HIDE DEF made
      <4>6. ways \in [1 .. Len(config) -> Ports]
        BY <4>1, <4>2, <4>5
      <4> QED
        BY <4>1, <4>6, FunctionIsSeq
    <3>2. \A p \in Ports : route[p] \in Seq(Ports)
      BY DEF MembersTypeOK
    <3> HIDE DEF made
    <3> QED
      BY <1>2, <2>2, <3>1, <3>2
  <2> QED
    BY <2>1, <2>2
<1>12. MembersTypeOK'
  <2>1. bridges' \in [Pairs(n) -> [port : Ports, dest : Ports]]
    BY <1>1, <1>5
  <2>2. over' \in BOOLEAN /\ bridged' \in BOOLEAN
    BY <1>1
  <2>3. Len(nodes') <= MaxNodes /\ Len(ports) <= Len(nodes') /\ Len(nodes') = Len(ports)
    BY <1>3, <1>8
  <2>4. ASSUME NEW c \in 1 .. Len(conns') PROVE conns'[c].port \in Ports
    <3>1. CASE c \in 1 .. Len(conns)
      BY <1>1, <1>7, <3>1, NodesAre
    <3>2. CASE c \notin 1 .. Len(conns)
      <4> DEFINE k == c - Len(conns)
      <4>1. k \in 1 .. starts /\ Len(conns) + k = c
        <5>1. Len(conns) \in Nat /\ starts \in Nat /\ c \in 1 .. Len(conns) + starts
          BY <1>6, <1>7, TypesAre
        <5> QED
          BY <3>2, <5>1
      <4> HIDE DEF k
      <4>2. conns'[c] = more[k] /\ more[k].port = ports[((k - 1) % n) + 1] /\ (k - 1) % n \in 0 .. n - 1
        BY <1>6, <1>7, <4>1
      <4> DEFINE m == (k - 1) % n
      <4>3. conns'[c].port = ports[m + 1] /\ m \in 0 .. n - 1
        BY <4>2
      <4> HIDE DEF m
      <4>4. m + 1 \in 1 .. Len(ports)
        BY <1>3, <4>3
      <4> QED
        BY <4>3, <4>4, TypesAre
    <3> QED
      BY <3>1, <3>2
  <2>5. elsewhere' = elsewhere /\ elsewhere \subseteq Positions /\ elsewhere = {}
    BY <1>1 DEF MembersTypeOK
  <2> HIDE DEF made
  <2> QED
    BY <1>1, <1>3, <1>7, <1>8, <1>10, <1>11, <2>1, <2>2, <2>3, <2>4, <2>5 DEF MembersTypeOK, Conn
<1>13. InPlace'
  <2> SUFFICES ASSUME ~removed.inner PROVE InPlace'
    BY <1>1 DEF InPlace
  <2>1. ASSUME NEW k \in 1 .. starts PROVE more[k].port = more[k].nodeId
    <3> DEFINE r == (k - 1) % n
    <3>1. r \in 0 .. n - 1 /\ more[k].nodeId = r /\ more[k].port = ports[r + 1]
      BY <1>6
    <3> HIDE DEF r
    <3>2. r + 1 \in 1 .. Len(ports) /\ (r + 1) - 1 = r
      BY <1>3, <3>1
    <3>3. ports[r + 1] = (r + 1) - 1
      BY <3>2 DEF InPlace
    <3> QED
      BY <3>1, <3>2, <3>3
  <2>2. ASSUME NEW c \in 1 .. Len(conns') PROVE conns'[c].port \in {conns'[c].nodeId, Unknown}
    <3>1. CASE c \in 1 .. Len(conns)
      BY <1>7, <3>1 DEF InPlace
    <3>2. CASE c \notin 1 .. Len(conns)
      <4>1. c - Len(conns) \in 1 .. starts /\ Len(conns) + (c - Len(conns)) = c
        <5>1. Len(conns) \in Nat /\ starts \in Nat /\ c \in 1 .. Len(conns) + starts
          BY <1>6, <1>7, TypesAre
        <5> QED
          BY <3>2, <5>1
      <4> DEFINE k == c - Len(conns)
      <4>2. k \in 1 .. starts /\ Len(conns) + k = c
        BY <4>1
      <4> HIDE DEF k
      <4>3. conns'[c] = more[k]
        BY <1>7, <4>2
      <4> QED
        BY <2>1, <4>2, <4>3
    <3> QED
      BY <3>1, <3>2
  <2>3. ASSUME NEW h \in 1 .. n PROVE conns'[nodes'[h]].nodeId = h - 1
    <3>1. conns'[nodes'[h]].nodeId = (starts - n + h - 1) % n
      <4> DEFINE k == starts - n + h
      <4>1. k \in 1 .. starts /\ nodes'[h] = Len(conns) + k
        BY <1>8
      <4> HIDE DEF k
      <4>2. conns'[nodes'[h]] = more[k] /\ more[k].nodeId = (k - 1) % n
        BY <1>6, <1>7, <4>1
      <4> HIDE DEF more
      <4>3. conns'[nodes'[h]].nodeId = (k - 1) % n
        BY <4>2
      <4>4. n \in Nat /\ h \in Nat /\ starts \in Nat
        BY <1>3, <1>6
      <4>5. k - 1 = starts - n + h - 1
        BY <4>4 DEF k
      <4> QED
        BY <4>3, <4>5
    <3>2. starts - n + h - 1 = h - 1 \/ starts - n + h - 1 = n + h - 1
      <4>1. n \in Nat /\ h \in Nat
        BY <1>3
      <4>2. CASE starts = n
        BY <4>1, <4>2
      <4>3. CASE starts = n + n
        BY <4>1, <4>3
      <4> QED
        BY <1>6, <4>2, <4>3
    <3> QED
      BY <1>3, <3>1, <3>2, Remainders
  <2> QED
    BY <1>1, <1>8, <2>2, <2>3 DEF InPlace
<1>14. ASSUME NEW p \in Ports
       PROVE  \/ p \in NodePorts /\ running'[p] = Node(At0(p))
              \/ p \notin NodePorts /\ running'[p] = running[p]
              \/ p \notin NodePorts /\ \E e : running'[p] = Bridge(e)
  <2> HIDE DEF made
  <2> QED
    BY <1>2
<1>15. Housed'
  <2> SUFFICES ASSUME removed.n = 0 PROVE Housed'
    BY <1>1 DEF Housed
  <2>1. ~removed.inner
    BY DEF Housed
  <2>2. ASSUME NEW p \in Ports, NEW d \in Positions, running'[p] = Node(d) PROVE d < Len(ports)
    <3>1. CASE p \in NodePorts
      <4>1. d = At0(p)
        BY <1>14, <2>2, <3>1, ProgramsAre
      <4> QED
        BY <3>1, <4>1, At0Is, TypesAre
    <3>2. CASE p \notin NodePorts
      <4>1. running[p] = Node(d)
        BY <1>14, <2>2, <3>2, ProgramsAre
      <4> QED
        BY <4>1 DEF Housed
    <3> QED
      BY <3>1, <3>2
  <2>3. ASSUME NEW c \in 1 .. Len(conns') PROVE conns'[c].nodeId < Len(ports)
    <3>1. CASE c \in 1 .. Len(conns)
      BY <1>7, <3>1 DEF Housed
    <3>2. CASE c \notin 1 .. Len(conns)
      <4> DEFINE k == c - Len(conns)
      <4>1. k \in 1 .. starts /\ Len(conns) + k = c
        <5>1. Len(conns) \in Nat /\ starts \in Nat /\ c \in 1 .. Len(conns) + starts
          BY <1>6, <1>7, TypesAre
        <5> QED
          BY <3>2, <5>1
      <4> HIDE DEF k
      <4>2. conns'[c] = more[k] /\ more[k].nodeId = (k - 1) % n /\ (k - 1) % n \in 0 .. n - 1
        BY <1>6, <1>7, <4>1
      <4> DEFINE m == (k - 1) % n
      <4>3. conns'[c].nodeId = m /\ m \in 0 .. n - 1
        BY <4>2
      <4> HIDE DEF m
      <4> QED
        BY <1>3, <4>3
    <3> QED
      BY <3>1, <3>2
  <2> QED
    BY <1>1, <2>1, <2>2, <2>3 DEF Housed
<1>16. BridgesMade'
  <2>1. DOMAIN bridges' = Pairs(n) /\ n \in 1 .. Len(nodes')
    BY <1>1, <1>3, <1>8
  <2> HIDE DEF made
  <2> QED
    BY <1>1, <2>1 DEF BridgesMade
<1>17. Linked'
  <2> SUFFICES ASSUME Whole' PROVE Linked'
    BY DEF Linked
  <2>1. removed.n = 0 /\ ~removed.inner /\ ~removed.back /\ Bridgeable(n)
    BY <1>1 DEF Whole, Housed
  <2>2. ASSUME NEW p \in Pairs(n)
        PROVE  /\ made[p].port = BridgePort(n, p[1], p[2]) /\ made[p].dest = p[2]
               /\ route'[p[1]][p[2] + 1] = made[p].port
               /\ running'[made[p].port] = Bridge(p[2])
    <3>1. /\ p[1] \in 0 .. n - 1 /\ p[2] \in 0 .. n - 1 /\ p[1] # p[2] /\ p = <<p[1], p[2]>>
          /\ made[p].port >= n /\ made[p].port \in Nat
          /\ \A q \in Pairs(n) : made[q].port = made[p].port => q = p
      BY <1>3, <1>4, BridgePortsAre
    <3>2. made[p].dest = p[2]
      <4>1. p[2] + 1 \in 1 .. Len(ports) /\ (p[2] + 1) - 1 = p[2]
        BY <1>4, <3>1
      <4>2. ports[p[2] + 1] = (p[2] + 1) - 1
        BY <2>1, <4>1 DEF InPlace
      <4> QED
        BY <1>4, <4>1, <4>2
    <3>3. made[p].port \notin NodePorts /\ made[p].port >= Len(ports)
      BY <1>3, <2>1, <3>1, NodePortsAre
    <3>4. running[made[p].port] = Nothing
      BY <1>1, <1>4, <2>1, <3>3 DEF Housed
    <3>5. at(made[p].port) = p
      BY <1>4, <1>9, <3>1
    <3>6. running'[made[p].port] = Bridge(p[2])
      <4> DEFINE q == made[p].port
      <4>1. /\ q \in Ports /\ q \notin NodePorts /\ running[q] = Nothing
            /\ (\E pair \in Pairs(n) : made[pair].port = q) /\ made[at(q)].dest = p[2]
        BY <1>4, <3>2, <3>3, <3>4, <3>5
      <4> HIDE DEF q, made
      <4>2. running'[q] = Bridge(made[at(q)].dest)
        BY <1>2, <4>1
      <4> QED
        BY <4>1, <4>2 DEF q
    <3>7. route'[p[1]][p[2] + 1] = made[p].port
      <4>1. p[1] \in NodePorts /\ p[1] \in Ports /\ At0(p[1]) = p[1]
        BY <1>3, <2>1, <3>1, NodePortsAre, At0Is
      <4>2. p[2] \in Others(p[1]) /\ p[2] \in Indices(config)
        BY <1>3, <2>1, <3>1, BridgeableIs DEF n
      <4>3. p[2] + 1 \in DOMAIN config /\ (p[2] + 1) - 1 = p[2]
        <5>1. p[2] \in 0 .. Len(config) - 1
          BY <4>2 DEF Indices
        <5>2. Len(config) \in Nat /\ DOMAIN config = 1 .. Len(config)
          BY SeqTypesAre, LengthIs
        <5> QED
          BY <5>1, <5>2, PlaceIs
      <4> DEFINE x == p[1]
                 y == p[2] + 1
      <4>4. /\ x \in Ports /\ x \in NodePorts /\ y \in DOMAIN config /\ At0(x) = x
            /\ y - 1 \in Others(x) /\ <<x, y - 1>> = p
        BY <3>1, <4>1, <4>2, <4>3
      <4> HIDE DEF x, y, made
      <4>5. route'[x][y] = made[<<At0(x), y - 1>>].port
        BY <1>2, <2>1, <4>4
      <4> QED
        BY <4>4, <4>5 DEF x, y
    <3> QED
      BY <1>4, <3>2, <3>6, <3>7
  <2>3. bridges' = made /\ DOMAIN bridges' = Pairs(n) /\ Len(nodes') = n /\ cut' = {}
    BY <1>1, <1>3, <1>8
  <2> HIDE DEF made
  <2> QED
    BY <2>2, <2>3 DEF Linked
<1> QED
  BY <1>12, <1>13, <1>15, <1>16, <1>17

(* Every step keeps the invariant.                                         *)
LEMMA MembersNextInv == MembersInv /\ [MembersNext]_membersVars => MembersInv'
<1> SUFFICES ASSUME MembersInv, [MembersNext]_membersVars PROVE MembersInv'
  OBVIOUS
<1>1. CASE StartSet \/ Add \/ Initiate \/ ReInitiate \/ MakeBridges \/ StopSet
  BY <1>1, StartSetKeeps, AddKeeps, InitiateKeeps, ReInitiateKeeps, MakeBridgesKeeps, StopSetKeeps
<1>2. CASE \E c \in 1 .. MaxStarts : Stop(c) \/ RestartNode(c) \/ RemoveMember(c)
  BY <1>2, StopKeeps, RestartNodeKeeps, RemoveMemberKeeps
<1>3. CASE \E h, j \in Positions : Partition(h, j) \/ UnPartition(h, j)
  BY <1>3, PartitionKeeps, UnPartitionKeeps
<1>4. CASE UNCHANGED membersVars
  <2>1. /\ UNCHANGED <<ports, nodes, conns, dbpaths, bridges, bridged, route, cut, running, config>>
        /\ UNCHANGED <<elsewhere, removed, rejected, over>>
    BY <1>4 DEF membersVars, nodeVars, bridgeVars
  <2>2. MembersTypeOK' /\ InPlace' /\ Housed' /\ BridgesMade' /\ Linked'
    BY <2>1 DEF MembersInv, MembersTypeOK, InPlace, Housed, BridgesMade, Linked, Whole
  <2> QED
    BY <2>2 DEF MembersInv
<1> QED
  BY <1>1, <1>2, <1>3, <1>4 DEF MembersNext

(* MembersTypeOK: ports, nodes, connections, configuration and bridges have*)
(* their types; the set has a node for each of its ports and, until the    *)
(* connection of a node it removed is restarted, no other and none on a    *)
(* port of MongoRunner's.                                                  *)
THEOREM MembersTypeCorrect == MembersSpec => []MembersTypeOK
<1>1. MembersInv => MembersTypeOK
  BY DEF MembersInv
<1> QED
  BY MembersInitInv, MembersNextInv, <1>1, PTL DEF MembersSpec

(* A new configuration is refused only after a node before the last was    *)
(* removed: else no member's port, _id or arbiter option has changed.      *)
THEOREM ReconfigIsAccepted == MembersSpec => []ReconfigAccepted
<1>1. MembersInv => ReconfigAccepted
  BY DEF MembersInv, InPlace, ReconfigAccepted
<1> QED
  BY MembersInitInv, MembersNextInv, <1>1, PTL DEF MembersSpec

(* With bridges between all nodes, one node reaches another through the    *)
(* bridge between them, which runs unless the test has partitioned the two.*)
THEOREM LinksLeadWhereAsked == MembersSpec => []LinksAsAsked
<1>1. MembersInv => LinksAsAsked
  <2> SUFFICES ASSUME MembersInv, Whole, NEW p \in DOMAIN bridges
               PROVE  running[At(route[At(ports, p[1])], p[2])]
                        = IF {p[1], p[2]} \in cut THEN Nothing ELSE Bridge(At(ports, p[2]))
    BY DEF LinksAsAsked, Whole
  <2> USE DEF MembersInv
  <2>1. nodes # << >> /\ ~removed.inner
    BY DEF Whole, BridgesMade, MembersTypeOK, Housed
  <2>2. p \in Pairs(Len(nodes)) /\ Len(nodes) = Len(ports) /\ Len(nodes) \in Nat
    BY <2>1, TypesAre, NodesAre DEF Whole
  <2>3. p[1] \in 0 .. Len(ports) - 1 /\ p[2] \in 0 .. Len(ports) - 1
    BY <2>2, BridgePortsAre
  <2>4. ASSUME NEW h \in 0 .. Len(ports) - 1 PROVE At(ports, h) = h
    <3>1. h + 1 \in 1 .. Len(ports) /\ (h + 1) - 1 = h
      BY <2>2
    <3>2. ports[h + 1] = (h + 1) - 1
      BY <2>1, <3>1 DEF InPlace
    <3> QED
      BY <3>1, <3>2 DEF At
  <2>5. At(ports, p[1]) = p[1] /\ At(ports, p[2]) = p[2]
    BY <2>3, <2>4
  <2>6. /\ route[p[1]][p[2] + 1] = bridges[p].port
        /\ running[bridges[p].port] = IF {p[1], p[2]} \in cut THEN Nothing ELSE Bridge(p[2])
    BY DEF Linked
  <2> QED
    BY <2>5, <2>6 DEF At
<1> QED
  BY MembersInitInv, MembersNextInv, <1>1, PTL DEF MembersSpec

(* What a call was started as is what it reaches, as long as all positions *)
(* are as they were.                                                       *)
LEMMA ReachesItsNode ==
  ASSUME MembersInv, ~removed.inner, ~removed.back, NEW c \in 1 .. Len(conns)
  PROVE  /\ GetNodeId(c) = Unknown \/ GetNodeId(c) = conns[c].nodeId
         /\ GetPort(GetNodeId(c)) \in Ports =>
              /\ GetPort(GetNodeId(c)) = conns[c].port
              /\ GetNodeId(c) = conns[c].nodeId
<1> USE DEF MembersInv
<1>1. GetNodeId(c) = Unknown \/ GetNodeId(c) = conns[c].nodeId
  <2>1. CASE /\ GetNodeId(c) + 1 \in 1 .. Len(nodes) /\ nodes[GetNodeId(c) + 1] = c
             /\ GetNodeId(c) \in 0 .. Len(nodes) - 1
    <3>1. conns[nodes[GetNodeId(c) + 1]].nodeId = (GetNodeId(c) + 1) - 1
      BY <2>1 DEF InPlace, Gap
    <3>2. (GetNodeId(c) + 1) - 1 = GetNodeId(c)
      BY <2>1
    <3> QED
      BY <2>1, <3>1, <3>2
  <2> QED
    BY <2>1, GetNodeIdIs
<1>2. ASSUME GetPort(GetNodeId(c)) \in Ports
      PROVE  GetPort(GetNodeId(c)) = conns[c].port /\ GetNodeId(c) = conns[c].nodeId
  <2> DEFINE n == GetNodeId(c)
  <2>1. n \in 0 .. Len(ports) - 1 /\ n + 1 \in 1 .. Len(ports) /\ GetPort(n) = ports[n + 1]
    BY <1>2, GetPortIs, TypesAre
  <2>2. n # Unknown
    BY <2>1 DEF Unknown
  <2>3. n = conns[c].nodeId
    BY <1>1, <2>2
  <2> HIDE DEF n
  <2>4. ports[n + 1] = (n + 1) - 1 /\ (n + 1) - 1 = n
    BY <2>1 DEF InPlace
  <2>5. conns[c].port = n
    <3>1. conns[c].port \in {conns[c].nodeId, Unknown} /\ conns[c].port \in Ports
      BY NodesAre DEF InPlace
    <3> QED
      BY <2>3, <3>1, TypesAre
  <2> QED
    BY <2>1, <2>3, <2>4, <2>5 DEF n
<1> QED
  BY <1>1, <1>2

(* stop and restart of a connection change nothing on the set's ports but  *)
(* the one it was made for, where the node with its directory runs or      *)
(* nothing; and they start a node on another port only when one was        *)
(* removed, with that directory too.  Until a node before the last is      *)
(* removed, or a node was started so.                                      *)
THEOREM CallsHitTheirNode == MembersSpec => HitsItsNode
<1> DEFINE Hits == \A c \in 1 .. Len(conns) :
             ~removed.inner /\ ~removed.back /\ (Stop(c) \/ RestartNode(c)) =>
               /\ \A p \in Changed : /\ p = conns[c].port
                                     /\ running'[p] \in {Nothing, Node(conns[c].nodeId)}
               /\ \A d \in elsewhere' : d = conns[c].nodeId /\ removed.n > 0
<1>1. ASSUME MembersInv PROVE Hits
  <2> SUFFICES ASSUME NEW c \in 1 .. Len(conns), ~removed.inner, ~removed.back,
                      Stop(c) \/ RestartNode(c)
               PROVE  /\ \A p \in Changed : /\ p = conns[c].port
                                            /\ running'[p] \in {Nothing, Node(conns[c].nodeId)}
                      /\ \A d \in elsewhere' : d = conns[c].nodeId /\ removed.n > 0
    BY DEF Hits
  <2> DEFINE n == GetNodeId(c)
             q == GetPort(n)
             run == Stopped(running, q)
  <2>1. /\ \A p \in Changed : p \in Ports /\ running'[p] # running[p]
        /\ running \in [Ports -> Programs] /\ elsewhere = {} /\ MembersTypeOK
    BY <1>1 DEF Changed, MembersInv, MembersTypeOK
  <2>2. (q \in Ports => q = conns[c].port) /\ (n = Unknown \/ n = conns[c].nodeId)
    BY <1>1, ReachesItsNode
  <2>3. \/ q = Unknown /\ n \notin 0 .. Len(ports) - 1
        \/ q \in Ports /\ q # Unknown
    BY <2>1, GetPortIs
  <2> HIDE DEF n, q
  <2>4. /\ run \in [Ports -> Programs]
        /\ \A p \in Ports : run[p] = IF p = q THEN Nothing ELSE running[p]
    BY <2>1, <2>3, ProgramsAre, TypesAre DEF Stopped
  <2>5. CASE Stop(c)
    <3>1. running' = run /\ elsewhere' = {}
      BY <2>1, <2>5 DEF Stop, n, q
    <3> HIDE DEF run
    <3> QED
      BY <2>1, <2>2, <2>4, <3>1
  <2>6. CASE RestartNode(c)
    <3>1. /\ n # Unknown
          /\ \/ running' = run /\ elsewhere' = elsewhere
             \/ /\ running' = Started(run, n, q)
                /\ elsewhere' = IF q = Unknown THEN elsewhere \union {n} ELSE elsewhere
      BY <2>6 DEF RestartNode, StartNode, StartFails, n, q
    <3> HIDE DEF run
    <3>2. n = conns[c].nodeId
      BY <2>2, <3>1
    <3>3. ASSUME NEW p \in Changed
          PROVE  p = conns[c].port /\ running'[p] \in {Nothing, Node(n)}
      <4>1. p \in Ports /\ running'[p] # running[p]
        BY <2>1, <3>3
      <4>2. CASE running' = run
        BY <2>2, <2>4, <4>1, <4>2
      <4>3. CASE running' = Started(run, n, q)
        <5>1. p = q /\ running'[p] \in {Nothing, Node(n)}
          BY <2>4, <4>1, <4>3 DEF Started
        <5> QED
          BY <2>2, <4>1, <5>1
      <4> QED
        BY <3>1, <4>2, <4>3
    <3>4. ASSUME NEW d \in elsewhere' PROVE d = n /\ removed.n > 0
      <4>1. d = n /\ q = Unknown
        BY <2>1, <3>1, <3>4
      <4>2. n \notin 0 .. Len(ports) - 1
        BY <2>1, <2>3, <4>1, TypesAre
      <4>3. removed.n = 0 => n < Len(ports) /\ n \in Nat
        <5>1. conns[c].nodeId \in Positions
          BY <2>1, TypesAre
        <5> QED
          BY <1>1, <3>2, <5>1 DEF MembersInv, Housed, Positions
      <4>4. removed.n # 0 /\ removed.n \in Nat
        BY <2>1, <4>2, <4>3, TypesAre DEF MembersTypeOK
      <4> QED
        BY <4>1, <4>4
    <3> QED
      BY <3>2, <3>3, <3>4
  <2> QED
    BY <2>5, <2>6
<1>2. MembersInv /\ [MembersNext]_membersVars => [Hits]_membersVars
  BY <1>1
<1>3. HitsItsNode <=> [][Hits]_membersVars
  BY DEF HitsItsNode
<1> QED
  BY MembersInitInv, MembersNextInv, <1>2, <1>3, PTL DEF MembersSpec

(* add starts the new node in a directory no program uses, until a node is *)
(* removed.                                                                *)
THEOREM AddResetsOnlyUnused == MembersSpec => ResetsOnlyUnused
<1> DEFINE Resets == Add => \/ removed.n > 0
                            \/ \A p \in Ports : running[p] # Node(conns'[Len(conns')].nodeId)
<1>1. ASSUME MembersInv PROVE Resets
  <2> SUFFICES ASSUME Add, ~(removed.n > 0), NEW p \in Ports,
                      running[p] = Node(conns'[Len(conns')].nodeId)
               PROVE  FALSE
    OBVIOUS
  <2> USE DEF MembersInv
  <2>1. removed.n = 0
    <3>1. removed.n \in 0 .. MaxRemoved
      BY <1>1 DEF MembersTypeOK
    <3> QED
      BY <3>1
  <2> DEFINE w == PortIn(ports', Len(nodes))
  <2>2. /\ nodes # << >> /\ Len(ports) < MaxNodes /\ NextPort \in Ports
        /\ Len(nodes) \in Positions
        /\ conns' = Append(conns, [nodeId |-> Len(nodes), port |-> w])
    BY DEF Add, NextId, StartNode
  <2> HIDE DEF w
  <2>3. conns'[Len(conns')].nodeId = Len(nodes)
    <3>1. conns \in Seq(Conn)
      BY <1>1, TypesAre
    <3> DEFINE new == [nodeId |-> Len(nodes), port |-> w]
    <3>2. new.nodeId = Len(nodes)
      OBVIOUS
    <3> HIDE DEF new
    <3>3. Len(conns') = Len(conns) + 1 /\ conns'[Len(conns) + 1] = new
      BY <2>2, <3>1 DEF new
    <3> QED
      BY <3>2, <3>3
  <2>4. Len(nodes) = Len(ports) /\ Len(ports) \in Nat /\ Len(nodes) \in Positions
    BY <1>1, <2>1, <2>2, TypesAre, NodesAre
  <2>5. Len(nodes) < Len(ports)
    BY <1>1, <2>1, <2>3, <2>4 DEF Housed
  <2> QED
    BY <2>4, <2>5
<1>2. MembersInv /\ [MembersNext]_membersVars => [Resets]_membersVars
  BY <1>1
<1>3. ResetsOnlyUnused <=> [][Resets]_membersVars
  BY DEF ResetsOnlyUnused
<1> QED
  BY MembersInitInv, MembersNextInv, <1>2, <1>3, PTL DEF MembersSpec

=============================================================================
