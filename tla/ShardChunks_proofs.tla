------------------------- MODULE ShardChunks_proofs -------------------------
(***************************************************************************)
(* Proofs about ShardChunks, for any number of shards, chunks and attempts: *)
(* what a test may conclude from counts it takes shard by shard, and what  *)
(* shardGo has done when it returns; and about ShardCluster, for any number *)
(* of tests, shards, mongos and crashes: which programs a ShardingTest has *)
(* connections to, and which of them it leaves.                            *)
(***************************************************************************)
EXTENDS ShardChunks, ShardCluster, FiniteSetTheorems, SequenceTheorems,
        WellFoundedInduction, TLAPS

-----------------------------------------------------------------------------
(* The inductive invariant.                                                *)

(* A migration is of a chunk that is still where it comes from, or has come *)
(* to where it goes; no old copy is to be deleted there.  A balancer's is  *)
(* known, and the test's is the one shardGo waits for; whatever shardGo    *)
(* asked for goes away from the primary.                                   *)
Migrating ==
  /\ move # NoMove =>
       /\ move.chunk \in DOMAIN placed /\ move.from # move.to
       /\ placed[move.chunk] = IF move.at = "committed" THEN move.to ELSE move.from
       /\ <<move.to, move.chunk>> \notin cleaning
       /\ move.at # "locked" => move.chunk \in copies[move.to]
       /\ move.by = "balancer" => balanced
       /\ move.by = "test" => /\ call.op = "shardGo" /\ call.step = "wait"
                              /\ move.chunk = 2
       /\ move.by # "balancer" => move.to # Primary
  /\ call.op = "shardGo" /\ call.step = "wait" => move # NoMove /\ move.by = "test"

(* The document of a chunk is where the chunk is; the copies that are to be *)
(* deleted are elsewhere; before the collection is sharded, all of it is on *)
(* the primary.                                                            *)
Owned ==
  /\ \A c \in DOMAIN placed : c \in copies[placed[c]]
  /\ \A p \in cleaning : p[2] \in DOMAIN placed /\ placed[p[2]] # p[1]
  /\ placed = << >> => copies = [s \in Shards |-> IF s = Primary THEN {1} ELSE {}]

(* Other copies of a sharded collection are still to be deleted, or made by *)
(* the migration under way.                                                *)
NoOthers ==
  placed # << >> /\ "copied" \notin failed =>
    \A s \in Shards : \A c \in copies[s] :
      \/ c \in DOMAIN placed /\ placed[c] = s
      \/ <<s, c>> \in cleaning
      \/ move # NoMove /\ move.at = "copied" /\ move.to = s /\ move.chunk = c

(* Nothing moves when isAnyBalanceInFlight has said no, or is about to.    *)
Calm ==
  /\ quiet => ~on /\ ~round /\ move = NoMove /\ cleaning = {} /\ call.op # "shardGo"
  /\ call.op = "inFlight" /\ call.calm => /\ ~on /\ ~round
                                          /\ call.step = "second" => move = NoMove
  /\ call.op \in {"counts", "keys"} /\ call.calm => quiet

PlacedBefore(s) == {c \in DOMAIN placed : placed[c] < s}

(* What has been found on the shards that were asked.                      *)
Counted ==
  call.op = "counts" /\ call.calm =>
    /\ placed # << >>
    /\ call.owners = {placed[c] : c \in PlacedBefore(call.at)}
    /\ "copied" \notin failed => /\ call.sum = Cardinality(PlacedBefore(call.at))
                                /\ call.shards = Cardinality(call.owners)

KeysFound ==
  /\ call.op = "keys" /\ call.at = 0 => call.todo = {}
  /\ call.op = "keys" /\ call.calm =>
       /\ call.todo \subseteq {c \in DOMAIN placed : placed[c] = call.at - 1}
       /\ call.points = {<<placed[c], c>> : c \in PlacedBefore(call.at) \ call.todo}

(* All chunks are on the primary until shardGo moves one, unless the       *)
(* balancer does, or a migration has outlived its command.                 *)
AtHome == cleaning = {} /\ \A c \in DOMAIN placed : placed[c] = Primary

Undisturbed == ~balanced /\ "command" \notin failed

Going ==
  call.op = "shardGo" =>
    /\ call.step = "split" => DOMAIN placed = {1}
    /\ call.step \in {"ask", "wait", "ok", "failed", "threw"} => DOMAIN placed = {1, 2}
    /\ call.step \in {"split", "ask", "failed"} /\ Undisturbed => move = NoMove /\ AtHome
    /\ call.step = "wait" /\ Undisturbed /\ move.at # "committed" => AtHome

(* Each of the attempts there have been was a migration that failed.       *)
EachFailed ==
  call.op = "shardGo" /\ Undisturbed =>
    /\ call.step \in {"ask", "wait"} => call.failures = Tries - call.tries
    /\ call.step = "failed" => call.failures = Tries - call.tries + 1
    /\ call.step = "threw" => call.failures = Tries

(* The chunks that getSplitKeysForChunks knows of are chunks.              *)
Known ==
  /\ call.op = "keys" => call.todo \subseteq DOMAIN placed
  /\ call.op \in {"keys", "splitter"} => \A p \in call.points : p[2] \in DOMAIN placed

Inv ==
  /\ TypeOK /\ Migrating /\ Owned /\ NoOthers /\ Calm /\ Counted /\ KeysFound /\ Going
  /\ EachFailed /\ ShardGoMoves

-----------------------------------------------------------------------------
(* The calls and the migrations.                                           *)

(* A call that there is is one of the kinds, which its op tells.           *)
LEMMA CallKinds ==
  ASSUME NEW x \in Calls
  PROVE  /\ x.op = "none" => x = NoCall
         /\ x.op = "shardGo" => x \in ShardGoCalls
         /\ x.op = "inFlight" => x \in InFlightCalls
         /\ x.op = "counts" => x \in CountCalls
         /\ x.op = "await" => x \in AwaitCalls
         /\ x.op = "keys" => x \in KeyCalls
         /\ x.op = "splitter" => x \in SplitterCalls
BY DEF Calls, NoCall, ShardGoCalls, InFlightCalls, CountCalls, AwaitCalls, KeyCalls,
       SplitterCalls

LEMMA NoCallIs == NoCall \in Calls /\ NoCall.op = "none"
BY DEF NoCall, Calls

(* shardGo goes on to another step.                                        *)
LEMMA StepIs ==
  ASSUME NEW x \in ShardGoCalls,
         NEW st \in {"ask", "wait", "ok", "failed", "threw", "lost"}
  PROVE  LET y == [x EXCEPT !.step = st]
         IN  /\ y \in Calls /\ y.op = "shardGo" /\ y.step = st /\ y.tries = x.tries
             /\ y.failures = x.failures
BY DEF ShardGoCalls, Calls

LEMMA FailIs ==
  ASSUME NEW x \in ShardGoCalls
  PROVE  LET y == [x EXCEPT !.step = "failed", !.failures = @ + 1]
         IN  /\ y \in Calls /\ y.op = "shardGo" /\ y.step = "failed" /\ y.tries = x.tries
             /\ y.failures = x.failures + 1
<1>1. x.failures + 1 \in Nat
  BY DEF ShardGoCalls
<1>2. [x EXCEPT !.step = "failed", !.failures = @ + 1] \in ShardGoCalls
  BY <1>1 DEF ShardGoCalls
<1> QED
  BY <1>2 DEF ShardGoCalls, Calls

LEMMA InShardGoIs ==
  ASSUME NEW st \in {"split", "ask", "refused", "lost"}
  PROVE  /\ InShardGo(st) \in Calls /\ InShardGo(st).op = "shardGo"
         /\ InShardGo(st).step = st /\ InShardGo(st).tries = Tries
         /\ InShardGo(st).failures = 0
<1>1. Tries \in 1 .. Tries
  BY TriesAssumption
<1>2. InShardGo(st) \in ShardGoCalls
  BY <1>1 DEF InShardGo, ShardGoCalls
<1> QED
  BY <1>2 DEF InShardGo, Calls

LEMMA RetryIs ==
  ASSUME NEW x \in ShardGoCalls, x.tries > 1
  PROVE  LET y == [x EXCEPT !.step = "ask", !.tries = @ - 1]
         IN  /\ y \in Calls /\ y.op = "shardGo" /\ y.step = "ask"
             /\ y.tries = x.tries - 1 /\ y.failures = x.failures
<1>1. x.tries - 1 \in 1 .. Tries
  BY TriesAssumption DEF ShardGoCalls
<1>2. [x EXCEPT !.step = "ask", !.tries = @ - 1] \in ShardGoCalls
  BY <1>1 DEF ShardGoCalls
<1> QED
  BY <1>2 DEF ShardGoCalls, Calls

(* A migration that there is, and one that gets further.                   *)
LEMMA MoveIs ==
  ASSUME NEW m \in {NoMove} \union Migrations
  PROVE  m # NoMove <=> m \in Migrations
BY DEF NoMove, Migrations

LEMMA MoveAt ==
  ASSUME NEW m \in Migrations, NEW a \in {"locked", "copied", "committed"}
  PROVE  LET n == [m EXCEPT !.at = a]
         IN  /\ n \in Migrations /\ n # NoMove /\ n.at = a /\ n.by = m.by
             /\ n.chunk = m.chunk /\ n.from = m.from /\ n.to = m.to
<1>1. [m EXCEPT !.at = a] \in Migrations
  BY DEF Migrations
<1> QED
  BY <1>1, MoveIs DEF Migrations

-----------------------------------------------------------------------------
(* The chunks and the shards.                                              *)

LEMMA PlacedIs ==
  ASSUME TypeOK
  PROVE  /\ \E k \in 0 .. MaxChunks : placed \in [1 .. k -> Shards]
         /\ DOMAIN placed \subseteq Chunks /\ \A c \in DOMAIN placed : placed[c] \in Shards
         /\ IsFiniteSet(DOMAIN placed)
         /\ DOMAIN placed = 1 .. Cardinality(DOMAIN placed)
         /\ Cardinality(DOMAIN placed) \in 0 .. MaxChunks
         /\ placed = << >> <=> DOMAIN placed = {}
<1>1. PICK k \in 0 .. MaxChunks : placed \in [1 .. k -> Shards]
  BY DEF TypeOK
<1>2. k \in Nat /\ k <= MaxChunks /\ 1 \in Int /\ k \in Int
  BY MaxChunksAssumption
<1>3. IsFiniteSet(1 .. k) /\ Cardinality(1 .. k) = k
  BY <1>2, FS_Interval
<1>4. DOMAIN placed = 1 .. k
  BY <1>1
<1>5. placed = << >> <=> DOMAIN placed = {}
  <2>1. DOMAIN << >> = {}
    OBVIOUS
  <2>2. ASSUME DOMAIN placed = {} PROVE placed = << >>
    BY <1>1, <1>4, <2>1, <2>2
  <2> QED
    BY <2>1, <2>2
<1> QED
  BY <1>1, <1>2, <1>3, <1>4, <1>5, MaxChunksAssumption DEF Chunks

(* A chunk that is split off is new, and on the shard of the one it was    *)
(* split off from, with its document; the others stay as they were.        *)
LEMMA SplitOffIs ==
  ASSUME TypeOK, NEW c \in DOMAIN placed, SplitOff(c)
  PROVE  \E new \in Chunks :
           /\ new = Cardinality(DOMAIN placed) + 1 /\ new \notin DOMAIN placed
           /\ DOMAIN placed' = DOMAIN placed \union {new}
           /\ placed' \in UNION {[1 .. k -> Shards] : k \in 0 .. MaxChunks}
           /\ placed'[new] = placed[c] /\ \A d \in DOMAIN placed : placed'[d] = placed[d]
           /\ copies' \in [Shards -> SUBSET Chunks]
           /\ copies'[placed[c]] = copies[placed[c]] \union {new}
           /\ \A s \in Shards : s # placed[c] => copies'[s] = copies[s]
<1> DEFINE n == Cardinality(DOMAIN placed)
           new == n + 1
<1>1. /\ DOMAIN placed = 1 .. n /\ n \in Nat /\ placed[c] \in Shards
      /\ \A d \in DOMAIN placed : placed[d] \in Shards
  BY PlacedIs, MaxChunksAssumption
<1>2. /\ new \in Chunks
      /\ placed' = [k \in DOMAIN placed \union {new} |-> IF k = new THEN placed[c] ELSE placed[k]]
      /\ copies' = [copies EXCEPT ![placed[c]] = @ \union {new}]
  BY DEF SplitOff
<1> HIDE DEF n
<1>3. /\ new \notin DOMAIN placed /\ new \in 0 .. MaxChunks
      /\ DOMAIN placed \union {new} = 1 .. new
  BY <1>1, <1>2, MaxChunksAssumption DEF Chunks
<1> HIDE DEF new
<1>4. /\ DOMAIN placed' = DOMAIN placed \union {new} /\ placed'[new] = placed[c]
      /\ \A d \in DOMAIN placed : placed'[d] = placed[d]
  BY <1>2, <1>3
<1>5. placed' \in [1 .. new -> Shards]
  BY <1>1, <1>2, <1>3
<1>6. /\ copies' \in [Shards -> SUBSET Chunks]
      /\ copies'[placed[c]] = copies[placed[c]] \union {new}
      /\ \A s \in Shards : s # placed[c] => copies'[s] = copies[s]
  BY <1>1, <1>2 DEF TypeOK
<1> QED
  BY <1>2, <1>3, <1>4, <1>5, <1>6 DEF n, new

(* There is a shard other than the primary, and getOther finds one.        *)
LEMMA OtherIs == GetOther(GetServer) \in Shards /\ GetOther(GetServer) # Primary
<1> DEFINE T == Shards \ {Primary}
           R == {ss \in Nat \X Nat : ss[1] < ss[2]}
<1>1. T \in SUBSET Nat /\ T # {}
  <2>1. 0 \in Shards /\ 1 \in Shards /\ Shards \subseteq Nat
    BY NumShardsAssumption DEF Shards
  <2>2. 0 \in T \/ 1 \in T
    BY <2>1
  <2> HIDE DEF T
  <2>3. T # {}
    BY <2>2
  <2> QED
    BY <2>1, <2>3 DEF T
<1>2. \E s \in T : \A r \in T : s <= r
  <2>1. IsWellFoundedOn(R, Nat)
    BY NatLessThanWellFounded DEF OpToRel
  <2>2. PICK s \in T : \A r \in T : ~(<<r, s>> \in R)
    <3> HIDE DEF R, T
    <3> QED
      BY <1>1, <2>1, WFMin
  <2>3. ASSUME NEW r \in T PROVE s <= r
    <3>1. ~(<<r, s>> \in R)
      <4> HIDE DEF R
      <4> QED
        BY <2>2
    <3> HIDE DEF T
    <3> QED
      BY <1>1, <3>1
  <2> QED
    BY <2>3
<1>3. GetOther(GetServer) \in T
  BY <1>2 DEF GetOther, GetServer
<1> QED
  BY <1>3

-----------------------------------------------------------------------------
(* The calls that look at the cluster.                                     *)

Asking ==
  \/ IsAnyBalanceInFlight \/ LookFirst \/ LookSecond
  \/ ShardCounts \/ CountNext \/ CountsDone \/ AwaitBalance \/ AskBalance \/ AwaitDone
  \/ SplitKeys \/ ChunksOfNext \/ SplitterEnds
  \/ \E run \in BOOLEAN : Splitter(run)
  \/ \E c \in Chunks : SplitVector(c)

(* They change neither chunks nor migrations, and are not shardGo.         *)
LEMMA AskingCall ==
  ASSUME Inv, Asking
  PROVE  /\ call' \in Calls /\ call.op # "shardGo" /\ call'.op # "shardGo"
         /\ UNCHANGED <<dataVars, history>>
         /\ on' \in BOOLEAN /\ round' \in BOOLEAN /\ quiet' \in BOOLEAN
<1>1. /\ TypeOK /\ NoCall \in Calls /\ NoCall.op = "none" /\ call \in Calls
      /\ on \in BOOLEAN /\ round \in BOOLEAN /\ quiet \in BOOLEAN
  BY NoCallIs DEF Inv, TypeOK
<1>2. CASE IsAnyBalanceInFlight
  <2>1. [op |-> "inFlight", step |-> "first", calm |-> ~on /\ ~round] \in InFlightCalls
    BY <1>1 DEF InFlightCalls
  <2> QED
    BY <1>1, <1>2, <2>1 DEF IsAnyBalanceInFlight, Free, InFlightCalls, Calls, balancerVars
<1>3. CASE LookFirst \/ LookSecond
  <2>1. call \in InFlightCalls
    BY <1>1, <1>3, CallKinds DEF LookFirst, LookSecond
  <2>2. [call EXCEPT !.step = "second"] \in InFlightCalls
    BY <2>1 DEF InFlightCalls
  <2>3. call' = NoCall \/ call' = [call EXCEPT !.step = "second"]
    BY <1>3 DEF LookFirst, LookSecond
  <2>4. call' \in Calls /\ call'.op # "shardGo"
    BY <1>1, <2>2, <2>3 DEF InFlightCalls, Calls
  <2>5. quiet' \in BOOLEAN
    <3>1. CASE LookFirst
      BY <1>1, <3>1 DEF LookFirst
    <3>2. CASE LookSecond
      BY <1>1, <3>2, Zenon DEF LookSecond
    <3> QED
      BY <1>3, <3>1, <3>2
  <2> QED
    BY <1>1, <1>3, <2>1, <2>4, <2>5 DEF LookFirst, LookSecond, InFlightCalls, balancerVars
<1>4. CASE ShardCounts
  <2>1. 0 \in 0 .. NumShards
    BY NumShardsAssumption
  <2>2. [op |-> "counts", at |-> 0, sum |-> 0, shards |-> 0, owners |-> {}, calm |-> quiet]
          \in CountCalls
    BY <1>1, <2>1 DEF CountCalls
  <2> QED
    BY <1>1, <1>4, <2>2 DEF ShardCounts, Free, CountCalls, Calls, balancerVars
<1>5. CASE CountNext
  <2>1. call \in CountCalls /\ call.at \in Shards
    BY <1>1, <1>5, CallKinds DEF CountNext
  <2>2. call.at + 1 \in 0 .. NumShards
    BY <2>1, NumShardsAssumption DEF Shards
  <2>3. Cardinality(copies[call.at]) \in Nat
    <3>1. copies[call.at] \in SUBSET Chunks
      BY <1>1, <2>1 DEF TypeOK
    <3>2. IsFiniteSet(1 .. MaxChunks)
      BY MaxChunksAssumption, FS_Interval
    <3> QED
      BY <3>1, <3>2, FS_Subset, FS_CardinalityType DEF Chunks
  <2>4. /\ call.sum + Cardinality(copies[call.at]) \in Nat
        /\ call.shards + (IF copies[call.at] = {} THEN 0 ELSE 1) \in Nat
    BY <2>1, <2>3 DEF CountCalls
  <2>5. call.owners \union {s \in {call.at} : Explained(s)} \in SUBSET Shards
    BY <2>1 DEF CountCalls
  <2>6. [call EXCEPT !.at = @ + 1, !.sum = @ + Cardinality(copies[call.at]),
                     !.shards = @ + (IF copies[call.at] = {} THEN 0 ELSE 1),
                     !.owners = @ \union {s \in {call.at} : Explained(s)}] \in CountCalls
    BY <2>1, <2>2, <2>4, <2>5 DEF CountCalls
  <2> QED
    BY <1>1, <1>5, <2>1, <2>6 DEF CountNext, CountCalls, Calls, balancerVars
<1>6. CASE CountsDone \/ AwaitDone
  BY <1>1, <1>6 DEF CountsDone, AwaitDone, balancerVars
<1>7. CASE AwaitBalance
  BY <1>1, <1>7 DEF AwaitBalance, Free, AwaitCalls, Calls, balancerVars
<1>8. CASE AskBalance
  <2>1. call \in AwaitCalls
    BY <1>1, <1>8, CallKinds DEF AskBalance
  <2>2. [call EXCEPT !.step = "ok"] \in AwaitCalls
    BY <2>1 DEF AwaitCalls
  <2> QED
    BY <1>1, <1>8, <2>1, <2>2 DEF AskBalance, AwaitCalls, Calls, balancerVars
<1>9. CASE SplitKeys
  <2>1. 0 \in 0 .. NumShards
    BY NumShardsAssumption
  <2>2. [op |-> "keys", at |-> 0, todo |-> {}, points |-> {}, calm |-> quiet] \in KeyCalls
    BY <1>1, <2>1 DEF KeyCalls
  <2> QED
    BY <1>1, <1>9, <2>2 DEF SplitKeys, Free, KeyCalls, Calls, balancerVars
<1>10. CASE ChunksOfNext
  <2>1. call \in KeyCalls /\ call.at \in Shards
    BY <1>1, <1>10, CallKinds DEF ChunksOfNext
  <2>2. call.at + 1 \in 0 .. NumShards
    BY <2>1, NumShardsAssumption DEF Shards
  <2>3. {c \in DOMAIN placed : placed[c] = call.at} \in SUBSET Chunks
    BY <1>1, PlacedIs
  <2>4. [call EXCEPT !.at = @ + 1, !.todo = {c \in DOMAIN placed : placed[c] = call.at}]
          \in KeyCalls
    BY <2>1, <2>2, <2>3 DEF KeyCalls
  <2> QED
    BY <1>1, <1>10, <2>1, <2>4 DEF ChunksOfNext, KeyCalls, Calls, balancerVars
<1>11. CASE SplitterEnds
  BY <1>1, <1>11 DEF SplitterEnds
<1>12. ASSUME NEW run \in BOOLEAN, Splitter(run)
       PROVE  /\ call' \in Calls /\ call.op # "shardGo" /\ call'.op # "shardGo"
              /\ UNCHANGED <<dataVars, history>>
              /\ on' \in BOOLEAN /\ round' \in BOOLEAN /\ quiet' \in BOOLEAN
  <2>1. call \in KeyCalls
    BY <1>1, <1>12, CallKinds DEF Splitter, KeysDone
  <2>2. [op |-> "splitter", points |-> call.points] \in SplitterCalls
    BY <2>1 DEF KeyCalls, SplitterCalls
  <2>3. call' = NoCall \/ call' = [op |-> "splitter", points |-> call.points]
    BY <1>12 DEF Splitter
  <2>4. call' \in Calls /\ call'.op # "shardGo"
    BY <1>1, <2>2, <2>3 DEF Calls
  <2> QED
    BY <1>1, <1>12, <2>1, <2>4 DEF Splitter, KeyCalls
<1>13. ASSUME NEW c \in Chunks, SplitVector(c)
       PROVE  /\ call' \in Calls /\ call.op # "shardGo" /\ call'.op # "shardGo"
              /\ UNCHANGED <<dataVars, history>>
              /\ on' \in BOOLEAN /\ round' \in BOOLEAN /\ quiet' \in BOOLEAN
  <2>1. call \in KeyCalls /\ c \in call.todo
    BY <1>1, <1>13, CallKinds DEF SplitVector
  <2>2. call.at - 1 \in Shards
    BY <2>1, <1>13, NumShardsAssumption DEF Inv, KeysFound, SplitVector, KeyCalls, Shards
  <2>3. call.points \union {p \in {<<call.at - 1, c>>} : c \in copies[p[1]]}
          \in SUBSET (Shards \X Chunks)
    BY <2>1, <2>2 DEF KeyCalls
  <2>4. [call EXCEPT !.todo = @ \ {c},
                     !.points = @ \union {p \in {<<call.at - 1, c>>} : c \in copies[p[1]]}]
          \in KeyCalls
    BY <2>1, <2>3 DEF KeyCalls
  <2> QED
    BY <1>1, <1>13, <2>1, <2>4 DEF SplitVector, KeyCalls, Calls, balancerVars
<1> QED
  BY <1>2, <1>3, <1>4, <1>5, <1>6, <1>7, <1>8, <1>9, <1>10, <1>11, <1>12, <1>13 DEF Asking

(* What stands as long as chunks and migrations do, but for shardGo.       *)
LEMMA DataStands ==
  ASSUME Inv, UNCHANGED <<dataVars, history>>,
         call' = call \/ (call.op # "shardGo" /\ call'.op # "shardGo")
  PROVE  (Migrating /\ Owned /\ NoOthers /\ Going /\ EachFailed /\ ShardGoMoves)'
<1>1. /\ placed' = placed /\ copies' = copies /\ move' = move /\ cleaning' = cleaning
      /\ balanced' = balanced /\ failed' = failed
  BY DEF dataVars, history
<1>2. move # NoMove => move.by \in {"balancer", "left"} \/ call' = call
  <2>1. move # NoMove => move.by \in {"balancer", "test", "left"}
    BY MoveIs DEF Inv, TypeOK, Migrations
  <2> QED
    BY <2>1 DEF Inv, Migrating
<1>3. Migrating'
  BY <1>1, <1>2 DEF Inv, Migrating
<1>4. Owned' /\ NoOthers'
  BY <1>1 DEF Inv, Owned, NoOthers
<1>5. Going' /\ EachFailed' /\ ShardGoMoves'
  BY <1>1 DEF Inv, Going, EachFailed, Undisturbed, ShardGoMoves, AtHome
<1> QED
  BY <1>3, <1>4, <1>5

(* While nothing moves, they find what there is.                           *)
LEMMA AskingCalm ==
  ASSUME Inv, Asking
  PROVE  Calm'
<1>1. /\ TypeOK /\ Calm /\ NoCall.op = "none" /\ call \in Calls /\ UNCHANGED <<move, cleaning>>
      /\ call'.op # "shardGo"
  BY AskingCall, NoCallIs DEF Inv, TypeOK, dataVars
<1>2. CASE IsAnyBalanceInFlight
  BY <1>1, <1>2 DEF IsAnyBalanceInFlight, Free, Calm, balancerVars
<1>3. CASE LookFirst
  <2>1. call \in InFlightCalls
    BY <1>1, <1>3, CallKinds DEF LookFirst
  <2>2. CASE FirstLook
    BY <1>1, <1>3, <2>1, <2>2 DEF LookFirst, Calm, balancerVars
  <2>3. CASE ~FirstLook
    <3>1. call' = [call EXCEPT !.step = "second"] /\ move = NoMove
      BY <1>3, <2>3 DEF LookFirst, FirstLook
    <3>2. call'.op = "inFlight" /\ call'.calm = call.calm
      BY <2>1, <3>1 DEF InFlightCalls
    <3> QED
      BY <1>1, <1>3, <2>1, <3>1, <3>2 DEF LookFirst, Calm, balancerVars
  <2> QED
    BY <2>2, <2>3
<1>4. CASE LookSecond
  BY <1>1, <1>4 DEF LookSecond, SecondLook, Calm, balancerVars
<1>5. CASE ShardCounts \/ SplitKeys
  BY <1>1, <1>5 DEF ShardCounts, SplitKeys, Free, Calm, balancerVars
<1>6. CASE CountNext
  <2>1. call \in CountCalls
    BY <1>1, <1>6, CallKinds DEF CountNext
  <2>2. call'.op = "counts" /\ call'.calm = call.calm
    BY <1>6, <2>1 DEF CountNext, CountCalls
  <2> QED
    BY <1>1, <1>6, <2>2 DEF CountNext, Calm, balancerVars
<1>7. CASE CountsDone \/ AwaitDone
  BY <1>1, <1>7 DEF CountsDone, AwaitDone, Calm, balancerVars
<1>8. CASE AwaitBalance \/ AskBalance
  <2>1. call'.op = "await"
    <3>1. CASE AwaitBalance
      BY <3>1 DEF AwaitBalance
    <3>2. CASE AskBalance
      <4>1. call \in AwaitCalls
        BY <1>1, <3>2, CallKinds DEF AskBalance
      <4> QED
        BY <3>2, <4>1 DEF AskBalance, AwaitCalls
    <3> QED
      BY <1>8, <3>1, <3>2
  <2> QED
    BY <1>1, <1>8, <2>1 DEF AwaitBalance, AskBalance, Calm, balancerVars
<1>9. CASE ChunksOfNext
  <2>1. call \in KeyCalls
    BY <1>1, <1>9, CallKinds DEF ChunksOfNext
  <2>2. call'.op = "keys" /\ call'.calm = call.calm
    BY <1>9, <2>1 DEF ChunksOfNext, KeyCalls
  <2> QED
    BY <1>1, <1>9, <2>2 DEF ChunksOfNext, Calm, balancerVars
<1>10. CASE SplitterEnds
  BY <1>1, <1>10 DEF SplitterEnds, Calm
<1>11. ASSUME NEW run \in BOOLEAN, Splitter(run) PROVE Calm'
  <2>1. call'.op \in {"none", "splitter"}
    BY <1>1, <1>11 DEF Splitter
  <2> QED
    BY <1>1, <1>11, <2>1 DEF Splitter, Calm
<1>12. ASSUME NEW c \in Chunks, SplitVector(c) PROVE Calm'
  <2>1. call \in KeyCalls
    BY <1>1, <1>12, CallKinds DEF SplitVector
  <2>2. call'.op = "keys" /\ call'.calm = call.calm
    BY <1>12, <2>1 DEF SplitVector, KeyCalls
  <2> QED
    BY <1>1, <1>12, <2>2 DEF SplitVector, Calm, balancerVars
<1> QED
  BY <1>2, <1>3, <1>4, <1>5, <1>6, <1>7, <1>8, <1>9, <1>10, <1>11, <1>12 DEF Asking

(* The chunks before the next shard are those before this one and its own. *)
LEMMA PlacedUpTo ==
  ASSUME TypeOK, NEW s \in Shards
  PROVE  LET Q == {c \in DOMAIN placed : placed[c] = s}
         IN  /\ PlacedBefore(s + 1) = PlacedBefore(s) \union Q
             /\ PlacedBefore(s) \intersect Q = {}
             /\ IsFiniteSet(PlacedBefore(s)) /\ IsFiniteSet(Q)
             /\ Cardinality(PlacedBefore(s + 1)) = Cardinality(PlacedBefore(s)) + Cardinality(Q)
<1> DEFINE P == PlacedBefore(s)
           Q == {c \in DOMAIN placed : placed[c] = s}
<1>1. s \in Int /\ \A c \in DOMAIN placed : placed[c] \in Int
  BY PlacedIs, NumShardsAssumption DEF Shards
<1>2. PlacedBefore(s + 1) = P \union Q
  BY <1>1 DEF PlacedBefore
<1>3. P \intersect Q = {}
  BY <1>1 DEF PlacedBefore
<1>4. P \subseteq DOMAIN placed /\ Q \subseteq DOMAIN placed
  BY DEF PlacedBefore
<1>5. IsFiniteSet(P) /\ IsFiniteSet(Q)
  <2> HIDE DEF P, Q
  <2> QED
    BY <1>4, PlacedIs, FS_Subset
<1>6. Cardinality(P \union Q) = Cardinality(P) + Cardinality(Q)
  <2> HIDE DEF P, Q
  <2>1. Cardinality(P) \in Nat /\ Cardinality(Q) \in Nat
    BY <1>5, FS_CardinalityType
  <2> QED
    <3>1. Cardinality(P \intersect Q) = 0
      BY <1>3, FS_EmptySet
    <3>2. Cardinality(P \union Q) = Cardinality(P) + Cardinality(Q) - Cardinality(P \intersect Q)
      BY <1>5, FS_Union
    <3> QED
      BY <2>1, <3>1, <3>2
<1> QED
  BY <1>2, <1>3, <1>5, <1>6

LEMMA AskingCounts ==
  ASSUME Inv, Asking
  PROVE  Counted'
<1>1. /\ TypeOK /\ NoCall.op = "none" /\ call \in Calls
      /\ placed' = placed /\ copies' = copies /\ failed' = failed
  BY AskingCall, NoCallIs DEF Inv, TypeOK, dataVars, history
<1>2. CASE ShardCounts
  <2>1. /\ call' = [op |-> "counts", at |-> 0, sum |-> 0, shards |-> 0, owners |-> {},
                    calm |-> quiet]
        /\ placed # << >>
    BY <1>2 DEF ShardCounts
  <2>2. PlacedBefore(0) = {}
    <3>1. \A c \in DOMAIN placed : ~(placed[c] < 0)
      BY <1>1, PlacedIs, NumShardsAssumption DEF Shards
    <3> QED
      BY <3>1 DEF PlacedBefore
  <2>3. PlacedBefore(0)' = {}
    BY <1>1, <2>2 DEF PlacedBefore
  <2>4. Cardinality({}) = 0
    BY FS_EmptySet
  <2>5. {placed[c] : c \in {}} = {}
    OBVIOUS
  <2>6. call'.at = 0 /\ call'.sum = 0 /\ call'.shards = 0 /\ call'.owners = {}
    BY <2>1
  <2>7. PlacedBefore(call.at)' = {}
    BY <2>3, <2>6 DEF PlacedBefore
  <2> QED
    BY <1>1, <2>1, <2>4, <2>5, <2>6, <2>7 DEF Counted
<1>3. CASE CountNext
  <2> DEFINE at == call.at
             Q == {c \in DOMAIN placed : placed[c] = at}
             P == PlacedBefore(at)
  <2>1. call \in CountCalls /\ at \in Shards
    BY <1>1, <1>3, CallKinds DEF CountNext
  <2>2. /\ call'.op = call.op /\ call'.calm = call.calm /\ call'.at = at + 1
        /\ call'.sum = call.sum + Cardinality(copies[at])
        /\ call'.shards = call.shards + (IF copies[at] = {} THEN 0 ELSE 1)
        /\ call'.owners = call.owners \union {s \in {at} : Explained(s)}
    BY <1>3, <2>1 DEF CountNext, CountCalls
  <2> SUFFICES ASSUME call.calm
               PROVE  Counted'
    BY <2>2 DEF Counted
  <2>3. /\ placed # << >> /\ call.owners = {placed[c] : c \in P}
        /\ "copied" \notin failed => /\ call.sum = Cardinality(P)
                                    /\ call.shards = Cardinality(call.owners)
    BY <1>3 DEF Inv, Counted, CountNext
  <2>4. move = NoMove /\ cleaning = {}
    BY <1>3 DEF Inv, Calm, CountNext
  <2>5. /\ PlacedBefore(at + 1) = P \union Q /\ IsFiniteSet(P)
        /\ Cardinality(PlacedBefore(at + 1)) = Cardinality(P) + Cardinality(Q)
    BY <1>1, <2>1, PlacedUpTo
  <2>6. PlacedBefore(call.at)' = P \union Q
    BY <1>1, <2>2, <2>5 DEF PlacedBefore
  <2>7. Explained(at) <=> Q # {}
    <3>1. Explained(at) => Q # {}
      BY DEF Explained
    <3>2. ASSUME Q # {} PROVE Explained(at)
      <4>1. PICK c \in DOMAIN placed : placed[c] = at
        BY <3>2
      <4>2. c \in copies[at]
        BY <4>1 DEF Inv, Owned
      <4> QED
        BY <4>1, <4>2 DEF Explained
    <3> QED
      BY <3>1, <3>2
  <2>8. {s \in {at} : Explained(s)} = {placed[c] : c \in Q}
    BY <2>7
  <2>9. {placed[c] : c \in P} \union {placed[c] : c \in Q} = {placed[c] : c \in P \union Q}
    <3> HIDE DEF P, Q
    <3> QED
      OBVIOUS
  <2>10. call'.owners = {placed'[c] : c \in PlacedBefore(call.at)'}
    BY <1>1, <2>2, <2>3, <2>6, <2>8, <2>9
  <2>11. ASSUME "copied" \notin failed
         PROVE  /\ call'.sum = Cardinality(PlacedBefore(call.at)')
                /\ call'.shards = Cardinality(call'.owners)
    <3>1. copies[at] = Q
      <4>1. \A c \in copies[at] : c \in DOMAIN placed /\ placed[c] = at
        BY <2>1, <2>3, <2>4, <2>11 DEF Inv, NoOthers
      <4>2. \A c \in Q : c \in copies[at]
        BY DEF Inv, Owned
      <4> QED
        BY <4>1, <4>2
    <3>2. call'.sum = Cardinality(PlacedBefore(call.at)')
      <4>1. call'.sum = Cardinality(P) + Cardinality(Q)
        BY <2>2, <2>3, <2>11, <3>1
      <4> QED
        BY <2>5, <2>6, <4>1
    <3>3. IsFiniteSet(call.owners) /\ at \notin call.owners
      <4>1. IsFiniteSet(call.owners)
        <5>1. call.owners \in SUBSET (0 .. NumShards - 1)
          BY <2>1 DEF CountCalls, Shards
        <5>2. IsFiniteSet(0 .. NumShards - 1)
          BY NumShardsAssumption, FS_Interval
        <5> QED
          BY <5>1, <5>2, FS_Subset
      <4>2. \A c \in P : placed[c] # at
        BY <1>1, <2>1, PlacedIs, NumShardsAssumption DEF PlacedBefore, Shards
      <4> QED
        BY <2>3, <4>1, <4>2
    <3>4. call'.shards = Cardinality(call'.owners)
      <4>1. CASE Q = {}
        <5>1. {s \in {at} : Explained(s)} = {}
          BY <2>7, <4>1
        <5>2. call'.owners = call.owners /\ copies[at] = {}
          BY <2>2, <3>1, <4>1, <5>1
        <5>3. call'.shards = call.shards
          BY <2>1, <2>2, <5>2 DEF CountCalls
        <5> QED
          BY <2>3, <2>11, <5>2, <5>3
      <4>2. CASE Q # {}
        <5>1. {s \in {at} : Explained(s)} = {at}
          BY <2>7, <4>2
        <5>2. call'.owners = call.owners \union {at} /\ copies[at] # {}
          BY <2>2, <3>1, <4>2, <5>1
        <5>3. Cardinality(call.owners \union {at}) = Cardinality(call.owners) + 1
          BY <3>3, FS_AddElement
        <5>4. call'.shards = call.shards + 1
          BY <2>2, <5>2
        <5> QED
          BY <2>3, <2>11, <5>2, <5>3, <5>4
      <4> QED
        BY <4>1, <4>2
    <3> QED
      BY <3>2, <3>4
  <2>12. Counted'
    <3>1. placed' # << >>
      BY <1>1, <2>3
    <3>2. failed' = failed
      BY <1>1
    <3> HIDE DEF P, Q, at
    <3> QED
      BY <2>10, <2>11, <3>1, <3>2 DEF Counted
  <2> QED
    BY <2>12
<1>4. ASSUME ~ShardCounts, ~CountNext PROVE call'.op # "counts"
  <2>1. CASE IsAnyBalanceInFlight
    BY <2>1 DEF IsAnyBalanceInFlight
  <2>2. CASE LookFirst \/ LookSecond
    BY <1>1, <2>2, CallKinds DEF LookFirst, LookSecond, InFlightCalls
  <2>3. CASE CountsDone \/ AwaitDone \/ SplitterEnds
    BY <1>1, <2>3 DEF CountsDone, AwaitDone, SplitterEnds
  <2>4. CASE AwaitBalance
    BY <2>4 DEF AwaitBalance
  <2>5. CASE AskBalance
    BY <1>1, <2>5, CallKinds DEF AskBalance, AwaitCalls
  <2>6. CASE SplitKeys
    BY <2>6 DEF SplitKeys
  <2>7. CASE ChunksOfNext
    BY <1>1, <2>7, CallKinds DEF ChunksOfNext, KeyCalls
  <2>8. ASSUME NEW run \in BOOLEAN, Splitter(run) PROVE call'.op # "counts"
    BY <1>1, <2>8 DEF Splitter
  <2>9. ASSUME NEW c \in Chunks, SplitVector(c) PROVE call'.op # "counts"
    BY <1>1, <2>9, CallKinds DEF SplitVector, KeyCalls
  <2> QED
    BY <1>4, <2>1, <2>2, <2>3, <2>4, <2>5, <2>6, <2>7, <2>8, <2>9 DEF Asking
<1> QED
  BY <1>2, <1>3, <1>4 DEF Counted

LEMMA AskingKeys ==
  ASSUME Inv, Asking
  PROVE  KeysFound'
<1>1. /\ TypeOK /\ NoCall.op = "none" /\ call \in Calls
      /\ placed' = placed /\ copies' = copies
  BY AskingCall, NoCallIs DEF Inv, TypeOK, dataVars
<1>2. \A c \in DOMAIN placed : placed[c] \in Shards /\ placed[c] \in Nat
  BY <1>1, PlacedIs, NumShardsAssumption DEF Shards
<1>3. CASE SplitKeys
  <2>1. /\ call'.op = "keys" /\ call'.at = 0 /\ call'.todo = {} /\ call'.points = {}
    BY <1>3 DEF SplitKeys
  <2>2. PlacedBefore(call.at)' = {}
    BY <1>1, <1>2, <2>1 DEF PlacedBefore
  <2>3. {<<placed'[c], c>> : c \in PlacedBefore(call.at)' \ call'.todo} = {}
    BY <2>2
  <2> QED
    BY <2>1, <2>3 DEF KeysFound
<1>4. CASE ChunksOfNext
  <2> DEFINE at == call.at
             Q == {c \in DOMAIN placed : placed[c] = at}
             P == PlacedBefore(at)
  <2>1. call \in KeyCalls /\ at \in Shards /\ call.todo = {} /\ call.op = "keys"
    BY <1>1, <1>4, CallKinds DEF ChunksOfNext
  <2>2. /\ call'.op = call.op /\ call'.calm = call.calm /\ call'.at = at + 1
        /\ call'.todo = Q /\ call'.points = call.points
    BY <1>4, <2>1 DEF ChunksOfNext, KeyCalls
  <2>3. /\ PlacedBefore(at + 1) = P \union Q /\ P \intersect Q = {}
    BY <1>1, <2>1, PlacedUpTo
  <2>4. PlacedBefore(call.at)' = P \union Q
    BY <1>1, <2>2, <2>3 DEF PlacedBefore
  <2>5. at \in Nat /\ at + 1 - 1 = at /\ at + 1 # 0
    BY <2>1, NumShardsAssumption DEF Shards
  <2>6. call'.todo \subseteq {c \in DOMAIN placed' : placed'[c] = call'.at - 1}
    BY <1>1, <2>2, <2>5
  <2>7. PlacedBefore(call.at)' \ call'.todo = P \ call.todo
    <3> HIDE DEF P, Q
    <3> QED
      BY <2>1, <2>2, <2>3, <2>4
  <2>8. call.calm => call.points = {<<placed[c], c>> : c \in P \ call.todo}
    BY <2>1 DEF Inv, KeysFound
  <2>9. call.calm => call'.points = {<<placed'[c], c>> : c \in PlacedBefore(call.at)' \ call'.todo}
    BY <1>1, <2>2, <2>7, <2>8
  <2> HIDE DEF at, P, Q
  <2> QED
    BY <2>2, <2>5, <2>6, <2>9 DEF KeysFound
<1>5. ASSUME NEW c \in Chunks, SplitVector(c) PROVE KeysFound'
  <2> DEFINE P == PlacedBefore(call.at)
             new == {p \in {<<call.at - 1, c>>} : c \in copies[p[1]]}
  <2>1. call \in KeyCalls /\ c \in call.todo /\ call.op = "keys"
    BY <1>1, <1>5, CallKinds DEF SplitVector
  <2>2. /\ call'.op = call.op /\ call'.calm = call.calm /\ call'.at = call.at
        /\ call'.todo = call.todo \ {c} /\ call'.points = call.points \union new
    BY <1>5, <2>1 DEF SplitVector, KeyCalls
  <2>3. call.at # 0
    BY <2>1 DEF Inv, KeysFound
  <2> SUFFICES ASSUME call.calm
               PROVE  KeysFound'
    BY <2>2, <2>3 DEF KeysFound
  <2>4. /\ call.todo \subseteq {d \in DOMAIN placed : placed[d] = call.at - 1}
        /\ call.points = {<<placed[d], d>> : d \in P \ call.todo}
    BY <2>1 DEF Inv, KeysFound
  <2>5. c \in DOMAIN placed /\ placed[c] = call.at - 1 /\ c \in copies[placed[c]]
    BY <2>1, <2>4 DEF Inv, Owned
  <2>6. new = {<<placed[c], c>>}
    BY <2>5
  <2>7. c \in P
    <3>1. call.at \in Nat /\ placed[c] < call.at
      BY <2>1, <2>5, NumShardsAssumption DEF KeyCalls
    <3> QED
      BY <2>5, <3>1 DEF PlacedBefore
  <2>8. PlacedBefore(call.at)' = P
    BY <1>1, <2>2 DEF PlacedBefore
  <2>9. P \ (call.todo \ {c}) = (P \ call.todo) \union {c}
    <3> HIDE DEF P
    <3> QED
      BY <2>7
  <2>10. call'.points = {<<placed[d], d>> : d \in P \ (call.todo \ {c})}
    <3> HIDE DEF P, new
    <3> QED
      BY <2>2, <2>4, <2>6, <2>9
  <2>11. call'.todo \subseteq {d \in DOMAIN placed' : placed'[d] = call'.at - 1}
    BY <1>1, <2>2, <2>4
  <2> HIDE DEF P, new
  <2> QED
    BY <1>1, <2>2, <2>3, <2>8, <2>10, <2>11 DEF KeysFound
<1>6. ASSUME ~SplitKeys, ~ChunksOfNext, \A c \in Chunks : ~SplitVector(c)
      PROVE  call'.op # "keys"
  <2>1. CASE IsAnyBalanceInFlight
    BY <2>1 DEF IsAnyBalanceInFlight
  <2>2. CASE LookFirst \/ LookSecond
    BY <1>1, <2>2, CallKinds DEF LookFirst, LookSecond, InFlightCalls
  <2>3. CASE CountsDone \/ AwaitDone \/ SplitterEnds
    BY <1>1, <2>3 DEF CountsDone, AwaitDone, SplitterEnds
  <2>4. CASE AwaitBalance
    BY <2>4 DEF AwaitBalance
  <2>5. CASE AskBalance
    BY <1>1, <2>5, CallKinds DEF AskBalance, AwaitCalls
  <2>6. CASE ShardCounts
    BY <2>6 DEF ShardCounts
  <2>7. CASE CountNext
    BY <1>1, <2>7, CallKinds DEF CountNext, CountCalls
  <2>8. ASSUME NEW run \in BOOLEAN, Splitter(run) PROVE call'.op # "keys"
    BY <1>1, <2>8 DEF Splitter
  <2> QED
    BY <1>6, <2>1, <2>2, <2>3, <2>4, <2>5, <2>6, <2>7, <2>8 DEF Asking
<1> QED
  BY <1>3, <1>4, <1>5, <1>6 DEF KeysFound

LEMMA AskingStep ==
  ASSUME Inv, Asking
  PROVE  Inv'
<1>1. Calm' /\ Counted' /\ KeysFound'
  BY AskingCalm, AskingCounts, AskingKeys
<1>2. /\ UNCHANGED <<dataVars, history>> /\ call.op # "shardGo" /\ call'.op # "shardGo"
      /\ call' \in Calls /\ on' \in BOOLEAN /\ round' \in BOOLEAN /\ quiet' \in BOOLEAN
  BY AskingCall
<1>3. (Migrating /\ Owned /\ NoOthers /\ Going /\ EachFailed /\ ShardGoMoves)'
  BY <1>2, DataStands
<1>4. TypeOK'
  BY <1>2 DEF Inv, TypeOK, dataVars, history
<1> QED
  BY <1>1, <1>3, <1>4 DEF Inv

-----------------------------------------------------------------------------
(* The cluster, and shardGo.                                               *)

(* What has been found stands when there was no calm to begin with.        *)
LEMMA NotCalm ==
  ASSUME Inv, ~quiet, ~quiet', UNCHANGED balancerVars,
         call' = call \/ call'.op \in {"none", "shardGo", "splitter"},
         call.op = "inFlight" /\ call.calm /\ call.step = "second" => move' = NoMove
  PROVE  (Calm /\ Counted /\ KeysFound)'
<1>1. on' = on /\ round' = round
  BY DEF balancerVars
<1>2. Calm'
  BY <1>1 DEF Inv, Calm
<1>3. call.op \in {"counts", "keys"} => ~call.calm
  BY DEF Inv, Calm
<1>4. Counted'
  BY <1>3 DEF Counted
<1>5. KeysFound'
  BY <1>3 DEF Inv, KeysFound
<1> QED
  BY <1>2, <1>4, <1>5

LEMMA CopyStep ==
  ASSUME Inv, Copy
  PROVE  Inv'
<1>1. /\ move \in Migrations /\ move # NoMove /\ move.at = "locked"
      /\ move.to \in Shards /\ move.chunk \in Chunks
  BY MoveIs DEF Inv, TypeOK, Copy, Migrations
<1>2. /\ move' \in Migrations /\ move' # NoMove /\ move'.at = "copied" /\ move'.by = move.by
      /\ move'.chunk = move.chunk /\ move'.from = move.from /\ move'.to = move.to
  BY <1>1, MoveAt DEF Copy
<1>3. /\ UNCHANGED <<on, round, placed, cleaning, call, quiet, balanced, failed>>
      /\ UNCHANGED balancerVars
  BY DEF Copy, balancerVars, history
<1>4. /\ copies' \in [Shards -> SUBSET Chunks]
      /\ copies'[move.to] = copies[move.to] \union {move.chunk}
      /\ \A s \in Shards : s # move.to => copies'[s] = copies[s]
  BY <1>1 DEF Inv, TypeOK, Copy
<1>5. TypeOK'
  BY <1>2, <1>3, <1>4 DEF Inv, TypeOK
<1>6. Migrating'
  BY <1>1, <1>2, <1>3, <1>4 DEF Inv, Migrating
<1>7. Owned'
  <2>1. placed # << >>
    BY <1>1, PlacedIs DEF Inv, Migrating
  <2>2. \A c \in DOMAIN placed : c \in copies'[placed[c]]
    BY <1>4, PlacedIs DEF Inv, Owned
  <2> QED
    BY <1>3, <2>1, <2>2 DEF Inv, Owned
<1>8. NoOthers'
  BY <1>1, <1>2, <1>3, <1>4 DEF Inv, NoOthers
<1>9. Going' /\ EachFailed' /\ ShardGoMoves'
  BY <1>1, <1>2, <1>3 DEF Inv, Going, EachFailed, Undisturbed, ShardGoMoves, AtHome
<1>10. (Calm /\ Counted /\ KeysFound)'
  BY <1>1, <1>3, NotCalm DEF Inv, Calm
<1> QED
  BY <1>5, <1>6, <1>7, <1>8, <1>9, <1>10 DEF Inv

LEMMA CommitStep ==
  ASSUME Inv, Commit
  PROVE  Inv'
<1>1. /\ move \in Migrations /\ move # NoMove /\ move.at = "copied"
      /\ move.to \in Shards /\ move.from \in Shards /\ move.chunk \in Chunks
      /\ move.by \in {"balancer", "test", "left"}
  BY MoveIs DEF Inv, TypeOK, Commit, Migrations
<1>2. /\ move.chunk \in DOMAIN placed /\ placed[move.chunk] = move.from /\ move.from # move.to
      /\ <<move.to, move.chunk>> \notin cleaning /\ move.chunk \in copies[move.to]
  BY <1>1 DEF Inv, Migrating
<1>3. /\ move' \in Migrations /\ move' # NoMove /\ move'.at = "committed" /\ move'.by = move.by
      /\ move'.chunk = move.chunk /\ move'.from = move.from /\ move'.to = move.to
  BY <1>1, MoveAt DEF Commit
<1>4. /\ UNCHANGED <<on, round, copies, call, quiet, balanced, failed>>
      /\ UNCHANGED balancerVars
      /\ cleaning' = cleaning \union {<<move.from, move.chunk>>}
  BY DEF Commit, balancerVars, history
<1>5. PICK k \in 0 .. MaxChunks : placed \in [1 .. k -> Shards]
  BY PlacedIs DEF Inv
<1>6. /\ placed' \in [1 .. k -> Shards] /\ placed'[move.chunk] = move.to
      /\ DOMAIN placed' = DOMAIN placed
      /\ \A c \in DOMAIN placed : c # move.chunk => placed'[c] = placed[c]
  BY <1>1, <1>2, <1>5 DEF Commit
<1>7. TypeOK'
  <2>1. placed' \in UNION {[1 .. j -> Shards] : j \in 0 .. MaxChunks}
    BY <1>5, <1>6
  <2> QED
    BY <1>1, <1>3, <1>4, <2>1 DEF Inv, TypeOK
<1>8. Migrating'
  BY <1>1, <1>2, <1>3, <1>4, <1>6 DEF Inv, Migrating
<1>9. placed # << >> /\ placed' # << >>
  BY <1>2, <1>6
<1>10. Owned'
  <2>1. \A c \in DOMAIN placed' : c \in copies'[placed'[c]]
    BY <1>2, <1>4, <1>6 DEF Inv, Owned
  <2>2. ASSUME NEW p \in cleaning' PROVE p[2] \in DOMAIN placed' /\ placed'[p[2]] # p[1]
    <3>1. CASE p \in cleaning
      <4>1. p = <<p[1], p[2]>>
        BY <3>1 DEF Inv, TypeOK
      <4>2. p[2] \in DOMAIN placed /\ placed[p[2]] # p[1]
        BY <3>1 DEF Inv, Owned
      <4>3. p[2] = move.chunk => p[1] # move.to
        BY <1>2, <3>1, <4>1
      <4> QED
        BY <1>6, <4>2, <4>3
    <3>2. CASE p = <<move.from, move.chunk>>
      BY <1>2, <1>6, <3>2
    <3> QED
      BY <1>4, <2>2, <3>1, <3>2
  <2> QED
    BY <1>9, <2>1, <2>2 DEF Owned
<1>11. NoOthers'
  BY <1>1, <1>2, <1>3, <1>4, <1>6, <1>9 DEF Inv, NoOthers
<1>12. Going' /\ EachFailed'
  BY <1>1, <1>3, <1>4, <1>6 DEF Inv, Going, EachFailed, Undisturbed, Migrating
<1>13. ShardGoMoves'
  BY <1>1, <1>2, <1>4, <1>6 DEF Inv, Migrating, Going, ShardGoMoves
<1>14. (Calm /\ Counted /\ KeysFound)'
  BY <1>1, <1>4, NotCalm DEF Inv, Calm
<1> QED
  BY <1>7, <1>8, <1>10, <1>11, <1>12, <1>13, <1>14 DEF Inv

LEMMA CleanStep ==
  ASSUME Inv, NEW s \in Shards, NEW c \in Chunks, Clean(s, c)
  PROVE  Inv'
<1>1. /\ UNCHANGED <<on, round, placed, move, call, quiet, balanced, failed>>
      /\ UNCHANGED balancerVars
      /\ <<s, c>> \in cleaning /\ cleaning' = cleaning \ {<<s, c>>}
  BY DEF Clean, balancerVars, history
<1>2. /\ copies' \in [Shards -> SUBSET Chunks] /\ copies'[s] = copies[s] \ {c}
      /\ \A r \in Shards : r # s => copies'[r] = copies[r]
  BY DEF Inv, TypeOK, Clean
<1>3. c \in DOMAIN placed /\ placed[c] # s
  BY <1>1 DEF Inv, Owned
<1>4. TypeOK'
  BY <1>1, <1>2 DEF Inv, TypeOK
<1>5. Migrating'
  <2>1. move # NoMove => move.to \in Shards /\ <<move.to, move.chunk>> # <<s, c>>
    BY <1>1, MoveIs DEF Inv, TypeOK, Migrating, Migrations
  <2> QED
    BY <1>1, <1>2, <2>1 DEF Inv, Migrating
<1>6. Owned'
  <2>1. placed # << >>
    BY <1>3
  <2>2. \A d \in DOMAIN placed : d \in copies'[placed[d]]
    BY <1>2, <1>3, PlacedIs DEF Inv, Owned
  <2> QED
    BY <1>1, <2>1, <2>2 DEF Inv, Owned
<1>7. NoOthers'
  BY <1>1, <1>2 DEF Inv, NoOthers
<1>8. Going' /\ EachFailed' /\ ShardGoMoves'
  BY <1>1 DEF Inv, Going, EachFailed, Undisturbed, ShardGoMoves, AtHome
<1>9. (Calm /\ Counted /\ KeysFound)'
  BY <1>1, NotCalm DEF Inv, Calm
<1> QED
  BY <1>4, <1>5, <1>6, <1>7, <1>8, <1>9 DEF Inv

LEMMA BalanceStep ==
  ASSUME Inv, NEW c \in Chunks, NEW to \in Shards, Balance(c, to)
  PROVE  Inv'
<1>1. /\ move = NoMove /\ c \in DOMAIN placed /\ placed[c] # to /\ <<to, c>> \notin cleaning
      /\ move' = [by |-> "balancer", chunk |-> c, from |-> placed[c], to |-> to,
                  at |-> "locked"]
      /\ balanced' = TRUE /\ round
  BY DEF Balance, StartMove, Movable
<1>2. /\ UNCHANGED <<on, round, placed, copies, cleaning, call, quiet, failed>>
      /\ UNCHANGED balancerVars
  BY DEF Balance, balancerVars
<1>3. move' \in Migrations /\ move' # NoMove
  <2>1. placed[c] \in Shards
    BY <1>1, PlacedIs DEF Inv
  <2>2. move' \in Migrations
    BY <1>1, <2>1 DEF Migrations
  <2> QED
    BY <2>2, MoveIs
<1>4. TypeOK'
  BY <1>1, <1>2, <1>3 DEF Inv, TypeOK
<1>5. Migrating'
  BY <1>1, <1>2, <1>3 DEF Inv, Migrating
<1>6. Owned' /\ NoOthers'
  BY <1>1, <1>2 DEF Inv, Owned, NoOthers
<1>7. Going' /\ EachFailed' /\ ShardGoMoves'
  BY <1>1, <1>2 DEF Inv, Going, EachFailed, Undisturbed, ShardGoMoves
<1>8. (Calm /\ Counted /\ KeysFound)'
  BY <1>1, <1>2, NotCalm DEF Inv, Calm
<1> QED
  BY <1>4, <1>5, <1>6, <1>7, <1>8 DEF Inv

(* A migration ends, and only the shardGo that waits for it hears of it.   *)
LEMMA EndsIs ==
  ASSUME Inv, move # NoMove, NEW ok \in BOOLEAN, Ends(ok)
  PROVE  /\ move' = NoMove /\ call' \in Calls
         /\ \/ /\ move.by # "test" /\ call' = call
               /\ ~(call.op = "shardGo" /\ call.step = "wait")
            \/ /\ move.by = "test" /\ call.op = "shardGo" /\ call.step = "wait"
               /\ call'.op = "shardGo" /\ call'.tries = call.tries
               /\ \/ call'.step = "lost"
                  \/ ok /\ call'.step = "ok"
                  \/ ~ok /\ call'.step = "failed" /\ call'.failures = call.failures + 1
<1>1. move.by \in {"balancer", "test", "left"} /\ call \in Calls /\ move' = NoMove
  BY MoveIs DEF Inv, TypeOK, Migrations, Ends
<1>2. CASE move.by # "test"
  <2>1. call' = call
    BY <1>2 DEF Ends
  <2> QED
    BY <1>1, <1>2, <2>1 DEF Inv, Migrating
<1>3. CASE move.by = "test"
  <2>1. call.op = "shardGo" /\ call.step = "wait" /\ call \in ShardGoCalls
    BY <1>1, <1>3, CallKinds DEF Inv, Migrating
  <2>2. CASE call' = [call EXCEPT !.step = "lost"]
    BY <1>1, <1>3, <2>1, <2>2, StepIs
  <2>3. CASE ok /\ call' = [call EXCEPT !.step = "ok"]
    BY <1>1, <1>3, <2>1, <2>3, StepIs
  <2>4. CASE ~ok /\ call' = [call EXCEPT !.step = "failed", !.failures = @ + 1]
    BY <1>1, <1>3, <2>1, <2>4, FailIs
  <2>5. \/ call' = [call EXCEPT !.step = "lost"]
        \/ ok /\ call' = [call EXCEPT !.step = "ok"]
        \/ ~ok /\ call' = [call EXCEPT !.step = "failed", !.failures = @ + 1]
    BY <1>3 DEF Ends
  <2> QED
    BY <2>2, <2>3, <2>4, <2>5
<1> QED
  BY <1>2, <1>3

LEMMA UnlockStep ==
  ASSUME Inv, Unlock
  PROVE  Inv'
<1>1. move # NoMove /\ move.at = "committed" /\ Ends(TRUE)
  BY DEF Unlock
<1>2. /\ UNCHANGED <<on, round, placed, copies, cleaning, quiet, balanced, failed>>
      /\ UNCHANGED balancerVars
  BY DEF Unlock, balancerVars, history
<1>3. /\ move' = NoMove /\ call' \in Calls
      /\ \/ /\ move.by # "test" /\ call' = call
            /\ ~(call.op = "shardGo" /\ call.step = "wait")
         \/ /\ move.by = "test" /\ call.op = "shardGo" /\ call.step = "wait"
            /\ call'.op = "shardGo" /\ call'.step \in {"lost", "ok"}
  <2> DEFINE t == TRUE
  <2>1. t \in BOOLEAN /\ Ends(t) /\ t
    BY <1>1
  <2> HIDE DEF t
  <2> QED
    BY <1>1, <2>1, EndsIs
<1>4. TypeOK'
  BY <1>2, <1>3 DEF Inv, TypeOK
<1>5. Migrating'
  BY <1>2, <1>3 DEF Migrating
<1>6. Owned' /\ NoOthers'
  BY <1>1, <1>2, <1>3 DEF Inv, Owned, NoOthers
<1>7. Going' /\ EachFailed'
  BY <1>1, <1>2, <1>3 DEF Inv, Going, EachFailed, Undisturbed, AtHome
<1>8. ShardGoMoves'
  BY <1>1, <1>2, <1>3 DEF Inv, Migrating, ShardGoMoves
<1>9. (Calm /\ Counted /\ KeysFound)'
  BY <1>1, <1>2, <1>3, NotCalm DEF Inv, Calm
<1> QED
  BY <1>4, <1>5, <1>6, <1>7, <1>8, <1>9 DEF Inv

LEMMA FailMoveStep ==
  ASSUME Inv, FailMove
  PROVE  Inv'
<1>1. move # NoMove /\ move.at \in {"locked", "copied"} /\ Ends(FALSE)
  BY MoveIs DEF Inv, TypeOK, Migrations, FailMove
<1>2. /\ UNCHANGED <<on, round, placed, copies, cleaning, quiet, balanced>>
      /\ UNCHANGED balancerVars /\ failed' = failed \union ({move.at} \ {"locked"})
  BY DEF FailMove, balancerVars
<1>3. /\ move' = NoMove /\ call' \in Calls
      /\ \/ /\ move.by # "test" /\ call' = call
            /\ ~(call.op = "shardGo" /\ call.step = "wait")
         \/ /\ move.by = "test" /\ call.op = "shardGo" /\ call.step = "wait"
            /\ call'.op = "shardGo" /\ call'.tries = call.tries
            /\ \/ call'.step = "lost"
               \/ call'.step = "failed" /\ call'.failures = call.failures + 1
  <2> DEFINE t == FALSE
  <2>1. t \in BOOLEAN /\ Ends(t) /\ ~t
    BY <1>1
  <2> HIDE DEF t
  <2> QED
    BY <1>1, <2>1, EndsIs
<1>4. TypeOK'
  <2>1. failed' \subseteq {"copied", "command"}
    BY <1>1, <1>2 DEF Inv, TypeOK
  <2> QED
    BY <1>2, <1>3, <2>1 DEF Inv, TypeOK
<1>5. Migrating'
  BY <1>2, <1>3 DEF Migrating
<1>6. Owned' /\ NoOthers'
  BY <1>1, <1>2, <1>3 DEF Inv, Owned, NoOthers
<1>7. Undisturbed' => Undisturbed
  BY <1>2 DEF Undisturbed
<1>8. Going'
  BY <1>1, <1>2, <1>3, <1>7 DEF Inv, Going, AtHome
<1>9. EachFailed'
  BY <1>1, <1>3, <1>7 DEF Inv, Going, EachFailed
<1>10. ShardGoMoves'
  BY <1>2, <1>3 DEF Inv, ShardGoMoves
<1>11. (Calm /\ Counted /\ KeysFound)'
  BY <1>1, <1>2, <1>3, NotCalm DEF Inv, Calm
<1> QED
  BY <1>4, <1>5, <1>6, <1>8, <1>9, <1>10, <1>11 DEF Inv

(* A migration that goes on without its command is nobody's.               *)
LEMMA OutliveStep ==
  ASSUME Inv, Outlive
  PROVE  Inv'
<1>1. /\ move # NoMove /\ move \in Migrations /\ move.by = "test"
      /\ call.op = "shardGo" /\ call.step = "wait" /\ call \in ShardGoCalls
  BY MoveIs, CallKinds DEF Inv, TypeOK, Migrating, Outlive
<1>2. /\ move' \in Migrations /\ move' # NoMove /\ move'.by = "left" /\ move'.at = move.at
      /\ move'.chunk = move.chunk /\ move'.from = move.from /\ move'.to = move.to
  <2>1. move' = [move EXCEPT !.by = "left"]
    BY DEF Outlive
  <2>2. move' \in Migrations
    BY <1>1, <2>1 DEF Migrations
  <2> QED
    BY <1>1, <2>1, <2>2, MoveIs DEF Migrations
<1>3. /\ UNCHANGED <<on, round, placed, copies, cleaning, quiet, balanced>>
      /\ UNCHANGED balancerVars /\ failed' = failed \union {"command"}
  BY DEF Outlive, balancerVars
<1>4. call' \in Calls /\ call'.op = "shardGo" /\ call'.step \in {"failed", "lost"}
  <2>1. CASE call' = [call EXCEPT !.step = "failed"]
    BY <1>1, <2>1, StepIs
  <2>2. CASE call' = [call EXCEPT !.step = "lost"]
    BY <1>1, <2>2, StepIs
  <2> QED
    BY <2>1, <2>2 DEF Outlive
<1>5. TypeOK'
  BY <1>2, <1>3, <1>4 DEF Inv, TypeOK
<1>6. Migrating'
  BY <1>1, <1>2, <1>3, <1>4 DEF Inv, Migrating
<1>7. Owned' /\ NoOthers'
  BY <1>1, <1>2, <1>3 DEF Inv, Owned, NoOthers
<1>8. Going' /\ EachFailed' /\ ShardGoMoves'
  BY <1>1, <1>3, <1>4 DEF Inv, Going, EachFailed, Undisturbed, ShardGoMoves
<1>9. (Calm /\ Counted /\ KeysFound)'
  BY <1>1, <1>3, <1>4, NotCalm DEF Inv, Calm
<1> QED
  BY <1>5, <1>6, <1>7, <1>8, <1>9 DEF Inv

(* What a split changes.                                                   *)
LEMMA SplitKeeps ==
  ASSUME Inv, NEW c \in DOMAIN placed, SplitOff(c), UNCHANGED <<move, cleaning, history>>,
         call' = call \/ /\ ~(call.op = "shardGo" /\ call.step = "wait")
                         /\ ~(call'.op = "shardGo" /\ call'.step = "wait")
  PROVE  /\ placed' \in UNION {[1 .. k -> Shards] : k \in 0 .. MaxChunks}
         /\ copies' \in [Shards -> SUBSET Chunks]
         /\ Migrating' /\ Owned' /\ NoOthers'
<1>1. UNCHANGED <<move, cleaning, balanced, failed>>
  BY DEF history
<1>2. PICK new \in Chunks :
        /\ new = Cardinality(DOMAIN placed) + 1 /\ new \notin DOMAIN placed
        /\ DOMAIN placed' = DOMAIN placed \union {new}
        /\ placed' \in UNION {[1 .. k -> Shards] : k \in 0 .. MaxChunks}
        /\ placed'[new] = placed[c] /\ \A d \in DOMAIN placed : placed'[d] = placed[d]
        /\ copies' \in [Shards -> SUBSET Chunks]
        /\ copies'[placed[c]] = copies[placed[c]] \union {new}
        /\ \A s \in Shards : s # placed[c] => copies'[s] = copies[s]
  BY SplitOffIs DEF Inv
<1>3. placed # << >> /\ placed' # << >> /\ \A s \in Shards : copies[s] \subseteq copies'[s]
  BY <1>2
<1>4. \A d \in DOMAIN placed : placed[d] \in Shards
  BY PlacedIs DEF Inv
<1>5. Migrating'
  <2>1. move # NoMove => move.to \in Shards /\ move.by \in {"balancer", "test", "left"}
    BY MoveIs DEF Inv, TypeOK, Migrations
  <2> QED
    BY <1>1, <1>2, <1>3, <2>1 DEF Inv, Migrating
<1>6. Owned'
  <2>1. \A d \in DOMAIN placed' : d \in copies'[placed'[d]]
    BY <1>2, <1>3, <1>4 DEF Inv, Owned
  <2>2. \A p \in cleaning' : p[2] \in DOMAIN placed' /\ placed'[p[2]] # p[1]
    BY <1>1, <1>2 DEF Inv, Owned
  <2> QED
    BY <1>3, <2>1, <2>2 DEF Owned
<1>7. NoOthers'
  BY <1>1, <1>2, <1>3 DEF Inv, NoOthers
<1> QED
  BY <1>2, <1>5, <1>6, <1>7

(* Calls that do not look at chunks leave what is calm so.                 *)
LEMMA CalmElsewhere ==
  ASSUME Inv, quiet' = quiet \/ ~quiet', UNCHANGED <<balancerVars, move, cleaning>>,
         call'.op \notin {"inFlight", "counts", "keys"}, quiet' => call'.op # "shardGo"
  PROVE  (Calm /\ Counted /\ KeysFound)'
<1>1. on' = on /\ round' = round /\ move' = move /\ cleaning' = cleaning
  BY DEF balancerVars
<1>2. Calm'
  BY <1>1 DEF Inv, Calm
<1> QED
  BY <1>2 DEF Counted, KeysFound

LEMMA LoadStep ==
  ASSUME Inv, NEW c \in Chunks, Load(c)
  PROVE  Inv'
<1>1. /\ UNCHANGED <<on, round, move, cleaning, call, quiet, balanced, failed>>
      /\ UNCHANGED <<balancerVars, move, cleaning>> /\ UNCHANGED <<move, cleaning, history>>
      /\ call.op = "none" /\ c \in DOMAIN placed /\ SplitOff(c)
  BY DEF Load, Free, balancerVars, history
<1>2. /\ placed' \in UNION {[1 .. k -> Shards] : k \in 0 .. MaxChunks}
      /\ copies' \in [Shards -> SUBSET Chunks]
      /\ Migrating' /\ Owned' /\ NoOthers'
  BY <1>1, SplitKeeps
<1>3. TypeOK'
  BY <1>1, <1>2 DEF Inv, TypeOK
<1>4. Going' /\ EachFailed' /\ ShardGoMoves'
  BY <1>1 DEF Going, EachFailed, Undisturbed, ShardGoMoves
<1>5. (Calm /\ Counted /\ KeysFound)'
  BY <1>1, CalmElsewhere
<1> QED
  BY <1>2, <1>3, <1>4, <1>5 DEF Inv

(* shardGo gives up, or returns early, and changes nothing.                *)
LEMMA NothingStep ==
  ASSUME Inv, UNCHANGED <<dataVars, history>>, UNCHANGED balancerVars,
         quiet' = FALSE \/ (quiet' = quiet /\ ~quiet),
         ~(call.op = "shardGo" /\ call.step = "wait"), call' \in Calls,
         \/ call'.op = "none"
         \/ call'.op = "shardGo" /\ call'.step \in {"refused", "lost"}
  PROVE  Inv'
<1>1. /\ UNCHANGED <<on, round, placed, copies, move, cleaning, balanced, failed>>
      /\ UNCHANGED <<balancerVars, move, cleaning>>
  BY DEF balancerVars, dataVars, history
<1>2. TypeOK'
  BY <1>1 DEF Inv, TypeOK
<1>3. Migrating' /\ Owned' /\ NoOthers'
  <2>1. move # NoMove => move.by \in {"balancer", "test", "left"}
    BY MoveIs DEF Inv, TypeOK, Migrations
  <2> QED
    BY <1>1, <2>1 DEF Inv, Migrating, Owned, NoOthers
<1>4. Going' /\ EachFailed' /\ ShardGoMoves'
  BY <1>1 DEF Going, EachFailed, ShardGoMoves
<1>5. (Calm /\ Counted /\ KeysFound)'
  BY <1>1, CalmElsewhere
<1> QED
  BY <1>2, <1>3, <1>4, <1>5 DEF Inv

LEMMA SplitStep ==
  ASSUME Inv, Split
  PROVE  Inv'
<1>1. /\ UNCHANGED <<on, round, move, cleaning, quiet, balanced, failed>>
      /\ UNCHANGED <<balancerVars, move, cleaning>> /\ UNCHANGED <<move, cleaning, history>>
      /\ call.op = "shardGo" /\ call.step = "split"
  BY DEF Split, balancerVars, history
<1>2. ~quiet
  BY <1>1 DEF Inv, Calm
<1>3. CASE SplitOff(1) /\ call' \in {InShardGo("ask"), InShardGo("lost"), NoCall}
  <2>1. /\ call' \in Calls
        /\ \/ call'.op = "none"
           \/ call'.op = "shardGo" /\ call'.step = "lost"
           \/ call'.op = "shardGo" /\ call'.step = "ask" /\ call'.failures = Tries - call'.tries
    <3>1. Tries - Tries = 0
      BY TriesAssumption
    <3> QED
      BY <1>3, <3>1, InShardGoIs, NoCallIs
  <2>2. DOMAIN placed = {1}
    BY <1>1 DEF Inv, Going
  <2>3. /\ placed' \in UNION {[1 .. k -> Shards] : k \in 0 .. MaxChunks}
        /\ copies' \in [Shards -> SUBSET Chunks]
        /\ Migrating' /\ Owned' /\ NoOthers'
    BY <1>1, <1>3, <2>1, <2>2, SplitKeeps
  <2>4. TypeOK'
    BY <1>1, <2>1, <2>3 DEF Inv, TypeOK
  <2>5. /\ DOMAIN placed' = {1, 2} /\ placed'[1] = placed[1] /\ placed'[2] = placed[1]
    <3>1. PICK new \in Chunks :
            /\ new = Cardinality(DOMAIN placed) + 1
            /\ DOMAIN placed' = DOMAIN placed \union {new}
            /\ placed'[new] = placed[1] /\ \A d \in DOMAIN placed : placed'[d] = placed[d]
      BY <1>3, <2>2, SplitOffIs DEF Inv
    <3>2. Cardinality({1}) = 1
      BY FS_Singleton
    <3>3. new = 2
      BY <2>2, <3>1, <3>2
    <3> QED
      BY <2>2, <3>1, <3>3
  <2>6. Going'
    BY <1>1, <2>1, <2>2, <2>5 DEF Inv, Going, Undisturbed, AtHome
  <2>7. EachFailed' /\ ShardGoMoves'
    BY <2>1 DEF EachFailed, ShardGoMoves
  <2>8. (Calm /\ Counted /\ KeysFound)'
    BY <1>1, <1>2, <2>1, CalmElsewhere
  <2> QED
    BY <2>3, <2>4, <2>6, <2>7, <2>8 DEF Inv
<1>4. CASE UNCHANGED <<placed, copies>> /\ call' \in {InShardGo("refused"), InShardGo("lost")}
  <2>1. /\ call' \in Calls /\ call'.op = "shardGo" /\ call'.step \in {"refused", "lost"}
    BY <1>4, InShardGoIs
  <2>2. UNCHANGED <<dataVars, history>> /\ UNCHANGED balancerVars
    BY <1>1, <1>4 DEF dataVars
  <2>3. ~(call.op = "shardGo" /\ call.step = "wait")
    BY <1>1
  <2> QED
    BY <1>1, <1>2, <2>1, <2>2, <2>3, NothingStep
<1> QED
  BY <1>3, <1>4 DEF Split

LEMMA SplitAtStep ==
  ASSUME Inv, Known, NEW c \in Chunks, SplitAt(c)
  PROVE  Inv'
<1>1. /\ UNCHANGED <<on, round, move, cleaning, quiet, balanced, failed>>
      /\ UNCHANGED <<balancerVars, move, cleaning>> /\ UNCHANGED <<move, cleaning, history>>
      /\ call.op = "splitter" /\ call' = [call EXCEPT !.points = {p \in @ : p[2] # c}]
  BY DEF SplitAt, balancerVars, history
<1>2. call' \in Calls /\ call'.op = "splitter"
  <2>1. call \in SplitterCalls
    BY <1>1, CallKinds DEF Inv, TypeOK
  <2>2. call' \in SplitterCalls
    BY <1>1, <2>1 DEF SplitterCalls
  <2> QED
    BY <2>2 DEF SplitterCalls, Calls
<1>3. /\ placed' \in UNION {[1 .. k -> Shards] : k \in 0 .. MaxChunks}
      /\ copies' \in [Shards -> SUBSET Chunks]
      /\ Migrating' /\ Owned' /\ NoOthers'
  <2>1. CASE SplitOff(c)
    <3>1. c \in DOMAIN placed
      BY <1>1 DEF SplitAt, Known
    <3> QED
      BY <1>1, <1>2, <2>1, <3>1, SplitKeeps
  <2>2. CASE UNCHANGED <<placed, copies>>
    <3>1. UNCHANGED <<dataVars, history>>
      BY <1>1, <2>2 DEF dataVars
    <3>2. (Migrating /\ Owned /\ NoOthers)'
      BY <1>1, <1>2, <3>1, DataStands
    <3> QED
      BY <2>2, <3>2 DEF Inv, TypeOK
  <2> QED
    BY <2>1, <2>2 DEF SplitAt
<1>4. TypeOK'
  BY <1>1, <1>2, <1>3 DEF Inv, TypeOK
<1>5. Going' /\ EachFailed' /\ ShardGoMoves'
  BY <1>2 DEF Going, EachFailed, Undisturbed, ShardGoMoves
<1>6. (Calm /\ Counted /\ KeysFound)'
  BY <1>1, <1>2, CalmElsewhere
<1> QED
  BY <1>3, <1>4, <1>5, <1>6 DEF Inv

LEMMA ShardGoStep ==
  ASSUME Inv, ShardGo
  PROVE  Inv'
<1>1. /\ UNCHANGED <<on, round, copies, move, cleaning, balanced, failed>>
      /\ UNCHANGED <<balancerVars, move, cleaning>>
      /\ call.op = "none" /\ quiet' = FALSE
  BY DEF ShardGo, Free, balancerVars, history
<1>2. CASE /\ placed = << >> /\ placed' = [c \in {1} |-> Primary]
           /\ call' \in {InShardGo("split"), InShardGo("lost"), NoCall}
  <2>1. /\ call' \in Calls
        /\ \/ call'.op = "none"
           \/ call'.op = "shardGo" /\ call'.step \in {"split", "lost"}
    BY <1>2, InShardGoIs, NoCallIs
  <2>2. /\ DOMAIN placed' = {1} /\ placed'[1] = Primary /\ placed' # << >>
        /\ Primary \in Shards
    <3>1. DOMAIN << >> # {1}
      OBVIOUS
    <3> QED
      BY <1>2, <3>1, PrimaryAssumption DEF Shards
  <2>3. placed' \in UNION {[1 .. k -> Shards] : k \in 0 .. MaxChunks}
    <3>1. 1 .. 1 = {1} /\ 1 \in 0 .. MaxChunks
      BY MaxChunksAssumption
    <3>2. placed' \in [1 .. 1 -> Shards]
      BY <1>2, <2>2, <3>1
    <3> QED
      BY <3>1, <3>2
  <2>4. /\ move = NoMove /\ cleaning = {} /\ copies[Primary] = {1}
        /\ \A s \in Shards : s # Primary => copies[s] = {}
    <3>1. DOMAIN placed = {}
      BY <1>2
    <3>2. move = NoMove
      BY <3>1 DEF Inv, Migrating
    <3>3. cleaning = {}
      BY <3>1 DEF Inv, Owned
    <3>4. copies = [s \in Shards |-> IF s = Primary THEN {1} ELSE {}]
      BY <1>2 DEF Inv, Owned
    <3> QED
      BY <2>2, <3>2, <3>3, <3>4
  <2>5. TypeOK'
    BY <1>1, <2>1, <2>3 DEF Inv, TypeOK
  <2>6. Migrating'
    BY <1>1, <2>1, <2>4 DEF Migrating
  <2>7. Owned' /\ NoOthers'
    BY <1>1, <2>2, <2>4 DEF Owned, NoOthers
  <2>8. Going'
    BY <1>1, <2>1, <2>2, <2>4 DEF Going, AtHome
  <2>9. EachFailed' /\ ShardGoMoves'
    BY <2>1 DEF EachFailed, ShardGoMoves
  <2>10. (Calm /\ Counted /\ KeysFound)'
    BY <1>1, <2>1, CalmElsewhere
  <2> QED
    BY <2>5, <2>6, <2>7, <2>8, <2>9, <2>10 DEF Inv
<1>3. CASE UNCHANGED placed /\ call' \in {InShardGo("refused"), InShardGo("lost")}
  <2>1. /\ call' \in Calls /\ call'.op = "shardGo" /\ call'.step \in {"refused", "lost"}
    BY <1>3, InShardGoIs
  <2>2. UNCHANGED <<dataVars, history>> /\ UNCHANGED balancerVars
    BY <1>1, <1>3 DEF dataVars, history
  <2> QED
    BY <1>1, <2>1, <2>2, NothingStep
<1> QED
  BY <1>2, <1>3 DEF ShardGo

LEMMA MoveChunkStep ==
  ASSUME Inv, MoveChunk
  PROVE  Inv'
<1> DEFINE to == GetOther(GetServer)
<1>1. /\ UNCHANGED <<on, round, placed, copies, cleaning, quiet, balanced, failed>>
      /\ UNCHANGED balancerVars
      /\ call.op = "shardGo" /\ call.step = "ask" /\ call \in ShardGoCalls
  BY CallKinds DEF Inv, TypeOK, MoveChunk, balancerVars, history
<1>2. ~quiet /\ DOMAIN placed = {1, 2} /\ to \in Shards /\ to # Primary
  BY <1>1, OtherIs DEF Inv, Calm, Going
<1>3. \/ Movable(2, to) /\ StartMove("test", 2, to) /\ call' = [call EXCEPT !.step = "wait"]
      \/ ~Movable(2, to) /\ call' = [call EXCEPT !.step = "failed"] /\ move' = move
  BY DEF MoveChunk
<1> HIDE DEF to
<1>4. CASE Movable(2, to) /\ StartMove("test", 2, to) /\ call' = [call EXCEPT !.step = "wait"]
  <2>1. /\ call' \in Calls /\ call'.op = "shardGo" /\ call'.step = "wait"
        /\ call'.tries = call.tries /\ call'.failures = call.failures
    BY <1>1, <1>4, StepIs
  <2>2. /\ move = NoMove /\ placed[2] # to /\ <<to, 2>> \notin cleaning
        /\ move' = [by |-> "test", chunk |-> 2, from |-> placed[2], to |-> to, at |-> "locked"]
    BY <1>4 DEF StartMove, Movable
  <2>3. move' \in Migrations /\ move' # NoMove
    <3>1. 2 \in Chunks /\ placed[2] \in Shards
      BY <1>2, PlacedIs DEF Inv
    <3>2. move' \in Migrations
      BY <1>2, <2>2, <3>1 DEF Migrations
    <3> QED
      BY <3>2, MoveIs
  <2>4. TypeOK'
    BY <1>1, <2>1, <2>3 DEF Inv, TypeOK
  <2>5. Migrating'
    BY <1>1, <1>2, <2>1, <2>2, <2>3 DEF Migrating
  <2>6. Owned' /\ NoOthers'
    BY <1>1, <2>2 DEF Inv, Owned, NoOthers
  <2>7. Going' /\ EachFailed' /\ ShardGoMoves'
    BY <1>1, <1>2, <2>1 DEF Inv, Going, EachFailed, Undisturbed, ShardGoMoves, AtHome
  <2>8. (Calm /\ Counted /\ KeysFound)'
    BY <1>1, <1>2, <2>1, NotCalm
  <2> QED
    BY <2>4, <2>5, <2>6, <2>7, <2>8 DEF Inv
<1>5. CASE ~Movable(2, to) /\ call' = [call EXCEPT !.step = "failed"] /\ move' = move
  <2>1. call' \in Calls /\ call'.op = "shardGo" /\ call'.step = "failed"
    BY <1>1, <1>5, StepIs
  <2>2. TypeOK'
    BY <1>1, <1>5, <2>1 DEF Inv, TypeOK
  <2>3. Migrating' /\ Owned' /\ NoOthers'
    BY <1>1, <1>5, <2>1 DEF Inv, Migrating, Owned, NoOthers
  <2>4. ~Undisturbed
    <3>1. SUFFICES ASSUME Undisturbed PROVE FALSE
      OBVIOUS
    <3>2. move = NoMove /\ cleaning = {} /\ \A c \in DOMAIN placed : placed[c] = Primary
      BY <1>1, <3>1 DEF Inv, Going, AtHome
    <3> QED
      BY <1>2, <1>5, <3>2 DEF Movable
  <2>5. Going' /\ EachFailed' /\ ShardGoMoves'
    BY <1>1, <1>2, <2>1, <2>4 DEF Going, EachFailed, Undisturbed, ShardGoMoves
  <2>6. (Calm /\ Counted /\ KeysFound)'
    BY <1>1, <1>2, <2>1, NotCalm
  <2> QED
    BY <2>2, <2>3, <2>5, <2>6 DEF Inv
<1> QED
  BY <1>3, <1>4, <1>5

LEMMA TryAgainStep ==
  ASSUME Inv, TryAgain
  PROVE  Inv'
<1>1. /\ UNCHANGED <<on, round, placed, copies, move, cleaning, quiet, balanced, failed>>
      /\ UNCHANGED <<balancerVars, move, cleaning>>
      /\ call.op = "shardGo" /\ call.step = "failed" /\ call \in ShardGoCalls
  BY CallKinds DEF Inv, TypeOK, TryAgain, balancerVars, dataVars, history
<1>2. /\ call' \in Calls /\ call'.op = "shardGo" /\ call'.failures = call.failures
      /\ \/ call'.step = "ask" /\ call'.tries = call.tries - 1
         \/ call'.step = "threw" /\ call.tries = 1
  <2>1. CASE call.tries > 1
    <3>1. call' = [call EXCEPT !.step = "ask", !.tries = @ - 1]
      BY <2>1 DEF TryAgain
    <3> QED
      BY <1>1, <2>1, <3>1, RetryIs
  <2>2. CASE ~(call.tries > 1)
    <3>1. call' = [call EXCEPT !.step = "threw"]
      BY <2>2 DEF TryAgain
    <3>2. call.tries = 1
      BY <1>1, <2>2, TriesAssumption DEF ShardGoCalls
    <3> QED
      BY <1>1, <3>1, <3>2, StepIs
  <2> QED
    BY <2>1, <2>2
<1>3. TypeOK'
  BY <1>1, <1>2 DEF Inv, TypeOK
<1>4. Migrating' /\ Owned' /\ NoOthers'
  BY <1>1, <1>2 DEF Inv, Migrating, Owned, NoOthers
<1>5. Going' /\ ShardGoMoves'
  BY <1>1, <1>2 DEF Inv, Going, Undisturbed, ShardGoMoves, AtHome
<1>6. EachFailed'
  <2>1. Undisturbed' => call.failures = Tries - call.tries + 1
    BY <1>1 DEF Inv, EachFailed, Undisturbed
  <2>2. call.tries \in Int /\ Tries \in Int /\ call.failures \in Int
    BY <1>1, TriesAssumption DEF ShardGoCalls
  <2>3. CASE call'.step = "ask"
    <3>1. Undisturbed' => call'.failures = Tries - call'.tries
      BY <1>2, <2>1, <2>2, <2>3
    <3> QED
      BY <2>3, <3>1 DEF EachFailed
  <2>4. CASE call'.step = "threw"
    <3>1. Undisturbed' => call'.failures = Tries
      BY <1>2, <2>1, <2>2, <2>4
    <3> QED
      BY <2>4, <3>1 DEF EachFailed
  <2> QED
    BY <1>2, <2>3, <2>4
<1>7. (Calm /\ Counted /\ KeysFound)'
  <2>1. ~quiet
    BY <1>1 DEF Inv, Calm
  <2> QED
    BY <1>1, <1>2, <2>1, CalmElsewhere
<1> QED
  BY <1>3, <1>4, <1>5, <1>6, <1>7 DEF Inv

LEMMA ReturnStep ==
  ASSUME Inv, Return
  PROVE  Inv'
<1>1. /\ UNCHANGED <<on, round, placed, copies, move, cleaning, quiet, balanced, failed>>
      /\ UNCHANGED <<balancerVars, move, cleaning>>
      /\ call.op = "shardGo" /\ call.step \in {"ok", "threw", "refused", "lost"}
      /\ call' \in Calls /\ call'.op = "none"
  BY NoCallIs DEF Return, balancerVars, dataVars, history
<1>2. TypeOK'
  BY <1>1 DEF Inv, TypeOK
<1>3. Migrating' /\ Owned' /\ NoOthers'
  <2>1. move # NoMove => move.by \in {"balancer", "test", "left"}
    BY MoveIs DEF Inv, TypeOK, Migrations
  <2> QED
    BY <1>1, <2>1 DEF Inv, Migrating, Owned, NoOthers
<1>4. Going' /\ EachFailed' /\ ShardGoMoves'
  BY <1>1 DEF Going, EachFailed, Undisturbed, ShardGoMoves
<1>5. (Calm /\ Counted /\ KeysFound)'
  BY <1>1, CalmElsewhere
<1> QED
  BY <1>2, <1>3, <1>4, <1>5 DEF Inv

(* The balancer's rounds and its setting.                                  *)
LEMMA BalancerStep ==
  ASSUME Inv, BeginRound \/ EndRound \/ \E b \in BOOLEAN : SetBalancer(b)
  PROVE  Inv'
<1>1. /\ UNCHANGED <<dataVars, history>> /\ call' = call /\ on' \in BOOLEAN /\ round' \in BOOLEAN
      /\ quiet' \in BOOLEAN
  <2>1. CASE BeginRound \/ EndRound
    BY <2>1 DEF BeginRound, EndRound, Inv, TypeOK
  <2>2. ASSUME NEW b \in BOOLEAN, SetBalancer(b)
        PROVE  /\ UNCHANGED <<dataVars, history>> /\ call' = call
               /\ on' \in BOOLEAN /\ round' \in BOOLEAN /\ quiet' \in BOOLEAN
    <3>1. /\ UNCHANGED <<dataVars, history>> /\ call' = call /\ on' = b /\ round' = round
          /\ quiet' = (quiet /\ ~b)
      BY <2>2, Zenon DEF SetBalancer
    <3>2. quiet' \in BOOLEAN
      BY <3>1, Zenon
    <3> QED
      BY <3>1, <3>2 DEF Inv, TypeOK
  <2> QED
    BY <2>1, <2>2
<1>2. (Migrating /\ Owned /\ NoOthers /\ Going /\ EachFailed /\ ShardGoMoves)'
  <2>1. UNCHANGED <<dataVars, history>>
    BY <1>1
  <2>2. call' = call \/ (call.op # "shardGo" /\ call'.op # "shardGo")
    BY <1>1
  <2> QED
    BY <2>1, <2>2, DataStands
<1>3. TypeOK'
  BY <1>1 DEF Inv, TypeOK, dataVars, history
<1>4. Calm'
  <2>1. CASE BeginRound \/ EndRound
    BY <1>1, <2>1 DEF BeginRound, EndRound, Inv, Calm, dataVars
  <2>2. ASSUME NEW b \in BOOLEAN, SetBalancer(b) PROVE Calm'
    <3>1. call' = call /\ call.op = "none" /\ on' = b /\ round' = round
      BY <2>2 DEF SetBalancer, Free
    <3>2. quiet' => quiet /\ ~b
      BY <2>2 DEF SetBalancer
    <3> QED
      BY <1>1, <3>1, <3>2 DEF Inv, Calm, dataVars
  <2> QED
    BY <2>1, <2>2
<1>5. Counted' /\ KeysFound'
  BY <1>1 DEF Inv, Counted, KeysFound, PlacedBefore, dataVars, history
<1> QED
  BY <1>2, <1>3, <1>4, <1>5 DEF Inv

(* Chunks never go.                                                        *)
LEMMA KnownStep ==
  ASSUME Inv, Known, [Next]_vars
  PROVE  Known'
<1>1. TypeOK /\ call \in Calls /\ NoCall.op = "none"
  BY NoCallIs DEF Inv, TypeOK
<1>2. \A c \in DOMAIN placed : c \in Chunks
  BY <1>1, PlacedIs
<1>3. ASSUME call' = call \/ call'.op \notin {"keys", "splitter"},
             DOMAIN placed \subseteq DOMAIN placed'
      PROVE  Known'
  BY <1>3 DEF Known
<1>4. CASE Asking
  <2>1. placed' = placed /\ copies' = copies
    BY <1>4, AskingCall DEF dataVars
  <2>2. CASE SplitKeys
    BY <2>2 DEF SplitKeys, Known
  <2>3. CASE ChunksOfNext
    <3>1. call \in KeyCalls /\ call.op = "keys"
      BY <1>1, <2>3, CallKinds DEF ChunksOfNext
    <3>2. /\ call'.todo = {c \in DOMAIN placed : placed[c] = call.at}
          /\ call'.points = call.points
      BY <2>3, <3>1 DEF ChunksOfNext, KeyCalls
    <3> QED
      BY <2>1, <3>1, <3>2 DEF Known
  <2>4. ASSUME NEW c \in Chunks, SplitVector(c) PROVE Known'
    <3>1. call \in KeyCalls /\ call.op = "keys" /\ c \in call.todo
      BY <1>1, <2>4, CallKinds DEF SplitVector
    <3>2. /\ call'.todo = call.todo \ {c}
          /\ call'.points
               = call.points \union {p \in {<<call.at - 1, c>>} : c \in copies[p[1]]}
      BY <2>4, <3>1 DEF SplitVector, KeyCalls
    <3>3. \A p \in call'.points : p \in call.points \/ p[2] = c
      BY <3>2
    <3> QED
      BY <2>1, <3>1, <3>2, <3>3 DEF Known
  <2>5. ASSUME NEW run \in BOOLEAN, Splitter(run) PROVE Known'
    <3>1. call.op = "keys"
      BY <2>5 DEF Splitter, KeysDone
    <3>2. CASE call' = [op |-> "splitter", points |-> call.points]
      <4>1. call'.op = "splitter" /\ call'.points = call.points
        BY <3>2
      <4> QED
        BY <2>1, <3>1, <4>1 DEF Known
    <3>3. CASE call' = NoCall
      BY <1>1, <3>3 DEF Known
    <3> QED
      BY <2>5, <3>2, <3>3 DEF Splitter
  <2>6. CASE IsAnyBalanceInFlight
    BY <2>6 DEF IsAnyBalanceInFlight, Known
  <2>7. CASE LookFirst \/ LookSecond
    BY <1>1, <2>7, CallKinds DEF LookFirst, LookSecond, InFlightCalls, Known
  <2>8. CASE CountsDone \/ AwaitDone \/ SplitterEnds
    BY <1>1, <2>8 DEF CountsDone, AwaitDone, SplitterEnds, Known
  <2>9. CASE AwaitBalance
    BY <2>9 DEF AwaitBalance, Known
  <2>10. CASE AskBalance
    BY <1>1, <2>10, CallKinds DEF AskBalance, AwaitCalls, Known
  <2>11. CASE ShardCounts
    BY <2>11 DEF ShardCounts, Known
  <2>12. CASE CountNext
    BY <1>1, <2>12, CallKinds DEF CountNext, CountCalls, Known
  <2> QED
    BY <1>4, <2>2, <2>3, <2>4, <2>5, <2>6, <2>7, <2>8, <2>9, <2>10, <2>11, <2>12 DEF Asking
<1>5. CASE Copy
  BY <1>3, <1>5 DEF Copy
<1>6. CASE Commit
  <2>1. DOMAIN placed' = DOMAIN placed
    BY <1>1, <1>6, PlacedIs DEF Commit
  <2> QED
    BY <1>3, <1>6, <2>1 DEF Commit
<1>7. CASE Unlock \/ FailMove
  <2>1. move # NoMove /\ \E ok \in BOOLEAN : Ends(ok)
    BY <1>7 DEF Unlock, FailMove
  <2>2. call' = call \/ call'.op = "shardGo"
    BY <2>1, EndsIs
  <2> QED
    BY <1>3, <1>7, <2>2 DEF Unlock, FailMove
<1>8. CASE BeginRound \/ EndRound \/ Outlive
  <2>1. CASE Outlive
    <3>1. call \in ShardGoCalls
      BY <1>1, <2>1, MoveIs, CallKinds DEF Outlive, Inv, TypeOK, Migrating
    <3>2. call'.op = "shardGo"
      BY <2>1, <3>1 DEF Outlive, ShardGoCalls
    <3> QED
      BY <3>2 DEF Known
  <2> QED
    BY <1>3, <1>8, <2>1 DEF BeginRound, EndRound, dataVars
<1>9. ASSUME NEW c \in Chunks, Load(c) PROVE Known'
  BY <1>1, <1>3, <1>9, SplitOffIs DEF Load
<1>10. ASSUME NEW c \in Chunks, NEW s \in Shards, Clean(s, c) \/ Balance(c, s) PROVE Known'
  BY <1>3, <1>10 DEF Clean, Balance
<1>11. ASSUME NEW b \in BOOLEAN, SetBalancer(b) PROVE Known'
  BY <1>3, <1>11 DEF SetBalancer, dataVars
<1>12. CASE ShardGo
  <2>1. call'.op \in {"shardGo", "none"}
    BY <1>1, <1>12 DEF ShardGo, InShardGo
  <2> QED
    BY <2>1 DEF Known
<1>13. ASSUME call.op = "shardGo", Split \/ MoveChunk \/ TryAgain \/ Return PROVE Known'
  <2>1. CASE Split
    <3>1. call'.op \in {"shardGo", "none"}
      BY <1>1, <2>1, InShardGoIs DEF Split
    <3> QED
      BY <3>1 DEF Known
  <2>2. CASE MoveChunk \/ TryAgain \/ Return
    <3>1. call'.op \in {"shardGo", "none"}
      BY <1>1, <1>13, <2>2, CallKinds DEF MoveChunk, TryAgain, Return, ShardGoCalls
    <3> QED
      BY <3>1 DEF Known
  <2> QED
    BY <1>13, <2>1, <2>2
<1>14. ASSUME NEW c \in Chunks, SplitAt(c) PROVE Known'
  <2>1. call \in SplitterCalls /\ call.op = "splitter"
    BY <1>1, <1>14, CallKinds DEF SplitAt
  <2>2. call'.op = "splitter" /\ call'.points \subseteq call.points
    BY <1>14, <2>1 DEF SplitAt, SplitterCalls
  <2>3. c \in DOMAIN placed
    BY <1>14, <2>1 DEF SplitAt, Known
  <2>4. DOMAIN placed \subseteq DOMAIN placed'
    BY <1>1, <1>14, <2>3, SplitOffIs DEF SplitAt
  <2> QED
    BY <2>1, <2>2, <2>4 DEF Known
<1>15. CASE UNCHANGED vars
  BY <1>3, <1>15 DEF vars, dataVars
<1>16. Split \/ MoveChunk \/ TryAgain \/ Return => call.op = "shardGo"
  BY DEF Split, MoveChunk, TryAgain, Return
<1> QED
  BY <1>4, <1>5, <1>6, <1>7, <1>8, <1>9, <1>10, <1>11, <1>12, <1>13, <1>14, <1>15, <1>16
     DEF Next, Asking

-----------------------------------------------------------------------------
(* The theorems.                                                           *)

LEMMA InvInit == Init => Inv /\ Known
<1> SUFFICES ASSUME Init
             PROVE  Inv /\ Known
  OBVIOUS
<1>1. /\ on = TRUE /\ round = FALSE /\ placed = << >>
      /\ copies = [s \in Shards |-> IF s = Primary THEN {1} ELSE {}]
      /\ move = NoMove /\ cleaning = {}
      /\ call \in Calls /\ call.op = "none" /\ quiet = FALSE /\ balanced = FALSE /\ failed = {}
  BY NoCallIs DEF Init
<1>2. DOMAIN placed = {} /\ 1 \in Chunks
  BY <1>1, MaxChunksAssumption DEF Chunks
<1>3. placed \in UNION {[1 .. k -> Shards] : k \in 0 .. MaxChunks}
  <2>1. 0 \in 0 .. MaxChunks /\ 1 .. 0 = {}
    BY MaxChunksAssumption
  <2>2. placed \in [1 .. 0 -> Shards]
    BY <1>1, <1>2, <2>1
  <2> QED
    BY <2>1, <2>2
<1>4. TypeOK
  BY <1>1, <1>2, <1>3 DEF TypeOK
<1>5. Migrating /\ Owned /\ NoOthers
  BY <1>1, <1>2 DEF Migrating, Owned, NoOthers
<1>6. Calm /\ Counted /\ KeysFound /\ Going /\ EachFailed /\ ShardGoMoves
      /\ Known
  BY <1>1 DEF Calm, Counted, KeysFound, Going, EachFailed, Undisturbed, ShardGoMoves, Known
<1> QED
  BY <1>4, <1>5, <1>6 DEF Inv

LEMMA InvNext == Inv /\ Known /\ [Next]_vars => Inv' /\ Known'
<1> SUFFICES ASSUME Inv, Known, [Next]_vars
             PROVE  Inv' /\ Known'
  OBVIOUS
<1>1. Known'
  BY KnownStep
<1>2. CASE Asking
  BY <1>2, AskingStep, <1>1
<1>3. CASE UNCHANGED vars
  <2>1. /\ UNCHANGED <<on, round, placed, copies, move, cleaning, call, quiet, balanced,
                       failed>>
    BY <1>3 DEF vars, balancerVars, dataVars, history
  <2> QED
    BY <1>1, <2>1 DEF Inv, TypeOK, Migrating, Owned, NoOthers, Calm, Counted, KeysFound,
                      PlacedBefore, Going, EachFailed, Undisturbed, AtHome,
                      ShardGoMoves
<1>4. ASSUME NEW c \in Chunks, Load(c) \/ SplitAt(c) PROVE Inv'
  BY <1>4, LoadStep, SplitAtStep
<1>5. ASSUME NEW c \in Chunks, NEW s \in Shards, Clean(s, c) \/ Balance(c, s) PROVE Inv'
  BY <1>5, CleanStep, BalanceStep
<1>6. CASE Copy \/ Commit \/ Unlock \/ FailMove \/ Outlive
  <2>1. CASE Copy
    BY <1>1, <2>1, CopyStep
  <2>2. CASE Commit
    BY <1>1, <2>2, CommitStep
  <2>3. CASE Unlock
    BY <1>1, <2>3, UnlockStep
  <2>4. CASE FailMove
    BY <1>1, <2>4, FailMoveStep
  <2>5. CASE Outlive
    BY <1>1, <2>5, OutliveStep
  <2> QED
    BY <1>6, <2>1, <2>2, <2>3, <2>4, <2>5
<1>7. CASE ShardGo \/ Split \/ MoveChunk \/ TryAgain \/ Return
  <2>1. CASE ShardGo
    BY <1>1, <2>1, ShardGoStep
  <2>2. CASE Split
    BY <1>1, <2>2, SplitStep
  <2>3. CASE MoveChunk
    BY <1>1, <2>3, MoveChunkStep
  <2>4. CASE TryAgain
    BY <1>1, <2>4, TryAgainStep
  <2>5. CASE Return
    BY <1>1, <2>5, ReturnStep
  <2> QED
    BY <1>7, <2>1, <2>2, <2>3, <2>4, <2>5
<1>8. CASE BeginRound \/ EndRound \/ \E b \in BOOLEAN : SetBalancer(b)
  BY <1>1, <1>8, BalancerStep
<1> QED
  BY <1>1, <1>2, <1>3, <1>4, <1>5, <1>6, <1>7, <1>8 DEF Next, Asking

(* The invariant holds, whatever the numbers of shards, chunks and attempts. *)
THEOREM InvHolds == Spec => [](Inv /\ Known)
<1>1. QED
  BY InvInit, InvNext, PTL DEF Spec

(* The chunks, the copies, the migration under way and what a call has     *)
(* found so far are of their types.                                        *)
THEOREM TypeCorrect == Spec => []TypeOK
<1>1. Inv /\ Known => TypeOK
  BY DEF Inv
<1> QED
  BY <1>1, InvHolds, PTL

(* Once the balancer is off and isAnyBalanceInFlight has said no, what     *)
(* shardCounts, onNumShards, getShards and getSplitKeysForChunks find shard *)
(* by shard is what there is.                                              *)
THEOREM FindsWhatThereIs == Spec => []CountsExact
<1>1. ASSUME Inv PROVE CountsExact
  <2>1. TypeOK /\ \A c \in DOMAIN placed : placed[c] \in Shards
    BY <1>1, PlacedIs DEF Inv
  <2>2. PlacedBefore(NumShards) = DOMAIN placed
    BY <2>1, NumShardsAssumption DEF PlacedBefore, Shards
  <2>3. ASSUME call.op = "counts", call.at = NumShards, call.calm
        PROVE  /\ call.owners = {placed[c] : c \in DOMAIN placed}
               /\ "copied" \notin failed => /\ call.sum = Cardinality(DOMAIN placed)
                                           /\ call.shards = Cardinality(call.owners)
    BY <1>1, <2>2, <2>3 DEF Inv, Counted
  <2>4. ASSUME KeysDone, call.calm
        PROVE  call.points = {<<placed[c], c>> : c \in DOMAIN placed}
    <3>1. call.points = {<<placed[c], c>> : c \in DOMAIN placed \ {}}
      BY <1>1, <2>2, <2>4 DEF Inv, KeysFound, KeysDone
    <3>2. DOMAIN placed \ {} = DOMAIN placed
      OBVIOUS
    <3> QED
      BY <3>1, <3>2
  <2> QED
    BY <2>3, <2>4 DEF CountsExact
<1> QED
  BY <1>1, InvHolds, PTL

(* When shardGo returns, its chunk is away from the primary, unless the    *)
(* balancer has moved chunks.                                              *)
THEOREM ReturnMeansMoved == Spec => []ShardGoMoves
<1>1. Inv /\ Known => ShardGoMoves
  BY DEF Inv
<1> QED
  BY <1>1, InvHolds, PTL

(* After its attempts shardGo throws only when the migration of each has   *)
(* failed, or when something moved behind its back: the balancer, or a     *)
(* migration whose command had failed before it.                           *)
THEOREM GivesUpForAReason == Spec => []ShardGoWorks
<1>1. ASSUME Inv PROVE ShardGoWorks
  <2> SUFFICES ASSUME call.op = "shardGo", call.step = "threw", Undisturbed
               PROVE  call.failures = Tries
    BY <1>1 DEF ShardGoWorks, Undisturbed, Inv, TypeOK
  <2> QED
    BY <1>1 DEF Inv, EachFailed
<1> QED
  BY <1>1, InvHolds, PTL

-----------------------------------------------------------------------------
(* ShardCluster: the steps of a constructor.                               *)

Items ==
  Slots \union {<<"recycle", 0>>, <<"admin", 0>>} \union {"addshard"} \X (0 .. MaxShards - 1)

(* A slot is told from the other steps by its kind.                        *)
LEMMA SlotsAre ==
  /\ \A s \in Slots : s[1] \in {"shard", "rs", "config", "mongos"}
  /\ <<"mongos", 0>> \in Slots /\ 0 \in 0 .. MaxMongos - 1
  /\ \A s \in Items : s \in Slots <=> s[1] \in {"shard", "rs", "config", "mongos"}
  /\ \A s \in Slots : s \in Items
  /\ <<"recycle", 0>> \in Items /\ <<"admin", 0>> \in Items
  /\ \A k \in 0 .. MaxShards - 1 : <<"addshard", k>> \in Items
<1>1. 0 \in 0 .. MaxMongos - 1
  BY SizesAssumption
<1> QED
  BY <1>1 DEF Slots, Items

(* The numbers the constructor takes from its parameters.                  *)
LEMMA NumbersOf ==
  ASSUME NEW a \in Shapes
  PROVE  /\ NumShardsOf(a) \in 0 .. MaxShards /\ NumMongosOf(a) \in 0 .. MaxMongos
         /\ NumConfigsOf(a) \in 1 .. 3
BY SizesAssumption, ShapesAssumption DEF NumShardsOf, NumMongosOf, NumConfigsOf

(* The slots of a family, in their order.                                  *)
LEMMA SeveralAre ==
  ASSUME NEW kind, NEW n \in Nat, \A k \in 0 .. n - 1 : <<kind, k>> \in Items
  PROVE  /\ Several(kind, n) \in Seq(Items) /\ Len(Several(kind, n)) = n
         /\ \A i \in 1 .. n : Several(kind, n)[i] = <<kind, i - 1>>
<1>1. \A i \in 1 .. n : i - 1 \in 0 .. n - 1
  OBVIOUS
<1>2. Several(kind, n) \in [1 .. n -> Items]
  BY <1>1 DEF Several
<1> QED
  BY <1>2 DEF Several

(* u has the m members of s and then the n members of t.                   *)
Joined(u, s, t, m, n) ==
  /\ u \in Seq(Items) /\ Len(u) = m + n
  /\ \A i \in 1 .. m : u[i] = s[i]
  /\ \A i \in 1 .. n : u[m + i] = t[i]

(* What the concatenation of two sequences has.                            *)
LEMMA ConcatIs ==
  ASSUME NEW s \in Seq(Items), NEW t \in Seq(Items), NEW m \in Nat, NEW n \in Nat,
         Len(s) = m, Len(t) = n
  PROVE  Joined(s \o t, s, t, m, n)
<1>1. ASSUME NEW i \in 1 .. n PROVE m + i \in 1 .. m + n /\ ~(m + i <= m) /\ m + i - m = i
  OBVIOUS
<1> QED
  <2>1. /\ s \o t \in Seq(Items) /\ Len(s \o t) = m + n
        /\ \A i \in 1 .. m + n : (s \o t)[i] = IF i <= m THEN s[i] ELSE t[i - m]
    BY ConcatProperties
  <2>2. ASSUME NEW i \in 1 .. m PROVE (s \o t)[i] = s[i]
    <3>1. i \in 1 .. m + n /\ i <= m
      OBVIOUS
    <3> QED
      BY <2>1, <3>1
  <2> QED
    BY <1>1, <2>1, <2>2 DEF Joined

(* The shards and the config servers of the parameters a.                  *)
ShardsOf(a) ==
  {s \in Slots : s[1] = (IF a.rs THEN "rs" ELSE "shard") /\ s[2] < NumShardsOf(a)}
ConfigsOf(a) ==
  {s \in Slots : s[1] = (IF SeparateConfig(a) THEN "config" ELSE "shard")
                 /\ s[2] < NumConfigsOf(a)}
MongosOf(a) == {s \in Slots : s[1] = "mongos" /\ s[2] < NumMongosOf(a)}
ServersOf(a) ==
  ShardsOf(a) \union MongosOf(a) \union (IF SeparateConfig(a) THEN ConfigsOf(a) ELSE {})

(* The steps that come after all programs.                                 *)
Late == {"admin", "addshard"}

NoSlots(steps) == \A i \in 1 .. Len(steps) : steps[i] \notin Slots

(* What a constructor has yet to do makes its config servers: they are     *)
(* done, are among the steps left, or are shards to be named.  Its first   *)
(* mongos and its shards are done, or are yet to be asked for.             *)
ConfigsToCome(a, steps, done) ==
  /\ SeparateConfig(a) =>
       \A s \in ConfigsOf(a) : s \in done \/ \E i \in 1 .. Len(steps) : steps[i] = s
  /\ ~SeparateConfig(a) =>
       \/ \E j \in 1 .. Len(steps) : /\ steps[j][1] = "recycle"
                                     /\ \A i \in j + 1 .. Len(steps) : steps[i][1] # "shard"
       \/ /\ ConfigsOf(a) \subseteq done
          /\ \A i \in 1 .. Len(steps) : steps[i][1] # "shard"

MongosToCome(steps, done) ==
  \/ \E i \in 1 .. Len(steps) : steps[i][1] = "admin"
  \/ <<"mongos", 0>> \in done /\ NoSlots(steps)

ShardToCome(steps, done, s) ==
  \/ \E i \in 1 .. Len(steps) : steps[i] = <<"addshard", s[2]>>
  \/ s \in done /\ NoSlots(steps)

LateAreLate(steps) ==
  \A i \in 1 .. Len(steps) :
    steps[i][1] \in Late => \A j \in i + 1 .. Len(steps) : steps[j] \notin Slots

Ordered(a, steps, done) ==
  /\ steps \in Seq(Items)
  /\ \A i \in 1 .. Len(steps) : steps[i] \in Slots => steps[i] \in ServersOf(a)
  /\ LateAreLate(steps)
  /\ ConfigsToCome(a, steps, done) /\ MongosToCome(steps, done)
  /\ a.manualAddShard \/ \A s \in ShardsOf(a) : ShardToCome(steps, done, s)

(* The constructor begins with all its steps, in their order.              *)
LEMMA StepsOrdered == ASSUME NEW a \in Shapes PROVE Ordered(a, Steps(a), {}) /\ Len(Steps(a)) > 0
<1> DEFINE kind == IF a.rs THEN "rs" ELSE "shard"
           ns == NumShardsOf(a)
           nc == NumConfigsOf(a)
           nm == NumMongosOf(a)
           na == IF a.manualAddShard THEN 0 ELSE NumShardsOf(a)
           shards == Several(kind, ns)
           configs == IF SeparateConfig(a) THEN Several("config", nc)
                                           ELSE <<<<"recycle", 0>>>>
           mongos == Several("mongos", nm)
           admin == <<<<"admin", 0>>>>
           adders == Several("addshard", na)
           ncs == Len(configs)
<1>1. ns \in 0 .. MaxShards /\ nc \in 1 .. 3 /\ nm \in 0 .. MaxMongos
      /\ ns \in Nat /\ nc \in Nat /\ nm \in Nat /\ na \in 0 .. MaxShards /\ na \in Nat
      /\ na = IF a.manualAddShard THEN 0 ELSE ns
  BY NumbersOf, SizesAssumption
<1> HIDE DEF ns, nc, nm, na
<1>2. /\ shards \in Seq(Items) /\ Len(shards) = ns
      /\ \A i \in 1 .. ns : shards[i] = <<kind, i - 1>> /\ shards[i] \in ShardsOf(a)
  <2>1. \A k \in 0 .. ns - 1 : <<kind, k>> \in Slots
    BY <1>1, SizesAssumption DEF Slots
  <2>2. \A k \in 0 .. ns - 1 : <<kind, k>> \in Items
    BY <2>1 DEF Items
  <2>3. /\ shards \in Seq(Items) /\ Len(shards) = ns
        /\ \A i \in 1 .. ns : shards[i] = <<kind, i - 1>>
    BY <1>1, <2>2, SeveralAre
  <2>4. \A k \in 0 .. ns - 1 : <<kind, k>> \in ShardsOf(a)
    <3>1. ASSUME NEW k \in 0 .. ns - 1 PROVE k < NumShardsOf(a)
      BY <1>1 DEF ns
    <3> QED
      BY <2>1, <3>1 DEF ShardsOf
  <2>5. \A i \in 1 .. ns : i - 1 \in 0 .. ns - 1
    BY <1>1
  <2> QED
    BY <2>3, <2>4, <2>5
<1>3. /\ mongos \in Seq(Items) /\ Len(mongos) = nm
      /\ \A i \in 1 .. nm : mongos[i] = <<"mongos", i - 1>> /\ mongos[i] \in MongosOf(a)
  <2>1. \A k \in 0 .. nm - 1 : <<"mongos", k>> \in Slots
    BY <1>1, SizesAssumption DEF Slots
  <2>2. \A k \in 0 .. nm - 1 : <<"mongos", k>> \in Items
    BY <2>1, Zenon DEF Items
  <2>3. /\ mongos \in Seq(Items) /\ Len(mongos) = nm
        /\ \A i \in 1 .. nm : mongos[i] = <<"mongos", i - 1>>
    BY <1>1, <2>2, SeveralAre
  <2>4. \A k \in 0 .. nm - 1 : <<"mongos", k>> \in MongosOf(a)
    <3>1. ASSUME NEW k \in 0 .. nm - 1 PROVE <<"mongos", k>> \in MongosOf(a)
      <4>1. k < NumMongosOf(a)
        BY <1>1 DEF nm
      <4>2. <<"mongos", k>> \in Slots
        BY <2>1, Zenon
      <4> QED
        BY <4>1, <4>2 DEF MongosOf
    <3> QED
      BY <3>1, Zenon
  <2>5. \A i \in 1 .. nm : i - 1 \in 0 .. nm - 1
    BY <1>1
  <2> QED
    BY <2>3, <2>4, <2>5
<1>4. /\ configs \in Seq(Items) /\ ncs \in Nat
      /\ SeparateConfig(a) => /\ ncs = nc
                              /\ \A i \in 1 .. nc : /\ configs[i] = <<"config", i - 1>>
                                                    /\ configs[i] \in ConfigsOf(a)
      /\ ~SeparateConfig(a) => ncs = 1 /\ configs[1] = <<"recycle", 0>>
  <2>1. CASE SeparateConfig(a)
    <3>1. \A k \in 0 .. nc - 1 : <<"config", k>> \in Slots
      BY <1>1 DEF Slots
    <3>0. \A k \in 0 .. nc - 1 : <<"config", k>> \in Items
      BY <3>1, Zenon DEF Items
    <3>2. /\ configs \in Seq(Items) /\ Len(configs) = nc
          /\ \A i \in 1 .. nc : configs[i] = <<"config", i - 1>>
      BY <1>1, <2>1, <3>0, SeveralAre
    <3>3. \A k \in 0 .. nc - 1 : <<"config", k>> \in ConfigsOf(a)
      <4>1. ASSUME NEW k \in 0 .. nc - 1 PROVE <<"config", k>> \in ConfigsOf(a)
        <5>1. k < NumConfigsOf(a)
          BY <1>1 DEF nc
        <5>2. <<"config", k>> \in Slots
          BY <3>1, Zenon
        <5> QED
          BY <2>1, <5>1, <5>2 DEF ConfigsOf
      <4> QED
        BY <4>1, Zenon
    <3>4. \A i \in 1 .. nc : i - 1 \in 0 .. nc - 1
      BY <1>1
    <3> QED
      BY <1>1, <2>1, <3>2, <3>3, <3>4
  <2>2. CASE ~SeparateConfig(a)
    BY <2>2 DEF Items
  <2> QED
    BY <2>1, <2>2
<1>5. admin \in Seq(Items) /\ Len(admin) = 1 /\ admin[1] = <<"admin", 0>>
  BY DEF Items
<1>6. /\ adders \in Seq(Items) /\ Len(adders) = na
      /\ \A i \in 1 .. na : adders[i] = <<"addshard", i - 1>>
  <2>1. \A k \in 0 .. na - 1 : k \in 0 .. MaxShards - 1
    BY <1>1, SizesAssumption
  <2>2. \A k \in 0 .. na - 1 : <<"addshard", k>> \in Items
    <3>1. ASSUME NEW k \in 0 .. na - 1 PROVE <<"addshard", k>> \in Items
      <4>1. k \in 0 .. MaxShards - 1
        BY <2>1
      <4> HIDE DEF Items
      <4> QED
        BY <4>1, SlotsAre, Zenon
    <3> QED
      BY <3>1, Zenon
  <2> QED
    BY <1>1, <2>2, SeveralAre
<1> DEFINE steps == shards \o configs \o mongos \o admin \o adders
           m == ns + ncs + nm
           end == m + 1 + na
<1> HIDE DEF shards, configs, mongos, admin, adders, ncs, kind
<1>7. /\ steps \in Seq(Items) /\ Len(steps) = end /\ end \in Nat /\ end > 0
      /\ m \in Nat /\ m + 1 \in 1 .. end
      /\ \A i \in 1 .. ns : steps[i] = shards[i]
      /\ \A i \in 1 .. ncs : steps[ns + i] = configs[i]
      /\ \A i \in 1 .. nm : steps[ns + ncs + i] = mongos[i]
      /\ steps[m + 1] = admin[1]
      /\ \A i \in 1 .. na : steps[m + 1 + i] = adders[i]
  <2> DEFINE two == shards \o configs
             three == two \o mongos
             four == three \o admin
  <2>1. ncs \in Nat /\ Len(configs) = ncs /\ configs \in Seq(Items)
    BY <1>4 DEF ncs
  <2>2. /\ two \in Seq(Items) /\ Len(two) = ns + ncs
        /\ \A i \in 1 .. ns : two[i] = shards[i]
        /\ \A i \in 1 .. ncs : two[ns + i] = configs[i]
    <3>1. Joined(two, shards, configs, ns, ncs)
      BY <1>1, <1>2, <2>1, ConcatIs
    <3> QED
      BY <3>1 DEF Joined
  <2> HIDE DEF two
  <2>3. /\ three \in Seq(Items) /\ Len(three) = ns + ncs + nm
        /\ \A i \in 1 .. ns + ncs : three[i] = two[i]
        /\ \A i \in 1 .. nm : three[ns + ncs + i] = mongos[i]
    <3>1. ns + ncs \in Nat
      BY <1>1, <2>1
    <3> QED
      <4>1. Joined(three, two, mongos, ns + ncs, nm)
        BY <1>1, <1>3, <2>2, <3>1, ConcatIs
      <4> QED
        BY <4>1 DEF Joined
  <2> HIDE DEF three
  <2>4. /\ four \in Seq(Items) /\ Len(four) = m + 1 /\ m \in Nat
        /\ \A i \in 1 .. m : four[i] = three[i]
        /\ four[m + 1] = admin[1]
    <3>1. m \in Nat /\ Len(three) = m
      BY <1>1, <2>1, <2>3
    <3> HIDE DEF m
    <3>2. Joined(four, three, admin, m, 1)
      BY <1>5, <2>3, <3>1, ConcatIs
    <3>3. 1 \in 1 .. 1
      OBVIOUS
    <3> QED
      BY <3>1, <3>2, <3>3 DEF Joined
  <2> HIDE DEF four
  <2>5. /\ four \o adders \in Seq(Items) /\ Len(four \o adders) = end
        /\ \A i \in 1 .. m + 1 : (four \o adders)[i] = four[i]
        /\ \A i \in 1 .. na : (four \o adders)[m + 1 + i] = adders[i]
    <3>1. m + 1 \in Nat
      BY <2>4
    <3> HIDE DEF m
    <3>2. Joined(four \o adders, four, adders, m + 1, na)
      BY <1>1, <1>6, <2>4, <3>1, ConcatIs
    <3> QED
      BY <3>2 DEF Joined, end
  <2>6. steps = four \o adders
    BY DEF two, three, four
  <2>7. /\ end \in Nat /\ end > 0 /\ m + 1 \in 1 .. end /\ m + 1 \in 1 .. m + 1
        /\ \A i \in 1 .. ns : i \in 1 .. ns + ncs /\ i \in 1 .. m /\ i \in 1 .. m + 1
        /\ \A i \in 1 .. ncs : /\ ns + i \in 1 .. ns + ncs /\ ns + i \in 1 .. m
                               /\ ns + i \in 1 .. m + 1
        /\ \A i \in 1 .. nm : ns + ncs + i \in 1 .. m /\ ns + ncs + i \in 1 .. m + 1
    BY <1>1, <2>1
  <2> HIDE DEF end, steps, m
  <2>8. \A i \in 1 .. m : i \in 1 .. m + 1
    BY <2>4
  <2>9. \A i \in 1 .. m : steps[i] = three[i]
    BY <2>4, <2>5, <2>6, <2>8
  <2>10. \A i \in 1 .. ns : steps[i] = shards[i]
    BY <2>2, <2>3, <2>7, <2>9
  <2>11. \A i \in 1 .. ncs : steps[ns + i] = configs[i]
    BY <2>2, <2>3, <2>7, <2>9
  <2>12. \A i \in 1 .. nm : steps[ns + ncs + i] = mongos[i]
    BY <2>3, <2>7, <2>9
  <2>13. steps[m + 1] = admin[1] /\ \A i \in 1 .. na : steps[m + 1 + i] = adders[i]
    BY <2>4, <2>5, <2>6, <2>7
  <2> QED
    BY <2>4, <2>5, <2>6, <2>7, <2>10, <2>11, <2>12, <2>13
<1>8. \A i \in 1 .. end : \/ i \in 1 .. ns
                          \/ \E k \in 1 .. ncs : i = ns + k
                          \/ \E k \in 1 .. nm : i = ns + ncs + k
                          \/ i = m + 1
                          \/ \E k \in 1 .. na : i = m + 1 + k
  <2>1. ASSUME NEW i \in 1 .. end
        PROVE  \/ i \in 1 .. ns
               \/ (i - ns \in 1 .. ncs /\ i = ns + (i - ns))
               \/ (i - (ns + ncs) \in 1 .. nm /\ i = ns + ncs + (i - (ns + ncs)))
               \/ i = m + 1
               \/ (i - (m + 1) \in 1 .. na /\ i = m + 1 + (i - (m + 1)))
    <3>1. ncs \in Nat /\ i \in Nat /\ i >= 1 /\ i <= ns + ncs + nm + 1 + na
      BY <1>1, <1>4
    <3> HIDE DEF end
    <3> QED
      BY <1>1, <3>1
  <2> QED
    BY <2>1
<1> HIDE DEF steps, end, m
<1>9. ASSUME NEW i \in 1 .. ns
      PROVE  /\ steps[i] \in ShardsOf(a) /\ steps[i][1] \in {"shard", "rs"} /\ i < m + 1
  <2>1. steps[i] = <<kind, i - 1>> /\ steps[i] \in ShardsOf(a)
    BY <1>2, <1>7
  <2>2. i < m + 1
    BY <1>1, <1>4 DEF m
  <2> QED
    BY <2>1, <2>2 DEF kind
<1>10. ASSUME NEW k \in 1 .. ncs
       PROVE  /\ steps[ns + k] \in Slots => steps[ns + k] \in ServersOf(a)
              /\ steps[ns + k][1] \in {"config", "recycle"} /\ ns + k < m + 1
  <2>1. ns + k < m + 1
    BY <1>1, <1>4 DEF m
  <2>2. steps[ns + k] = configs[k]
    BY <1>7
  <2>3. CASE SeparateConfig(a)
    <3>1. configs[k] = <<"config", k - 1>> /\ configs[k] \in ConfigsOf(a)
      BY <1>4, <2>3
    <3> QED
      BY <2>1, <2>2, <2>3, <3>1 DEF ServersOf
  <2>4. CASE ~SeparateConfig(a)
    <3>1. configs[k] = <<"recycle", 0>>
      BY <1>4, <2>4
    <3> QED
      BY <2>1, <2>2, <3>1, SlotsAre
  <2> QED
    BY <2>3, <2>4
<1>11. ASSUME NEW k \in 1 .. nm
       PROVE  /\ steps[ns + ncs + k] \in MongosOf(a) /\ steps[ns + ncs + k][1] = "mongos"
              /\ ns + ncs + k < m + 1
  <2>1. ns + ncs + k < m + 1
    BY <1>1, <1>4 DEF m
  <2>2. steps[ns + ncs + k] = <<"mongos", k - 1>> /\ steps[ns + ncs + k] \in MongosOf(a)
    BY <1>3, <1>7
  <2> QED
    BY <2>1, <2>2
<1>12. steps[m + 1] = <<"admin", 0>> /\ steps[m + 1] \notin Slots
  BY <1>5, <1>7, SlotsAre
<1>13. ASSUME NEW k \in 1 .. na
       PROVE  /\ steps[m + 1 + k] = <<"addshard", k - 1>> /\ steps[m + 1 + k] \notin Slots
              /\ m + 1 + k \in 1 .. end
  <2>1. m + 1 + k \in 1 .. end
    BY <1>1, <1>7 DEF end
  <2>2. steps[m + 1 + k] = <<"addshard", k - 1>>
    BY <1>6, <1>7
  <2> QED
    BY <2>1, <2>2, SlotsAre
<1>14. ASSUME NEW i \in 1 .. end
       PROVE  /\ steps[i] \in Slots => (steps[i] \in ServersOf(a) /\ i < m + 1)
              /\ steps[i][1] \in Late => ~(i < m + 1)
  <2>1. CASE i \in 1 .. ns
    BY <1>9, <2>1 DEF ServersOf, Late
  <2>2. ASSUME NEW k \in 1 .. ncs, i = ns + k
        PROVE  /\ steps[i] \in Slots => (steps[i] \in ServersOf(a) /\ i < m + 1)
               /\ steps[i][1] \in Late => ~(i < m + 1)
    BY <1>10, <2>2 DEF Late
  <2>3. ASSUME NEW k \in 1 .. nm, i = ns + ncs + k
        PROVE  /\ steps[i] \in Slots => (steps[i] \in ServersOf(a) /\ i < m + 1)
               /\ steps[i][1] \in Late => ~(i < m + 1)
    BY <1>11, <2>3 DEF ServersOf, Late
  <2>4. CASE i = m + 1
    BY <1>7, <1>12, <2>4
  <2>5. ASSUME NEW k \in 1 .. na, i = m + 1 + k
        PROVE  /\ steps[i] \in Slots => (steps[i] \in ServersOf(a) /\ i < m + 1)
               /\ steps[i][1] \in Late => ~(i < m + 1)
    <3>1. ~(i < m + 1)
      BY <1>1, <1>7, <2>5
    <3> QED
      BY <1>13, <2>5, <3>1
  <2> QED
    BY <1>8, <2>1, <2>2, <2>3, <2>4, <2>5
<1>15. LateAreLate(steps)
  <2>1. ASSUME NEW i \in 1 .. end, steps[i][1] \in Late, NEW j \in i + 1 .. end
        PROVE  steps[j] \notin Slots
    <3>1. j \in 1 .. end /\ i \in Nat /\ j \in Nat /\ i < j /\ m \in Nat
      BY <1>7
    <3>2. ~(i < m + 1)
      BY <1>14, <2>1
    <3>3. ~(j < m + 1)
      BY <3>1, <3>2
    <3> QED
      BY <1>14, <3>1, <3>3
  <2> QED
    BY <1>7, <2>1 DEF LateAreLate
<1>16. ASSUME SeparateConfig(a), NEW s \in ConfigsOf(a)
       PROVE  \E i \in 1 .. end : steps[i] = s
  <2>1. PICK k \in 0 .. nc - 1 : s = <<"config", k>>
    BY <1>1, <1>16 DEF ConfigsOf, Slots, nc
  <2>2. k + 1 \in 1 .. ncs /\ configs[k + 1] = s
    BY <1>1, <1>4, <1>16, <2>1
  <2>3. ns + (k + 1) \in 1 .. end
    BY <1>1, <1>4, <2>2 DEF end, m
  <2> QED
    BY <1>7, <2>2, <2>3
<1>17. ASSUME ~SeparateConfig(a)
       PROVE  \E j \in 1 .. end : /\ steps[j][1] = "recycle"
                                  /\ \A i \in j + 1 .. end : steps[i][1] # "shard"
  <2>1. /\ 1 \in 1 .. ncs /\ ns + 1 \in 1 .. end /\ ncs = 1
        /\ steps[ns + 1] = <<"recycle", 0>>
    <3>1. ncs = 1 /\ configs[1] = <<"recycle", 0>>
      BY <1>4, <1>17
    <3>2. ns + 1 \in 1 .. end
      BY <1>1, <3>1 DEF end, m
    <3>3. 1 \in 1 .. ncs
      BY <3>1
    <3> QED
      BY <1>7, <3>1, <3>2, <3>3
  <2>2. ASSUME NEW i \in ns + 1 + 1 .. end PROVE steps[i][1] # "shard"
    <3>1. i \in 1 .. end /\ i \notin 1 .. ns /\ \A k \in 1 .. ncs : i # ns + k
      BY <1>1, <1>7, <2>1
    <3>2. CASE \E k \in 1 .. nm : i = ns + ncs + k
      BY <1>11, <3>2
    <3>3. CASE i = m + 1
      BY <1>12, <3>3
    <3>4. CASE \E k \in 1 .. na : i = m + 1 + k
      BY <1>13, <3>4
    <3> QED
      BY <1>8, <3>1, <3>2, <3>3, <3>4
  <2> QED
    BY <2>1, <2>2
<1>18. ConfigsToCome(a, steps, {})
  BY <1>7, <1>16, <1>17 DEF ConfigsToCome
<1>19. MongosToCome(steps, {})
  BY <1>7, <1>12 DEF MongosToCome
<1>20. ASSUME ~a.manualAddShard, NEW s \in ShardsOf(a) PROVE ShardToCome(steps, {}, s)
  <2>1. s[2] \in 0 .. MaxShards - 1 /\ s[2] < ns
    BY DEF ShardsOf, Slots, ns
  <2>2. s[2] + 1 \in 1 .. na /\ (s[2] + 1) - 1 = s[2]
    BY <1>1, <1>20, <2>1
  <2>3. steps[m + 1 + (s[2] + 1)] = <<"addshard", s[2]>> /\ m + 1 + (s[2] + 1) \in 1 .. end
    BY <1>13, <2>2
  <2> QED
    BY <1>7, <2>3 DEF ShardToCome
<1>21. Ordered(a, steps, {})
  BY <1>7, <1>14, <1>15, <1>18, <1>19, <1>20 DEF Ordered
<1> QED
  <2>1. steps = Steps(a)
    BY DEF Steps, steps, shards, configs, mongos, admin, adders, ns, nc, nm, na, kind
  <2> QED
    BY <1>7, <1>21, <2>1

(* They remain so when the first has been done: it has a connection, or is *)
(* no config server, or names config servers that all have one, or asks    *)
(* for a mongos or a shard that has one.                                   *)
LEMMA TailOrdered ==
  ASSUME NEW a, NEW steps, NEW done, NEW more, Ordered(a, steps, done), Len(steps) > 0,
         \A s \in done : s \in more \/ s = Head(steps),
         \A s \in done : s \in more \/ Head(steps) \in Slots,
         Head(steps)[1] = "config" => Head(steps) \in more,
         Head(steps)[1] = "recycle" => ConfigsOf(a) \subseteq more,
         Head(steps)[1] = "admin" => <<"mongos", 0>> \in more,
         \A s \in ShardsOf(a) : Head(steps) = <<"addshard", s[2]>> => s \in more
  PROVE  Ordered(a, Tail(steps), more)
<1> DEFINE n == Len(steps)
           rest == Tail(steps)
<1>1. /\ steps \in Seq(Items) /\ n \in Nat /\ n > 0 /\ Head(steps) = steps[1]
      /\ 1 \in 1 .. n /\ n - 1 \in Nat
  BY DEF Ordered
<1>2. steps # << >>
  BY <1>1, EmptySeq
<1>3. /\ rest \in Seq(Items) /\ Len(rest) = n - 1
      /\ \A i \in 1 .. n - 1 : rest[i] = steps[i + 1] /\ i + 1 \in 1 .. n
  BY <1>1, <1>2, HeadTailProperties
<1> HIDE DEF rest, n
<1>4. \A i \in 1 .. n - 1 : rest[i] \in Slots => rest[i] \in ServersOf(a)
  BY <1>3 DEF Ordered, n
<1>5. \A i \in 1 .. n : i = 1 \/ (i - 1 \in 1 .. n - 1 /\ rest[i - 1] = steps[i])
  <2>1. \A i \in 1 .. n : i = 1 \/ (i - 1 \in 1 .. n - 1 /\ (i - 1) + 1 = i)
    BY <1>1
  <2> QED
    BY <1>3, <2>1
<1>6. LateAreLate(rest)
  <2>1. ASSUME NEW i \in 1 .. n - 1, rest[i][1] \in Late, NEW j \in i + 1 .. n - 1
        PROVE  rest[j] \notin Slots
    <3>0. /\ i \in Nat /\ i >= 1 /\ i <= n - 1 /\ j \in Int /\ j >= i + 1 /\ j <= n - 1
          /\ n \in Nat
      BY <1>1, <2>1
    <3>1. i + 1 \in 1 .. n /\ j \in 1 .. n - 1 /\ j + 1 \in (i + 1) + 1 .. n
      BY <3>0
    <3>2. rest[i] = steps[i + 1] /\ rest[j] = steps[j + 1]
      BY <1>3, <3>1
    <3> QED
      BY <2>1, <3>1, <3>2 DEF Ordered, LateAreLate, n
  <2> QED
    BY <1>3, <2>1 DEF LateAreLate
<1>7. ASSUME SeparateConfig(a), NEW s \in ConfigsOf(a)
      PROVE  s \in more \/ \E i \in 1 .. n - 1 : rest[i] = s
  <2>1. s[1] = "config"
    BY <1>7 DEF ConfigsOf
  <2>2. s \in done \/ \E i \in 1 .. n : steps[i] = s
    BY <1>7 DEF Ordered, ConfigsToCome, n
  <2> QED
    BY <1>1, <1>5, <2>1, <2>2
<1>8. ASSUME ~SeparateConfig(a)
      PROVE  \/ \E j \in 1 .. n - 1 : /\ rest[j][1] = "recycle"
                                      /\ \A i \in j + 1 .. n - 1 : rest[i][1] # "shard"
             \/ /\ ConfigsOf(a) \subseteq more
                /\ \A i \in 1 .. n - 1 : rest[i][1] # "shard"
  <2>1. CASE \E j \in 1 .. n : /\ steps[j][1] = "recycle"
                               /\ \A i \in j + 1 .. n : steps[i][1] # "shard"
    <3>1. PICK j \in 1 .. n : /\ steps[j][1] = "recycle"
                              /\ \A i \in j + 1 .. n : steps[i][1] # "shard"
      BY <2>1
    <3>2. \A i \in (j - 1) + 1 .. n - 1 : i + 1 \in j + 1 .. n /\ i \in 1 .. n - 1
      BY <1>1
    <3>3. \A i \in (j - 1) + 1 .. n - 1 : rest[i][1] # "shard"
      BY <1>3, <3>1, <3>2
    <3>4. CASE j = 1
      <4>1. \A i \in 1 .. n - 1 : i \in (j - 1) + 1 .. n - 1
        BY <1>1, <3>4
      <4> QED
        BY <1>1, <3>1, <3>3, <3>4, <4>1
    <3>5. CASE j # 1
      BY <1>5, <3>1, <3>3, <3>5
    <3> QED
      BY <3>4, <3>5
  <2>2. CASE /\ ConfigsOf(a) \subseteq done
             /\ \A i \in 1 .. n : steps[i][1] # "shard"
    <3>1. \A s \in ConfigsOf(a) : s[1] = "shard"
      BY <1>8 DEF ConfigsOf
    <3>2. ConfigsOf(a) \subseteq more
      BY <1>1, <2>2, <3>1
    <3> QED
      BY <1>3, <2>2, <3>2
  <2> QED
    BY <1>8, <2>1, <2>2 DEF Ordered, ConfigsToCome, n
<1>9. ConfigsToCome(a, rest, more)
  BY <1>3, <1>7, <1>8 DEF ConfigsToCome
<1>10. Head(steps)[1] \in Late => NoSlots(rest)
  <2>1. ASSUME steps[1][1] \in Late, NEW i \in 1 .. n - 1 PROVE rest[i] \notin Slots
    <3>1. i + 1 \in 1 + 1 .. n
      BY <1>1
    <3>2. steps[i + 1] \notin Slots
      BY <1>1, <2>1, <3>1 DEF Ordered, LateAreLate, n
    <3> QED
      BY <1>3, <3>2
  <2> QED
    BY <1>1, <1>3, <2>1 DEF NoSlots
<1>11. ASSUME NoSlots(steps) PROVE NoSlots(rest) /\ done \subseteq more
  BY <1>1, <1>3, <1>11 DEF NoSlots, n
<1>12. MongosToCome(rest, more)
  <2>1. CASE \E i \in 1 .. n : steps[i][1] = "admin"
    <3>1. PICK i \in 1 .. n : steps[i][1] = "admin"
      BY <2>1
    <3>2. CASE i = 1
      BY <1>1, <1>10, <3>1, <3>2 DEF MongosToCome, Late
    <3>3. CASE i # 1
      BY <1>3, <1>5, <3>1, <3>3 DEF MongosToCome
    <3> QED
      BY <3>2, <3>3
  <2>2. CASE <<"mongos", 0>> \in done /\ NoSlots(steps)
    BY <1>11, <2>2 DEF MongosToCome
  <2> QED
    BY <2>1, <2>2 DEF Ordered, MongosToCome, n
<1>13. ASSUME ~a.manualAddShard, NEW s \in ShardsOf(a) PROVE ShardToCome(rest, more, s)
  <2>1. CASE \E i \in 1 .. n : steps[i] = <<"addshard", s[2]>>
    <3>1. PICK i \in 1 .. n : steps[i] = <<"addshard", s[2]>>
      BY <2>1
    <3>2. CASE i = 1
      BY <1>1, <1>10, <3>1, <3>2 DEF ShardToCome, Late
    <3>3. CASE i # 1
      BY <1>3, <1>5, <3>1, <3>3 DEF ShardToCome
    <3> QED
      BY <3>2, <3>3
  <2>2. CASE s \in done /\ NoSlots(steps)
    BY <1>11, <2>2 DEF ShardToCome
  <2>3. ShardToCome(steps, done, s)
    BY <1>13 DEF Ordered
  <2> QED
    BY <2>1, <2>2, <2>3 DEF ShardToCome, n
<1>14. Ordered(a, rest, more)
  <2>1. rest \in Seq(Items) /\ Len(rest) = n - 1
    BY <1>3
  <2> QED
    BY <1>4, <1>6, <1>9, <1>12, <1>13, <2>1 DEF Ordered
<1> QED
  BY <1>14 DEF rest

(* The slots that have a connection.                                       *)
Connected == {s \in Slots : conns[s] # Null}

(* A test that is being made goes through its steps in their order; in the *)
(* end the config servers, and the shards it adds, have a connection, and  *)
(* so has the first mongos until the test stops that.                      *)
InOrder ==
  /\ phase = "building" => Ordered(asked, todo, Connected) /\ Len(todo) > 0
  /\ phase = "ready" =>
       /\ ConfigsOf(asked) \subseteq Connected
       /\ asked.manualAddShard \/ ShardsOf(asked) \subseteq Connected
       /\ <<"mongos", 0>> \in Connected \/ PortOf(<<"mongos", 0>>) \in gone

(* The ports of the programs that a test starts.                           *)
Places == {PortOf(s) : s \in ServersOf(asked)}

(* But where tests have left programs, each that runs is the test's own,   *)
(* on one of its ports, until it stops.                                    *)
NoneLeft ==
  /\ \A s \in Slots : conns[s] \in {Null, test} \/ PortOf(s) \in left
  /\ \A p \in Ports : \/ running[p] = Null \/ p \in left
                      \/ running[p] = test /\ phase \in {"building", "ready"} /\ p \in Places

(* Who the test was connected to is there, but for what is gone.           *)
Kept ==
  phase \in {"building", "ready"} =>
    \A s \in Connected : running[PortOf(s)] = conns[s] \/ PortOf(s) \in gone

(* The inductive invariant.                                                *)
ClusterInv == ClusterTypeOK /\ InOrder /\ NoneLeft /\ Kept

(* The families of the current test, and where their programs are.         *)
LEMMA FamiliesAre ==
  ASSUME asked \in Shapes
  PROVE  /\ ShardSlots = ShardsOf(asked) /\ ConfigSlots = ConfigsOf(asked)
         /\ MongosSlots = MongosOf(asked) /\ ServersOf(asked) \subseteq TestSlots
         /\ TestSlots \subseteq Slots
         /\ \A s \in Slots : PortOf(s) \in Ports
         /\ \A s \in ServersOf(asked) : PortOf(s) \in Places
         /\ MongosOf(asked) \subseteq ServersOf(asked)
<1>1. /\ ShardSlots = ShardsOf(asked) /\ ConfigSlots = ConfigsOf(asked)
      /\ MongosSlots = MongosOf(asked)
  BY DEF ShardSlots, ShardKind, ConfigSlots, MongosSlots, ShardsOf, ConfigsOf, MongosOf
<1>2. TestSlots \subseteq Slots
  BY DEF TestSlots, ShardSlots, ConfigSlots, MongosSlots
<1>3. ASSUME NEW s \in Slots PROVE PortOf(s) \in Ports
  <2>1. PICK S \in SUBSET Slots : asked.own \in [S -> Ports]
    BY ShapesAssumption
  <2>2. s \in Ports
    BY DEF Ports
  <2> QED
    BY <2>1, <2>2 DEF PortOf
<1> QED
  BY <1>1, <1>2, <1>3 DEF ServersOf, TestSlots, Places

(* While a test is being made there is a step to do; a program it starts is *)
(* one of its own.                                                         *)
LEMMA FirstStep ==
  ASSUME ClusterInv, phase = "building"
  PROVE  /\ todo \in Seq(Items) /\ todo # << >> /\ Head(todo) = todo[1] /\ Head(todo) \in Items
         /\ Tail(todo) \in Seq(Items) /\ Len(Tail(todo)) = Len(todo) - 1 /\ Len(todo) \in Nat
         /\ Len(todo) > 0 /\ Ordered(asked, todo, Connected)
         /\ Head(todo) \in Slots => Head(todo) \in ServersOf(asked)
<1>1. /\ todo \in Seq(Items) /\ Len(todo) > 0 /\ 1 \in 1 .. Len(todo) /\ Len(todo) \in Nat
      /\ Ordered(asked, todo, Connected)
  BY DEF ClusterInv, InOrder, Ordered
<1>2. todo # << >>
  BY <1>1, EmptySeq
<1>3. todo[1] \in Slots => todo[1] \in ServersOf(asked)
  BY <1>1 DEF Ordered
<1> QED
  BY <1>1, <1>2, <1>3, HeadTailProperties

(* After the last step nothing is left to come.                            *)
LEMMA AllDone ==
  ASSUME NEW a, NEW steps, NEW done, Ordered(a, steps, done), Len(steps) = 0
  PROVE  /\ ConfigsOf(a) \subseteq done /\ <<"mongos", 0>> \in done
         /\ a.manualAddShard \/ ShardsOf(a) \subseteq done
<1>1. \A i \in 1 .. Len(steps) : FALSE
  OBVIOUS
<1>2. ConfigsOf(a) \subseteq done
  BY <1>1 DEF Ordered, ConfigsToCome
<1>3. <<"mongos", 0>> \in done
  BY <1>1 DEF Ordered, MongosToCome
<1>4. a.manualAddShard \/ ShardsOf(a) \subseteq done
  BY <1>1 DEF Ordered, ShardToCome
<1> QED
  BY <1>2, <1>3, <1>4

(* What the invariant speaks of depends on the parameters alone.           *)
LEMMA SameTest ==
  ASSUME asked' = asked
  PROVE  /\ ShardsOf(asked)' = ShardsOf(asked) /\ ConfigsOf(asked)' = ConfigsOf(asked)
         /\ MongosOf(asked)' = MongosOf(asked) /\ ServersOf(asked)' = ServersOf(asked)
         /\ Places' = Places /\ \A s \in Slots : PortOf(s)' = PortOf(s)
BY DEF ShardsOf, ConfigsOf, MongosOf, ServersOf, Places, PortOf

(* A test that throws promises nothing of its ports any more.              *)
LEMMA ThrowKeeps ==
  ASSUME ClusterInv, Throw, phase = "building", UNCHANGED <<test, asked>>,
         conns' \in [Slots -> 0 .. test], running' \in [Ports -> 0 .. test],
         gone' \in SUBSET Ports, crashes' \in 0 .. MaxCrashes,
         \A s \in Slots : conns'[s] \in {Null, conns[s]},
         \A p \in Ports : running'[p] \in {Null, running[p]}
  PROVE  ClusterInv'
<1>1. /\ asked \in Shapes /\ test \in 0 .. MaxTests /\ left \subseteq Ports
  BY DEF ClusterInv, ClusterTypeOK
<1>2. /\ phase' = "threw" /\ todo' = << >> /\ << >> \in Seq(Items)
      /\ left' = left \union {PortOf(s) : s \in TestSlots}
  BY DEF Throw
<1>3. left' \subseteq Ports /\ Places \subseteq left'
  BY <1>1, <1>2, FamiliesAre DEF Places
<1>4. ClusterTypeOK'
  BY <1>1, <1>2, <1>3 DEF ClusterTypeOK, Items
<1>5. InOrder' /\ Kept'
  BY <1>2 DEF InOrder, Kept
<1>6. NoneLeft'
  <2>1. \A s \in Slots : PortOf(s)' = PortOf(s)
    BY SameTest
  <2>2. \A s \in Slots : conns'[s] \in {Null, test'} \/ PortOf(s) \in left'
    BY <1>2 DEF ClusterInv, NoneLeft
  <2>3. ASSUME NEW p \in Ports PROVE running'[p] = Null \/ p \in left'
    BY <1>2, <1>3 DEF ClusterInv, NoneLeft
  <2> QED
    BY <2>1, <2>2, <2>3 DEF NoneLeft
<1> QED
  BY <1>4, <1>5, <1>6 DEF ClusterInv

(* The constructor goes on to the next step, or returns.                   *)
LEMMA GoesOnOrdered ==
  ASSUME ClusterInv, GoesOn, phase = "building", asked' = asked,
         \A s \in Connected : s \in Connected' \/ s = Head(todo),
         \A s \in Connected : s \in Connected' \/ Head(todo) \in Slots,
         Head(todo)[1] = "config" => Head(todo) \in Connected',
         Head(todo)[1] = "recycle" => ConfigsOf(asked) \subseteq Connected',
         Head(todo)[1] = "admin" => <<"mongos", 0>> \in Connected',
         \A s \in ShardsOf(asked) : Head(todo) = <<"addshard", s[2]>> => s \in Connected'
  PROVE  InOrder' /\ todo' \in Seq(Items) /\ phase' \in {"building", "ready"} /\ left' = left
<1>1. /\ todo' = Tail(todo) /\ phase' = IF Len(todo) = 1 THEN "ready" ELSE "building"
      /\ left' = left
  BY DEF GoesOn
<1>2. /\ Tail(todo) \in Seq(Items) /\ Len(Tail(todo)) = Len(todo) - 1 /\ Len(todo) \in Nat
      /\ Len(todo) > 0 /\ Ordered(asked, todo, Connected)
  BY FirstStep
<1>3. Ordered(asked, Tail(todo), Connected')
  BY <1>2, TailOrdered
<1>4. CASE Len(todo) = 1
  <2>1. Len(Tail(todo)) = 0
    BY <1>2, <1>4
  <2>2. /\ ConfigsOf(asked) \subseteq Connected' /\ <<"mongos", 0>> \in Connected'
        /\ asked.manualAddShard \/ ShardsOf(asked) \subseteq Connected'
    BY <1>3, <2>1, AllDone
  <2> QED
    BY <1>1, <1>2, <1>4, <2>2, SameTest DEF InOrder
<1>5. CASE Len(todo) # 1
  <2>1. Len(Tail(todo)) > 0
    BY <1>2, <1>5
  <2>2. Ordered(asked', todo', Connected')
    BY <1>1, <1>3
  <2>3. InOrder'
    BY <1>1, <1>5, <2>1, <2>2 DEF InOrder, Ordered, ConfigsToCome, MongosToCome, ShardToCome,
         ServersOf, ShardsOf, ConfigsOf, MongosOf
  <2> QED
    BY <1>1, <1>2, <1>5, <2>3
<1> QED
  BY <1>4, <1>5

(* Who a connection leads to after a start on its port.                    *)
LEMMA StartOnIs ==
  ASSUME ClusterInv, NEW s \in Slots, NEW run, NEW who \in 0 .. MaxTests,
         StartOn(s, run, who), run \in [Ports -> 0 .. test],
         \A p \in Ports : run[p] \in {Null, running[p]}
  PROVE  /\ conns' \in [Slots -> 0 .. test] /\ running' \in [Ports -> 0 .. test]
         /\ \A t \in Slots : conns'[t] = IF t = s THEN who ELSE conns[t]
         /\ \A p \in Ports : running'[p] = IF p = PortOf(s) THEN who ELSE run[p]
         /\ who \in {Null, test} \/ who = running[PortOf(s)]
         /\ run[PortOf(s)] # Null => who = run[PortOf(s)]
<1>1. PortOf(s) \in Ports
  BY FamiliesAre DEF ClusterInv, ClusterTypeOK
<1>2. test \in 0 .. MaxTests /\ MaxTests \in Nat /\ conns \in [Slots -> 0 .. test]
  BY SizesAssumption DEF ClusterInv, ClusterTypeOK
<1>3. who \in {Null, test, run[PortOf(s)]}
  BY DEF StartOn
<1>4. who \in 0 .. test
  BY <1>1, <1>2, <1>3 DEF Null
<1>5. /\ conns' = [conns EXCEPT ![s] = who] /\ running' = [run EXCEPT ![PortOf(s)] = who]
  BY DEF StartOn
<1>6. who \in {Null, test} \/ who = running[PortOf(s)]
  BY <1>1, <1>3
<1>7. run[PortOf(s)] # Null => who = run[PortOf(s)]
  BY DEF StartOn
<1> QED
  BY <1>1, <1>2, <1>4, <1>5, <1>6, <1>7

(* The invariant holds at first, and after every step.                     *)
LEMMA ClusterInitInv == ClusterInit => ClusterInv
<1> SUFFICES ASSUME ClusterInit PROVE ClusterInv
  OBVIOUS
<1>1. ClusterTypeOK
  <2>1. << >> \in Seq(Items)
    OBVIOUS
  <2>2. 0 \in 0 .. MaxTests /\ 0 \in 0 .. MaxCrashes /\ test = 0 /\ Null \in 0 .. test
    BY SizesAssumption DEF ClusterInit, Null
  <2>3. conns \in [Slots -> 0 .. test] /\ running \in [Ports -> 0 .. test]
    BY <2>2 DEF ClusterInit
  <2> QED
    BY <2>1, <2>2, <2>3 DEF ClusterInit, ClusterTypeOK, Items
<1>2. InOrder /\ Kept
  BY DEF ClusterInit, InOrder, Kept
<1>3. NoneLeft
  BY DEF ClusterInit, NoneLeft
<1> QED
  BY <1>1, <1>2, <1>3 DEF ClusterInv

(* The types of the variables, for the lemmas below.                       *)
LEMMA ClusterTypesAre ==
  ASSUME ClusterInv
  PROVE  /\ test \in Nat /\ test <= MaxTests /\ MaxTests \in Nat /\ test \in 0 .. MaxTests
         /\ asked \in Shapes /\ conns \in [Slots -> 0 .. test]
         /\ running \in [Ports -> 0 .. test] /\ left \subseteq Ports /\ gone \subseteq Ports
         /\ crashes \in 0 .. MaxCrashes /\ Null \in 0 .. test /\ todo \in Seq(Items)
         /\ phase \in {"none", "building", "ready", "threw", "stopped"}
BY SizesAssumption DEF ClusterInv, ClusterTypeOK, Null, Items

(* A new ShardingTest has no connections and all its steps before it.      *)
LEMMA BeginKeeps == ASSUME ClusterInv, NEW a \in Shapes, Begin(a) PROVE ClusterInv'
<1>1. Ordered(a, Steps(a), {}) /\ Len(Steps(a)) > 0
  BY StepsOrdered
<1>2. /\ asked' = a /\ todo' = Steps(a) /\ phase' = "building" /\ Connected' = {}
      /\ phase \in {"none", "threw", "stopped"} /\ test < MaxTests /\ test' = test + 1
      /\ conns' = [s \in Slots |-> Null] /\ gone' = {} /\ UNCHANGED <<running, left, crashes>>
  BY DEF Begin, Connected
<1>3. InOrder'
  <2>1. Ordered(asked', todo', Connected')
    BY <1>1, <1>2
  <2> QED
    BY <1>1, <1>2, <2>1 DEF InOrder, Ordered, ConfigsToCome, MongosToCome, ShardToCome,
         ServersOf, ShardsOf, ConfigsOf, MongosOf
<1>4. ClusterTypeOK'
  <2>1. todo' \in Seq(Items)
    BY <1>1, <1>2 DEF Ordered
  <2>2. test' \in 0 .. MaxTests /\ 0 .. test \subseteq 0 .. test' /\ Null \in 0 .. test'
    BY <1>2, ClusterTypesAre
  <2>3. conns' \in [Slots -> 0 .. test'] /\ running' \in [Ports -> 0 .. test']
    BY <1>2, <2>2, ClusterTypesAre
  <2> QED
    BY <1>2, <2>1, <2>2, <2>3, ClusterTypesAre DEF ClusterTypeOK, Items
<1>5. NoneLeft'
  BY <1>2 DEF ClusterInv, NoneLeft
<1>6. Kept'
  BY <1>2 DEF Kept
<1> QED
  BY <1>3, <1>4, <1>5, <1>6 DEF ClusterInv

(* A program is started, or the constructor throws for want of it.         *)
LEMMA StartNextKeeps ==
  ASSUME ClusterInv, NEW who \in 0 .. MaxTests, StartNext(who) PROVE ClusterInv'
<1> DEFINE s == Head(todo)
<1>1. /\ phase = "building" /\ s \in Slots /\ StartOn(s, running, who)
      /\ UNCHANGED <<test, asked, gone, crashes>>
  BY DEF StartNext
<1>2. s \in ServersOf(asked)
  BY <1>1, FirstStep
<1>3. /\ conns' \in [Slots -> 0 .. test] /\ running' \in [Ports -> 0 .. test]
      /\ \A t \in Slots : conns'[t] = IF t = s THEN who ELSE conns[t]
      /\ \A p \in Ports : running'[p] = IF p = PortOf(s) THEN who ELSE running[p]
      /\ who \in {Null, test} \/ who = running[PortOf(s)]
      /\ running[PortOf(s)] # Null => who = running[PortOf(s)]
  <2>1. \A p \in Ports : running[p] \in {Null, running[p]}
    OBVIOUS
  <2>2. running \in [Ports -> 0 .. test]
    BY ClusterTypesAre
  <2> HIDE DEF s
  <2> QED
    BY <1>1, <2>1, <2>2, StartOnIs
<1>4. PortOf(s) \in Ports /\ PortOf(s) \in Places
  BY <1>1, <1>2, FamiliesAre, ClusterTypesAre
<1> HIDE DEF s
<1>5. CASE who = Null /\ ThrowsIfNull(s)
  <2>1. Throw
    BY <1>5 DEF StartNext, s
  <2>2. \A t \in Slots : conns'[t] \in {Null, conns[t]}
    BY <1>3, <1>5
  <2>3. \A p \in Ports : running'[p] \in {Null, running[p]}
    BY <1>3, <1>5
  <2> QED
    BY <1>1, <1>3, <2>1, <2>2, <2>3, ThrowKeeps, ClusterTypesAre
<1>6. CASE ~(who = Null /\ ThrowsIfNull(s))
  <2>1. GoesOn
    BY <1>6 DEF StartNext, s
  <2>2. s[1] \notin {"addshard", "recycle", "admin"}
    BY <1>1, SlotsAre
  <2>3. \A t \in Connected : t \in Connected' \/ t = s
    BY <1>3 DEF Connected
  <2>4. s[1] = "config" => s \in Connected'
    BY <1>1, <1>3, <1>6 DEF Connected, ThrowsIfNull
  <2>5. \A t \in ShardsOf(asked) : s # <<"addshard", t[2]>>
    BY <2>2
  <2>6. InOrder' /\ todo' \in Seq(Items) /\ phase' \in {"building", "ready"} /\ left' = left
    BY <1>1, <2>1, <2>2, <2>3, <2>4, <2>5, GoesOnOrdered DEF s
  <2>7. ClusterTypeOK'
    BY <1>1, <1>3, <2>6, ClusterTypesAre DEF ClusterTypeOK, Items
  <2>8. NoneLeft'
    <3>1. \A t \in Slots : PortOf(t)' = PortOf(t)
      BY <1>1, SameTest
    <3>2. Places' = Places
      BY <1>1, SameTest
    <3>3. who \in {Null, test} \/ PortOf(s) \in left
      BY <1>3, <1>4 DEF ClusterInv, NoneLeft
    <3>4. \A t \in Slots : conns'[t] \in {Null, test'} \/ PortOf(t) \in left'
      BY <1>1, <1>3, <2>6, <3>3 DEF ClusterInv, NoneLeft
    <3>5. ASSUME NEW p \in Ports
          PROVE  \/ running'[p] = Null \/ p \in left'
                 \/ running'[p] = test' /\ phase' \in {"building", "ready"} /\ p \in Places'
      BY <1>1, <1>3, <1>4, <2>6, <3>2, <3>3 DEF ClusterInv, NoneLeft
    <3> QED
      BY <3>1, <3>4, <3>5 DEF NoneLeft
  <2>9. Kept'
    <3>1. ASSUME NEW t \in Slots, conns'[t] # Null
          PROVE  running'[PortOf(t)] = conns'[t] \/ PortOf(t) \in gone
      <4>1. PortOf(t) \in Ports
        BY ClusterTypesAre, FamiliesAre
      <4>2. CASE t = s
        BY <1>3, <4>1, <4>2
      <4>3. CASE t # s
        <5>1. conns'[t] = conns[t] /\ t \in Connected
          BY <1>3, <3>1, <4>3 DEF Connected
        <5>2. running[PortOf(t)] = conns[t] \/ PortOf(t) \in gone
          BY <1>1, <5>1 DEF ClusterInv, Kept
        <5> QED
          BY <1>3, <3>1, <4>1, <5>1, <5>2
      <4> QED
        BY <4>2, <4>3
    <3>2. \A t \in Slots : PortOf(t)' = PortOf(t)
      BY <1>1, SameTest
    <3> QED
      BY <1>1, <3>1, <3>2 DEF Kept, Connected
  <2> QED
    BY <2>6, <2>7, <2>8, <2>9 DEF ClusterInv
<1> QED
  BY <1>5, <1>6

(* A step of the constructor that starts nothing.                          *)
LEMMA LookKeeps ==
  ASSUME ClusterInv, phase = "building", Head(todo) \notin Slots, Throw \/ GoesOn,
         UNCHANGED <<test, asked, conns, running, gone, crashes>>,
         GoesOn /\ Head(todo)[1] = "recycle" => ConfigsOf(asked) \subseteq Connected,
         GoesOn /\ Head(todo)[1] = "admin" => <<"mongos", 0>> \in Connected,
         GoesOn => \A s \in ShardsOf(asked) : Head(todo) = <<"addshard", s[2]>> => s \in Connected
  PROVE  ClusterInv'
<1>1. CASE Throw
  <2>1. \A s \in Slots : conns'[s] \in {Null, conns[s]}
    OBVIOUS
  <2>2. \A p \in Ports : running'[p] \in {Null, running[p]}
    OBVIOUS
  <2> QED
    BY <1>1, <2>1, <2>2, ThrowKeeps, ClusterTypesAre
<1>2. CASE GoesOn
  <2>1. Connected' = Connected
    BY DEF Connected
  <2>2. Head(todo)[1] # "config"
    <3>1. Head(todo) \in Items
      BY FirstStep
    <3> QED
      BY <3>1, SlotsAre
  <2>3. InOrder' /\ todo' \in Seq(Items) /\ phase' \in {"building", "ready"} /\ left' = left
    BY <1>2, <2>1, <2>2, GoesOnOrdered
  <2>4. ClusterTypeOK'
    BY <2>3, ClusterTypesAre DEF ClusterTypeOK, Items
  <2>5. Places' = Places /\ \A t \in Slots : PortOf(t)' = PortOf(t)
    BY SameTest
  <2>6. NoneLeft'
    BY <2>3, <2>5 DEF ClusterInv, NoneLeft
  <2>7. Kept'
    BY <2>1, <2>5 DEF ClusterInv, Kept, Connected
  <2> QED
    BY <2>3, <2>4, <2>6, <2>7 DEF ClusterInv
<1> QED
  BY <1>1, <1>2

(* The config servers are named, the first mongos is asked for a database. *)
LEMMA RecycleKeeps == ASSUME ClusterInv, Recycle PROVE ClusterInv'
<1>1. /\ phase = "building" /\ Head(todo)[1] = "recycle"
      /\ UNCHANGED <<test, asked, conns, running, gone, crashes>>
      /\ Throw \/ (GoesOn /\ \A s \in ConfigSlots : conns[s] # Null)
  BY DEF Recycle
<1>2. Head(todo) \notin Slots
  BY <1>1, SlotsAre
<1>3. (\A s \in ConfigSlots : conns[s] # Null) => ConfigsOf(asked) \subseteq Connected
  BY FamiliesAre, ClusterTypesAre DEF Connected, ConfigSlots
<1>4. Throw => ~GoesOn
  BY <1>1, FirstStep DEF Throw, GoesOn
<1>5. \A s \in ShardsOf(asked) : Head(todo) # <<"addshard", s[2]>>
  BY <1>1
<1> QED
  BY <1>1, <1>2, <1>3, <1>4, <1>5, LookKeeps

LEMMA GetAdminKeeps == ASSUME ClusterInv, GetAdmin PROVE ClusterInv'
<1>1. /\ phase = "building" /\ Head(todo)[1] = "admin"
      /\ UNCHANGED <<test, asked, conns, running, gone, crashes>>
      /\ Throw \/ (GoesOn /\ conns[<<"mongos", 0>>] # Null)
  BY DEF GetAdmin
<1>2. Head(todo) \notin Slots
  BY <1>1, SlotsAre
<1>3. conns[<<"mongos", 0>>] # Null => <<"mongos", 0>> \in Connected
  BY SlotsAre DEF Connected
<1>4. Throw => ~GoesOn
  BY <1>1, FirstStep DEF Throw, GoesOn
<1>5. \A s \in ShardsOf(asked) : Head(todo) # <<"addshard", s[2]>>
  BY <1>1
<1> QED
  BY <1>1, <1>2, <1>3, <1>4, <1>5, LookKeeps

(* A shard that was added was there.                                       *)
LEMMA AddShardKeeps == ASSUME ClusterInv, NEW ok \in BOOLEAN, AddShard(ok) PROVE ClusterInv'
<1>1. /\ phase = "building" /\ Head(todo)[1] = "addshard"
      /\ UNCHANGED <<test, asked, conns, running, gone, crashes>>
      /\ Throw \/ (GoesOn /\ Up(<<ShardKind, Head(todo)[2]>>))
  BY DEF AddShard
<1>2. Head(todo) \notin Slots
  BY <1>1, SlotsAre
<1>3. ASSUME Up(<<ShardKind, Head(todo)[2]>>), NEW s \in ShardsOf(asked),
             Head(todo) = <<"addshard", s[2]>>
      PROVE  s \in Connected
  <2>1. s \in Slots /\ s[1] = ShardKind
    BY DEF ShardsOf, ShardKind
  <2>2. s = <<ShardKind, s[2]>>
    BY <2>1 DEF Slots
  <2> QED
    BY <1>3, <2>1, <2>2 DEF Connected, Up
<1>4. Throw => ~GoesOn
  BY <1>1, FirstStep DEF Throw, GoesOn
<1> QED
  BY <1>1, <1>2, <1>3, <1>4, LookKeeps

(* stop leaves what runs where it does not look.                           *)
LEMMA StopKeeps == ASSUME ClusterInv, Stop PROVE ClusterInv'
<1>1. /\ phase = "ready" /\ phase' = "stopped"
      /\ UNCHANGED <<test, asked, todo, conns, gone, crashes>>
      /\ running' = [p \in Ports |-> IF p \in StoppedPorts THEN Null ELSE running[p]]
      /\ left' = left \union ({PortOf(s) : s \in ShardSlots \union MongosSlots}
                              \ (ShardPorts \union MongosSlots))
  BY DEF Stop
<1>2. running' \in [Ports -> 0 .. test] /\ left' \subseteq Ports
  <2>1. {PortOf(s) : s \in ShardSlots \union MongosSlots} \subseteq Ports
    BY FamiliesAre, ClusterTypesAre DEF TestSlots
  <2> QED
    BY <1>1, <2>1, ClusterTypesAre
<1>3. ClusterTypeOK'
  BY <1>1, <1>2, ClusterTypesAre DEF ClusterTypeOK, Items
<1>4. InOrder' /\ Kept'
  BY <1>1 DEF InOrder, Kept
<1>5. NoneLeft'
  <2>1. \A t \in Slots : PortOf(t)' = PortOf(t)
    BY <1>1, SameTest
  <2>2. \A t \in Slots : conns'[t] \in {Null, test'} \/ PortOf(t) \in left'
    BY <1>1 DEF ClusterInv, NoneLeft
  <2>3. ASSUME NEW p \in Places, p \notin StoppedPorts PROVE p \in left'
    <3>1. PICK s \in ServersOf(asked) : p = PortOf(s)
      BY <2>3 DEF Places
    <3>2. p \notin ShardPorts \union MongosSlots
      BY <2>3 DEF StoppedPorts
    <3>3. s \in ShardSlots \union MongosSlots \/ (SeparateConfig(asked) /\ s \in ConfigSlots)
      BY FamiliesAre, ClusterTypesAre DEF ServersOf
    <3>4. ~(SeparateConfig(asked) /\ s \in ConfigSlots)
      BY <2>3, <3>1 DEF StoppedPorts
    <3> QED
      BY <1>1, <3>1, <3>2, <3>3, <3>4
  <2>4. ASSUME NEW p \in Ports PROVE running'[p] = Null \/ p \in left'
    BY <1>1, <2>3 DEF ClusterInv, NoneLeft
  <2> QED
    BY <2>1, <2>2, <2>4 DEF NoneLeft
<1> QED
  BY <1>3, <1>4, <1>5 DEF ClusterInv

(* A mongos is restarted on its port.                                      *)
LEMMA RestartMongosKeeps ==
  ASSUME ClusterInv, NEW who \in 0 .. MaxTests, NEW s \in Slots, RestartMongos(s, who)
  PROVE  ClusterInv'
<1> DEFINE run == [running EXCEPT ![PortOf(s)] = Null]
<1>1. /\ phase = "ready" /\ s \in MongosSlots /\ StartOn(s, run, who)
      /\ gone' = gone \union {PortOf(s)}
      /\ UNCHANGED <<test, asked, todo, phase, left, crashes>>
  BY DEF RestartMongos
<1>2. PortOf(s) \in Ports /\ PortOf(s) \in Places
  BY <1>1, FamiliesAre, ClusterTypesAre
<1>3. /\ run \in [Ports -> 0 .. test] /\ \A p \in Ports : run[p] \in {Null, running[p]}
      /\ \A p \in Ports : p # PortOf(s) => run[p] = running[p]
  BY ClusterTypesAre
<1> HIDE DEF run
<1>4. /\ conns' \in [Slots -> 0 .. test] /\ running' \in [Ports -> 0 .. test]
      /\ \A t \in Slots : conns'[t] = IF t = s THEN who ELSE conns[t]
      /\ \A p \in Ports : running'[p] = IF p = PortOf(s) THEN who ELSE run[p]
      /\ who \in {Null, test} \/ who = running[PortOf(s)]
  BY <1>1, <1>3, StartOnIs
<1>5. ClusterTypeOK'
  BY <1>1, <1>2, <1>4, ClusterTypesAre DEF ClusterTypeOK, Items
<1>6. Places' = Places /\ \A t \in Slots : PortOf(t)' = PortOf(t)
  BY <1>1, SameTest
<1>7. NoneLeft'
  <2>1. who \in {Null, test} \/ PortOf(s) \in left
    BY <1>2, <1>4 DEF ClusterInv, NoneLeft
  <2>2. \A t \in Slots : conns'[t] \in {Null, test'} \/ PortOf(t) \in left'
    BY <1>1, <1>4, <2>1 DEF ClusterInv, NoneLeft
  <2>3. ASSUME NEW p \in Ports
        PROVE  \/ running'[p] = Null \/ p \in left'
               \/ running'[p] = test' /\ phase' \in {"building", "ready"} /\ p \in Places'
    BY <1>1, <1>2, <1>3, <1>4, <1>6, <2>1 DEF ClusterInv, NoneLeft
  <2> QED
    BY <1>6, <2>2, <2>3 DEF NoneLeft
<1>8. \A t \in Slots : t # s => (t \in Connected' <=> t \in Connected)
  BY <1>4 DEF Connected
<1>9. InOrder'
  <2>1. \A t \in ConfigsOf(asked) \union ShardsOf(asked) : t \in Slots /\ t # s
    BY <1>1 DEF ConfigsOf, ShardsOf, MongosSlots
  <2>2. \A t \in ConfigsOf(asked) \union ShardsOf(asked) : t \in Connected => t \in Connected'
    BY <1>8, <2>1
  <2>3. <<"mongos", 0>> \in Connected' \/ PortOf(<<"mongos", 0>>) \in gone'
    BY <1>1, <1>8, SlotsAre DEF ClusterInv, InOrder
  <2>4. PortOf(<<"mongos", 0>>)' = PortOf(<<"mongos", 0>>)
    BY <1>6, SlotsAre
  <2> QED
    BY <1>1, <2>2, <2>3, <2>4, SameTest DEF ClusterInv, InOrder
<1>10. Kept'
  <2>1. ASSUME NEW t \in Connected'
        PROVE  running'[PortOf(t)] = conns'[t] \/ PortOf(t) \in gone'
    <3>1. t \in Slots /\ PortOf(t) \in Ports
      BY FamiliesAre, ClusterTypesAre DEF Connected
    <3>2. CASE PortOf(t) = PortOf(s)
      BY <1>1, <3>2
    <3>3. CASE PortOf(t) # PortOf(s)
      <4>1. t \in Connected /\ conns'[t] = conns[t] /\ running'[PortOf(t)] = running[PortOf(t)]
        BY <1>3, <1>4, <1>8, <2>1, <3>1, <3>3
      <4> QED
        BY <1>1, <4>1 DEF ClusterInv, Kept
    <3> QED
      BY <3>2, <3>3
  <2> QED
    BY <1>6, <2>1 DEF Kept, Connected
<1> QED
  BY <1>5, <1>7, <1>9, <1>10 DEF ClusterInv

(* A program ends.                                                         *)
LEMMA EndKeeps ==
  ASSUME ClusterInv, NEW p \in Ports, running' = [running EXCEPT ![p] = Null],
         gone' = gone \union {p}, UNCHANGED <<test, asked, todo, conns, phase, left>>,
         crashes' \in 0 .. MaxCrashes
  PROVE  ClusterInv'
<1>1. /\ running' \in [Ports -> 0 .. test]
      /\ \A q \in Ports : running'[q] = IF q = p THEN Null ELSE running[q]
  BY ClusterTypesAre
<1>2. ClusterTypeOK'
  BY <1>1, ClusterTypesAre DEF ClusterTypeOK, Items
<1>3. Connected' = Connected /\ Places' = Places /\ \A t \in Slots : PortOf(t)' = PortOf(t)
  BY SameTest DEF Connected
<1>4. InOrder'
  <2>1. CASE phase = "building"
    <3>1. Ordered(asked', todo', Connected') /\ Len(todo') > 0
      BY <1>3, <2>1 DEF ClusterInv, InOrder
    <3> QED
      BY <2>1, <3>1 DEF InOrder, Ordered, ConfigsToCome, MongosToCome, ShardToCome,
           ServersOf, ShardsOf, ConfigsOf, MongosOf
  <2>2. CASE phase # "building"
    <3>1. PortOf(<<"mongos", 0>>)' = PortOf(<<"mongos", 0>>)
      BY <1>3, SlotsAre
    <3> QED
      BY <1>3, <2>2, <3>1, SameTest DEF ClusterInv, InOrder
  <2> QED
    BY <2>1, <2>2
<1>5. NoneLeft'
  BY <1>1, <1>3 DEF ClusterInv, NoneLeft
<1>6. Kept'
  <2>1. ASSUME NEW t \in Connected, phase \in {"building", "ready"}
        PROVE  running'[PortOf(t)] = conns[t] \/ PortOf(t) \in gone'
    <3>1. PortOf(t) \in Ports
      BY FamiliesAre, ClusterTypesAre DEF Connected
    <3> QED
      BY <1>1, <2>1, <3>1 DEF ClusterInv, Kept
  <2>2. \A t \in Connected : PortOf(t)' = PortOf(t)
    BY <1>3 DEF Connected
  <2> QED
    BY <1>3, <2>1, <2>2 DEF Kept
<1> QED
  BY <1>2, <1>4, <1>5, <1>6 DEF ClusterInv

LEMMA ClusterNextInv == ClusterInv /\ [ClusterNext]_clusterVars => ClusterInv'
<1> SUFFICES ASSUME ClusterInv, [ClusterNext]_clusterVars PROVE ClusterInv'
  OBVIOUS
<1>1. ASSUME NEW s \in Slots, StopMongos(s) PROVE ClusterInv'
  <2>1. PortOf(s) \in Ports
    BY FamiliesAre, ClusterTypesAre
  <2> QED
    BY <1>1, <2>1, EndKeeps, ClusterTypesAre DEF StopMongos
<1>2. ASSUME NEW p \in Ports, Crash(p) PROVE ClusterInv'
  <2>1. crashes' \in 0 .. MaxCrashes
    BY <1>2, SizesAssumption, ClusterTypesAre DEF Crash
  <2> QED
    BY <1>2, <2>1, EndKeeps DEF Crash
<1>3. CASE UNCHANGED clusterVars
  <2>1. ClusterTypeOK' /\ Connected' = Connected
    BY <1>3 DEF clusterVars, ClusterInv, ClusterTypeOK, Connected
  <2>2. Places' = Places /\ \A t \in Slots : PortOf(t)' = PortOf(t)
    BY <1>3, SameTest DEF clusterVars
  <2>3. InOrder'
    <3>1. CASE phase = "building"
      <4>1. Ordered(asked', todo', Connected') /\ Len(todo') > 0
        BY <1>3, <2>1, <3>1 DEF clusterVars, ClusterInv, InOrder
      <4> QED
        BY <1>3, <3>1, <4>1 DEF clusterVars, InOrder, Ordered, ConfigsToCome, MongosToCome,
             ShardToCome, ServersOf, ShardsOf, ConfigsOf, MongosOf
    <3>2. CASE phase # "building"
      <4>1. PortOf(<<"mongos", 0>>)' = PortOf(<<"mongos", 0>>)
        BY <2>2, SlotsAre
      <4> QED
        BY <1>3, <2>1, <3>2, <4>1, SameTest DEF clusterVars, ClusterInv, InOrder
    <3> QED
      BY <3>1, <3>2
  <2>4. NoneLeft'
    BY <1>3, <2>2 DEF clusterVars, ClusterInv, NoneLeft
  <2>5. Kept'
    BY <1>3, <2>1, <2>2 DEF clusterVars, ClusterInv, Kept, Connected
  <2> QED
    BY <2>1, <2>3, <2>4, <2>5 DEF ClusterInv
<1> QED
  BY <1>1, <1>2, <1>3, BeginKeeps, StartNextKeeps, RecycleKeeps, GetAdminKeeps, AddShardKeeps,
     StopKeeps, RestartMongosKeeps DEF ClusterNext

(* The variables of ShardCluster keep their types: the constructor never   *)
(* takes a step from an empty list.                                        *)
THEOREM ClusterTypeCorrect == ClusterSpec => []ClusterTypeOK
<1>1. ClusterInv => ClusterTypeOK
  BY DEF ClusterInv
<1> QED
  BY ClusterInitInv, ClusterNextInv, <1>1, PTL DEF ClusterSpec

(* The connections of a ShardingTest lead to programs of its own, and stop *)
(* leaves none, but on the ports of tests that threw in their constructor, *)
(* and where a shard or a mongos had a port that stop does not know.       *)
THEOREM OwnProgramsOnly == ClusterSpec => []OwnPrograms
<1>1. ClusterInv => OwnPrograms
  BY DEF ClusterInv, NoneLeft, OwnPrograms
<1> QED
  BY ClusterInitInv, ClusterNextInv, <1>1, PTL DEF ClusterSpec

(* When the constructor has returned, the first mongos, the config servers *)
(* and the shards it added are those that were started and connected to,   *)
(* but for what has crashed or was stopped since.                          *)
THEOREM ReadyClusterComplete == ClusterSpec => []MissingOnlyIfGone
<1>1. ASSUME ClusterInv PROVE MissingOnlyIfGone
  <2> SUFFICES ASSUME phase = "ready",
                      NEW s \in {<<"mongos", 0>>} \union ConfigSlots
                                \union (IF asked.manualAddShard THEN {} ELSE ShardSlots)
               PROVE  Up(s) \/ PortOf(s) \in gone
    BY DEF MissingOnlyIfGone
  <2>1. s \in Connected \/ PortOf(s) \in gone
    <3>1. /\ ConfigSlots \subseteq Connected
          /\ asked.manualAddShard \/ ShardSlots \subseteq Connected
          /\ <<"mongos", 0>> \in Connected \/ PortOf(<<"mongos", 0>>) \in gone
      BY <1>1, FamiliesAre, ClusterTypesAre DEF ClusterInv, InOrder
    <3> QED
      BY <3>1
  <2> QED
    BY <1>1, <2>1 DEF ClusterInv, Kept, Connected, Up
<1> QED
  BY ClusterInitInv, ClusterNextInv, <1>1, PTL DEF ClusterSpec

=============================================================================
