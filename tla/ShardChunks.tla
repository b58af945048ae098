----------------------------- MODULE ShardChunks -----------------------------
(***************************************************************************)
(* What a ShardingTest does with a collection of its cluster               *)
(* (shardingtest.js): shardGo shards it, splits it and moves a chunk, in   *)
(* several attempts; isAnyBalanceInFlight, shardCounts, onNumShards,       *)
(* getShards, awaitBalance and getSplitKeysForChunks (collection.js) look  *)
(* at chunks and documents one request after the other, while the balancer *)
(* of a mongos moves chunks.                                               *)
(*                                                                         *)
(* A migration is external: it holds the lock of the collection, copies    *)
(* the documents, commits, forks the cleanup of the old copies and unlocks *)
(* (mongod d_migrate); it may fail, and it outlives the mongos that asked. *)
(* A chunk has one document, so that the documents of a shard are chunks;  *)
(* it counts as large enough to be split.                                  *)
(***************************************************************************)
EXTENDS Integers, FiniteSets

CONSTANTS
  NumShards, \* the shards, in the order of this._connections
  Primary,   \* the primary shard of the database, chosen by mongos
  Tries,     \* attempts of shardGo: 5 in the code
  MaxChunks  \* bound

ASSUME NumShardsAssumption == NumShards \in Nat /\ NumShards > 1
ASSUME PrimaryAssumption == Primary \in 0 .. NumShards - 1
ASSUME TriesAssumption == Tries \in Nat \ {0}
ASSUME MaxChunksAssumption == MaxChunks \in Nat /\ MaxChunks > 1

Shards == 0 .. NumShards - 1
Chunks == 1 .. MaxChunks \* chunk 1 is the whole collection, each other split off
NoMove == [by |-> "nobody"]
NoCall == [op |-> "none"]

VARIABLES
  on,        \* config.settings: the balancer may begin rounds
  round,     \* a mongos is in a balancing round
  placed,    \* config.chunks: the shard of each chunk there is
  copies,    \* the chunks whose document is on a shard
  move,      \* the migration under way, and how far it is; it holds the lock
  cleaning,  \* old copies, shard and chunk, that cleanupOldData has to delete
  call,      \* the call the test is in, and what it has found so far
  quiet,     \* isAnyBalanceInFlight has said no, and nothing was begun since
  balanced,  \* the balancer has moved a chunk
  failed     \* a migration has failed and left copies, a command before its migration

balancerVars == <<on, round>>
dataVars == <<placed, copies, move, cleaning>>
history == <<balanced, failed>>
vars == <<balancerVars, dataVars, call, quiet, history>>

Init ==
  /\ on = TRUE /\ round = FALSE /\ placed = << >>
  /\ copies = [s \in Shards |-> IF s = Primary THEN {1} ELSE {}]
  /\ move = NoMove /\ cleaning = {}
  /\ call = NoCall /\ quiet = FALSE /\ balanced = FALSE /\ failed = {}

-----------------------------------------------------------------------------
(* The cluster.                                                             *)

Movable(c, to) ==
  move = NoMove /\ c \in DOMAIN placed /\ placed[c] # to /\ <<to, c>> \notin cleaning

StartMove(by, c, to) ==
  /\ Movable(c, to)
  /\ move' = [by |-> by, chunk |-> c, from |-> placed[c], to |-> to, at |-> "locked"]

Copy ==
  /\ move # NoMove /\ move.at = "locked"
  /\ copies' = [copies EXCEPT ![move.to] = @ \union {move.chunk}]
  /\ move' = [move EXCEPT !.at = "copied"]
  /\ UNCHANGED <<balancerVars, placed, cleaning, call, quiet, history>>

Commit ==
  /\ move # NoMove /\ move.at = "copied"
  /\ placed' = [placed EXCEPT ![move.chunk] = move.to]
  /\ cleaning' = cleaning \union {<<move.from, move.chunk>>}
  /\ move' = [move EXCEPT !.at = "committed"]
  /\ UNCHANGED <<balancerVars, copies, call, quiet, history>>

\* A migration ends, and with it the movechunk command: the test's gets the answer, or
\* it is lost and the command throws.
Ends(ok) ==
  /\ move' = NoMove
  /\ call' \in IF move.by # "test" THEN {call}
               ELSE {[call EXCEPT !.step = "lost"],
                     IF ok THEN [call EXCEPT !.step = "ok"]
                     ELSE [call EXCEPT !.step = "failed", !.failures = @ + 1]}

Unlock ==
  /\ move # NoMove /\ move.at = "committed" /\ Ends(TRUE)
  /\ UNCHANGED <<balancerVars, placed, copies, cleaning, quiet, history>>

FailMove ==
  /\ move # NoMove /\ move.at # "committed" /\ Ends(FALSE)
  /\ failed' = failed \union ({move.at} \ {"locked"})
  /\ UNCHANGED <<balancerVars, placed, copies, cleaning, quiet, balanced>>

\* The test's command fails, or its answer is lost, but the migration goes on.
Outlive ==
  /\ move # NoMove /\ move.by = "test" /\ move' = [move EXCEPT !.by = "left"]
  /\ call' \in {[call EXCEPT !.step = st] : st \in {"failed", "lost"}}
  /\ failed' = failed \union {"command"}
  /\ UNCHANGED <<balancerVars, placed, copies, cleaning, quiet, balanced>>

Clean(s, c) ==
  /\ <<s, c>> \in cleaning /\ cleaning' = cleaning \ {<<s, c>>}
  /\ copies' = [copies EXCEPT ![s] = @ \ {c}]
  /\ UNCHANGED <<balancerVars, placed, move, call, quiet, history>>

BeginRound ==
  /\ on /\ ~round /\ round' = TRUE
  /\ UNCHANGED <<on, dataVars, call, quiet, history>>

\* Chunks per shard: what chunkCounts finds.
ChunkCounts == [s \in Shards |-> Cardinality({c \in DOMAIN placed : placed[c] = s})]

\* From the shard with most chunks to the one with fewest, when they differ by 2.
Balance(c, to) ==
  /\ round /\ StartMove("balancer", c, to) /\ balanced' = TRUE
  /\ ChunkCounts[placed[c]] >= ChunkCounts[to] + 2
  /\ \A s \in Shards : ChunkCounts[s] \in ChunkCounts[to] .. ChunkCounts[placed[c]]
  /\ UNCHANGED <<balancerVars, placed, copies, cleaning, call, quiet, failed>>

\* A round ends after its migrations, unless the mongos dies.
EndRound ==
  /\ round /\ round' = FALSE
  /\ UNCHANGED <<on, dataVars, call, quiet, history>>

-----------------------------------------------------------------------------
(* The calls of the test.                                                   *)

Free == call.op = "none"

\* setBalancer.
SetBalancer(b) ==
  /\ Free /\ on' = b /\ on # b /\ quiet' = (quiet /\ ~b)
  /\ UNCHANGED <<round, dataVars, call, history>>

\* getServer of the database: its primary shard.
GetServer == Primary

\* getOther: the first connection that is not the one.
GetOther(one) == CHOOSE s \in Shards \ {one} : \A r \in Shards \ {one} : s <= r

\* The chunks, when c is split: the new one is on the same shard, with its document.
SplitOff(c) ==
  LET new == Cardinality(DOMAIN placed) + 1 IN
  /\ new \in Chunks /\ placed' = [k \in DOMAIN placed \union {new} |->
                                   IF k = new THEN placed[c] ELSE placed[k]]
  /\ copies' = [copies EXCEPT ![placed[c]] = @ \union {new}]

\* The test loads documents, and mongos splits a chunk.
Load(c) ==
  /\ Free /\ move = NoMove /\ c \in DOMAIN placed /\ SplitOff(c)
  /\ UNCHANGED <<balancerVars, move, cleaning, call, quiet, history>>

InShardGo(step) == [op |-> "shardGo", step |-> step, tries |-> Tries, failures |-> 0]

\* shardGo, up to the split: shardcollection is asserted to work.  It is refused for a
\* collection that is sharded, and maybe for others.  Without a split this is all.
ShardGo ==
  /\ Free /\ quiet' = FALSE
  /\ \/ /\ placed = << >> /\ placed' = [c \in {1} |-> Primary]
        /\ call' \in {InShardGo("split"), InShardGo("lost"), NoCall}
     \/ UNCHANGED placed /\ call' \in {InShardGo("refused"), InShardGo("lost")}
  /\ UNCHANGED <<balancerVars, copies, move, cleaning, history>>

\* The split, asserted likewise.  Without a move this is all.
Split ==
  /\ call.op = "shardGo" /\ call.step = "split"
  /\ \/ SplitOff(1) /\ call' \in {InShardGo("ask"), InShardGo("lost"), NoCall}
     \/ UNCHANGED <<placed, copies>> /\ call' \in {InShardGo("refused"), InShardGo("lost")}
  /\ UNCHANGED <<balancerVars, move, cleaning, quiet, history>>

\* movechunk: refused when the collection is locked or the chunk there already.
MoveChunk ==
  LET to == GetOther(GetServer) IN
  /\ call.op = "shardGo" /\ call.step = "ask"
  /\ IF Movable(2, to)
     THEN StartMove("test", 2, to) /\ call' = [call EXCEPT !.step = "wait"]
     ELSE call' = [call EXCEPT !.step = "failed"] /\ UNCHANGED move
  /\ UNCHANGED <<balancerVars, placed, copies, cleaning, quiet, history>>

\* Variant: the result is not asserted.
TryAgainUnasserted ==
  /\ call.op = "shardGo" /\ call.step = "failed"
  /\ call' = IF call.tries > 1 THEN [call EXCEPT !.step = "ask", !.tries = @ - 1]
             ELSE [call EXCEPT !.step = "ok"]
  /\ UNCHANGED <<balancerVars, dataVars, quiet, history>>

\* Variant: there is no other attempt.
TryAgainNever ==
  /\ call.op = "shardGo" /\ call.step = "failed" /\ call' = [call EXCEPT !.step = "threw"]
  /\ UNCHANGED <<balancerVars, dataVars, quiet, history>>

\* Another attempt, until there are none left and the assertion fails.
TryAgain ==
  /\ call.op = "shardGo" /\ call.step = "failed"
  /\ call' = IF call.tries > 1 THEN [call EXCEPT !.step = "ask", !.tries = @ - 1]
             ELSE [call EXCEPT !.step = "threw"]
  /\ UNCHANGED <<balancerVars, dataVars, quiet, history>>

Return ==
  /\ call.op = "shardGo" /\ call.step \in {"ok", "threw", "refused", "lost"} /\ call' = NoCall
  /\ UNCHANGED <<balancerVars, dataVars, quiet, history>>

\* isAnyBalanceInFlight.
IsAnyBalanceInFlight ==
  /\ Free /\ call' = [op |-> "inFlight", step |-> "first", calm |-> ~on /\ ~round]
  /\ UNCHANGED <<balancerVars, dataVars, quiet, history>>

\* Variant: the operations instead of the locks.
OpsSeen == cleaning # {}

\* First the locks but the balancer's, then the current operations for cleanupOldData.
FirstLook == move # NoMove
SecondLook == cleaning # {}

LookFirst ==
  /\ call.op = "inFlight" /\ call.step = "first"
  /\ IF FirstLook THEN call' = NoCall ELSE call' = [call EXCEPT !.step = "second"]
  /\ UNCHANGED <<balancerVars, dataVars, quiet, history>>

LookSecond ==
  /\ call.op = "inFlight" /\ call.step = "second" /\ call' = NoCall
  /\ quiet' = (~SecondLook /\ call.calm)
  /\ UNCHANGED <<balancerVars, dataVars, history>>

\* shardCounts, onNumShards and getShards: one shard after the other.
ShardCounts ==
  /\ Free /\ placed # << >>
  /\ call' = [op |-> "counts", at |-> 0, sum |-> 0, shards |-> 0, owners |-> {}, calm |-> quiet]
  /\ UNCHANGED <<balancerVars, dataVars, quiet, history>>

\* getShards: explain through mongos counts the documents a shard owns.
Explained(s) == \E c \in copies[s] \cap DOMAIN placed : placed[c] = s

CountNext ==
  /\ call.op = "counts" /\ call.at \in Shards
  /\ call' = [call EXCEPT !.at = @ + 1, !.sum = @ + Cardinality(copies[call.at]),
                          !.shards = @ + (IF copies[call.at] = {} THEN 0 ELSE 1),
                          !.owners = @ \union {s \in {call.at} : Explained(s)}]
  /\ UNCHANGED <<balancerVars, dataVars, quiet, history>>

CountsDone ==
  /\ call.op = "counts" /\ call.at = NumShards /\ call' = NoCall
  /\ UNCHANGED <<balancerVars, dataVars, quiet, history>>

\* getSplitKeysForChunks: of every shard the chunks, and then a key of each of them.
SplitKeys ==
  /\ Free /\ placed # << >>
  /\ call' = [op |-> "keys", at |-> 0, todo |-> {}, points |-> {}, calm |-> quiet]
  /\ UNCHANGED <<balancerVars, dataVars, quiet, history>>

ChunksOfNext ==
  /\ call.op = "keys" /\ call.todo = {} /\ call.at \in Shards
  /\ call' = [call EXCEPT !.at = @ + 1, !.todo = {c \in DOMAIN placed : placed[c] = call.at}]
  /\ UNCHANGED <<balancerVars, dataVars, quiet, history>>

\* splitVector, on the shard itself: no key when the documents have gone.
SplitVector(c) ==
  /\ call.op = "keys" /\ c \in call.todo
  /\ call' = [call EXCEPT !.todo = @ \ {c},
                          !.points = @ \union {p \in {<<call.at - 1, c>>} : c \in copies[p[1]]}]
  /\ UNCHANGED <<balancerVars, dataVars, quiet, history>>

KeysDone == call.op = "keys" /\ call.at = NumShards /\ call.todo = {}

\* The test leaves the function it is given alone, or calls it: the balancer is off.
Splitter(run) ==
  /\ KeysDone
  /\ IF run THEN on' = FALSE /\ call' = [op |-> "splitter", points |-> call.points]
     ELSE call' = NoCall /\ UNCHANGED on
  /\ UNCHANGED <<round, dataVars, quiet, history>>

\* A split, which may be refused: its result is only printed.  At one key it is refused
\* the second time.
SplitAt(c) ==
  /\ call.op = "splitter" /\ c \in {p[2] : p \in call.points}
  /\ call' = [call EXCEPT !.points = {p \in @ : p[2] # c}]
  /\ UNCHANGED <<balancerVars, move, cleaning, quiet, history>>
  /\ \/ move = NoMove /\ SplitOff(c)
     \/ UNCHANGED <<placed, copies>>

\* The balancer is on in the end, whatever it was before.
SplitterEnds ==
  /\ call.op = "splitter" /\ call.points = {} /\ call' = NoCall /\ on' = TRUE /\ quiet' = FALSE
  /\ UNCHANGED <<round, dataVars, history>>

\* chunkDiff below 2.
Balanced(x) == \A s, r \in Shards : x[s] - x[r] < 2

\* awaitBalance, which asks until the chunks are balanced, or throws after a minute.
AwaitBalance ==
  /\ Free /\ placed # << >> /\ call' = [op |-> "await", step |-> "ask"]
  /\ UNCHANGED <<balancerVars, dataVars, quiet, history>>

AskBalance ==
  /\ call.op = "await" /\ call.step = "ask" /\ Balanced(ChunkCounts)
  /\ call' = [call EXCEPT !.step = "ok"]
  /\ UNCHANGED <<balancerVars, dataVars, quiet, history>>

AwaitDone ==
  /\ call.op = "await" /\ call' = NoCall
  /\ UNCHANGED <<balancerVars, dataVars, quiet, history>>

Next ==
  \/ Copy \/ Commit \/ Unlock \/ FailMove \/ Outlive
  \/ BeginRound \/ EndRound
  \/ \E c \in Chunks : Load(c) \/ \E s \in Shards : Clean(s, c) \/ Balance(c, s)
  \/ \E b \in BOOLEAN : SetBalancer(b)
  \/ ShardGo \/ Split \/ MoveChunk \/ TryAgain \/ Return
  \/ IsAnyBalanceInFlight \/ LookFirst \/ LookSecond
  \/ ShardCounts \/ CountNext \/ CountsDone \/ AwaitBalance \/ AskBalance \/ AwaitDone
  \/ SplitKeys \/ ChunksOfNext \/ SplitterEnds
  \/ \E run \in BOOLEAN : Splitter(run)
  \/ \E c \in Chunks : SplitVector(c) \/ SplitAt(c)

Spec == Init /\ [][Next]_vars

-----------------------------------------------------------------------------
(* Properties.                                                              *)

\* The calls of the test and what they have found, and the migrations.
ShardGoCalls ==
  [op : {"shardGo"},
   step : {"split", "ask", "wait", "ok", "failed", "threw", "refused", "lost"},
   tries : 1 .. Tries, failures : Nat]
InFlightCalls == [op : {"inFlight"}, step : {"first", "second"}, calm : BOOLEAN]
CountCalls ==
  [op : {"counts"}, at : 0 .. NumShards, sum : Nat, shards : Nat, owners : SUBSET Shards,
   calm : BOOLEAN]
AwaitCalls == [op : {"await"}, step : {"ask", "ok"}]
KeyCalls ==
  [op : {"keys"}, at : 0 .. NumShards, todo : SUBSET Chunks, points : SUBSET (Shards \X Chunks),
   calm : BOOLEAN]
SplitterCalls == [op : {"splitter"}, points : SUBSET (Shards \X Chunks)]
Calls ==
  {NoCall} \union ShardGoCalls \union InFlightCalls \union CountCalls \union AwaitCalls
  \union KeyCalls \union SplitterCalls
Migrations ==
  [by : {"balancer", "test", "left"}, chunk : Chunks, from : Shards, to : Shards,
   at : {"locked", "copied", "committed"}]

TypeOK ==
  /\ on \in BOOLEAN /\ round \in BOOLEAN
  /\ placed \in UNION {[1 .. k -> Shards] : k \in 0 .. MaxChunks}
  /\ copies \in [Shards -> SUBSET Chunks] /\ cleaning \subseteq Shards \X Chunks
  /\ move \in {NoMove} \union Migrations /\ call \in Calls
  /\ quiet \in BOOLEAN /\ balanced \in BOOLEAN
  /\ failed \subseteq {"copied", "command"}

\* Once the balancer is off and in no round and isAnyBalanceInFlight has said no, the
\* shards that getShards finds are those that have chunks, and getSplitKeysForChunks finds
\* one key for each chunk; the documents that shardCounts finds are the documents there
\* are, and onNumShards counts the shards that have chunks, unless a migration had failed
\* and left copies.  The mongos of a round may have died and left a migration behind.
CountsExact ==
  /\ call.op = "counts" /\ call.at = NumShards /\ call.calm =>
       /\ call.owners = {placed[c] : c \in DOMAIN placed}
       /\ "copied" \notin failed => /\ call.sum = Cardinality(DOMAIN placed)
                                   /\ call.shards = Cardinality(call.owners)
  /\ KeysDone /\ call.calm => call.points = {<<placed[c], c>> : c \in DOMAIN placed}

\* When shardGo returns, the chunk it was to move is on another shard than the primary,
\* however many attempts failed, unless the balancer has moved chunks meanwhile.
ShardGoMoves ==
  call.op = "shardGo" /\ call.step = "ok" /\ ~balanced => placed[2] # Primary

\* The assertion after the attempts fails only when the migration of each of them has
\* failed, unless the balancer has moved chunks, or a migration went on after its command
\* had failed: what a failed migration leaves does not stand in the way of the next.
\* shardGo throws as well, at once, when shardcollection or split is refused or an answer
\* is lost.
ShardGoWorks ==
  call.op = "shardGo" /\ call.step = "threw" =>
    call.failures = Tries \/ balanced \/ "command" \in failed

=============================================================================
