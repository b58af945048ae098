---------------------------- MODULE ShardCluster ----------------------------
(***************************************************************************)
(* The programs of a ShardingTest (shardingtest.js): what the constructor  *)
(* starts for the parameters it gets, what happens when a program does not *)
(* start or dies, which connections the test keeps, and what stop leaves   *)
(* behind for the next ShardingTest of the same script.                    *)
(*                                                                         *)
(* Each family of ports (30000 + i, 31000 - i - 1, 29000 + i and the ports *)
(* of a replica set) has a name here, and a replica set counts as one      *)
(* program.  Options may give any other program a port of its own, or that *)
(* of another.  A program whose port is taken ends, and the connection     *)
(* leads to who has the port, as startWithArgs in MongoRunner tells.       *)
(* Options that reach no more than a command line are left out.            *)
(***************************************************************************)
EXTENDS Integers, Sequences

CONSTANTS
  MaxTests,  \* bound: ShardingTests of the script
  MaxShards, \* bound
  MaxMongos, \* bound
  MaxCrashes, \* bound
  Shapes     \* the parameters tests may have

ASSUME SizesAssumption ==
  MaxTests \in Nat /\ MaxShards \in Nat \ {0, 1} /\ MaxMongos \in Nat \ {0} /\ MaxCrashes \in Nat

\* Legacy parameters give sync and separateConfig themselves; an object has config.
LegacyConfigs == {"absent", "separate", "sync", "both"}
ObjectConfigs == {"absent", "one", "three", "array1", "array3", "object3"}

Slots == {"shard", "rs"} \X (0 .. MaxShards - 1) \union {"config"} \X (0 .. 2)
         \union {"mongos"} \X (0 .. MaxMongos - 1)
Ports == Slots \union {<<"own", 0>>, <<"own", 1>>}
Null == 0

ASSUME ShapesAssumption ==
  \A a \in Shapes : \E S \in SUBSET Slots :
    a \in [legacy : BOOLEAN, shards : 0 .. MaxShards, mongos : 0 .. MaxMongos, rs : BOOLEAN,
          config : LegacyConfigs \union ObjectConfigs, manualAddShard : BOOLEAN,
          own : [S -> Ports]] \* the ports that the options of programs name

VARIABLES
  test,    \* the number of the current ShardingTest
  asked,   \* its parameters
  todo,    \* what its constructor has yet to do
  conns,   \* its connections: the test whose program is there, or Null
  running, \* the test whose program has a port, or Null
  phase,   \* the constructor runs, has returned or has thrown; the test has stopped
  left,    \* the ports of tests that have thrown, and those that stop did not know
  gone,    \* the ports whose program has crashed or was stopped since the test began
  crashes  \* programs that have crashed

clusterVars == <<test, asked, todo, conns, running, phase, left, gone, crashes>>

\* No mongos: an object gets one, legacy parameters get a loop that does not run.
NumMongosOf(a) == IF a.mongos = 0 /\ ~a.legacy THEN 1 ELSE a.mongos

NumShardsOf(a) == IF a.shards = 0 /\ ~a.legacy THEN 2 ELSE a.shards

SeparateConfig(a) == a.rs \/ a.config \notin {"absent", "one", "sync"}

\* An object of three config servers has no length 3.
Sync(a) == a.config \in {"three", "array3", "sync", "both"}
NumConfigsOf(a) == IF Sync(a) THEN 3 ELSE 1

Several(kind, n) == [i \in 1 .. n |-> <<kind, i - 1>>]

\* The constructor: shards, config servers of their own or shards as such, mongos, the
\* database of the first of these, and each of the shards added through it.
Steps(a) ==
  Several(IF a.rs THEN "rs" ELSE "shard", NumShardsOf(a))
  \o (IF SeparateConfig(a) THEN Several("config", NumConfigsOf(a)) ELSE <<<<"recycle", 0>>>>)
  \o Several("mongos", NumMongosOf(a)) \o <<<<"admin", 0>>>>
  \o Several("addshard", IF a.manualAddShard THEN 0 ELSE NumShardsOf(a))

ClusterInit ==
  /\ test = 0 /\ asked \in Shapes /\ todo = << >> /\ phase = "none" /\ left = {} /\ gone = {}
  /\ conns = [s \in Slots |-> Null] /\ running = [p \in Ports |-> Null] /\ crashes = 0

Begin(a) ==
  /\ phase \in {"none", "threw", "stopped"} /\ test < MaxTests
  /\ test' = test + 1 /\ asked' = a /\ todo' = Steps(a) /\ phase' = "building"
  /\ conns' = [s \in Slots |-> Null] /\ gone' = {}
  /\ UNCHANGED <<running, left, crashes>>

\* A set keeps its ports.
PortOf(s) == IF s \in DOMAIN asked.own /\ s[1] # "rs" THEN asked.own[s] ELSE s

ShardKind == IF asked.rs THEN "rs" ELSE "shard"
ShardSlots == {s \in Slots : s[1] = ShardKind /\ s[2] < NumShardsOf(asked)}
ConfigSlots ==
  {s \in Slots : s[1] = (IF SeparateConfig(asked) THEN "config" ELSE "shard")
                 /\ s[2] < NumConfigsOf(asked)}
MongosSlots == {s \in Slots : s[1] = "mongos" /\ s[2] < NumMongosOf(asked)}

TestSlots == ShardSlots \union ConfigSlots \union MongosSlots

Up(s) == conns[s] # Null /\ running[PortOf(s)] = conns[s]

-----------------------------------------------------------------------------
(* The constructor.                                                         *)

Throw ==
  /\ phase' = "threw" /\ todo' = << >>
  /\ left' = left \union {PortOf(s) : s \in TestSlots}

\* The constructor goes on, and returns after the last step.
GoesOn ==
  /\ todo' = Tail(todo) /\ phase' = IF Len(todo) = 1 THEN "ready" ELSE "building"
  /\ UNCHANGED left

\* Variant: only shards that are sets must have started.
ThrowsOnlyForSets(s) == s[1] = "rs"

\* A set is initiated, and the name of a config server taken, at once.
ThrowsIfNull(s) == s[1] \in {"rs", "config"}

\* runMongod, runMongos or startSet on a port: to \E who is there afterwards.
StartOn(s, run, who) ==
  LET p == PortOf(s) IN
  /\ who \in IF run[p] = Null THEN {Null, test} ELSE {run[p]}
  /\ conns' = [conns EXCEPT ![s] = who] /\ running' = [run EXCEPT ![p] = who]

StartNext(who) ==
  /\ phase = "building" /\ Head(todo) \in Slots
  /\ StartOn(Head(todo), running, who)
  /\ IF who = Null /\ ThrowsIfNull(Head(todo))
     THEN Throw ELSE GoesOn
  /\ UNCHANGED <<test, asked, gone, crashes>>

\* The first shards are the config servers.
Recycle ==
  /\ phase = "building" /\ Head(todo)[1] = "recycle"
  /\ IF (Sync(asked) /\ NumShardsOf(asked) < 3) \/ ~(ConfigSlots \subseteq ShardSlots)
        \/ \E s \in ConfigSlots : conns[s] = Null
     THEN Throw ELSE GoesOn
  /\ UNCHANGED <<test, asked, conns, running, gone, crashes>>

\* The database of the first mongos.
GetAdmin ==
  /\ phase = "building" /\ Head(todo)[1] = "admin"
  /\ IF MongosSlots = {} \/ conns[<<"mongos", 0>>] = Null THEN Throw ELSE GoesOn
  /\ UNCHANGED <<test, asked, conns, running, gone, crashes>>

\* addshard for one connection, asserted to work: mongos asks the shard and writes to all
\* config servers.  It may refuse, a shard that it has already for one.
AddShard(ok) ==
  /\ phase = "building" /\ Head(todo)[1] = "addshard"
  /\ ok => \A s \in {<<ShardKind, Head(todo)[2]>>, <<"mongos", 0>>} \union ConfigSlots : Up(s)
  /\ IF ok THEN GoesOn ELSE Throw
  /\ UNCHANGED <<test, asked, conns, running, gone, crashes>>

-----------------------------------------------------------------------------
(* A running test.                                                          *)

Crash(p) ==
  /\ running[p] # Null /\ running' = [running EXCEPT ![p] = Null]
  /\ crashes < MaxCrashes /\ crashes' = crashes + 1 /\ gone' = gone \union {p}
  /\ UNCHANGED <<test, asked, todo, conns, phase, left>>

\* stopMongos, of the port the connection has.
StopMongos(s) ==
  /\ phase = "ready" /\ s \in MongosSlots /\ conns[s] # Null
  /\ running' = [running EXCEPT ![PortOf(s)] = Null] /\ gone' = gone \union {PortOf(s)}
  /\ UNCHANGED <<test, asked, todo, conns, phase, left, crashes>>

\* restartMongos: with the command line the connection had, and so on its port.
RestartMongos(s, who) ==
  /\ phase = "ready" /\ s \in MongosSlots /\ conns[s] # Null
  /\ StartOn(s, [running EXCEPT ![PortOf(s)] = Null], who) /\ gone' = gone \union {PortOf(s)}
  /\ UNCHANGED <<test, asked, todo, phase, left, crashes>>

\* The ports of the families that stop goes through, sets or not.
ShardPorts == {s \in Slots : s[1] \in {"shard", ShardKind} /\ s[2] < NumShardsOf(asked)}

\* Variant: without the config servers.
StoppedNoConfigs == ShardPorts \union MongosSlots

\* stop: mongos and shards by the numbers of their family, a set by stopSet, the config
\* servers by their connections, wherever they are.
StoppedPorts ==
  ShardPorts \union MongosSlots
  \union (IF SeparateConfig(asked) THEN {PortOf(s) : s \in ConfigSlots} ELSE {})

Stop ==
  /\ phase = "ready" /\ phase' = "stopped"
  /\ running' = [p \in Ports |-> IF p \in StoppedPorts THEN Null ELSE running[p]]
  /\ left' = left \union ({PortOf(s) : s \in ShardSlots \union MongosSlots}
                          \ (ShardPorts \union MongosSlots))
  /\ UNCHANGED <<test, asked, todo, conns, gone, crashes>>

ClusterNext ==
  \/ \E a \in Shapes : Begin(a)
  \/ \E who \in 0 .. MaxTests : StartNext(who) \/ \E s \in Slots : RestartMongos(s, who)
  \/ Recycle \/ GetAdmin \/ Stop \/ \E ok \in BOOLEAN : AddShard(ok)
  \/ \E s \in Slots : StopMongos(s)
  \/ \E p \in Ports : Crash(p)

ClusterSpec == ClusterInit /\ [][ClusterNext]_clusterVars

-----------------------------------------------------------------------------
(* Properties.                                                              *)

ClusterTypeOK ==
  /\ test \in 0 .. MaxTests /\ asked \in Shapes
  /\ phase \in {"none", "building", "ready", "threw", "stopped"}
  /\ todo \in Seq(Slots \union {<<"recycle", 0>>, <<"admin", 0>>}
                   \union {"addshard"} \X (0 .. MaxShards - 1))
  /\ conns \in [Slots -> 0 .. test] /\ running \in [Ports -> 0 .. test]
  /\ left \subseteq Ports /\ gone \subseteq Ports /\ crashes \in 0 .. MaxCrashes

\* No connection of a test leads to a program of an earlier test, and none of those is
\* left when stop has returned, whatever crashed, was stopped or did not restart; but on
\* the ports of a test that threw in its constructor, and where the options of a shard or
\* a mongos gave it a port that stop, which computes them, does not know.
OwnPrograms ==
  /\ \A s \in Slots : conns[s] \in {Null, test} \/ PortOf(s) \in left
  /\ phase = "stopped" => \A p \in Ports : running[p] = Null \/ p \in left

\* What is missing from a cluster whose constructor has returned, or is not who the test
\* was connected to, has crashed or was stopped since the test began: everything that did
\* not start has been noticed.  But a mongos that is not the first is not missed, nor with
\* manualAddShard a shard that is no config server.
MissingOnlyIfGone ==
  phase = "ready" =>
    \A s \in {<<"mongos", 0>>} \union ConfigSlots
            \union (IF asked.manualAddShard THEN {} ELSE ShardSlots) :
      Up(s) \/ PortOf(s) \in gone

=============================================================================
