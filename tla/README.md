# Horn of Mongo: models, checks and proofs

Horn of Mongo embeds the MongoDB 2.4.6 shell in a Java program. The shell's own
JavaScript (`src/src/main/javascript/mongodb/`) runs on Rhino, and the native
classes that the C++ shell provides (`Mongo`, `DB`, `InternalCursor`, ...) are
Java classes over mongo-java-driver 2.11.3
(`src/src/main/java/com/github/nlloyd/hornofmongo/`). This directory holds TLA+
modules translated from that source, the TLC configurations that check them and
proofs for TLAPS.

Paths below are relative to `src/src/main/java/com/github/nlloyd/hornofmongo/`
for Java and `src/src/main/javascript/mongodb/` for JavaScript. `PROJECT.json`
maps each definition to the lines it stands for.

## 1. Inventory

| Component | State | Operations | Talks to |
|---|---|---|---|
| `MongoScope` | flags (write concern, stdout errors), registry of connections, last called DB, current directory, handlers | create, load the shell's files, cleanup, handleMongoException, file functions | `Mongo` objects register in it and report to it; the host sets its flags |
| `adaptor/Mongo` | driver client, hosts, saved options | find (and every command), insert, update, remove, auth, logout, close | driver, scope |
| `adaptor/InternalCursor` | driver cursor or one command reply | hasNext, next, objsLeftInBatch | driver, scope (exceptions) |
| `MongoRuntime`, `MongoContext`, `MongoContextFactory`, `MongoAction` | global ContextFactory, executing scope per thread | call, createMongoScope, run | Rhino |
| `ScriptableMongoObject` | parent scope and prototype of a native object | resolve at construction | executing scope |
| `MongoScriptAction` | none | run a script, dispatch a one-line shell command | scope |
| `BSONizer`, types, encoder, decoder | last generated timestamp (static) | convert both ways | everything that reads or writes |
| `query.js` | shape, cursor, counts, collected array | limit, skip, hasNext, next, toArray, explain, count, shellPrint | `Mongo.find`, `InternalCursor` |
| `collection.js`, `db.js`, `mongo.js` | names, read preference, credentials | writes, indexes, commands, users, connect | `Mongo` |
| `utils.js` | `__callLastError`, `_verboseShell`, `___it___`, test options | prompt, helpers (`use`, `show`, `it`), test authentication | current `db` |
| `utils_sh.js`, parts of `shardingtest.js` and `collection.js` | global `db`; documents of the config database | stop and start the balancer and wait for it | mongos, through `config` |
| `servers.js`, `servers_misc.js` | ports in use, options saved by run id, data directories | start, restart, stop, `isStopped`; fixtures with programs of their own | natives that start programs (not in the scope) |
| `replsettest.js`, `replsetbridge.js` | nodes, ports, directories, options, configuration, bridges | start, stop, restart, add, remove, initiate, bridge, partition, await | `servers.js`, nodes |
| `shardingtest.js` | connections to shards, config servers, mongos | constructor, stop, restart a mongos, shard, move, count, await | `servers.js`, mongos, `replsettest.js`, `utils_sh.js` |
| `mr.js` | tuples, counters | emit, reduce, check | - |
| `assert.js` | - | comparisons, `soon`, `repeat` | - |

What is hard here:

* *threads*: a host may call into scopes from many threads; the ContextFactory is
  global, the registry is shared, cleanup can meet scripts that connect;
* *nesting*: Java functions call back into the runtime, in the same Rhino context;
* *sharing*: one driver client under several Mongo objects or scopes;
* *reconnection*: re-authentication replaces the client under a Mongo object;
* *partial failure*: a write or a fetch that fails half way, a swallowed error, a
  lost reply;
* *two processes and timeouts*: the shell decides from documents of the config
  database what balancers are doing;
* *questions one by one*: a test asks the nodes of a replica set, or the shards of a
  cluster, one after the other, and they elect, fail, come back or move chunks
  between two questions;
* *names by number*: ports, directories and positions are computed from counts, and
  programs that were removed, left over or restarted may still be there.

What makes each component correct is stated by the properties below; the hazards
they are aimed at are listed in `PROJECT.json`, each at its line, those that no
property covers yet with the reason.

## 2. Modules

| Module | Models | Extends or composes |
|---|---|---|
| `MongoAdaptor` | Mongo objects, driver clients and the scope's bookkeeping | - |
| `RuntimeThreads` | threads, nested calls, the registry under concurrent cleanup | - |
| `ResultStream` | abstract: what a query promises its reader | - |
| `QueryCursor` | `DBQuery` over `InternalCursor` over the driver's cursor | instantiates `ResultStream` |
| `BalancerControl` | shells that stop and start the balancer, and the mongos | - |
| `ShellWrites` | writes that fail and the ways their errors take to a scope | - |
| `BSONValues` | a field between a script and the server; generated timestamps | - |
| `ReplSetWaits` | the waits of a replica set test, against nodes that go on | - |
| `ReplSetMembers` | which program of a replica set test has which port, place and directory | - |
| `MongoRunner` | ports, saved options and directories of the programs tests start | - |
| `ShardCluster` | what a sharded cluster test starts, is connected to and leaves behind | - |
| `ShardChunks` | a sharded collection under migrations, and what a test concludes of it | - |
| `MongoAdaptor_proofs`, `BalancerControl_proofs`, `BSONValues_proofs`, `MongoRunner_proofs`, `ShellWrites_proofs`, `QueryCursor_proofs`, `ReplSetWaits_proofs`, `ShardChunks_proofs` | theorems | the module and `TLAPS`; `MongoAdaptor_proofs` also extends `RuntimeThreads`, `ReplSetWaits_proofs` also `ReplSetMembers`, `ShardChunks_proofs` also `ShardCluster` |
| `MC*` | the instances that TLC checks | the module |

### MongoAdaptor

`inner[m]` is `Mongo.innerMongo` of a Mongo object, `mongoOptions[m]` whether
the options saved for a reconstruction are the host's; `registered`,
`lastCalled`, `shellConcern` are the fields of `MongoScope`; `client` is the
table of driver clients with their status, write concern, the databases the
driver believes authenticated (`authed`) and those the server knows a login for
(`session`). `cursor` is the client of the last query a script still reads.

Each native function is one action: `ConnectToHosts` and `WrapClient` are the
constructor with `setParentScope`, which registers; `Auth` is `Mongo.auth` in
full, close and `initMongoConnection` included; `Write` stands for insert, update
and remove as far as the scope is concerned (a write that did not throw stores
the last called database); `Query` is `find` on a collection.

Abstracted: the driver's pool, socket failures and automatic reconnection (a
client is open or closed; the driver logs a reopened socket in again from the
list it keeps, which is how `session` survives), documents, and commands sent
through `find`.

The type invariant of a module is `TypeOK` (`RuntimeTypeOK`, `MembersTypeOK`,
`ClusterTypeOK`). The runs leave it out in favour of the properties below; it is proved
for `MongoAdaptor`, `RuntimeThreads`, `BalancerControl`, `MongoRunner`, `ShellWrites`,
`QueryCursor`, `ReplSetWaits`, `ReplSetMembers`, `ShardCluster` and `ShardChunks`, and can
be added to any `.cfg`. The specifications of `RuntimeThreads`, `ReplSetMembers` and
`ShardCluster` are `RuntimeSpec`, `MembersSpec` and `ClusterSpec`.

### RuntimeThreads

A thread is outside the runtime or in a stack of `MongoAction`s (`frames`).
`Call` is `hasExplicitGlobal`, `InitGlobal` is `initGlobal` - two steps, as in
`MongoRuntime.call` - and `Enter` is `ContextFactory.call` up to
`updateExecutingMongoScope`. `CleanupBegins`, `CleanupCloses`, `CleanupThrows` and
`CleanupClears` are the steps of `MongoScope.cleanup`: the set is synchronized,
its iterator is not, so a step of another thread may come between any two. A Mongo
object connects (`Connect`) before it registers (`Register`), so that one made before a
cleanup can be registered during it, and is then forgotten open
(`ForgottenOpenOnlyIfRaced` excepts it like one that is made anew). `through` and `late`
are auxiliary: whether a call has got through, and whether a call under way began after
that.
`executing[t]` is `MongoContext.executingMongoScope`; an empty stack drops it
since Rhino creates a new context for the next outermost call. A cleanup starts
from a thread that is between calls or inside one (a script's host callback), but
one thread does one thing at a time.

### ResultStream and QueryCursor

`ResultStream` says what a script may expect: the documents of a window of the
result, in order, none twice, all of them unless an error came up. `QueryCursor`
has the fields of `DBQuery` (`limit`, `skip`, `batchSize`, `seen`, `returned`,
`arr`), of the driver cursor (`driver`) and of the server's cursor (`server`),
and shows `RefinesStream == Stream!Spec` with `lo <- skip + 1`, `hi <- LastWanted`
and `faulty <- faults > 0`. A `findOne` is a query with a limit of -1. `Fetch`,
`QueryFails` and `GetMoreFails` are the calls of `InternalCursor.hasNext` that go to
the server: an answer, an error that `handleMongoException` raises or swallows, a
reply that is lost before or after the server has moved on. The documents of a small
set cannot be converted, which makes `next` throw after the driver has handed them
out.

A script reads with single calls or in a loop: `loop` and `filling` are the loop
under way (`toArray`, `forEach`, `map`, `itcount`, the batches of `shellPrint`,
continued by `it`) and what it has so far, so that a fault meets every place of it.
`query` is what the query document says that matters to the counts: whether it is
special and whether `$explain` is in it, which `explain` puts there in the query it was
called on, too, since `clone` shares the document.

### BalancerControl

A shell is a program counter through `sh.stopBalancer`/`startBalancer`
(`utils_sh.js` 95-257), optionally called through `ShardingTest` (which changes
the global `db` around the wait), or the splitter function of
`getSplitKeysForChunks`. The shell reads the `mongos` pings (`ReadPings`), waits
for changes host by host (`SeePing`, `GiveUp`), then for the lock (`LockFree`,
`LockTimeout`), then for pings again. A mongos is external: it boots, pings, reads
the settings, takes the lock, balances, ends or fails a round, or crashes, in the
order of the 2.4 balancer. `PerSecond` pings carry the same text, since the shell
compares printed dates: a changed ping can look unchanged.

`held[s]` says that the balancer setting has been off since shell `s` turned it
off; the promise of `stopBalancer` is stated for that case only. Settings updates
may be lost (`MaxLosses`), and then nothing is promised.

### ShellWrites

The scopes of a host run on one thread, and the driver gives a thread the socket
it used before on a client; so a client stands for a connection, and
`lastError[c]` is what the server would answer to getLastError on it. `Write` is
one write of a script in full: `_printExtraInfo` of `collection.js` around
`Mongo.insert`, `remove` or `update`, with the options an insert adds to the
driver's collection object (`RestoreOptions`), the exception or its replacement
by a printed message (`Swallowed`, which is `handleMongoException`), the last
called database and the question left to the prompt (`LeaveToPrompt`).
`ShellPrintHelper` is the question at the prompt, `GetLastError` a script's own,
`HostAsks` the host's at the last called database, `Other` a read or a command,
which the server answers and forgets the error. `Connect` gives the global `db` a client:
the host's or one of the scope's own. A scope's own is a `MongoClient`, whose default is
to wait for writes; the host's is any `com.mongodb.Mongo` (`Mongo.java:96`), whose
default is not to, so that `given`, the host's write concern, is either.

`options` are those of a client's data collection; the driver's objects for the system
collections, which users and indexes are written to, are others, and nothing is said of
theirs.

`CreateUser` is `addUser` of 2.4 (`_createUser`: `save`, then getLastError, an
exception of which is printed and dropped), `ChangeUserPassword` an update followed by
getLastError on the global `db`, `EnsureIndex` an insert whose error is the result.
`removeUser` is a plain remove. `claimed` collects the failed writes of calls that asked
and reported success all the same.

`told`, `missed`, `claimed` and `wrapped` are the subject of the properties and nothing in
the code: the failed writes their own scope heard of, asked for in vain, or reported as
stored, and the scopes that have wrapped the host's client.

### BSONValues

A value is a kind and a tuple of integers. `Make` is a value a script builds,
with the checks of the constructors; `Save` is `convertJStoBSON` and the encoder,
`Find` the decoder and `convertBSONtoJS`. `lastSec` and `ordinal` are the static
fields that `convertTimestampToBSONTimestamp` keeps; `Tick` lets time pass or sets
the system clock back. `readFrom` and `made` remember where a value came from, for the
properties. Arrays and documents are converted element
by element and are left out.

`IntMax` stands for 2^31 - 1 and `ToInt` is Java's cast to an int of that width,
so that TLC meets the wrap-around with small numbers; bytes keep their width.

### ReplSetWaits

A test makes one call of `ReplSetTest`: `awaitReplication`, `awaitSecondaryNodes`,
`restart` with a wait, or `awaitRSClientHosts` for a secondary (`getSecondary`).
`pc` is its next question and `i` the node or slave that is asked; every question is a
command or a query of its own, so one is a step and the nodes may move between any two.
`live` is `this.liveNodes` and `latest` is `this.latest`; `after` is what goes on when
`callIsMaster` is through. `tries` and `outer` count the tries of the attempt within and
of the one around it (`jsTest.attempt`, `assert.soon`: the timeout is `Tries`), and
`caught` says that the handler of `awaitReplication` is looking for the master and its
optime again. `known` is what the monitor of a client last found (`Watch`), which is
all that `awaitRSClientHosts` can see.

The nodes are external: which are up, which say that they are the master (a master
that was replaced may not know yet, so there can be two), their oplogs, and what
each knows of the node that is restarted (`view`, the number of the start it has
last seen). They write, fetch and roll back, elect, step down, fail, recover and
hear of each other; an arbiter has no oplog. The oplogs a call finds match
(`Matching`, an assumption on the constant `Oplogs`): a member copies from the start on,
so that two oplogs with an entry in common are the same up to it, and all begin with the
same entry. Without that nothing follows from comparing last entries, which is all
that `awaitReplication` does; the proof needs it and the oplogs of the run have it. A
wait for a client is made only of a set with more than one node, since `getSecondary`
has nobody to return otherwise. `owed`, `stayed`, `steady` and
`witness` remember what was so when the call began, for the properties.

Left out: writes and replication during a restart and a wait of a client (neither
looks at oplogs), signals, arrays of nodes, options, and what becomes of a test whose
node did not start.

### ReplSetMembers

The same tests, looked at from the other side: here every wait succeeds and the
question is which program a call reaches. `ports` and `nodes` are `this.ports` and
`this.nodes`, `conns` the connections a test has had, each with the position and port
it was made for; `running` is what has a port. `GetNodeId` looks a connection up in
the nodes of now, as the code does, and `Stop`, `RestartNode`, `RemoveMember` go by its answer.
`GetReplSetConfig` numbers the members by position; `ReInitiate` is refused by the
server when a member changes its `_id` or becomes an arbiter, and then throws.
`MakeBridges` is `bridge` in full, both restarts of the set included; `route` is the
port through which a node reaches a member. `StopSet` ends what it ends: the bridges
of a node are popped until the hole at the node's own position.

The connection of a node that was removed can be restarted. When the set has no port for
its position, `start` passes none, and `MongoRunner` gives the program a port of its own:
`elsewhere` has the directories of such programs, and `removed.back` says that there may
be some. `nodes` grows with them, over places where there is nothing (`Gap`). A restart in
a directory that a living program has locked ends at once (`StartFails`).

Left out: `overflow`, authentication and versions of nodes, options but the arbiter's;
bridges for a set with nodes elsewhere, and a directory that is locked when the nodes
restart behind their bridges.

### MongoRunner

One script starts, restarts and stops programs. `usedPortMap` and `savedOptions` are
the tables of that name. A program has the number of the call that started it, a run
id that of the call that made it. `Run` is `runMongod` and `runMongos` with
`mongodOptions`, `mongosOptions` and `mongoOptions` in one: merge, choose a port,
remember, reset the directory, start; `Connect`, `Ended` and `GiveUp` are how
`startMongoProgram` may end. `StartMongodTest`, `SyncCCStart`, `ReplTestStart`,
`StartDB` and `ToolTestStop` are the fixtures that start programs beside it, on ports
of their own or on those of `MongoRunner`. Programs are external: they bind their port,
exit when it or their directory is taken, fail to start, crash. `ran` remembers which
runs have data, for a property.

Options that only reach a command line are left out, and versions. Ports do not run
out.

### ShardCluster

A script makes up to three `ShardingTest`s. `Steps` is what the constructor does for
its parameters: the shards, the config servers (their own, or the first shards), the
mongos, the database of the first of these (`GetAdmin`), and each of the shards added
through it, one command per connection (`AddShard`), which may be refused and between
which programs crash. `conns` is what the test is connected to and `running` who has a
port: a program, or that of an earlier test, which a connection then leads to. Options
may give any program but a set a port of its own (`own`), or that of another, which
`stop` knows only for config servers: it ends mongos and shards by numbers
(`StoppedPorts`). `left` are the ports of which nothing is promised to later tests, those
of a test that threw in its constructor and those that `stop` did not know, and `gone`
those whose program has crashed or was stopped since the test began. `ThrowsIfNull` are
the programs whose absence the constructor notices at once. A family of ports is a name,
a replica set counts as one program (its inside is `ReplSetMembers`).

### ShardChunks

`placed` is `config.chunks`, `copies` which documents are on which shard, `move` the
migration under way and `cleaning` the old copies still to be deleted, the state in
which a count by shard is wrong. Each call of a test is a sequence of requests: `ShardGo`
and `Split`, whose commands are asserted, and may be refused (`shardcollection` always is
for a collection that is sharded), and each of which may be the last, and then five
attempts to move the chunk; `IsAnyBalanceInFlight` with its two looks, the counts, the
keys for a split and the splitter that uses them, `awaitBalance`. A migration is
external: it locks, copies, commits, cleans up, fails, outlives the mongos or the command
that asked for it (`Outlive`), so that an attempt may find the migration of the one
before it still going on, or done; the answer to each command may be lost. `failures`
counts the attempts whose migration failed. A chunk has one document. Rounds here
are `BalancerControl`'s with their inside left out: whether one may begin and whether
one is under way.

## 3. Runs

| Run | Instance | Distinct states | Shows |
|---|---|---|---|
| `adaptor` | 2 Mongo objects, 1 host client and 2 others, 2 databases of which 1 is read and written, symmetric | 341,000 | who owns a client, which logins a client has, what re-authentication cuts off |
| `threads` | 2 threads, 2 scopes, 2 Mongo objects, calls nest 2 deep, 2 clients per Mongo object, symmetric | 4,304,000 | what the factory race, nested calls and concurrent cleanup can and cannot do |
| `cursor` | 6 documents, 2 of them unreadable, replies of 2 and 3, limits -4..5, batches -2..2, batches of 2 printed, 3 faults | 154,000 | `QueryCursor` implements `ResultStream`; the counts of the three layers agree |
| `balancer` | 2 mongos, 2 shells with one call each, 2 pings, 1 lost update or crash | 298,000 | what may be concluded when `stopBalancer` returns; every call ends |
| `writes` | 2 scopes, one or none with the shell's write concern, both printing the errors that are listed; the host's client, which waits for its writes or not, and one of each scope; 2 writes that fail; symmetric | 1,031,000 | who hears of a failed write and when; what the host finds; what a failed insert leaves behind; when `addUser` may return |
| `bson` | ints of 3 bits, 16 values of scripts and 8 of other programs, 4 seconds, 2 generated timestamps | 83,000 | what saving back keeps; that timestamps rise |
| `replset` | 3 nodes, 1 an arbiter, each with no data or one of two diverging oplogs; 1 more write, 1 election, 1 failure, 2 tries | 966,000 | what may be concluded when a wait returns; every wait ends |
| `members` | 2 nodes, 1 an arbiter, up to 3; 9 connections, 4 of them before bridges; 2 removals | 334,000 | a call reaches the node it was given, in its directory, port and place |
| `runner` | 2 ports of `MongoRunner` and 2 others, 3 starts | 2,981,000 | what a call connects to, what has stopped, where a restart finds its data |
| `cluster` | 3 tests in a row, of 10 shapes, 4 of them with ports of their own; 3 shards, 2 mongos, 1 crash | 4,444,000 | what a test is connected to and leaves to the next |
| `chunks` | 3 shards, 3 chunks, 5 attempts | 7,788,000 | when counts by shard are exact; what `shardGo` has done |
| `init_race` | the instance of `threads` | stops at the violation | the first calls of two threads (section 5) |

Why the bounds suffice: two Mongo objects and three clients let one client be
replaced while another Mongo object shares, owns or keeps the old one, and two
databases let a login be lost with another. Two threads are enough for each race,
since each race is between two. Replies of two and three documents among six give
an empty, a full and a partial batch and a limit inside, at and beyond a batch; the
fetch that fails can be the first, the second or the last. Two mongos give the
host that holds the lock and the host that is about to take it. Two scopes suffice
for an error to be heard by the wrong one, and two failed writes for one error to
hide another. Three nodes give a master, a slave and an arbiter between them in
the order they are asked, or a slave that becomes a second master; diverging
oplogs, of which the newer may be the slave's, give a rollback. Ints of three bits
have times that wrap to before the epoch, and two timestamps meet in one second or
not. Three nodes of which one is removed give a node before and one behind the gap;
two nodes and one added after them give bridges that are there and bridges that are
not. Two ports and three starts give a port that is freed, given to another and
asked for again by a restart. Three tests let one find what was left by the one
before and leave it to the next. Three shards give a source, a target and one that
is neither, and three chunks one to split, one to move and one to be moved by the
balancer.

What they leave to the proofs: in `replset` only one slave has data besides the master,
so that a pass over several slaves is covered by the theorems alone, and so are more than
three shards, chunks and tests. A wait, a round or a migration takes as long as it likes:
time is not measured in any run.

Deadlock is not checked where the system may really stop: in `cursor` (a script may
stop reading, and faults are bounded), in `balancer`, `runner`, `members`, `cluster` and
`chunks` (calls, starts, pings, crashes or chunks are bounded, or a test has thrown) and
in `replset` (a test makes one call).

Fairness is assumed in two places. `BalancerControl` has `WF_vars(ShellStep(s))` for
every shell. A shell runs one script on one thread, and every wait of these calls
has a timeout after which it goes on, so a step that stays possible is taken.
Nothing is assumed of mongos: `EveryCallEnds` holds also when all have crashed.
`ReplSetWaits` has `WF_vars(ShellStep)`: the test's thread runs, every question is
answered or throws, and the attempts count their tries. Nothing is assumed of the
nodes: `CallEnds` holds with no master and with no node up.

Every property of a passing run has a mutant: a changed form of a mapped
definition under which TLC finds that property violated. The operators with
"Variant" in their comment are those forms; the specifications do not use them.

## 4. Proofs

`MongoAdaptor_proofs` proves, for any sets of Mongo objects, clients, databases:

* `TypeCorrect`: `TypeOK`, which is inductive; its last three conjuncts (a client
  that was never built is blank; a Mongo object has a built client; a registered
  one has one) are what makes a new client distinguishable from the old ones;
* `NoOrphans`, `NoSharing`, `LoginsKnown`: each is inductive together with
  `TypeOK`. The case that needs an argument is `Auth`, where the old client has to
  be seen closed in the table `InitMongoConnection` works on before a new one is
  chosen among the unused ones;
* `PulledOnlyByCleanup`, `AuthEffective` and `HandlesCutByOwner` (the property
  `HandleCutOnlyByOwner`): action properties from the same invariants. For the last,
  lemma `AuthReplaces` says that a re-authentication that closes a client gives its
  Mongo object another one.

They rest on `HostAssumption`, `StoresAssumption` and `NoneAssumption`. The
lemmas say what `InitMongoConnection` does to the table and the objects, and
what it leaves alone.

The same module proves of `RuntimeThreads`, for any threads, scopes, Mongo objects and
depth of calls, `RuntimeTypeCorrect`, `OnlyFirstCallsLost` (the property
`LosesOnlyFirstCalls`), `ForgetsOnlyRaced` (`ForgottenOpenOnlyIfRaced`) and
`StaleOnlyAfterReturn` (`StaleOnlyAfterNestedReturn`). For the first, `OneFactory` says
that a thread about to set the global factory has lost no call yet, and that the one
that set it does not try again: it is the thread that never loses any. It says too that
a call can only have got through once a factory was set, so that one that began later
asked and was told of it. For the second,
`CleanupInv` says of a cleanup under way that each object of its scope's registry is
still to be visited, closed, or registered or connected anew since the cleanup began
(`Walked`), which needs that an object is registered at most by one thread and only once
it has a client (`Fresh`). For the third, the running scope is that of the last call in the stack that has
one, which exists whenever some call has (`LastExists`, by the well-foundedness of `<`),
so that a step that makes it differ from the executing scope is a return. They rest
on `ThreadsAssumption` and `NoScopeAssumption`.

`BalancerControl_proofs` proves `TypeCorrect` and `StopBalancerStops`, the
property `OnlyWarnedHostsBalance`, for any number of mongos, shells, calls and
pings. The inductive invariant `WatchInv` adds to `TypeOK`: a mongos in a round has
a ping of its own (`RoundsPinged`); a shell that is idle waits for nothing
(`OverIdle`); and `Watch`, which says for every place of the program what a host
that could still balance must look like: before the pings are read, anything;
while they are waited for, it is one of the hosts still waited for, or it has read
the setting after it was turned off; and so on up to the warning. The property
alone says nothing of a call under way, so it is not inductive.

`OldRoundsOver`, the property `NoOldRound`, needs no setting. `RoundInv` adds to
`TypeOK` that a mongos that moves chunks has the lock (`LockHeld`), so that when the
lock is free nobody does, and that since then `ts` has not fallen and whoever moves
chunks has raised it (`FreeSeen`, from the moment the lock is seen free on).
The module rests on `BoundsAssumption`.

`BSONValues_proofs` proves `GeneratedTimestampsRise`, the property
`GeneratedRise`, for every width of int and any values. `GenInv` adds that the
last timestamp made is the one the generator remembers (`LastRemembered`) and that
the generator is not ahead of a clock that was never set back (`NotAhead`): the
property speaks of pairs of timestamps made and says nothing of the generator's
next one. The arithmetic of the cast is lemma `IntKept`.

`SavingBackKeeps` is the property `SaveBackKeeps`, for every width of int and any values
of scripts and of other programs. `FieldInv` says that what a script holds, what is
stored and what was read are values of their kinds (`HeldWell`, `StoredWell`), that what
is held after a find is what the conversions make of the field found (`FoundAsIs`), and
that a generated ordinal is an int (`Counted`, from `MaxMade < IntMax`: the counter of a
second would have to make `IntMax` timestamps first). `SavedBack` goes through the kinds:
a value converted twice is the value it was, unless `LostOnSaveBack` lists it. It rests
on `SizesAssumption` and on `ValuesAssumption`, which says what JavaScript and BSON
values look like.

`MongoRunner_proofs` proves `LivingIsNotStopped` (the property `StoppedMeansStopped`)
and `CallsGetTheirOwn` (`OwnProgramAnswers`), for any programs, ports and number of
starts. `PortInv` adds to the first property that programs are numbered by the calls
that started them (`Counted`) and that who listens on a port was started for it
(`ListenersAtHome`): a stop by port then kills every program of that port before the
table frees it, and the starts, stops, crashes and fixtures that do not go through the
table do not free ports in it. A chosen port is the smallest free one, which exists
since `<` is well-founded on the naturals (lemma `SmallestPort`), so that by the first
property no program that the table knows lives there; and while the call waits nothing
else is started (`AloneThere`), so that nobody but its own program can come to listen.

`TypeCorrect` and `RestartsFindData` (the property `RestartFindsData`) need `DataInv`: a
program of a run has the kind and the directory of the run's first, by its port
(`RunsKnown`); a handle has the run of its program (`HandlesKnown`); what is saved of a
run that was to be remembered names the port of all its programs and an option to start
clean only if a call gave it (`SavedKept`); and a run's data is in its directory unless
one of the exceptions of the property holds already (`DataKept`, `Excused`). Starts
outside a run, with any options, and those of a run are kept apart: the first can only
reset a directory of a port that then is theirs (`PassedOn`). The module rests on
`SizesAssumption`.

`ShellWrites_proofs` proves `TypeCorrect` and the five properties of `writes`
(`OwnErrorsHeard` is `HeardAtOnce`, `HostCanFind` `HostFindsError`, `PromptAsks`
`PromptOwesAnswer`, `LeaksAreErrors` `OptionsLeakOnlyOnError`, `SuccessIsStored`
`SuccessMeansStored`), for any scopes and number of failed writes. `Inv` is their
conjunction with three facts about where errors are: what a connection or a scope
remembers is a write that failed on it or of it (`Named`), a scope writes and asks on a
client of its own or the host's (`OwnOrHost`), and a client does not wait for writes only
when a scope with the shell's write concern made or wrapped it or the host made its own
so (`UnackBySomeone`). Every call is a write
followed by questions, so that one lemma about a write and one about a question serve
all of them. It rests on `BoundsAssumption`, `FlagsAssumption` and `NoneAssumption`.

`QueryCursor_proofs` proves `TypeCorrect`, `CountsRight` (`CountsAgree`),
`BatchCountExact` (`ObjsLeftExact`), `ArrayWhole` (`ArrayIsTheRest`) and `Implements`:
`Spec => RefinesStream`, for any number of documents, unreadable ones, replies, limits,
skips, batch sizes and faults. `Inv` says that the three layers count the same documents
(`Counted`); that the server is ahead of the driver by what the driver has left, or
further when a reply was lost (`Ahead`); that the driver never fetches more than the
query wants and lets go of the server's cursor only when it has all of it (`Bounded`);
that every fetch is counted once (`Batches`); and that a loop under way has read the
last documents given (`FillsFromGot`). For the refinement, `StepRefines` takes each
action to a step of the stream or a stutter, a loop of `toArray` or `shellPrint`
included. The sum of the batches is a recursive function: that it exists and what an
append does to it is proved by induction over a set of numbers (`NatInduct`, from the
well-foundedness of `<`), since the library's induction theorems take an operator. It
rests on `SizesAssumption` and `NoneAssumption`.

`ReplSetWaits_proofs` proves `TypeCorrect`, `ReturnReplicated` (`ReturnMeansReplicated`),
`SecondariesAreReady` (`SecondariesReady`) and `RestartIsSeen` (`RestartSeenUp`), for any
number of nodes, oplogs, writes, elections, faults and tries. The properties speak of a
call that has returned; `Inv` says what is known at each question before. Oplogs match,
and a master has one (`OplogsMatch`); under one master throughout, that master has what
is owed (`Steady`); whoever was up throughout is the master found or among the slaves
(`LiveFound`); what the slaves are compared with is an entry of the master's that is no
older than what is owed, and the slaves that have been passed have it all (`Passes`);
and correspondingly for the other waits (`Secondaries`, `Restarts`). The proof is in two
halves. `Moves` is what a test may find changed after a step of the nodes: oplogs grow or
are rolled back to what the master has, views are forgotten or renewed, nobody comes into
`stayed`. Every step of a node is one (`WriteMoves`, `ReplicateMoves`, ...), and `MovesKeep`
says that they keep `Inv`. Then each question of the test keeps it (`AskIsMasterKeeps`,
`NextEntryKeeps`, ...), by a lemma for each way a question can end. A slave whose last entry
is the master's has all up to it because oplogs match (`CommonEntry`). It rests on
`SizesAssumption`, `NodesAssumption` and `OplogsAssumption`.

The same module proves of `ReplSetMembers`, for any number of members, any arbiters and
any calls, `MembersTypeCorrect`, `ReconfigIsAccepted` (the property `ReconfigAccepted`),
`LinksLeadWhereAsked` (`LinksAsAsked`), `CallsHitTheirNode` (`HitsItsNode`) and
`AddResetsOnlyUnused` (`ResetsOnlyUnused`). `MembersInv` adds four things to the types.
`InPlace`: until a node before the last is removed, the node at a position has the port at
that distance from the first, was started as that position, and is that member of the
configuration, with the arbiter option of that position; so that what `getNodeId` finds
for a connection, however old, is what the connection was made for (`ReachesItsNode`).
Only a connection whose node was removed from the end has no port any more, and its
restart runs elsewhere in the directory it had; after it nothing is promised (`back`).
`Housed`: until a node is removed, no program has a directory beyond the last position,
nor a port beyond the last node's before there are bridges, which is why a node can be
added and a bridge started. `BridgesMade`: the bridges are those of the nodes there were,
so that one look at their pairs tells whether they are still all (`MorePairs`). `Linked`:
while they are, each is on its own port unless its pair is cut, and a node's way to
another is through it. The bridges do not take each other's ports, nor those of nodes:
`BridgePortsAre`, from the fact that multiples of n are n apart. There is one lemma for
each call of the test; those that stop or start nodes and leave the bridges share
`NodesChange`. They rest on `MembersAssumption`, which relates
the size of the set to the bounds.

`ShardChunks_proofs` proves `TypeCorrect`, `FindsWhatThereIs` (`CountsExact`),
`ReturnMeansMoved` (`ShardGoMoves`) and `GivesUpForAReason` (`ShardGoWorks`), for any
number of shards, chunks and attempts. `CountsExact` speaks of counts that are finished;
`Inv` says what a count under way has found: the balancer being off and in no round since
`isAnyBalanceInFlight` said no (`Calm`), the shards passed so far are counted as they are
(`Counted`, `KeysFound`), which is so because nothing moves: the documents of a chunk are
where the chunk is, and copies elsewhere are being deleted or left by a migration that
failed (`Owned`, `NoOthers`), and a migration under way has a chunk, a source and a target
that agree with the placement (`Migrating`). For `shardGo`, all chunks are on the primary
until its migration commits, unless the balancer moved them or a migration has outlived
its command (`Going`), so that no attempt is refused, and each that failed is a migration
that failed (`EachFailed`): the assertion after the attempts fails only when all of them
did. The lemmas are one
per action; the steps of a call that only ask are taken together (`AskingStep`). It rests
on `NumShardsAssumption`, `PrimaryAssumption`, `TriesAssumption` and
`MaxChunksAssumption`.

The same module proves of `ShardCluster`, for any numbers of tests, shards, mongos and
crashes and any parameters, `ClusterTypeCorrect`, `OwnProgramsOnly` (the property
`OwnPrograms`) and `ReadyClusterComplete` (`MissingOnlyIfGone`). `ClusterInv` adds three
things to the types. `InOrder`: a constructor goes through its steps in their order, all
programs before the first mongos is asked for its database and the shards are added
(`LateAreLate`), so that a config server, the first mongos or a shard to be added has a
connection or the step that will notice it missing is still to come. `NoneLeft`: but on
the ports in `left`, each program that runs is the current test's, on the port of one of
its slots. `Kept`: a connection leads to the program it was made to, unless that is
`gone`; together with `InOrder` this is `MissingOnlyIfGone`. That the steps of the constructor are in
order (`StepsOrdered`) is a lemma about the concatenation of the families, by the number
of each; that the rest of them are (`TailOrdered`) is what every step needs. They rest on
`SizesAssumption` (an object of parameters makes two shards by default, so there is room
for two) and `ShapesAssumption`.

The proof modules leave nothing open. Liveness (`EveryCallEnds`, `CallEnds`) is outside
what TLAPS can prove here and is checked by TLC only.

## 5. Findings

One disagreement of the code with its documentation is a run:

* `init_race`: the first calls of two threads can make one of them fail
  (`MongoRuntime.java:105`).

Others were met while modelling; the models state what the code does, and the
properties make their exceptions for it:

* `find` never stores the last called database, although the README (line 98) and the
  javadoc count queries (`adaptor/Mongo.java:202`).
* The executing scope is not restored after a nested call (`MongoContext.java:61`);
  `StaleOnlyAfterNestedReturn` says when that shows.
* A binary with a subtype from 128 on can be stored and not read
  (`util/BSONizer.java:236`).
* `stop` with its "wait for stop" returns at once when the program ended with exit
  code 0, so a restart can take the node's life before for the new one
  (`replsettest.js:783`); `RestartSeenUp` has its exception for it.
* `stopSet` says it tears down bridges and leaves those of every node but the last that
  lie behind the hole at the node's own position (`replsettest.js:813`).
* `ReplSetTest.start` documents that options are saved for subsequent starts, but no
  run id is passed, so that they are not.
* `binVersion` of a set is advanced once per node and start on the same list, where the
  comment promises different versions (`replsettest.js:655`).
* `awaitRSClientHosts` with a string for a host takes its length for that of a list
  and calls itself without end (`replsettest.js:331`).
* `waitForConnect : true` does not wait: only an absent option does
  (`servers.js:356`, `411`). Without a wait `runMongod` returns null and `runMongos` an
  object without a connection.
* `appendOptions` is to remember the options of one restart for the next; it is itself
  among them (`servers.js:393`, `401`, `407`), so that from then on every restart of the
  run is remembered, and one with `cleanData` makes the data of all that follow go.
  `RestartFindsData` has its exception for it.
* `stopMongod` and `isStopped` call `savedOptions` as a function when they are given a
  run id (`servers.js:628`, `652`), which throws.
* `ShardingTest` notices a mongos that did not start only when it is the first, and
  with `manualAddShard` a shard not at all; `MissingOnlyIfGone` has its exceptions for
  it. `config : 1` makes no config server of its own, an object of three makes one, and
  `stop` does not know a port that the options of a shard or a mongos name, and leaves
  the program there (`shardingtest.js:525`); `OwnPrograms` excepts these ports, and no
  other program that is left.
* `_createUser` reports success when its own question for the error throws
  (`db.js:104`), which `SuccessMeansStored` excepts.

Behaviours that no document contradicts, and that the properties state as they are:

* `HeardAtOnce` has its exceptions because a scope with the shell's write concern
  changes it on the host's client for every scope that shares it, and because a host's
  client that does not wait is left so. The write concern flag
  is read when a client is made; setting it later leaves a client that is wrapped
  already as it was (`MongoScope.java:197`).
* `LostOnSaveBack` lists what a script changes by saving back a document it read: an
  int becomes a double, code becomes a string, a symbol too, a binary of the old
  subtype a general one, an undefined field null, and a timestamp of second 0 is
  generated anew. A time beyond 2^31 seconds is accepted by `Timestamp` and wraps when
  stored.
* `explain` leaves `$explain` in the query it was called on, which is explained when it
  is read or counted afterwards (`query.js:288`).
* `ReturnMeansReplicated` and `SecondariesReady` promise something only if there was
  one master throughout, and only for nodes that were up throughout: a node that
  does not answer is no slave, and nobody waits for it.
* `getLastOpTimeWritten` goes on asking the master it found, also after that one is
  gone, and throws in the end out of `awaitReplication` (`replsettest.js:505`); `status`
  throws out of its wait when no node answers (`replsettest.js:437`).
* `HitsItsNode`, `ResetsOnlyUnused` and `ReconfigAccepted` hold until a node before the
  last is removed: positions move, and connections, directories and member ids with
  them, while options stay where they were.
* The last node of a set can be removed and its connection restarted: the node then runs
  on a port of `MongoRunner`'s, which no call of the set reaches (`stop`, `stopSet`), with
  a place in `nodes` and none in `ports` (`replsettest.js:639-680`). Removing a connection
  that no position is found for removes the first node (`replsettest.js:463`).
* `RestartFindsData` excepts a run whose port went to another: directories have the
  names of ports, and the other's start has reset it.
* `startMongodTest` on a port the script names does not enter it in `usedPortMap`;
  `StoppedMeansStopped` and `OwnProgramAnswers` have their exception for it (`Entered`).
* An exception of a wait of `ShardingTest.stopBalancer` or `startBalancer` leaves the
  global `db` at the config database (`Raise` in `BalancerControl`).
* The splitter of `getSplitKeysForChunks` turns the balancer on at its end, whatever it
  was before; a settings update of `stopBalancer` may be lost without notice.
* Counts by shard are exact only when the balancer is off, no round is under way, and
  `isAnyBalanceInFlight` has said no since (`CountsExact`); the operations alone do not
  show a migration before its cleanup, nor the locks one during it.

## 6. Plan

Done: `MongoAdaptor`, `RuntimeThreads`, `ResultStream` and `QueryCursor`,
`BalancerControl`, `ShellWrites`, `BSONValues`, `ReplSetWaits`, then `ReplSetMembers`,
`MongoRunner`, `ShardCluster`, `ShardChunks`, and the extensions of `QueryCursor` (loops,
special fields), `ShellWrites` (users, indexes) and `ReplSetWaits` (clients).

The properties that remain to prove are those of section 4 that are out of reach. Where
two components share a file of proofs, the names of one (`Init`, `Next`, `NumNodes`, ...)
differ from those of the other.

To model, if a run makes room: `overflow` and authentication of nodes in
`ReplSetMembers` (`jsTest.authenticate` marks a connection before it has
authenticated); commands sent through `find` in `MongoAdaptor`; arrays and references in
`BSONValues`.

## 7. Not modelled

* `mr.js`: the functions it needs (`get_num_`, `reset_num`, `tempcoll`) are in no file of
  the repository, so that nothing can call it.
* The wrappers of `db.js`, `mongo.js` and `collection.js` that build one command document
  and return or check its answer: one request each, no state.
* Wording and layout of what is printed, `tojson`, sorting and random helpers, the
  methods of `types.js`.
* `overflow`, `versionIterator` and everything that only reaches a command line;
  authentication among nodes; reports of `ShardingTest`.
* File and directory functions, `load`, script dispatch: sequential I/O.
* Rhino, the driver, mongod and mongos themselves: modelled only as the code uses
  them, and marked external in the map.
