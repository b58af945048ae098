---------------------------- MODULE ReplSetWaits ----------------------------
(***************************************************************************)
(* The waits of ReplSetTest (replsettest.js): a test asks the nodes of a   *)
(* replica set one after the other, each question a command of its own,    *)
(* and concludes from the answers that all secondaries are there           *)
(* (awaitSecondaryNodes), that they have what was written                  *)
(* (awaitReplication), that a node it restarted is back (restart), or that *)
(* a client knows of a secondary (awaitRSClientHosts of getSecondary).     *)
(* The nodes go on meanwhile: they write, replicate, roll back, elect,     *)
(* fail and come back.                                                     *)
(*                                                                         *)
(* A test makes one call.  An optime is a number, unique in the set, and   *)
(* an oplog is the sequence of optimes a node has; the nodes are external. *)
(* What they write is of no account to a restart, nor to a client, and     *)
(* left out of those calls.                                                *)
(***************************************************************************)
EXTENDS Integers, FiniteSets, SequencesExt

CONSTANTS
  NumNodes,
  Arbiters,
  Oplogs,       \* what the call finds in the oplogs
  None,
  Tries,        \* how often jsTest.attempt and assert.soon try again
  MaxOpTime,    \* bound: writes
  MaxElections, \* bound
  MaxFaults     \* bound: nodes that fail

\* Positions in this.nodes.
Nodes == 1 .. NumNodes
Calls == {"awaitReplication", "awaitSecondaryNodes", "restart", "awaitRSClientHosts"}

ASSUME SizesAssumption ==
  /\ NumNodes \in Nat \ {0} /\ Tries \in Nat
  /\ MaxOpTime \in Nat \ {0} /\ MaxElections \in Nat /\ MaxFaults \in Nat
ASSUME NodesAssumption == Arbiters \subseteq Nodes /\ None \notin Nodes

\* What a member has it has copied from the start on, so that two oplogs with an entry
\* in common are the same up to there; and all of them start with the same entry.
Matching(a, b) ==
  /\ \A j \in DOMAIN a, k \in DOMAIN b :
       a[j] = b[k] => j = k /\ \A l \in 1 .. j : a[l] = b[l]
  /\ a # << >> /\ b # << >> => a[1] = b[1]

ASSUME OplogsAssumption ==
  /\ Oplogs \subseteq Seq(1 .. MaxOpTime - 1) /\ << >> \in Oplogs
  /\ \A a, b \in Oplogs : Matching(a, b)

VARIABLES
  up, masters, oplog,  \* which nodes answer, which of them say ismaster, what they have
  life, view,          \* how often the node that is restarted was started; the start
                       \* that each node has last seen of it, or 0: not healthy
  opTime, elections, faults,
  known,               \* the nodes a client last found to be secondaries
  call, target,        \* what the test waits for; the node it restarts
  pc, i,               \* the next question, and to which node or slave
  live,                \* this.liveNodes
  latest,              \* this.latest
  after,               \* what follows on callIsMaster
  tries, outer,        \* of the attempt within, and of the one around it
  caught,              \* in the handler of awaitReplication
  ready,               \* of awaitSecondaryNodes
  goal,                \* the health waitForIndicator waits for
  result,              \* how the call ended
  owed,                \* what the master had when the call began
  stayed,              \* the nodes that were up ever since
  steady,              \* there was one master, and no other ever since
  witness              \* who said that the node is down, and who that it is up again

envVars == <<up, masters, oplog, life, view, opTime, elections, faults, known>>
shellVars == <<call, target, pc, i, live, latest, after, tries, outer, caught,
               ready, goal, result>>
pastVars == <<owed, stayed, steady, witness>>
vars == <<envVars, shellVars, pastVars>>

NoLive == [master |-> None, slaves |-> << >>]

Init ==
  /\ up = [n \in Nodes |-> TRUE]
  /\ masters \in {{}} \union {{n} : n \in Nodes \ Arbiters}
  /\ oplog \in {o \in [Nodes -> Oplogs] :
                  \A n \in Nodes : /\ n \in Arbiters => o[n] = << >>
                                   /\ n \in masters => o[n] # << >>}
  /\ life = 1 /\ view = [n \in Nodes |-> 1]
  /\ opTime = MaxOpTime - 1 /\ elections = 0 /\ faults = 0 /\ known = {}
  /\ call = "none" /\ target = None /\ pc = "idle" /\ i = 1 /\ live = NoLive
  /\ latest = 0 /\ after = "none" /\ tries = 0 /\ outer = 0 /\ caught = FALSE
  /\ ready = FALSE /\ goal = "none" /\ result = "none"
  /\ owed = << >> /\ stayed = {} /\ steady = FALSE /\ witness = <<None, None>>

-----------------------------------------------------------------------------
(* The nodes, while the test waits.                                         *)

\* A step of a node, between two questions of the test.
NodeStep == pc # "idle" /\ UNCHANGED <<shellVars, owed, witness, known>>

Write(m) ==
  /\ NodeStep
  /\ m \in masters /\ opTime < MaxOpTime
  /\ call \in {"awaitReplication", "awaitSecondaryNodes"}
  /\ opTime' = opTime + 1
  /\ oplog' = [oplog EXCEPT ![m] = Append(@, opTime')]
  /\ UNCHANGED <<up, masters, life, view, elections, faults, stayed, steady>>

\* A node fetches the next entry, or rolls back what the master does not have.
Replicate(n, m) ==
  /\ NodeStep
  /\ up[n] /\ m \in masters /\ n \notin masters \union Arbiters /\ oplog[n] # oplog[m]
  /\ call # "restart"
  /\ oplog' = [oplog EXCEPT ![n] =
                 IF IsPrefix(@, oplog[m]) THEN SubSeq(oplog[m], 1, Len(@) + 1)
                 ELSE LongestCommonPrefix({@, oplog[m]})]
  /\ UNCHANGED <<up, masters, life, view, opTime, elections, faults, stayed, steady>>

\* The master before may not know yet.
Elect(n) ==
  /\ NodeStep
  /\ up[n] /\ n \notin masters \union Arbiters /\ oplog[n] # << >>
  /\ elections < MaxElections /\ elections' = elections + 1
  /\ masters' = masters \union {n} /\ steady' = FALSE
  /\ UNCHANGED <<up, oplog, life, view, opTime, faults, stayed>>

StepDown(m) ==
  /\ NodeStep
  /\ m \in masters /\ masters' = masters \ {m} /\ steady' = FALSE
  /\ UNCHANGED <<up, oplog, life, view, opTime, elections, faults, stayed>>

Fail(n) ==
  /\ NodeStep
  /\ up[n] /\ faults < MaxFaults /\ faults' = faults + 1
  /\ up' = [up EXCEPT ![n] = FALSE]
  /\ masters' = masters \ {n} /\ steady' = (steady /\ n \notin masters)
  /\ stayed' = stayed \ {n}
  /\ UNCHANGED <<oplog, life, view, opTime, elections>>

Recover(n) ==
  /\ NodeStep
  /\ ~up[n] /\ n # target
  /\ up' = [up EXCEPT ![n] = TRUE] /\ view' = [view EXCEPT ![n] = 0]
  /\ UNCHANGED <<masters, oplog, life, opTime, elections, faults, stayed, steady>>

\* A node hears of the health of the node that is restarted, or that it is gone.
Beat(n) ==
  /\ NodeStep
  /\ target # None /\ up[n] /\ view' = [view EXCEPT ![n] = IF up[target] THEN life ELSE 0]
  /\ UNCHANGED <<up, masters, oplog, life, opTime, elections, faults, stayed, steady>>

IsSecondary(n) == up[n] /\ n \notin masters \union Arbiters /\ oplog[n] # << >>

\* The monitor of a client asks a node, every 20 seconds.
Watch(n) ==
  /\ pc # "idle" /\ call = "awaitRSClientHosts"
  /\ known' = IF IsSecondary(n) THEN known \union {n} ELSE known \ {n}
  /\ UNCHANGED <<up, masters, oplog, life, view, opTime, elections, faults, shellVars, pastVars>>

-----------------------------------------------------------------------------
(* The test.                                                                *)

\* initLiveNodes.
InitLiveNodes == NoLive

\* callIsMaster begins; then is what the answer is for.
CallIsMaster(then) ==
  pc' = "isMaster" /\ i' = 1 /\ live' = InitLiveNodes /\ after' = then

\* The call returns or throws.
End(how) == pc' = "idle" /\ result' = how /\ UNCHANGED <<i, live, after>>

\* What a test sees at its call: one master and what it has, or nothing to hold on to.
Begin(c) ==
  /\ pc = "idle" /\ result = "none" /\ call' = c
  /\ steady' = (Cardinality(masters) = 1)
  /\ owed' = IF Cardinality(masters) = 1 THEN oplog[CHOOSE m \in masters : TRUE] ELSE << >>
  /\ stayed' = {n \in Nodes : up[n]}
  /\ UNCHANGED witness

AwaitReplication ==
  /\ Begin("awaitReplication") /\ CallIsMaster("oplog")
  /\ UNCHANGED <<envVars, target, latest, tries, outer, caught, ready, goal, result>>

AwaitSecondaryNodes ==
  /\ Begin("awaitSecondaryNodes") /\ CallIsMaster("soon")
  /\ UNCHANGED <<envVars, target, latest, tries, outer, caught, ready, goal, result>>

\* awaitRSClientHosts(conn, getSecondary(), { ok : true, secondary : true }), of a client
\* that has a monitor for the set, or will have one.  A set of one has no secondary.
AwaitRSClientHosts ==
  /\ NumNodes > 1 /\ Begin("awaitRSClientHosts") /\ CallIsMaster("hosts")
  /\ known' \in {{}, {n \in Nodes : IsSecondary(n)}}
  /\ UNCHANGED <<up, masters, oplog, life, view, opTime, elections, faults, target, latest,
                 tries, outer, caught, ready, goal, result>>

\* The node has stopped, with an exit code: stop waits until others know, unless the
\* code is 0.
Down(n, code) ==
  /\ up' = [up EXCEPT ![n] = FALSE] /\ masters' = masters \ {n}
  /\ IF code = 0 THEN pc' = "start" /\ UNCHANGED <<i, live, after>>
     ELSE CallIsMaster("status")

Restart(n, code) ==
  /\ up[n] /\ Begin("restart") /\ Down(n, code)
  /\ target' = n /\ goal' = "DOWN" /\ view' = [m \in Nodes |-> life]
  /\ UNCHANGED <<oplog, life, opTime, elections, faults, known, latest, tries, outer, caught,
                 ready, result>>

\* runMongod returns a connection, or null when the program did not start.
Start(started) ==
  /\ pc = "start" /\ goal' = "UP" /\ outer' = 0
  /\ IF started
     THEN /\ up' = [up EXCEPT ![target] = TRUE] /\ life' = life + 1
          /\ view' = [view EXCEPT ![target] = life + 1]
          /\ CallIsMaster("status") /\ UNCHANGED result
     ELSE End("failed") /\ UNCHANGED <<up, life, view>>
  /\ UNCHANGED <<masters, oplog, opTime, elections, faults, known, call, target, latest, tries,
                 caught, ready, pastVars>>

\* One node is asked whether it is the master; one that does not answer is left out.
AskIsMaster ==
  /\ pc = "isMaster" /\ i <= NumNodes /\ i' = i + 1
  /\ live' = IF ~up[i] THEN live
             ELSE IF i \in masters THEN [live EXCEPT !.master = i]
             ELSE [live EXCEPT !.slaves = Append(@, i)]
  /\ UNCHANGED <<envVars, call, target, pc, latest, after, tries, outer, caught, ready,
                 goal, result, pastVars>>

IsMasterDone == pc = "isMaster" /\ i > NumNodes

\* getSecondaries: whoever is not the master, also a node that is down or an arbiter.
GetSecondary == Min({n \in Nodes : n # live.master})

\* getMaster has found one.
MasterFound ==
  /\ IsMasterDone /\ after # "status" /\ live.master # None
  /\ CASE after = "oplog" -> pc' = "oplog" /\ tries' = 0 /\ UNCHANGED <<i, live, after, ready>>
       [] after = "soon" -> CallIsMaster("secondary") /\ tries' = 0 /\ UNCHANGED ready
       [] after = "secondary" -> /\ pc' = "secondary" /\ i' = 1 /\ ready' = TRUE
                                 /\ tries' = 0 /\ UNCHANGED <<live, after>>
       [] after = "hosts" -> /\ pc' = "hosts" /\ i' = GetSecondary
                             /\ UNCHANGED <<live, after, ready, tries>>
  /\ UNCHANGED <<envVars, call, target, latest, outer, caught, goal, result, pastVars>>

\* getMaster: jsTest.attempt tries again, then throws, out of any wait around it.
NoMaster ==
  /\ IsMasterDone /\ after # "status" /\ live.master = None
  /\ tries' = tries + 1
  /\ IF tries' > Tries THEN End("threw") ELSE CallIsMaster(after) /\ UNCHANGED result
  /\ UNCHANGED <<envVars, call, target, latest, outer, caught, ready, goal, pastVars>>

\* The next pass over the slaves.
NextTry == pc' = "state" /\ i' = 1

\* Variant: a pass that ends in the handler does not count.
TryAgainUncounted == NextTry /\ UNCHANGED <<outer, result>>

\* A pass ends with false: awaitReplication tries again, or gives up.
TryAgain ==
  /\ outer' = outer + 1
  /\ IF outer' > Tries THEN pc' = "idle" /\ result' = "threw" /\ UNCHANGED i
     ELSE NextTry /\ UNCHANGED result

\* getLastOpTimeWritten asks the master it found.  In the handler of awaitReplication
\* that ends the try.
LastOpTime ==
  /\ pc = "oplog" /\ up[live.master] /\ oplog[live.master] # << >>
  /\ latest' = Last(oplog[live.master])
  /\ IF caught THEN TryAgain ELSE NextTry /\ UNCHANGED <<outer, result>>
  /\ caught' = FALSE
  /\ UNCHANGED <<envVars, call, target, live, after, tries, ready, goal, pastVars>>

\* It does not look for another master when that one fails.
NoOpTime ==
  /\ pc = "oplog" /\ ~(up[live.master] /\ oplog[live.master] # << >>)
  /\ tries' = tries + 1
  /\ IF tries' > Tries THEN End("threw") ELSE UNCHANGED <<pc, i, live, after, result>>
  /\ UNCHANGED <<envVars, call, target, latest, outer, caught, ready, goal, pastVars>>

Slave == live.slaves[i]
Checking(where) == pc = where /\ i <= Len(live.slaves)
WaitUnchanged == UNCHANGED <<envVars, call, target, live, after, ready, goal, pastVars>>

\* An arbiter is passed over.
AskState ==
  /\ Checking("state") /\ up[Slave]
  /\ IF Slave \in Arbiters THEN i' = i + 1 /\ UNCHANGED pc ELSE pc' = "hasNext" /\ UNCHANGED i
  /\ WaitUnchanged /\ UNCHANGED <<latest, tries, outer, caught, result>>

\* The first of two queries for the last entry of a slave.
HasNext ==
  /\ Checking("hasNext") /\ up[Slave]
  /\ IF oplog[Slave] # << >>
     THEN pc' = "next" /\ UNCHANGED <<i, outer, result>>
     ELSE TryAgain
  /\ WaitUnchanged /\ UNCHANGED <<latest, tries, caught>>

\* Variant: what is newer counts as synced.
SyncedOrNewer(ts) == ts >= latest

Synced(ts) == ts = latest

\* The second.
NextEntry ==
  LET ts == Last(oplog[Slave]) IN
  /\ Checking("next") /\ up[Slave]
  /\ IF Synced(ts) THEN pc' = "state" /\ i' = i + 1 /\ UNCHANGED <<outer, result>>
     ELSE pc' = (IF latest < ts THEN "reset" ELSE "count") /\ UNCHANGED <<i, outer, result>>
  /\ WaitUnchanged /\ UNCHANGED <<latest, tries, caught>>

\* A slave that is behind is asked how many entries it has, to print that.
Count ==
  /\ Checking("count") /\ up[Slave] /\ TryAgain
  /\ WaitUnchanged /\ UNCHANGED <<latest, tries, caught>>

\* A slave is newer: the master is asked again.
ResetLatest ==
  /\ pc = "reset" /\ up[live.master]
  /\ latest' = Last(oplog[live.master]) /\ TryAgain
  /\ WaitUnchanged /\ UNCHANGED <<tries, caught>>

\* One of the questions throws: the handler looks for the master and its last entry.
Caught ==
  /\ \/ pc \in {"state", "hasNext", "next", "count"} /\ i <= Len(live.slaves) /\ ~up[Slave]
     \/ pc = "reset" /\ ~up[live.master]
  /\ CallIsMaster("oplog") /\ caught' = TRUE /\ tries' = 0
  /\ UNCHANGED <<envVars, call, target, latest, outer, ready, goal, result, pastVars>>

AllSynced ==
  /\ pc = "state" /\ i > Len(live.slaves) /\ End("returned")
  /\ UNCHANGED <<envVars, call, target, latest, tries, outer, caught, ready, goal, pastVars>>

\* Variant: the last slave decides.
ReadyNow(secondary) == secondary

ReadyAnd(secondary) == ready /\ secondary

\* awaitSecondaryNodes asks each slave again; nothing catches a throw.
AskSecondary ==
  /\ Checking("secondary")
  /\ IF up[Slave]
     THEN /\ ready' = ReadyAnd(Slave \in Arbiters \/ (Slave \notin masters /\ oplog[Slave] # << >>))
          /\ i' = i + 1 /\ UNCHANGED <<pc, live, after, result>>
     ELSE End("threw") /\ UNCHANGED ready
  /\ UNCHANGED <<envVars, call, target, latest, tries, outer, caught, goal, pastVars>>

SecondariesAsked ==
  /\ pc = "secondary" /\ i > Len(live.slaves)
  /\ IF ready THEN End("returned") /\ UNCHANGED outer
     ELSE /\ outer' = outer + 1
          /\ IF outer' > Tries THEN End("threw") ELSE CallIsMaster("secondary") /\ UNCHANGED result
  /\ UNCHANGED <<envVars, call, target, latest, tries, caught, ready, goal, pastVars>>

\* awaitRSClientHosts asks the client (connPoolStats) whether the node is as it should be.
AskHosts ==
  /\ pc = "hosts"
  /\ IF i \in known THEN End("returned") /\ UNCHANGED outer
     ELSE /\ outer' = outer + 1
          /\ IF outer' > Tries THEN End("threw") ELSE UNCHANGED <<pc, i, live, after, result>>
  /\ UNCHANGED <<envVars, call, target, latest, tries, caught, ready, goal, pastVars>>

\* status asks the master, or else the first slave; with neither it throws.
StatusNode == IF live.master # None THEN live.master ELSE live.slaves[1]

\* Variant: any health will do.
AnyHealth(seen) == TRUE

HasHealth(seen) == (seen = 0) = (goal = "DOWN")

StatusThrows ==
  /\ IsMasterDone /\ after = "status"
  /\ \/ live = NoLive
     \/ live # NoLive /\ ~up[StatusNode]
  /\ End("threw")
  /\ UNCHANGED <<envVars, call, target, latest, tries, outer, caught, ready, goal, pastVars>>

\* waitForIndicator: the node that is asked says of the other that it has the health
\* waited for, or the attempt goes on.
AskStatus ==
  /\ IsMasterDone /\ after = "status" /\ live # NoLive /\ up[StatusNode]
  /\ IF HasHealth(view[StatusNode])
     THEN /\ witness' = IF goal = "DOWN" THEN <<StatusNode, None>> ELSE <<witness[1], StatusNode>>
          /\ IF goal = "DOWN" THEN pc' = "start" /\ UNCHANGED <<i, live, after, result>>
             ELSE End("returned")
          /\ UNCHANGED outer
     ELSE /\ outer' = outer + 1
          /\ IF outer' > Tries THEN End("threw") ELSE CallIsMaster("status") /\ UNCHANGED result
          /\ UNCHANGED witness
  /\ UNCHANGED <<envVars, call, target, latest, tries, caught, ready, goal, owed, stayed, steady>>

ShellStep ==
  \/ Start(TRUE) \/ Start(FALSE)
  \/ AskIsMaster \/ MasterFound \/ NoMaster
  \/ LastOpTime \/ NoOpTime
  \/ AskState \/ HasNext \/ NextEntry \/ Count \/ ResetLatest \/ Caught \/ AllSynced
  \/ AskSecondary \/ SecondariesAsked
  \/ AskHosts
  \/ StatusThrows \/ AskStatus

Next ==
  \/ \E n \in Nodes :
       Write(n) \/ Elect(n) \/ StepDown(n) \/ Fail(n) \/ Recover(n) \/ Beat(n) \/ Watch(n)
  \/ \E n, m \in Nodes : Replicate(n, m)
  \/ AwaitReplication
  \/ AwaitSecondaryNodes
  \/ AwaitRSClientHosts
  \/ \E n \in Nodes, code \in {0, 9} : Restart(n, code)
  \/ ShellStep

\* The test runs on its own thread, and every question is answered or throws.
Spec == Init /\ [][Next]_vars /\ WF_vars(ShellStep)

-----------------------------------------------------------------------------
(* Properties.                                                              *)

\* Every variable has its type; no node is among the live ones twice.
TypeOK ==
  /\ up \in [Nodes -> BOOLEAN] /\ masters \subseteq {n \in Nodes \ Arbiters : up[n]}
  /\ oplog \in [Nodes -> Seq(1 .. MaxOpTime)] /\ opTime \in 0 .. MaxOpTime
  /\ life \in Nat \ {0} /\ view \in [Nodes -> 0 .. life]
  /\ elections \in Nat /\ faults \in Nat /\ known \subseteq Nodes
  /\ call \in Calls \union {"none"} /\ target \in Nodes \union {None}
  /\ pc \in {"idle", "start", "isMaster", "oplog", "state", "hasNext", "next", "count",
             "reset", "secondary", "hosts"}
  /\ i \in Nat \ {0} /\ live \in [master : Nodes \union {None}, slaves : Seq(Nodes)]
  /\ IsInjective(live.slaves) /\ live.master \notin ToSet(live.slaves)
  /\ latest \in 0 .. MaxOpTime
  /\ after \in {"none", "oplog", "soon", "secondary", "hosts", "status"}
  /\ tries \in 0 .. Tries + 1 /\ outer \in 0 .. Tries + 1
  /\ caught \in BOOLEAN /\ ready \in BOOLEAN /\ goal \in {"none", "DOWN", "UP"}
  /\ result \in {"none", "returned", "threw", "failed"}
  /\ owed \in Seq(1 .. MaxOpTime) /\ stayed \subseteq Nodes /\ steady \in BOOLEAN
  /\ witness \in (Nodes \union {None}) \X (Nodes \union {None})

\* When awaitReplication returns, and there was one master all the time, every node
\* that was up all the time has all the master had when the call was made.
ReturnMeansReplicated ==
  call = "awaitReplication" /\ result = "returned" /\ steady =>
    \A n \in stayed \ Arbiters : IsPrefix(owed, oplog[n])

\* When awaitSecondaryNodes returns, and there was one master all the time, every
\* node that was up all the time has its data; and when awaitRSClientHosts returns, the
\* node of getSecondary has, and it is not the master.
SecondariesReady ==
  result = "returned" /\ steady =>
    /\ call = "awaitSecondaryNodes" => \A n \in stayed \ Arbiters : oplog[n] # << >>
    /\ call = "awaitRSClientHosts" => i \notin masters /\ (i \in stayed => oplog[i] # << >>)

\* When restart returns, and the node that says it is up had said before that it was
\* down, that node has seen it since it was started.
RestartSeenUp ==
  call = "restart" /\ result = "returned" /\ witness[1] # None /\ witness[1] = witness[2]
  => view[witness[2]] = life

\* Every wait ends, whatever becomes of the nodes.
CallEnds == pc # "idle" ~> pc = "idle"

=============================================================================
