--------------------------- MODULE ReplSetMembers ---------------------------
(***************************************************************************)
(* The members of a ReplSetTest (replsettest.js, replsetbridge.js): which  *)
(* program has which port, position, data directory and options, as a test *)
(* starts the set, adds and removes nodes, stops and restarts them,        *)
(* configures the set anew, puts bridges between the nodes and cuts them.  *)
(*                                                                         *)
(* A test makes one call after the other; what the nodes do meanwhile is   *)
(* in ReplSetWaits, and here every wait succeeds and every program starts  *)
(* unless its port is taken or, in a restart, a living program has its     *)
(* directory.  The nodes get explicit paths, and ports of the set unless   *)
(* it has none left for them; MongoRunner then gives them one of its own.  *)
(* Ports are distances from startPort, and a member is known to the set by *)
(* its port.                                                               *)
(***************************************************************************)
EXTENDS Integers, Sequences, FiniteSets

CONSTANTS
  NumMembers,       \* opts.nodes
  ArbiterPositions, \* the positions whose options say arbiter
  MaxNodes,         \* bound: nodes at a time
  MaxPort,          \* bound: ports of nodes and bridges
  MaxBefore,        \* bound: connections the test gets before it makes bridges
  MaxStarts,        \* bound: connections it gets
  MaxRemoved        \* bound

ASSUME MembersAssumption ==
  /\ NumMembers \in Nat \ {0} /\ MaxNodes \in Nat /\ MaxPort \in Nat
  /\ MaxBefore \in Nat /\ MaxStarts \in Nat /\ MaxRemoved \in Nat
  /\ NumMembers <= MaxNodes /\ NumMembers <= MaxPort + 1 /\ NumMembers <= MaxStarts
ASSUME ArbitersAssumption == ArbiterPositions \subseteq 0 .. NumMembers - 1

Ports == 0 .. MaxPort
Positions == 0 .. MaxNodes - 1
Unknown == -1  \* undefined; also the port of a node that MongoRunner has given one
Gap == 0       \* a place of nodes where there is no connection
At(s, n) == s[n + 1]

\* What runs on a port: nothing, a node with its directory (set-n), a bridge.
Nothing == [is |-> "nothing"]
Node(dir) == [is |-> "node", dir |-> dir]
Bridge(dest) == [is |-> "bridge", dest |-> dest]

VARIABLES
  ports, nodes,  \* this.ports; this.nodes, each the number of a connection
  conns,         \* the connections the test has had: nodeId and port
  running,       \* what runs on a port
  elsewhere,     \* the directories of nodes that run on ports of MongoRunner's
  dbpaths,       \* this._alldbpaths
  config,        \* the configuration of the set: member i has _id i; << >> before initiate
  bridges,       \* this.bridges: pairs of positions to the port and dest of a bridge
  bridged,       \* this.bridges is there
  route,         \* the port through which a node reaches a member
  cut,           \* the pairs the test has partitioned
  removed,       \* how many nodes were removed; whether one was not the last; whether a
                 \* connection beyond the ports that are left was restarted
  rejected,      \* a reconfiguration was not accepted
  over           \* stopSet was called, or the test has thrown

nodeVars == <<ports, nodes, conns, dbpaths>>
bridgeVars == <<bridges, bridged, route, cut>>
membersVars == <<nodeVars, bridgeVars, running, elsewhere, config, removed, rejected, over>>

NoBridges == [p \in {} |-> 0]

MembersInit ==
  /\ ports = [i \in 1 .. NumMembers |-> i - 1] /\ nodes = << >> /\ conns = << >>
  /\ running = [p \in Ports |-> Nothing] /\ elsewhere = {} /\ dbpaths = {} /\ config = << >>
  /\ bridges = NoBridges /\ bridged = FALSE /\ route = [p \in Ports |-> << >>]
  /\ cut = {} /\ removed = [n |-> 0, inner |-> FALSE, back |-> FALSE]
  /\ rejected = FALSE /\ over = FALSE

Indices(s) == 0 .. Len(s) - 1

\* getNodeId of a connection: its position, or else what it was started as, but for 0.
GetNodeId(c) ==
  IF \E n \in Indices(nodes) : At(nodes, n) = c
  THEN CHOOSE n \in Indices(nodes) : At(nodes, n) = c
  ELSE IF conns[c].nodeId # 0 THEN conns[c].nodeId ELSE Unknown

\* getPort.
PortIn(s, n) == IF n \in Indices(s) THEN At(s, n) ELSE Unknown
GetPort(n) == PortIn(ports, n)

-----------------------------------------------------------------------------
(* Starting and stopping.                                                   *)

Stopped(run, p) == IF p \in Ports THEN [run EXCEPT ![p] = Nothing] ELSE run

NodePorts == {ports[i] : i \in DOMAIN ports}
At0(p) == CHOOSE i \in Indices(ports) : At(ports, i) = p

\* Position n starts a program on port p; when the port is taken the program ends, and
\* the connection leads to who has the port.
Started(run, n, p) ==
  IF p \in Ports /\ run[p] = Nothing THEN [run EXCEPT ![p] = Node(n)] ELSE run

Room == Len(conns) < IF bridged THEN MaxStarts ELSE MaxBefore

\* Variant: one position further.
PlacedNext(s, n, c) ==
  [i \in 1 .. IF n + 1 < Len(s) THEN Len(s) ELSE n + 2 |->
     IF i = n + 2 THEN c ELSE IF i \in DOMAIN s THEN s[i] ELSE Gap]

\* this.nodes[n] = the new connection; what was not there yet before it is undefined.
Placed(s, n, c) ==
  [i \in 1 .. IF n < Len(s) THEN Len(s) ELSE n + 1 |->
     IF i = n + 1 THEN c ELSE IF i \in DOMAIN s THEN s[i] ELSE Gap]

\* start of position n on its port, or with none on one of MongoRunner's; every directory
\* used is one to delete in the end.
StartNode(n, p, run) ==
  /\ n \in Positions /\ Room
  /\ running' = Started(run, n, p)
  /\ elsewhere' = IF p = Unknown THEN elsewhere \union {n} ELSE elsewhere
  /\ conns' = Append(conns, [nodeId |-> n, port |-> p])
  /\ nodes' = Placed(nodes, n, Len(conns'))
  /\ dbpaths' = dbpaths \union {n}

\* runMongod gives null: the program ends, nobody has its port.
StartFails(n, run) ==
  /\ running' = run /\ nodes' = Placed(nodes, n, Gap) /\ dbpaths' = dbpaths \union {n}
  /\ UNCHANGED <<conns, elsewhere>>

StartSet ==
  /\ nodes = << >>
  /\ nodes' = [i \in 1 .. Len(ports) |-> i]
  /\ conns' = [i \in 1 .. Len(ports) |-> [nodeId |-> i - 1, port |-> ports[i]]]
  /\ running' = [p \in Ports |-> IF p \in NodePorts THEN Node(At0(p)) ELSE running[p]]
  /\ dbpaths' = Indices(ports)
  /\ UNCHANGED <<ports, elsewhere, config, bridgeVars, removed, rejected, over>>

InSet(c) == c \in 1 .. Len(conns) /\ nodes # << >> /\ ~over

\* stop, with a connection; without a port there is nothing to stop.
Stop(c) ==
  /\ InSet(c) /\ running' = Stopped(running, GetPort(GetNodeId(c)))
  /\ UNCHANGED <<nodeVars, bridgeVars, elsewhere, config, removed, rejected, over>>

\* A living program has the directory.
Locked(n, run) == n \in elsewhere \/ \E p \in Ports : run[p] = Node(n)

\* restart, which stops first; its data stays.  Without a position getPath throws.
RestartNode(c) ==
  LET n == GetNodeId(c)
      p == GetPort(n)
      run == Stopped(running, p)
  IN
  /\ InSet(c) /\ n # Unknown
  /\ IF Locked(n, run) THEN StartFails(n, run) ELSE StartNode(n, p, run)
  /\ removed' = [removed EXCEPT !.back = @ \/ p = Unknown]
  /\ UNCHANGED <<ports, bridgeVars, config, rejected, over>>

\* Variant: a new node takes the position of the last.
LastId == Len(nodes) - 1

NextId == Len(nodes)

NextPort == IF ports = << >> THEN 0 ELSE At(ports, Len(ports) - 1) + 1

\* add: the next port and the next position, whose directory is reset.
Add ==
  /\ nodes # << >> /\ ~over /\ Len(ports) < MaxNodes /\ NextPort \in Ports
  /\ ports' = Append(ports, NextPort)
  /\ StartNode(NextId, PortIn(ports', NextId), running)
  /\ UNCHANGED <<config, bridgeVars, removed, rejected, over>>

Without(s, n) == IF n < Len(s) THEN SubSeq(s, 1, n) \o SubSeq(s, n + 2, Len(s)) ELSE s

\* remove: from nodes and ports, not from nodeOptions, and nothing is stopped.  To splice,
\* no position is the first.
RemoveMember(c) ==
  LET n == IF GetNodeId(c) = Unknown THEN 0 ELSE GetNodeId(c) IN
  /\ InSet(c) /\ n \in Indices(nodes) /\ Len(ports) > 1 /\ removed.n < MaxRemoved
  /\ nodes' = Without(nodes, n) /\ ports' = Without(ports, n)
  /\ removed' = [removed EXCEPT !.n = @ + 1, !.inner = @ \/ n # Len(nodes) - 1]
  /\ UNCHANGED <<conns, running, elsewhere, dbpaths, config, bridgeVars, rejected, over>>

-----------------------------------------------------------------------------
(* The configuration.                                                       *)

\* getReplSetConfig: ids and options go by position.
GetReplSetConfig ==
  [i \in 1 .. Len(ports) |-> [port |-> ports[i], arbiter |-> i - 1 \in ArbiterPositions]]

Direct(c) == [p \in Ports |-> [i \in 1 .. Len(c) |-> c[i].port]]

\* With no connection in the first place of nodes both throw.
Initiate ==
  /\ nodes # << >> /\ config = << >> /\ ~over
  /\ IF nodes[1] = Gap
     THEN over' = TRUE /\ UNCHANGED <<config, route>>
     ELSE config' = GetReplSetConfig /\ route' = Direct(config') /\ UNCHANGED over
  /\ UNCHANGED <<nodeVars, running, elsewhere, bridges, bridged, cut, removed, rejected>>

\* The server lets no member change its _id or become an arbiter.
Legal(old, new) ==
  \A i \in DOMAIN old, j \in DOMAIN new :
    old[i].port = new[j].port => i = j /\ old[i].arbiter = new[j].arbiter

\* reInitiate tries until the set has accepted, or throws.
ReInitiate ==
  /\ config # << >> /\ ~bridged /\ ~over
  /\ LET new == GetReplSetConfig IN
     IF nodes[1] # Gap /\ Legal(config, new)
     THEN config' = new /\ route' = Direct(new) /\ UNCHANGED <<rejected, over>>
     ELSE over' = TRUE /\ rejected' = (nodes[1] # Gap) /\ UNCHANGED <<config, route>>
  /\ UNCHANGED <<nodeVars, running, elsewhere, bridges, bridged, cut, removed>>

-----------------------------------------------------------------------------
(* Bridges.                                                                 *)

\* ReplSetBridge: the ports after the nodes'.
BridgePort(n, from, to) == n + from * n + to

Pairs(n) == {p \in (0 .. n - 1) \X (0 .. n - 1) : p[1] # p[2]}

BridgeStarted(run, b) ==
  IF run[b.port] = Nothing THEN [run EXCEPT ![b.port] = Bridge(b.dest)] ELSE run

\* A node finds the configuration it has and a bridge to each of its other members,
\* member j by position j.
Others(i) == {j \in Indices(config) : At(config, j).port # At(ports, i)}
Bridgeable(n) ==
  \A i \in Indices(ports) :
    Cardinality(Others(i)) < Len(config) /\ \A j \in Others(i) : <<i, j>> \in Pairs(n)

\* bridge: a bridge from every node to every other, a restart of all nodes alone, and in
\* each the hosts of the members set to its bridges; then all are started again.  Bound:
\* sets with no node beyond their ports; that a directory is locked is left out.
MakeBridges ==
  LET n == Len(nodes)
      made == [p \in Pairs(n) |-> 
                 [port |-> BridgePort(n, p[1], p[2]), dest |-> At(ports, p[2])]]
      starts == IF Bridgeable(n) THEN 2 * n ELSE n
  IN
  /\ config # << >> /\ ~bridged /\ ~over /\ ~removed.back /\ Len(conns) + starts <= MaxStarts
  /\ \A pair \in Pairs(n) : made[pair].port \in Ports
  /\ bridged' = TRUE /\ bridges' = made
  /\ running' = [p \in Ports |->
       IF p \in NodePorts THEN Node(At0(p))
       ELSE IF running[p] = Nothing /\ \E pair \in Pairs(n) : made[pair].port = p
       THEN Bridge(made[CHOOSE pair \in Pairs(n) : made[pair].port = p].dest)
       ELSE running[p]]
  /\ nodes' = [i \in 1 .. n |-> Len(conns) + starts - n + i]
  /\ conns' = conns \o [k \in 1 .. starts |->
                          [nodeId |-> (k - 1) % n, port |-> At(ports, (k - 1) % n)]]
  /\ route' = IF ~Bridgeable(n) THEN route
              ELSE [p \in Ports |->
                     IF p \notin NodePorts THEN route[p]
                     ELSE [k \in DOMAIN config |->
                             IF k - 1 \in Others(At0(p)) THEN made[<<At0(p), k - 1>>].port
                             ELSE config[k].port]]
  /\ over' = ~Bridgeable(n)
  /\ UNCHANGED <<ports, elsewhere, dbpaths, config, cut, removed, rejected>>

\* partition stops the bridges of a pair, unPartition starts them.
Partition(i, j) ==
  /\ <<i, j>> \in DOMAIN bridges /\ ~over
  /\ running' = Stopped(Stopped(running, bridges[<<i, j>>].port), bridges[<<j, i>>].port)
  /\ cut' = cut \union {{i, j}}
  /\ UNCHANGED <<nodeVars, elsewhere, bridges, bridged, route, config, removed, rejected, over>>

\* Variant: one of them.
BothStarted(run, i, j) == BridgeStarted(run, bridges[<<i, j>>])

BothStart(run, i, j) ==
  BridgeStarted(BridgeStarted(run, bridges[<<i, j>>]), bridges[<<j, i>>])

UnPartition(i, j) ==
  /\ <<i, j>> \in DOMAIN bridges /\ ~over /\ {i, j} \in cut
  /\ running' = BothStart(running, i, j) /\ cut' = cut \ {{i, j}}
  /\ UNCHANGED <<nodeVars, elsewhere, bridges, bridged, route, config, removed, rejected, over>>

\* The bridges that stopSet takes down: of each node it pops them until it meets the gap
\* at the node's own position, which only the last node has not.
TornDown == {p \in DOMAIN bridges : p[2] > p[1] \/ \A q \in DOMAIN bridges : q[1] <= p[1]}

\* stopSet without forRestart, which stops what has the ports; the set is not used any more.
StopSet ==
  /\ nodes # << >> /\ ~over /\ over' = TRUE
  /\ running' = [p \in Ports |->
       IF p \in NodePorts \union {bridges[b].port : b \in TornDown} THEN Nothing
       ELSE running[p]]
  /\ UNCHANGED <<nodeVars, bridgeVars, elsewhere, config, removed, rejected>>

MembersNext ==
  \/ StartSet \/ Add \/ Initiate \/ ReInitiate \/ MakeBridges \/ StopSet
  \/ \E c \in 1 .. MaxStarts : Stop(c) \/ RestartNode(c) \/ RemoveMember(c)
  \/ \E i, j \in Positions : Partition(i, j) \/ UnPartition(i, j)

MembersSpec == MembersInit /\ [][MembersNext]_membersVars

-----------------------------------------------------------------------------
(* Properties.                                                              *)

\* What may run on a port.
Programs == {Nothing} \union {Node(d) : d \in Positions} \union {Bridge(p) : p \in Ports}

\* The types of the variables.  A set that a test has started has a node for each of its
\* ports and, unless the connection of a node it removed was restarted, no other and none
\* on a port of MongoRunner's; it is configured only then.
MembersTypeOK ==
  /\ ports \in Seq(Ports) /\ Len(ports) \in 1 .. MaxNodes
  /\ conns \in Seq([nodeId : Positions, port : Ports \union {Unknown}])
  /\ nodes \in Seq(0 .. Len(conns)) /\ Len(nodes) <= MaxNodes
  /\ nodes # << >> => Len(ports) <= Len(nodes)
  /\ removed \in [n : 0 .. MaxRemoved, inner : BOOLEAN, back : BOOLEAN]
  /\ ~removed.back => /\ nodes # << >> => Len(nodes) = Len(ports)
                      /\ elsewhere = {} /\ \A c \in 1 .. Len(conns) : conns[c].port \in Ports
  /\ removed.n = 0 => ~removed.back
  /\ running \in [Ports -> Programs]
  /\ elsewhere \subseteq Positions /\ dbpaths \subseteq Positions
  /\ config \in Seq([port : Ports, arbiter : BOOLEAN])
  /\ config # << >> => nodes # << >>
  /\ \E n \in 0 .. MaxNodes : bridges \in [Pairs(n) -> [port : Ports, dest : Ports]]
  /\ route \in [Ports -> Seq(Ports)] /\ cut \subseteq SUBSET Positions
  /\ bridged \in BOOLEAN /\ rejected \in BOOLEAN /\ over \in BOOLEAN

Changed == {p \in Ports : running'[p] # running[p]}

\* A call that is given a connection stops and starts nothing on the set's ports but the
\* node the connection was made for, in the directory it had; and only when nodes were
\* removed does it start one on another port, in that directory too.  Unless a node before
\* the last was removed, or such a start went before (stop, restart and getNodeId go by
\* position).
HitsItsNode ==
  [][\A c \in 1 .. Len(conns) :
       ~removed.inner /\ ~removed.back /\ (Stop(c) \/ RestartNode(c)) =>
         /\ \A p \in Changed : /\ p = conns[c].port
                               /\ running'[p] \in {Nothing, Node(conns[c].nodeId)}
         /\ \A d \in elsewhere' : d = conns[c].nodeId /\ removed.n > 0]_membersVars

\* A new node's directory is not one that a living program uses, whatever was stopped,
\* restarted, bridged and removed from the end alive or not, unless a node was removed.
ResetsOnlyUnused ==
  [][Add => \/ removed.n > 0
            \/ \A p \in Ports : running[p] # Node(conns'[Len(conns')].nodeId)]_membersVars

\* reInitiate is accepted, unless a node before the last was removed: then positions, and
\* with them _ids and arbiters, have moved.
ReconfigAccepted == rejected => removed.inner

\* Between nodes with bridges, one reaches another exactly when they are not partitioned,
\* through a bridge that leads there; unless nodes were removed, or added since.
LinksAsAsked ==
  bridged /\ ~over /\ removed.n = 0 /\ DOMAIN bridges = Pairs(Len(nodes)) =>
    \A p \in DOMAIN bridges :
      LET by == running[At(route[At(ports, p[1])], p[2])] IN
      by = IF {p[1], p[2]} \in cut THEN Nothing ELSE Bridge(At(ports, p[2]))

=============================================================================
