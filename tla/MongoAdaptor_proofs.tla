------------------------ MODULE MongoAdaptor_proofs ------------------------
(* Proofs about MongoAdaptor: type correctness, who owns which driver client, *)
(* and what a step may do to the client of a Mongo object; and, at the end,   *)
(* about RuntimeThreads, where threads share the runtime and the registry.    *)
EXTENDS MongoAdaptor, RuntimeThreads, SequenceTheorems, WellFoundedInduction, TLAPS

\* The records a client goes through (Shut, Created, LoggedIn) are clients, with
\* the status and the logins their names promise.
LEMMA ClientRecords ==
  /\ Blank \in Client
  /\ HostMade \in Client
  /\ HostMade.status = "open"
  /\ \A p \in {"default", "host"} :
       /\ Created(p) \in Client
       /\ Created(p).status = "open"
       /\ Created(p).session = {}
  /\ \A rec \in Client :
       /\ Shut(rec) \in Client
       /\ Shut(rec).status = "closed"
       /\ Shut(rec).session = {}
       /\ Shut(rec).authed = rec.authed
  /\ \A rec \in Client :
       /\ Kept(rec) \in Client
       /\ Kept(rec).status = rec.status
       /\ Kept(rec).session = rec.session
       /\ Kept(rec).authed = rec.authed
  /\ \A rec \in Client, ds \in SUBSET Databases :
       /\ LoggedIn(rec, ds) \in Client
       /\ LoggedIn(rec, ds).status = rec.status
       /\ LoggedIn(rec, ds).concern = rec.concern
       /\ LoggedIn(rec, ds).session = rec.session \union ds
       /\ LoggedIn(rec, ds).authed = rec.authed \union ds
<1>1. Blank \in Client /\ HostMade \in Client /\ HostMade.status = "open"
  BY DEF Blank, HostMade, Client
<1>2. ASSUME NEW p \in {"default", "host"}
      PROVE  /\ Created(p) \in Client
             /\ Created(p).status = "open"
             /\ Created(p).session = {}
  BY DEF Created, Concern, Blank, Client
<1>3. ASSUME NEW rec \in Client
      PROVE  /\ Shut(rec) \in Client
             /\ Shut(rec).status = "closed"
             /\ Shut(rec).session = {}
             /\ Shut(rec).authed = rec.authed
  BY DEF Shut, Blank, Client
<1>4. ASSUME NEW rec \in Client
      PROVE  /\ Kept(rec) \in Client
             /\ Kept(rec).status = rec.status
             /\ Kept(rec).session = rec.session
             /\ Kept(rec).authed = rec.authed
  BY DEF Kept, Concern, Client
<1>5. ASSUME NEW rec \in Client, NEW ds \in SUBSET Databases
      PROVE  /\ LoggedIn(rec, ds) \in Client
             /\ LoggedIn(rec, ds).status = rec.status
             /\ LoggedIn(rec, ds).concern = rec.concern
             /\ LoggedIn(rec, ds).session = rec.session \union ds
             /\ LoggedIn(rec, ds).authed = rec.authed \union ds
  BY DEF LoggedIn, Client
<1> QED
  BY <1>1, <1>2, <1>3, <1>4, <1>5

\* initMongoConnection leaves Mongo object m with an open client n, either the
\* open client c it had or one that was never used, logged in to logins, and
\* changes no other client.
LEMMA InitConnects ==
  ASSUME NEW m \in Mongos, NEW c \in Clients \union {NoClient},
         NEW p \in {"default", "host"}, NEW table \in [Clients -> Client],
         NEW logins \in SUBSET Databases,
         InitMongoConnection(m, c, p, table, logins)
  PROVE  \E n \in Clients, rec \in Client :
           /\ rec.status = "open"
           /\ inner' = [inner EXCEPT ![m] = n]
           /\ client' = [table EXCEPT ![n] = LoggedIn(rec, logins)]
           /\ \/ OpenIn(table, c) /\ n = c /\ rec = Kept(table[c])
              \/ /\ ~OpenIn(table, c)
                 /\ table[n].status = "unused"
                 /\ rec = Created(p)
<1>1. CASE /\ OpenIn(table, c)
           /\ inner' = [inner EXCEPT ![m] = c]
           /\ client' = [table EXCEPT ![c] = LoggedIn(Kept(table[c]), logins)]
  <2>1. c \in Clients
    BY <1>1, NoneAssumption DEF OpenIn
  <2>2. Kept(table[c]) \in Client /\ Kept(table[c]).status = "open"
    BY <1>1, <2>1, ClientRecords DEF OpenIn
  <2> QED
    BY <1>1, <2>1, <2>2
<1>2. CASE /\ ~OpenIn(table, c)
           /\ \E n \in Clients :
                /\ table[n].status = "unused"
                /\ inner' = [inner EXCEPT ![m] = n]
                /\ client' = [table EXCEPT ![n] = LoggedIn(Created(p), logins)]
  <2>1. Created(p) \in Client /\ Created(p).status = "open"
    BY ClientRecords
  <2> QED
    BY <1>2, <2>1
<1> QED
  BY <1>1, <1>2 DEF InitMongoConnection

-----------------------------------------------------------------------------
(* Type correctness.                                                       *)

\* What TypeOK says of the Mongo objects and of a table of the clients.
TableOK(in, table) ==
  /\ in \in [Mongos -> Clients \union {NoClient}]
  /\ table \in [Clients -> Client]
  /\ \A c \in Clients : table[c].status = "unused" => table[c] = Blank
  /\ \A m \in Mongos : in[m] # NoClient => table[in[m]].status # "unused"

\* Closing a client keeps the table in order, and leaves that client closed and
\* the others as they were (Close, Closed).
LEMMA CloseKeepsTable ==
  ASSUME NEW in, NEW table, TableOK(in, table), NEW c \in Clients
  PROVE  /\ TableOK(in, Closed(table, c))
         /\ Close(table, c) = Closed(table, c)
         /\ Closed(table, c)[c] = Shut(table[c])
         /\ \A x \in Clients \ {c} : Closed(table, c)[x] = table[x]
<1>1. Shut(table[c]) \in Client /\ Shut(table[c]).status = "closed"
  BY ClientRecords DEF TableOK
<1>2. c # NoClient
  BY NoneAssumption
<1> QED
  BY <1>1, <1>2 DEF TableOK, Closed, Close

\* initMongoConnection on a table in order leaves the table in order, and the
\* Mongo object with a client.
LEMMA InitKeepsTable ==
  ASSUME NEW m \in Mongos, NEW c \in Clients \union {NoClient},
         NEW p \in {"default", "host"}, NEW table, TableOK(inner, table),
         NEW logins \in SUBSET Databases,
         InitMongoConnection(m, c, p, table, logins)
  PROVE  /\ TableOK(inner', client')
         /\ inner'[m] # NoClient
         /\ \A q \in Mongos \ {m} : inner'[q] = inner[q]
<1>0. table \in [Clients -> Client]
  BY DEF TableOK
<1>1. inner \in [Mongos -> Clients \union {NoClient}]
  BY DEF TableOK
<1>2. PICK n \in Clients, rec \in Client :
        /\ rec.status = "open"
        /\ inner' = [inner EXCEPT ![m] = n]
        /\ client' = [table EXCEPT ![n] = LoggedIn(rec, logins)]
        /\ \/ OpenIn(table, c) /\ n = c /\ rec = Kept(table[c])
           \/ /\ ~OpenIn(table, c)
              /\ table[n].status = "unused"
              /\ rec = Created(p)
  BY <1>0, InitConnects
<1>3. LoggedIn(rec, logins) \in Client /\ LoggedIn(rec, logins).status = "open"
  BY <1>2, ClientRecords
<1>4. inner'[m] # NoClient
  BY <1>1, <1>2, NoneAssumption
<1> QED
  BY <1>0, <1>1, <1>2, <1>3, <1>4 DEF TableOK

\* Every reachable state is well typed: in particular a Mongo object never has a
\* client that was not built.
THEOREM TypeCorrect == Spec => []TypeOK
<1>1. Init => TypeOK
  <2> SUFFICES ASSUME Init
               PROVE  TypeOK
    OBVIOUS
  <2>1. \A c \in Clients : client[c] = HostMade \/ client[c] = Blank
    BY DEF Init
  <2>2. client \in [Clients -> Client]
    BY ClientRecords DEF Init
  <2>3. \A c \in Clients : client[c].status = "unused" => client[c] = Blank
    BY <2>1, ClientRecords
  <2>4. /\ inner \in [Mongos -> Clients \union {NoClient}]
        /\ \A m \in Mongos : inner[m] = NoClient
        /\ mongoOptions \in [Mongos -> {"default", "host"}]
    BY DEF Init
  <2> QED
    BY <2>2, <2>3, <2>4 DEF Init, TypeOK
<1>2. TypeOK /\ [Next]_vars => TypeOK'
  <2> SUFFICES ASSUME TypeOK, [Next]_vars
               PROVE  TypeOK'
    OBVIOUS
  <2>0. TableOK(inner, client)
    BY DEF TypeOK, TableOK
  <2>1. ASSUME NEW m \in Mongos, ConnectToHosts(m)
        PROVE  TypeOK'
    <3>1. /\ TableOK(inner', client')
          /\ inner'[m] # NoClient
          /\ \A q \in Mongos \ {m} : inner'[q] = inner[q]
      BY <2>0, <2>1, InitKeepsTable DEF ConnectToHosts
    <3> QED
      BY <2>1, <3>1 DEF ConnectToHosts, TypeOK, TableOK
  <2>2. ASSUME NEW m \in Mongos, NEW c \in HostClients, WrapClient(m, c)
        PROVE  TypeOK'
    <3>1. /\ TableOK(inner', client')
          /\ inner'[m] # NoClient
          /\ \A q \in Mongos \ {m} : inner'[q] = inner[q]
      BY <2>0, <2>2, InitKeepsTable, HostAssumption DEF WrapClient
    <3> QED
      BY <2>2, <3>1 DEF WrapClient, TypeOK, TableOK
  <2>3. ASSUME NEW m \in Mongos, NEW d \in Stores, Write(m, d) \/ Query(m, d)
        PROVE  TypeOK'
    <3>1. inner[m] \in Clients
      BY <2>3 DEF Write, Query, IsOpen, OpenIn, TypeOK
    <3> QED
      BY <2>3, <3>1 DEF Write, Query, TypeOK, scopeVars, mongoVars
  <2>4. ASSUME NEW m \in Mongos, NEW d \in Databases,
               NEW accepted \in BOOLEAN, Auth(m, d, accepted)
        PROVE  TypeOK'
    <3> DEFINE logins == IF accepted THEN {d} ELSE {}
    <3>1. inner[m] \in Clients /\ logins \in SUBSET Databases
      BY <2>4 DEF Auth, TypeOK
    <3> HIDE DEF logins
    <3>2. /\ TableOK(inner', client')
          /\ inner'[m] # NoClient
          /\ \A q \in Mongos \ {m} : inner'[q] = inner[q]
      <4>1. CASE InitMongoConnection(m, inner[m], mongoOptions[m],
                                     Close(client, inner[m]), logins)
        BY <2>0, <3>1, <4>1, InitKeepsTable, CloseKeepsTable DEF TypeOK
      <4>2. CASE /\ client' = [client EXCEPT ![inner[m]] = LoggedIn(@, logins)]
                 /\ d \notin client[inner[m]].authed
                 /\ inner' = inner
        <5>1. /\ LoggedIn(client[inner[m]], logins) \in Client
              /\ LoggedIn(client[inner[m]], logins).status = client[inner[m]].status
          BY <3>1, ClientRecords DEF TypeOK
        <5>2. client[inner[m]].status # "unused"
          BY <3>1, NoneAssumption DEF TypeOK
        <5>3. /\ client' \in [Clients -> Client]
              /\ client'[inner[m]].status # "unused"
              /\ \A x \in Clients \ {inner[m]} : client'[x] = client[x]
          BY <3>1, <4>2, <5>1, <5>2 DEF TypeOK
        <5>4. TableOK(inner, client')
          BY <2>0, <3>1, <5>3 DEF TableOK
        <5>5. inner[m] # NoClient
          BY <3>1, NoneAssumption
        <5> QED
          BY <4>2, <5>4, <5>5
      <4> QED
        BY <2>4, <4>1, <4>2 DEF Auth, logins
    <3> QED
      BY <2>4, <3>1, <3>2 DEF Auth, scopeVars, TypeOK, TableOK
  <2>5. ASSUME NEW m \in Mongos, NEW d \in Databases, Logout(m, d)
        PROVE  TypeOK'
    <3>1. inner[m] \in Clients /\ client[inner[m]].status # "unused"
      BY <2>5 DEF Logout, IsOpen, OpenIn, TypeOK
    <3>2. /\ client' \in [Clients -> Client]
          /\ client'[inner[m]].status = client[inner[m]].status
          /\ \A x \in Clients \ {inner[m]} : client'[x] = client[x]
      BY <2>5, <3>1 DEF Logout, TypeOK, Client
    <3> QED
      BY <2>5, <3>1, <3>2 DEF Logout, TypeOK, scopeVars, mongoVars
  <2>6. CASE Exhaust
    BY <2>6 DEF Exhaust, TypeOK, scopeVars, mongoVars
  <2>7. CASE Cleanup
    <3>1. \A c \in Clients : Shut(client[c]) \in Client
                            /\ Shut(client[c]).status = "closed"
      BY ClientRecords DEF TypeOK
    <3>2. \A c \in Clients : \/ client'[c] = client[c]
                             \/ /\ client'[c] = Shut(client[c])
                                /\ client[c].status # "unused"
      BY <2>7, NoneAssumption DEF Cleanup, TypeOK
    <3>3. client' \in [Clients -> Client]
      BY <2>7, <3>1 DEF Cleanup, TypeOK
    <3> QED
      BY <2>7, <3>1, <3>2, <3>3 DEF Cleanup, TypeOK, mongoVars
  <2>8. ASSUME NEW on \in BOOLEAN, SetShellConcern(on)
        PROVE  TypeOK'
    BY <2>8 DEF SetShellConcern, TypeOK, mongoVars
  <2>9. ASSUME NEW c \in HostClients, HostCloses(c)
        PROVE  TypeOK'
    <3>1. c \in Clients
      BY HostAssumption
    <3>2. TableOK(inner, Closed(client, c))
      BY <2>0, <3>1, CloseKeepsTable
    <3> QED
      BY <2>9, <3>2 DEF HostCloses, TypeOK, TableOK, scopeVars, mongoVars
  <2>10. CASE UNCHANGED vars
    BY <2>10 DEF vars, TypeOK
  <2> QED
    BY <2>1, <2>2, <2>3, <2>4, <2>5, <2>6, <2>7, <2>8, <2>9, <2>10 DEF Next
<1> QED
  BY <1>1, <1>2, PTL DEF Spec

-----------------------------------------------------------------------------
(* Who owns which driver client.                                           *)

\* NoOrphanClient and NoSharedClient, of a table of the clients.
Owned(table) ==
  /\ \A x \in Clients \ HostClients :
       table[x].status = "open" => \E q \in Mongos : inner[q] = x
  /\ NoSharedClient

\* A Mongo object that had no client, or has closed the one it had, owns the
\* client initMongoConnection gives it alone, and leaves none behind.
LEMMA InitOwns ==
  ASSUME NEW m \in Mongos, NEW c \in Clients \union {NoClient},
         NEW p \in {"default", "host"}, NEW table,
         NEW logins \in SUBSET Databases,
         TableOK(inner, table), Owned(table),
         InitMongoConnection(m, c, p, table, logins),
         \/ c = inner[m]
         \/ inner[m] = NoClient /\ c \in HostClients \union {NoClient}
  PROVE  NoOrphanClient' /\ NoSharedClient'
<1>0. table \in [Clients -> Client]
  BY DEF TableOK
<1>1. PICK n \in Clients, rec \in Client :
        /\ rec.status = "open"
        /\ inner' = [inner EXCEPT ![m] = n]
        /\ client' = [table EXCEPT ![n] = LoggedIn(rec, logins)]
        /\ \/ OpenIn(table, c) /\ n = c /\ rec = Kept(table[c])
           \/ /\ ~OpenIn(table, c)
              /\ table[n].status = "unused"
              /\ rec = Created(p)
  BY <1>0, InitConnects
<1>2. /\ inner'[m] = n
      /\ \A q \in Mongos \ {m} : inner'[q] = inner[q]
      /\ \A x \in Clients \ {n} : client'[x] = table[x]
  BY <1>1 DEF TableOK
<1>3. ASSUME NEW x \in Clients \ HostClients, client'[x].status = "open", x # n
      PROVE  \E q \in Mongos : inner'[q] = x
  <2>1. table[x].status = "open"
    BY <1>2, <1>3
  <2>2. PICK q \in Mongos : inner[q] = x
    BY <2>1 DEF Owned
  <2>3. q # m
    BY <1>1, <1>3, <2>1, <2>2, NoneAssumption DEF OpenIn
  <2> QED
    BY <1>2, <2>2, <2>3
<1>4. NoOrphanClient'
  BY <1>2, <1>3 DEF NoOrphanClient
<1>5. ASSUME NEW q \in Mongos, q # m, inner'[q] = n
      PROVE  n \in HostClients
  <2>1. inner[q] = n
    BY <1>2, <1>5
  <2>2. table[n].status # "unused"
    BY <2>1, NoneAssumption DEF TableOK
  <2> QED
    BY <1>1, <1>5, <2>1, <2>2, NoneAssumption DEF Owned, NoSharedClient
<1>6. NoSharedClient'
  BY <1>2, <1>5 DEF Owned, NoSharedClient
<1> QED
  BY <1>4, <1>6

\* Closing the client of a Mongo object leaves no client unowned.
LEMMA CloseKeepsOwned ==
  ASSUME TableOK(inner, client), NoOrphanClient, NoSharedClient,
         NEW c \in Clients
  PROVE  Owned(Closed(client, c))
<1>1. /\ Closed(client, c)[c].status = "closed"
      /\ \A x \in Clients \ {c} : Closed(client, c)[x] = client[x]
  BY ClientRecords DEF TableOK, Closed
<1> QED
  BY <1>1 DEF NoOrphanClient, Owned

\* What one step does to the owners of the clients.
LEMMA OwnershipStep ==
  ASSUME TypeOK, NoOrphanClient, NoSharedClient, [Next]_vars
  PROVE  NoOrphanClient' /\ NoSharedClient'
<1>0. TableOK(inner, client) /\ Owned(client)
  BY DEF TypeOK, TableOK, Owned, NoOrphanClient
<1>1. ASSUME NEW m \in Mongos, ConnectToHosts(m)
      PROVE  NoOrphanClient' /\ NoSharedClient'
  BY <1>0, <1>1, InitOwns DEF ConnectToHosts
<1>2. ASSUME NEW m \in Mongos, NEW c \in HostClients, WrapClient(m, c)
      PROVE  NoOrphanClient' /\ NoSharedClient'
  BY <1>0, <1>2, InitOwns, HostAssumption DEF WrapClient
<1>3. ASSUME inner' = inner,
             \A x \in Clients : client'[x].status = "open" => client[x].status = "open"
      PROVE  NoOrphanClient' /\ NoSharedClient'
  BY <1>3 DEF NoOrphanClient, NoSharedClient
<1>4. ASSUME NEW m \in Mongos, NEW d \in Stores, Write(m, d) \/ Query(m, d)
      PROVE  NoOrphanClient' /\ NoSharedClient'
  BY <1>3, <1>4 DEF Write, Query, mongoVars
<1>5. ASSUME NEW m \in Mongos, NEW d \in Databases,
             NEW accepted \in BOOLEAN, Auth(m, d, accepted)
      PROVE  NoOrphanClient' /\ NoSharedClient'
  <2> DEFINE logins == IF accepted THEN {d} ELSE {}
  <2>1. /\ inner[m] \in Clients
        /\ logins \in SUBSET Databases
        /\ mongoOptions[m] \in {"default", "host"}
    BY <1>5 DEF Auth, TypeOK
  <2> HIDE DEF logins
  <2>2. CASE InitMongoConnection(m, inner[m], mongoOptions[m],
                                 Close(client, inner[m]), logins)
    <3>1. /\ TableOK(inner, Close(client, inner[m]))
          /\ Owned(Close(client, inner[m]))
      BY <1>0, <2>1, CloseKeepsTable, CloseKeepsOwned
    <3> QED
      BY <2>1, <2>2, <3>1, InitOwns
  <2>3. CASE /\ client' = [client EXCEPT ![inner[m]] = LoggedIn(@, logins)]
             /\ inner' = inner
    <3>1. LoggedIn(client[inner[m]], logins).status = client[inner[m]].status
      BY <2>1, ClientRecords DEF TypeOK
    <3> QED
      BY <1>3, <2>1, <2>3, <3>1 DEF TypeOK
  <2> QED
    BY <1>5, <2>2, <2>3 DEF Auth, logins
<1>6. ASSUME NEW m \in Mongos, NEW d \in Databases, Logout(m, d)
      PROVE  NoOrphanClient' /\ NoSharedClient'
  <2>1. inner[m] \in Clients
    BY <1>6 DEF Logout, IsOpen, OpenIn, TypeOK
  <2> QED
    BY <1>3, <1>6, <2>1 DEF Logout, TypeOK, mongoVars, Client
<1>7. CASE Exhaust
  BY <1>3, <1>7 DEF Exhaust, mongoVars
<1>8. CASE Cleanup
  BY <1>3, <1>8, ClientRecords DEF Cleanup, mongoVars, TypeOK
<1>9. ASSUME NEW on \in BOOLEAN, SetShellConcern(on)
      PROVE  NoOrphanClient' /\ NoSharedClient'
  BY <1>3, <1>9 DEF SetShellConcern, mongoVars
<1>10. ASSUME NEW c \in HostClients, HostCloses(c)
       PROVE  NoOrphanClient' /\ NoSharedClient'
  BY <1>0, <1>3, <1>10, CloseKeepsTable, ClientRecords, HostAssumption
     DEF HostCloses, mongoVars, TypeOK
<1>11. CASE UNCHANGED vars
  BY <1>3, <1>11 DEF vars
<1> QED
  BY <1>1, <1>2, <1>4, <1>5, <1>6, <1>7, <1>8, <1>9, <1>10, <1>11 DEF Next

\* No driver client the scope created is ever left open with nothing pointing at
\* it: re-authentication closes the old client before it builds the new one.
THEOREM NoOrphans == Spec => []NoOrphanClient
<1>1. Init => NoOrphanClient
  BY DEF Init, NoOrphanClient, Blank
<1>2. Init => NoSharedClient
  BY DEF Init, NoSharedClient
<1> QED
  BY <1>1, <1>2, TypeCorrect, OwnershipStep, PTL DEF Spec

\* Two Mongo objects share a driver client only when the host application gave
\* it to both.
THEOREM NoSharing == Spec => []NoSharedClient
<1>1. Init => NoOrphanClient
  BY DEF Init, NoOrphanClient, Blank
<1>2. Init => NoSharedClient
  BY DEF Init, NoSharedClient
<1> QED
  BY <1>1, <1>2, TypeCorrect, OwnershipStep, PTL DEF Spec

-----------------------------------------------------------------------------
(* What a step may do to the client of a Mongo object.                     *)

\* initMongoConnection on a Mongo object leaves it with an open client, and
\* changes the client of no other Mongo object.
LEMMA InitReconnects ==
  ASSUME NEW m \in Mongos, NEW c \in Clients \union {NoClient},
         NEW p \in {"default", "host"}, NEW table,
         NEW logins \in SUBSET Databases,
         TableOK(inner, table),
         InitMongoConnection(m, c, p, table, logins)
  PROVE  /\ inner'[m] \in Clients
         /\ client'[inner'[m]].status = "open"
         /\ logins \subseteq client'[inner'[m]].session
         /\ \A q \in Mongos \ {m} :
              /\ inner'[q] = inner[q]
              /\ inner[q] \in Clients =>
                   client'[inner[q]].status = table[inner[q]].status
<1>0. table \in [Clients -> Client]
  BY DEF TableOK
<1>1. PICK n \in Clients, rec \in Client :
        /\ rec.status = "open"
        /\ inner' = [inner EXCEPT ![m] = n]
        /\ client' = [table EXCEPT ![n] = LoggedIn(rec, logins)]
        /\ \/ OpenIn(table, c) /\ n = c /\ rec = Kept(table[c])
           \/ /\ ~OpenIn(table, c)
              /\ table[n].status = "unused"
              /\ rec = Created(p)
  BY <1>0, InitConnects
<1>2. /\ inner'[m] = n
      /\ client'[n] = LoggedIn(rec, logins)
      /\ \A q \in Mongos \ {m} : inner'[q] = inner[q]
      /\ \A x \in Clients \ {n} : client'[x] = table[x]
  BY <1>1 DEF TableOK
<1>3. client'[n].status = "open" /\ logins \subseteq client'[n].session
  BY <1>1, <1>2, ClientRecords
<1>4. ASSUME NEW q \in Mongos \ {m}, inner[q] \in Clients
      PROVE  client'[inner[q]].status = table[inner[q]].status
  <2>1. table[inner[q]].status # "unused"
    BY <1>4, NoneAssumption DEF TableOK
  <2>2. inner[q] = n => table[n].status = "open"
    BY <1>1, <2>1 DEF OpenIn
  <2> QED
    BY <1>2, <1>3, <1>4, <2>2
<1> QED
  BY <1>2, <1>3, <1>4

\* A step takes the client of a Mongo object from open to anything else only as
\* ClientPulledOnlyByCleanup says.
LEMMA PulledStep ==
  ASSUME TypeOK, NoSharedClient, [Next]_vars,
         NEW m \in Mongos, IsOpen(inner[m]), client'[inner'[m]].status # "open"
  PROVE  inner[m] \in HostClients \/ (m \in registered /\ registered' = {})
<1> DEFINE Goal == inner[m] \in HostClients \/ (m \in registered /\ registered' = {})
<1> HIDE DEF Goal
<1>0. /\ TableOK(inner, client)
      /\ inner[m] \in Clients
      /\ client[inner[m]].status = "open"
  BY DEF TypeOK, TableOK, IsOpen, OpenIn
<1>1. ASSUME NEW q \in Mongos, ConnectToHosts(q)
      PROVE  Goal
  <2>1. /\ InitMongoConnection(q, NoClient, "default", client, {})
        /\ inner[q] = NoClient
    BY <1>1 DEF ConnectToHosts
  <2>2. /\ inner'[q] \in Clients
        /\ client'[inner'[q]].status = "open"
        /\ \A r \in Mongos \ {q} :
             /\ inner'[r] = inner[r]
             /\ inner[r] \in Clients =>
                  client'[inner[r]].status = client[inner[r]].status
    <3>1. /\ NoClient \in Clients \union {NoClient}
          /\ "default" \in {"default", "host"}
          /\ {} \in SUBSET Databases
          /\ TableOK(inner, client)
      BY <1>0
    <3>2. /\ inner'[q] \in Clients
          /\ client'[inner'[q]].status = "open"
          /\ {} \subseteq client'[inner'[q]].session
          /\ \A r \in Mongos \ {q} :
               /\ inner'[r] = inner[r]
               /\ inner[r] \in Clients =>
                    client'[inner[r]].status = client[inner[r]].status
      BY <2>1, <3>1, InitReconnects, Z3
    <3> QED
      BY <3>2
  <2> QED
    BY <1>0, <2>1, <2>2, NoneAssumption
<1>2. ASSUME NEW q \in Mongos, NEW c \in HostClients, WrapClient(q, c)
      PROVE  Goal
  <2>1. /\ InitMongoConnection(q, c, "host", client, {})
        /\ inner[q] = NoClient
        /\ c \in Clients
    BY <1>2, HostAssumption DEF WrapClient
  <2>2. /\ inner'[q] \in Clients
        /\ client'[inner'[q]].status = "open"
        /\ \A r \in Mongos \ {q} :
             /\ inner'[r] = inner[r]
             /\ inner[r] \in Clients =>
                  client'[inner[r]].status = client[inner[r]].status
    <3>1. /\ c \in Clients \union {NoClient}
          /\ "host" \in {"default", "host"}
          /\ {} \in SUBSET Databases
          /\ TableOK(inner, client)
      BY <1>0, <2>1
    <3>2. /\ inner'[q] \in Clients
          /\ client'[inner'[q]].status = "open"
          /\ {} \subseteq client'[inner'[q]].session
          /\ \A r \in Mongos \ {q} :
               /\ inner'[r] = inner[r]
               /\ inner[r] \in Clients =>
                    client'[inner[r]].status = client[inner[r]].status
      BY <2>1, <3>1, InitReconnects, Z3
    <3> QED
      BY <3>2
  <2> QED
    BY <1>0, <2>1, <2>2, NoneAssumption
<1>3. ASSUME inner' = inner,
             \A x \in Clients : client'[x].status = client[x].status
      PROVE  FALSE
  BY <1>0, <1>3
<1>4. ASSUME NEW q \in Mongos, NEW d \in Stores, Write(q, d) \/ Query(q, d)
      PROVE  Goal
  BY <1>3, <1>4 DEF Write, Query, mongoVars
<1>5. ASSUME NEW q \in Mongos, NEW d \in Databases,
             NEW accepted \in BOOLEAN, Auth(q, d, accepted)
      PROVE  Goal
  <2> DEFINE logins == IF accepted THEN {d} ELSE {}
  <2>1. /\ inner[q] \in Clients
        /\ logins \in SUBSET Databases
        /\ mongoOptions[q] \in {"default", "host"}
    BY <1>5 DEF Auth, TypeOK
  <2> HIDE DEF logins
  <2>2. CASE InitMongoConnection(q, inner[q], mongoOptions[q],
                                 Close(client, inner[q]), logins)
    <3>1. /\ TableOK(inner, Close(client, inner[q]))
          /\ \A x \in Clients \ {inner[q]} : Close(client, inner[q])[x] = client[x]
      BY <1>0, <2>1, CloseKeepsTable
    <3>2. q # m /\ inner[q] = inner[m]
      BY <1>0, <2>1, <2>2, <3>1, InitReconnects, SMTT(60)
    <3> QED
      BY <1>0, <3>2, NoneAssumption DEF NoSharedClient, Goal
  <2>3. CASE /\ client' = [client EXCEPT ![inner[q]] = LoggedIn(@, logins)]
             /\ inner' = inner
    <3>1. LoggedIn(client[inner[q]], logins).status = client[inner[q]].status
      BY <2>1, ClientRecords DEF TypeOK
    <3> QED
      BY <1>3, <2>1, <2>3, <3>1 DEF TypeOK
  <2> QED
    BY <1>5, <2>2, <2>3 DEF Auth, logins
<1>6. ASSUME NEW q \in Mongos, NEW d \in Databases, Logout(q, d)
      PROVE  Goal
  <2>1. inner[q] \in Clients
    BY <1>6 DEF Logout, IsOpen, OpenIn, TypeOK
  <2> QED
    BY <1>3, <1>6, <2>1 DEF Logout, TypeOK, mongoVars, Client
<1>7. CASE Exhaust
  BY <1>3, <1>7 DEF Exhaust, mongoVars
<1>8. CASE Cleanup
  <2>1. PICK q \in registered : inner[q] = inner[m]
    BY <1>0, <1>8 DEF Cleanup, mongoVars, TypeOK
  <2>2. q = m \/ inner[m] \in HostClients
    BY <1>0, <2>1, NoneAssumption DEF NoSharedClient, TypeOK
  <2> QED
    BY <1>8, <2>1, <2>2 DEF Cleanup, Goal
<1>9. ASSUME NEW on \in BOOLEAN, SetShellConcern(on)
      PROVE  Goal
  BY <1>3, <1>9 DEF SetShellConcern, mongoVars
<1>10. ASSUME NEW c \in HostClients, HostCloses(c)
       PROVE  Goal
  <2>1. inner[m] = c
    BY <1>0, <1>10, CloseKeepsTable, HostAssumption DEF HostCloses, mongoVars
  <2> QED
    BY <2>1 DEF Goal
<1>11. CASE UNCHANGED vars
  BY <1>3, <1>11 DEF vars
<1> QED
  BY <1>1, <1>2, <1>4, <1>5, <1>6, <1>7, <1>8, <1>9, <1>10, <1>11 DEF Next, Goal

\* A Mongo object loses its client under it only to cleanup, or because the
\* client is the host application's.
THEOREM PulledOnlyByCleanup == Spec => ClientPulledOnlyByCleanup
<1>1. TypeOK /\ NoSharedClient /\ [Next]_vars
      => [\A m \in Mongos :
            IsOpen(inner[m]) /\ client'[inner'[m]].status # "open"
            => inner[m] \in HostClients \/ (m \in registered /\ registered' = {})]_vars
  BY PulledStep
<1> QED
  BY <1>1, TypeCorrect, NoSharing, PTL DEF Spec, ClientPulledOnlyByCleanup

-----------------------------------------------------------------------------
(* Authentication.                                                         *)

\* When auth succeeds the Mongo object's client is open and logged in, whether
\* the client was kept or replaced.
THEOREM AuthEffective == Spec => AuthTakesEffect
<1>1. ASSUME TypeOK, NEW m \in Mongos, NEW d \in Databases, Auth(m, d, TRUE)
      PROVE  /\ client'[inner'[m]].status = "open"
             /\ d \in client'[inner'[m]].session
  <2>1. inner[m] \in Clients /\ mongoOptions[m] \in {"default", "host"}
    BY <1>1 DEF Auth, TypeOK
  <2>2. CASE InitMongoConnection(m, inner[m], mongoOptions[m],
                                 Close(client, inner[m]), {d})
    <3>1. TableOK(inner, Close(client, inner[m]))
      BY <1>1, <2>1, CloseKeepsTable DEF TypeOK, TableOK
    <3> QED
      BY <2>1, <2>2, <3>1, InitReconnects, SMTT(60)
  <2>3. CASE /\ client[inner[m]].status = "open"
             /\ client' = [client EXCEPT ![inner[m]] = LoggedIn(@, {d})]
             /\ inner' = inner
    <3>1. /\ LoggedIn(client[inner[m]], {d}).status = "open"
          /\ d \in LoggedIn(client[inner[m]], {d}).session
      BY <1>1, <2>1, <2>3, ClientRecords DEF TypeOK
    <3> QED
      BY <1>1, <2>1, <2>3, <3>1 DEF TypeOK
  <2> QED
    BY <1>1, <2>2, <2>3 DEF Auth
<1>2. TypeOK /\ [Next]_vars
      => [\A m \in Mongos, d \in Databases :
            client' # client /\ Auth(m, d, TRUE) =>
              client'[inner'[m]].status = "open" /\ d \in client'[inner'[m]].session]_vars
  BY <1>1
<1> QED
  BY <1>2, TypeCorrect, PTL DEF Spec, AuthTakesEffect

\* DriverKnowsLogins, of a table of the clients.
KnowsLogins(table) == \A x \in Clients : table[x].session \subseteq table[x].authed

\* Neither a client that is built nor one that is kept has a login the driver
\* does not know of.
LEMMA InitKnowsLogins ==
  ASSUME NEW m \in Mongos, NEW c \in Clients \union {NoClient},
         NEW p \in {"default", "host"}, NEW table,
         NEW logins \in SUBSET Databases,
         TableOK(inner, table), KnowsLogins(table),
         InitMongoConnection(m, c, p, table, logins)
  PROVE  KnowsLogins(client')
<1>0. table \in [Clients -> Client]
  BY DEF TableOK
<1>1. PICK n \in Clients, rec \in Client :
        /\ rec.status = "open"
        /\ inner' = [inner EXCEPT ![m] = n]
        /\ client' = [table EXCEPT ![n] = LoggedIn(rec, logins)]
        /\ \/ OpenIn(table, c) /\ n = c /\ rec = Kept(table[c])
           \/ /\ ~OpenIn(table, c)
              /\ table[n].status = "unused"
              /\ rec = Created(p)
  BY <1>0, InitConnects
<1>2. rec.session \subseteq rec.authed
  <2>1. CASE n = c /\ rec = Kept(table[c])
    BY <1>0, <2>1, ClientRecords DEF KnowsLogins
  <2>2. CASE rec = Created(p)
    BY <2>2, ClientRecords
  <2> QED
    BY <1>1, <2>1, <2>2
<1>3. LoggedIn(rec, logins).session \subseteq LoggedIn(rec, logins).authed
  BY <1>2, ClientRecords
<1> QED
  BY <1>0, <1>1, <1>3 DEF KnowsLogins

\* One step never gives the server a login the driver does not know of.
LEMMA KnowsLoginsStep ==
  ASSUME TypeOK, DriverKnowsLogins, [Next]_vars
  PROVE  DriverKnowsLogins'
<1>0. TableOK(inner, client) /\ KnowsLogins(client)
  BY DEF TypeOK, TableOK, DriverKnowsLogins, KnowsLogins
<1>1. ASSUME KnowsLogins(client')
      PROVE  DriverKnowsLogins'
  BY <1>1 DEF KnowsLogins, DriverKnowsLogins
<1>2. ASSUME NEW c \in Clients
      PROVE  KnowsLogins(Closed(client, c))
  <2>1. Shut(client[c]).session \subseteq Shut(client[c]).authed
    BY ClientRecords DEF TypeOK
  <2> QED
    BY <1>0, <2>1, CloseKeepsTable DEF KnowsLogins
<1>3. ASSUME NEW m \in Mongos, ConnectToHosts(m)
      PROVE  DriverKnowsLogins'
  BY <1>0, <1>1, <1>3, InitKnowsLogins DEF ConnectToHosts
<1>4. ASSUME NEW m \in Mongos, NEW c \in HostClients, WrapClient(m, c)
      PROVE  DriverKnowsLogins'
  BY <1>0, <1>1, <1>4, InitKnowsLogins, HostAssumption DEF WrapClient
<1>5. ASSUME client' = client
      PROVE  DriverKnowsLogins'
  BY <1>5 DEF DriverKnowsLogins
<1>6. ASSUME NEW m \in Mongos, NEW d \in Databases,
             NEW accepted \in BOOLEAN, Auth(m, d, accepted)
      PROVE  DriverKnowsLogins'
  <2> DEFINE logins == IF accepted THEN {d} ELSE {}
  <2>1. /\ inner[m] \in Clients
        /\ logins \in SUBSET Databases
        /\ mongoOptions[m] \in {"default", "host"}
    BY <1>6 DEF Auth, TypeOK
  <2> HIDE DEF logins
  <2>2. CASE InitMongoConnection(m, inner[m], mongoOptions[m],
                                 Close(client, inner[m]), logins)
    <3>1. /\ TableOK(inner, Close(client, inner[m]))
          /\ KnowsLogins(Close(client, inner[m]))
      BY <1>0, <1>2, <2>1, CloseKeepsTable
    <3> QED
      BY <1>1, <2>1, <2>2, <3>1, InitKnowsLogins
  <2>3. CASE client' = [client EXCEPT ![inner[m]] = LoggedIn(@, logins)]
    <3>1. LoggedIn(client[inner[m]], logins).session
            \subseteq LoggedIn(client[inner[m]], logins).authed
      BY <1>0, <2>1, ClientRecords DEF TypeOK, KnowsLogins
    <3> QED
      BY <1>0, <1>1, <2>1, <2>3, <3>1 DEF TypeOK, KnowsLogins
  <2> QED
    BY <1>6, <2>2, <2>3 DEF Auth, logins
<1>7. ASSUME NEW m \in Mongos, NEW d \in Databases, Logout(m, d)
      PROVE  DriverKnowsLogins'
  <2>1. inner[m] \in Clients
    BY <1>7 DEF Logout, IsOpen, OpenIn, TypeOK
  <2>2. /\ client'[inner[m]].session \subseteq client[inner[m]].session
        /\ client'[inner[m]].authed = client[inner[m]].authed
        /\ \A x \in Clients \ {inner[m]} : client'[x] = client[x]
    BY <1>7, <2>1 DEF Logout, TypeOK, Client
  <2> QED
    BY <1>0, <1>1, <2>1, <2>2 DEF KnowsLogins
<1>8. CASE Cleanup
  <2>1. \A x \in Clients : client'[x] \in {client[x], Shut(client[x])}
    BY <1>8 DEF Cleanup
  <2>2. \A x \in Clients : Shut(client[x]).session = {}
    BY ClientRecords DEF TypeOK
  <2> QED
    BY <1>0, <1>1, <2>1, <2>2 DEF KnowsLogins
<1>9. ASSUME NEW c \in HostClients, HostCloses(c)
      PROVE  DriverKnowsLogins'
  BY <1>1, <1>2, <1>9, HostAssumption DEF HostCloses
<1>10. ASSUME NEW m \in Mongos, NEW d \in Stores, Write(m, d) \/ Query(m, d)
       PROVE  DriverKnowsLogins'
  BY <1>5, <1>10 DEF Write, Query
<1>11. ASSUME NEW on \in BOOLEAN, SetShellConcern(on)
       PROVE  DriverKnowsLogins'
  BY <1>5, <1>11 DEF SetShellConcern
<1>12. CASE Exhaust \/ UNCHANGED vars
  BY <1>5, <1>12 DEF Exhaust, vars
<1> QED
  BY <1>3, <1>4, <1>6, <1>7, <1>8, <1>9, <1>10, <1>11, <1>12 DEF Next

\* The server never has a login the driver does not know of, so the driver's
\* answer tells Mongo.auth rightly when the client has to be replaced.
THEOREM LoginsKnown == Spec => []DriverKnowsLogins
<1>1. Init => DriverKnowsLogins
  BY DEF Init, DriverKnowsLogins, HostMade, Blank
<1> QED
  BY <1>1, TypeCorrect, KnowsLoginsStep, PTL DEF Spec

-----------------------------------------------------------------------------
(* What a step may cut off from the server.                                *)

\* initMongoConnection closes no client.
LEMMA InitClosesNothing ==
  ASSUME NEW m \in Mongos, NEW c \in Clients \union {NoClient},
         NEW p \in {"default", "host"}, NEW table \in [Clients -> Client],
         NEW logins \in SUBSET Databases,
         InitMongoConnection(m, c, p, table, logins)
  PROVE  \A x \in Clients : table[x].status = "open" => client'[x].status = "open"
<1>1. PICK n \in Clients, rec \in Client :
        /\ rec.status = "open"
        /\ inner' = [inner EXCEPT ![m] = n]
        /\ client' = [table EXCEPT ![n] = LoggedIn(rec, logins)]
        /\ \/ OpenIn(table, c) /\ n = c /\ rec = Kept(table[c])
           \/ /\ ~OpenIn(table, c)
              /\ table[n].status = "unused"
              /\ rec = Created(p)
  BY InitConnects
<1>2. LoggedIn(rec, logins).status = "open"
  BY <1>1, ClientRecords
<1> QED
  BY <1>1, <1>2

\* An authentication that closes the client it finds replaces it.
LEMMA AuthReplaces ==
  ASSUME TypeOK, NEW m \in Mongos, inner[m] \in Clients, NEW logins \in SUBSET Databases,
         InitMongoConnection(m, inner[m], mongoOptions[m], Close(client, inner[m]), logins)
  PROVE  /\ inner'[m] # inner[m]
         /\ \A x \in Clients \ {inner[m]} :
              client[x].status = "open" => client'[x].status = "open"
<1> DEFINE c == inner[m]
           table == Close(client, c)
<1>1. /\ TableOK(inner, table) /\ table = Closed(client, c)
      /\ table[c] = Shut(client[c])
      /\ \A x \in Clients \ {c} : table[x] = client[x]
  BY CloseKeepsTable DEF TypeOK, TableOK
<1>2. table[c].status = "closed"
  BY <1>1, ClientRecords DEF TypeOK
<1>3. table \in [Clients -> Client] /\ mongoOptions[m] \in {"default", "host"}
  BY <1>1 DEF TableOK, TypeOK
<1>4. InitMongoConnection(m, c, mongoOptions[m], table, logins)
  OBVIOUS
<1> HIDE DEF table
<1>5. PICK n \in Clients, rec \in Client :
        /\ rec.status = "open"
        /\ inner' = [inner EXCEPT ![m] = n]
        /\ client' = [table EXCEPT ![n] = LoggedIn(rec, logins)]
        /\ \/ OpenIn(table, c) /\ n = c /\ rec = Kept(table[c])
           \/ /\ ~OpenIn(table, c)
              /\ table[n].status = "unused"
              /\ rec = Created(mongoOptions[m])
  BY <1>3, <1>4, InitConnects
<1>6. n # c
  BY <1>2, <1>5 DEF OpenIn
<1>7. inner'[m] # inner[m]
  BY <1>5, <1>6 DEF TypeOK
<1>8. \A x \in Clients : table[x].status = "open" => client'[x].status = "open"
  BY <1>3, <1>4, InitClosesNothing
<1> QED
  BY <1>1, <1>7, <1>8

\* Who may cut off client x in a step.
CutByOwner(x) ==
  \/ x \in HostClients
  \/ \E m \in Mongos : /\ inner[m] = x
                       /\ \/ m \in registered /\ registered' = {}
                          \/ /\ inner'[m] # inner[m]
                             /\ client[inner[m]].authed # {}

LEMMA CutStep ==
  ASSUME TypeOK, [Next]_vars, NEW x \in Clients, client[x].status = "open",
         client'[x].status # "open"
  PROVE  CutByOwner(x)
<1>1. ASSUME NEW m \in Mongos, ConnectToHosts(m) PROVE FALSE
  <2> DEFINE none == {}
  <2>1. InitMongoConnection(m, NoClient, "default", client, none)
    BY <1>1 DEF ConnectToHosts
  <2>2. none \in SUBSET Databases
    OBVIOUS
  <2> HIDE DEF none
  <2> QED
    BY <2>1, <2>2, InitClosesNothing DEF TypeOK
<1>2. ASSUME NEW m \in Mongos, NEW c \in HostClients, WrapClient(m, c) PROVE FALSE
  <2> DEFINE none == {}
  <2>1. InitMongoConnection(m, c, "host", client, none)
    BY <1>2 DEF WrapClient
  <2>2. none \in SUBSET Databases /\ c \in Clients
    BY HostAssumption
  <2> HIDE DEF none
  <2> QED
    BY <2>1, <2>2, InitClosesNothing DEF TypeOK
<1>3. ASSUME NEW m \in Mongos, NEW d \in Databases,
             NEW accepted \in BOOLEAN, Auth(m, d, accepted)
      PROVE  CutByOwner(x)
  <2> DEFINE logins == IF accepted THEN {d} ELSE {}
  <2>1. inner[m] \in Clients /\ logins \in SUBSET Databases
    BY <1>3 DEF Auth, TypeOK
  <2> HIDE DEF logins
  <2>2. CASE /\ d \in client[inner[m]].authed
             /\ InitMongoConnection(m, inner[m], mongoOptions[m],
                                    Close(client, inner[m]), logins)
    <3>1. inner'[m] # inner[m] /\ x = inner[m]
      BY <2>1, <2>2, AuthReplaces
    <3> QED
      BY <2>2, <3>1 DEF CutByOwner
  <2>3. CASE client' = [client EXCEPT ![inner[m]] = LoggedIn(@, logins)]
    <3>1. LoggedIn(client[inner[m]], logins).status = client[inner[m]].status
      BY <2>1, ClientRecords DEF TypeOK
    <3> QED
      BY <2>1, <2>3, <3>1 DEF TypeOK
  <2> QED
    BY <1>3, <2>2, <2>3 DEF Auth, logins
<1>4. ASSUME NEW m \in Mongos, NEW d \in Databases, Logout(m, d) PROVE FALSE
  <2>1. inner[m] \in Clients
    BY <1>4 DEF Logout, IsOpen, OpenIn, TypeOK
  <2> QED
    BY <1>4, <2>1 DEF Logout, TypeOK, Client
<1>5. CASE Cleanup
  BY <1>5 DEF Cleanup, CutByOwner, TypeOK
<1>6. ASSUME NEW c \in HostClients, HostCloses(c) PROVE CutByOwner(x)
  <2>1. x = c
    BY <1>6, CloseKeepsTable, HostAssumption DEF HostCloses, TypeOK, TableOK
  <2> QED
    BY <2>1 DEF CutByOwner
<1>7. ASSUME client' = client PROVE FALSE
  BY <1>7
<1>8. ASSUME NEW m \in Mongos, NEW d \in Stores, Write(m, d) \/ Query(m, d) PROVE FALSE
  BY <1>8 DEF Write, Query
<1>9. ASSUME NEW on \in BOOLEAN, SetShellConcern(on) PROVE FALSE
  BY <1>9 DEF SetShellConcern
<1>10. CASE Exhaust \/ UNCHANGED vars
  BY <1>10 DEF Exhaust, vars
<1> QED
  BY <1>1, <1>2, <1>3, <1>4, <1>5, <1>6, <1>8, <1>9, <1>10 DEF Next

\* The last called database and the cursor that is read are cut off only by an
\* authentication through a Mongo object of their client, by cleanup or by the host.
THEOREM HandlesCutByOwner == Spec => HandleCutOnlyByOwner
<1>1. ASSUME TypeOK, [Next]_vars, NEW h \in {lastCalled, cursor} \ {NoDB},
             IsOpen(h[1]), client'[h[1]].status # "open"
      PROVE  CutByOwner(h[1])
  <2>1. h[1] \in Clients
    BY <1>1 DEF TypeOK
  <2>2. client[h[1]].status = "open"
    BY <1>1 DEF IsOpen, OpenIn
  <2> QED
    BY <1>1, <2>1, <2>2, CutStep
<1>2. TypeOK /\ [Next]_vars
      => [\A h \in {lastCalled, cursor} \ {NoDB} :
            IsOpen(h[1]) /\ client'[h[1]].status # "open"
            => \/ h[1] \in HostClients
               \/ \E m \in Mongos :
                    /\ inner[m] = h[1]
                    /\ \/ m \in registered /\ registered' = {}
                       \/ /\ inner'[m] # inner[m]
                          /\ client[inner[m]].authed # {}]_vars
  BY <1>1 DEF CutByOwner
<1> QED
  BY <1>2, TypeCorrect, PTL DEF Spec, HandleCutOnlyByOwner

-----------------------------------------------------------------------------
(* Threads.  RuntimeThreads lets many threads call, connect and clean up at  *)
(* once; its registry of connections is one per scope.  What follows is      *)
(* proved of it for any threads, scopes and Mongo objects, depth of calls    *)
(* and number of clients.                                                    *)

(* A call has a scope or none, a registration a Mongo object, and only a   *)
(* cleanup walks.                                                          *)
Aimed ==
  \A t \in Threads :
    /\ pc[t] \in {"initGlobal", "enter"} => arg[t] \in Scopes \union {NoScope}
    /\ pc[t] = "register" => arg[t] \in MongoObjects /\ home[arg[t]] \in Scopes
    /\ pc[t] = "cleanup" <=> walk[t].scope \in Scopes

ThreadTypes == RuntimeTypeOK /\ Aimed

LEMMA ThreadTypesInit == RuntimeInit => ThreadTypes
<1> SUFFICES ASSUME RuntimeInit PROVE ThreadTypes
  OBVIOUS
<1> USE NoScopeAssumption
<1>1. walk \in [Threads -> [ scope : ScopeOrNone, todo : SUBSET MongoObjects,
                           changed : BOOLEAN, start : [MongoObjects -> Nat] ]]
  BY DEF RuntimeInit, ScopeOrNone, NoWalk
<1>2. frames \in [Threads -> Seq(ScopeOrNone)]
  BY DEF RuntimeInit
<1>3. RuntimeTypeOK
  BY <1>1, <1>2 DEF RuntimeInit, RuntimeTypeOK, ScopeOrNone
<1> QED
  BY <1>3 DEF RuntimeInit, ThreadTypes, NoWalk, Aimed

Walk == [ scope : ScopeOrNone, todo : SUBSET MongoObjects, changed : BOOLEAN,
          start : [MongoObjects -> Nat] ]

(* The walks go on as they were, but for Mongo objects they may come upon. *)
WalkedOn(walks, added) ==
  /\ walks \in [Threads -> Walk]
  /\ \A t \in Threads : /\ walks[t].scope = walk[t].scope /\ walks[t].start = walk[t].start
                        /\ walk[t].todo \subseteq walks[t].todo

LEMMA DisturbedWalks ==
  ASSUME ThreadTypes, NEW s \in Scopes, NEW added \in SUBSET MongoObjects, NEW seen \in SUBSET Threads
  PROVE  WalkedOn(Disturbed(s, added, seen), added)
<1> DEFINE d == Disturbed(s, added, seen)
<1>1. ASSUME NEW t \in Threads
      PROVE  /\ d[t] \in Walk /\ d[t].scope = walk[t].scope /\ d[t].start = walk[t].start
             /\ walk[t].todo \subseteq d[t].todo
  <2>1. walk[t] \in Walk
    BY DEF ThreadTypes, RuntimeTypeOK, Walk
  <2>2. CASE walk[t].scope # s
    BY <2>1, <2>2 DEF Disturbed
  <2>3. CASE walk[t].scope = s
    BY <2>1, <2>3 DEF Disturbed, Walk
  <2> QED
    BY <2>2, <2>3
<1>2. d = [t \in Threads |-> d[t]]
  BY DEF Disturbed
<1> HIDE DEF d
<1>3. d \in [Threads -> Walk]
  BY <1>1, <1>2
<1>4. WalkedOn(d, added)
  BY <1>1, <1>3 DEF WalkedOn
<1> QED
  BY <1>4 DEF d

LEMMA ThreadTypesNext ==
  ASSUME ThreadTypes, [RuntimeNext]_runtimeVars
  PROVE  ThreadTypes'
<1> USE NoScopeAssumption DEF ScopeOrNone
<1>1. CASE UNCHANGED runtimeVars
  BY <1>1 DEF runtimeVars, callVars, connVars, ThreadTypes, RuntimeTypeOK, Aimed
<1>2. ASSUME NEW t \in Threads, NEW s \in Scopes \union {NoScope}, Call(t, s)
      PROVE  ThreadTypes'
  BY <1>2 DEF Call, Running, Goto, callVars, connVars, ThreadTypes, RuntimeTypeOK, Aimed
<1>3. ASSUME NEW t \in Threads, InitGlobal(t) PROVE ThreadTypes'
  <2>1. CASE factory = "none"
    BY <1>3, <2>1 DEF InitGlobal, Goto, connVars, ThreadTypes, RuntimeTypeOK, Aimed
  <2>2. CASE factory # "none"
    <3>1. lost[t] + 1 \in Nat
      BY DEF ThreadTypes, RuntimeTypeOK
    <3>2. /\ lost' = [lost EXCEPT ![t] = lost[t] + 1]
          /\ pc' = [pc EXCEPT ![t] = "run"] /\ arg' = [arg EXCEPT ![t] = NoScope]
          /\ late' = [late EXCEPT ![t] = FALSE]
          /\ UNCHANGED <<factory, frames, executing, home, clients, open, registry, walk, through>>
      BY <1>3, <2>2 DEF InitGlobal, Goto, connVars
    <3>3. lost' \in [Threads -> Nat]
      BY <3>1, <3>2 DEF ThreadTypes, RuntimeTypeOK
    <3>4. RuntimeTypeOK'
      BY <3>2, <3>3 DEF ThreadTypes, RuntimeTypeOK
    <3>5. Aimed'
      <4>1. pc[t] = "initGlobal"
        BY <1>3 DEF InitGlobal
      <4> QED
        BY <3>2, <4>1 DEF ThreadTypes, RuntimeTypeOK, Aimed
    <3> QED
      BY <3>4, <3>5 DEF ThreadTypes
  <2> QED
    BY <2>1, <2>2
<1>4. ASSUME NEW t \in Threads, Enter(t) PROVE ThreadTypes'
  <2>1. arg[t] \in Scopes \union {NoScope} /\ frames[t] \in Seq(Scopes \union {NoScope})
    BY <1>4 DEF Enter, ThreadTypes, RuntimeTypeOK, Aimed
  <2>2. Append(frames[t], arg[t]) \in Seq(Scopes \union {NoScope}) /\ Append(frames[t], arg[t]) # << >>
    BY <2>1
  <2>3. Updated(executing[t], arg[t]) \in Scopes \union {NoScope}
    BY <2>1 DEF Updated, ThreadTypes, RuntimeTypeOK
  <2> QED
    BY <1>4, <2>1, <2>2, <2>3
       DEF Enter, Goto, connVars, ThreadTypes, RuntimeTypeOK, Aimed
<1>5. ASSUME NEW t \in Threads, Return(t) PROVE ThreadTypes'
  <2>1. frames[t] \in Seq(Scopes \union {NoScope}) /\ frames[t] # << >>
    BY <1>5 DEF Return, ThreadTypes, RuntimeTypeOK
  <2>2. /\ Len(frames[t]) \in Nat /\ Len(frames[t]) > 0
        /\ Len(frames[t]) - 1 \in 0 .. Len(frames[t])
    BY <2>1
  <2>3. SubSeq(frames[t], 1, Len(frames[t]) - 1) \in Seq(Scopes \union {NoScope})
    BY <2>1, <2>2
  <2>4. Len(SubSeq(frames[t], 1, Len(frames[t]) - 1)) = Len(frames[t]) - 1
    BY <2>1, <2>2
  <2>5. SubSeq(frames[t], 1, Len(frames[t]) - 1) = << >> => Len(frames[t]) = 1
    <3> DEFINE f == SubSeq(frames[t], 1, Len(frames[t]) - 1)
    <3>1. Len(f) = Len(frames[t]) - 1
      BY <2>4
    <3> HIDE DEF f
    <3>2. Len(<< >>) = 0
      BY EmptySeq
    <3>3. ASSUME f = << >> PROVE Len(frames[t]) = 1
      <4>1. Len(frames[t]) - 1 = 0
        BY <3>1, <3>2, <3>3
      <4> QED
        BY <2>2, <4>1
    <3> QED
      BY <3>3 DEF f
  <2> QED
    BY <1>5, <2>1, <2>3, <2>5 DEF Return, connVars, ThreadTypes, RuntimeTypeOK, Aimed
<1>6. ASSUME NEW t \in Threads, NEW m \in MongoObjects, NEW s \in Scopes, Connect(t, m, s)
      PROVE  ThreadTypes'
  BY <1>6 DEF Connect, Running, Goto, callVars, ThreadTypes, RuntimeTypeOK, Aimed
<1>7. ASSUME NEW t \in Threads, NEW m \in MongoObjects, Reconnect(t, m) PROVE ThreadTypes'
  BY <1>7 DEF Reconnect, Running, Goto, callVars, ThreadTypes, RuntimeTypeOK, Aimed
<1>8. ASSUME NEW t \in Threads, Register(t) PROVE ThreadTypes'
  <2>1. arg[t] \in MongoObjects /\ home[arg[t]] \in Scopes
    BY <1>8 DEF Register, ThreadTypes, Aimed
  <2>2. PICK seen \in SUBSET Threads : walk' = Disturbed(home[arg[t]], {arg[t]}, seen)
    BY <1>8 DEF Register
  <2>3. WalkedOn(walk', {arg[t]})
    <3>1. {arg[t]} \in SUBSET MongoObjects
      BY <2>1
    <3> QED
      BY <2>1, <2>2, <3>1, DisturbedWalks
  <2> QED
    BY <1>8, <2>1, <2>3, ZenonT(60)
       DEF Register, Goto, callVars, connVars, ThreadTypes, RuntimeTypeOK,
                            Aimed, WalkedOn, Walk
<1>9. ASSUME NEW t \in Threads, NEW s \in Scopes, CleanupBegins(t, s) PROVE ThreadTypes'
  BY <1>9
     DEF CleanupBegins, Running, Goto, callVars, connVars, ThreadTypes, RuntimeTypeOK,
         Aimed
<1>10. ASSUME NEW t \in Threads, NEW m \in MongoObjects, CleanupCloses(t, m) PROVE ThreadTypes'
  <2>1. walk \in [Threads -> Walk] /\ walk' = [walk EXCEPT ![t].todo = walk[t].todo \ {m}]
    BY <1>10 DEF CleanupCloses, ThreadTypes, RuntimeTypeOK, Walk
  <2>2. /\ walk' \in [Threads -> Walk]
        /\ \A u \in Threads : walk'[u].scope = walk[u].scope
    BY <2>1 DEF Walk
  <2>3. open' \in [MongoObjects -> BOOLEAN]
    BY <1>10 DEF CleanupCloses, ThreadTypes, RuntimeTypeOK
  <2> QED
  BY <1>10, <2>2, <2>3
     DEF Walk, CleanupCloses, callVars, ThreadTypes, RuntimeTypeOK, Aimed
<1>11. ASSUME NEW t \in Threads, CleanupThrows(t) PROVE ThreadTypes'
  BY <1>11
     DEF CleanupThrows, NoWalk, Goto, callVars, connVars, ThreadTypes, RuntimeTypeOK,
         Aimed
<1>12. ASSUME NEW t \in Threads, CleanupClears(t) PROVE ThreadTypes'
  <2>1. walk[t].scope \in Scopes
    BY <1>12 DEF CleanupClears, ThreadTypes, Aimed
  <2> DEFINE d == Disturbed(walk[t].scope, {}, {})
  <2>2. WalkedOn(d, {})
    <3>1. {} \in SUBSET MongoObjects /\ {} \in SUBSET Threads
      OBVIOUS
    <3> QED
      BY <2>1, <3>1, DisturbedWalks
  <2>3. walk' = [d EXCEPT ![t] = NoWalk]
    BY <1>12 DEF CleanupClears
  <2> HIDE DEF d
  <2>4. /\ NoWalk \in Walk /\ NoWalk.scope = NoScope
    BY DEF NoWalk, Walk
  <2>5. walk' \in [Threads -> Walk]
    BY <2>2, <2>3, <2>4 DEF WalkedOn
  <2>6. walk'[t].scope = NoScope /\ \A u \in Threads \ {t} : walk'[u].scope = walk[u].scope
    BY <2>2, <2>3, <2>4 DEF WalkedOn
  <2>7. registry' \in [Scopes -> SUBSET MongoObjects]
    BY <1>12, <2>1 DEF CleanupClears, ThreadTypes, RuntimeTypeOK
  <2> QED
    BY <1>12, <2>1, <2>5, <2>6, <2>7
       DEF Walk, CleanupClears, Goto, callVars, connVars, ThreadTypes, RuntimeTypeOK,
           Aimed
<1> QED
  BY <1>1, <1>2, <1>3, <1>4, <1>5, <1>6, <1>7, <1>8, <1>9, <1>10, <1>11, <1>12
     DEF RuntimeNext

(* Who loses calls.  A thread that is about to set the global factory has  *)
(* lost none, and the one that did will not try again; a call that began   *)
(* after another got through found the factory set.                        *)
OneFactory ==
  /\ \A t \in Threads :
       /\ lost[t] <= 1
       /\ frames[t] # << >> \/ pc[t] = "enter" => factory # "none"
       /\ pc[t] = "initGlobal" => factory # "other" /\ lost[t] = 0
       /\ factory # "mongo" => lost[t] = 0
       /\ through => factory # "none"
       /\ pc[t] = "initGlobal" => ~late[t]
  /\ factory = "mongo" => \E t \in Threads : lost[t] = 0 /\ pc[t] # "initGlobal"

LEMMA OneFactoryInit == RuntimeInit => OneFactory
BY DEF RuntimeInit, OneFactory

LEMMA OneFactoryNext ==
  ASSUME ThreadTypes, OneFactory, [RuntimeNext]_runtimeVars
  PROVE  OneFactory'
<1>1. CASE UNCHANGED <<factory, pc, frames, lost, through, late>>
  BY <1>1 DEF OneFactory
<1>2. ASSUME NEW t \in Threads, NEW s \in Scopes \union {NoScope}, Call(t, s)
      PROVE  OneFactory'
  <2>1. /\ UNCHANGED <<factory, frames, lost, through>>
        /\ late' = [late EXCEPT ![t] = through]
        /\ pc' = [pc EXCEPT ![t] = IF factory = "none" THEN "initGlobal" ELSE "enter"]
    BY <1>2 DEF Call, Goto
  <2> QED
    BY <2>1 DEF OneFactory, ThreadTypes, RuntimeTypeOK
<1>3. ASSUME NEW t \in Threads, InitGlobal(t) PROVE OneFactory'
  <2>1. pc[t] = "initGlobal" /\ lost[t] = 0 /\ UNCHANGED <<frames, through>>
    BY <1>3 DEF InitGlobal, OneFactory
  <2>2. CASE factory = "none"
    <3>1. factory' = "mongo" /\ pc' = [pc EXCEPT ![t] = "enter"] /\ UNCHANGED <<lost, late>>
      BY <1>3, <2>2 DEF InitGlobal, Goto
    <3>2. lost'[t] = 0 /\ pc'[t] # "initGlobal"
      BY <2>1, <3>1 DEF ThreadTypes, RuntimeTypeOK
    <3> QED
      BY <2>1, <2>2, <3>1, <3>2 DEF OneFactory, ThreadTypes, RuntimeTypeOK
  <2>3. CASE factory # "none"
    <3>1. factory = "mongo" /\ pc' = [pc EXCEPT ![t] = "run"] /\ UNCHANGED factory
      BY <1>3, <2>1, <2>3 DEF InitGlobal, Goto, OneFactory, ThreadTypes, RuntimeTypeOK
    <3>2. lost' = [lost EXCEPT ![t] = 1] /\ late' = [late EXCEPT ![t] = FALSE]
      BY <1>3, <2>1, <2>3 DEF InitGlobal
    <3>3. PICK u \in Threads : lost[u] = 0 /\ pc[u] # "initGlobal"
      BY <3>1 DEF OneFactory
    <3>4. lost'[u] = 0 /\ pc'[u] # "initGlobal"
      BY <2>1, <3>1, <3>2, <3>3 DEF ThreadTypes, RuntimeTypeOK
    <3> QED
      BY <2>1, <3>1, <3>2, <3>4 DEF OneFactory, ThreadTypes, RuntimeTypeOK
  <2> QED
    BY <2>2, <2>3
<1>4. ASSUME NEW t \in Threads, Enter(t) PROVE OneFactory'
  BY <1>4 DEF Enter, Goto, OneFactory, ThreadTypes, RuntimeTypeOK
<1>5. ASSUME NEW t \in Threads, Return(t) PROVE OneFactory'
  BY <1>5 DEF Return, OneFactory, ThreadTypes, RuntimeTypeOK
<1>6. ASSUME UNCHANGED <<factory, frames, lost, through, late>>, NEW t \in Threads,
             NEW label \in {"run", "register", "cleanup"}, Goto(t, label)
      PROVE  OneFactory'
  BY <1>6 DEF Goto, OneFactory, ThreadTypes, RuntimeTypeOK
<1>7. ASSUME NEW t \in Threads, NEW m \in MongoObjects,
             (\E s \in Scopes : Connect(t, m, s)) \/ Reconnect(t, m) \/ CleanupCloses(t, m)
      PROVE  OneFactory'
  BY <1>1, <1>6, <1>7 DEF Connect, Reconnect, CleanupCloses, callVars
<1>8. ASSUME NEW t \in Threads,
             \/ Register(t) \/ \E s \in Scopes : CleanupBegins(t, s)
             \/ CleanupThrows(t) \/ CleanupClears(t)
      PROVE  OneFactory'
  BY <1>6, <1>8 DEF Register, CleanupBegins, CleanupThrows, CleanupClears, callVars
<1>9. CASE UNCHANGED runtimeVars
  BY <1>1, <1>9 DEF runtimeVars, callVars
<1> QED
  BY <1>2, <1>3, <1>4, <1>5, <1>7, <1>8, <1>9 DEF RuntimeNext, ScopeOrNone

LEMMA ThreadTypesHold == RuntimeSpec => []ThreadTypes
<1>1. RuntimeInit => ThreadTypes
  BY ThreadTypesInit
<1>2. ThreadTypes /\ [RuntimeNext]_runtimeVars => ThreadTypes'
  BY ThreadTypesNext
<1> QED
  BY <1>1, <1>2, PTL DEF RuntimeSpec

(* Every variable of RuntimeThreads keeps its type, and a thread outside the *)
(* runtime executes no scope.                                              *)
THEOREM RuntimeTypeCorrect == RuntimeSpec => []RuntimeTypeOK
<1>1. ThreadTypes => RuntimeTypeOK
  BY DEF ThreadTypes
<1> QED
  BY <1>1, ThreadTypesHold, PTL

(* Only the race to set the global factory loses calls: a thread loses one   *)
(* at most, one thread none, and none is lost that began after a call, of    *)
(* any thread, had got through.                                            *)
THEOREM OnlyFirstCallsLost == RuntimeSpec => []LosesOnlyFirstCalls
<1>1. RuntimeInit => OneFactory
  BY OneFactoryInit
<1>2. ThreadTypes /\ OneFactory /\ [RuntimeNext]_runtimeVars => OneFactory'
  BY OneFactoryNext
<1>3. ThreadTypes /\ OneFactory => LosesOnlyFirstCalls
  BY ThreadsAssumption DEF ThreadTypes, RuntimeTypeOK, OneFactory, LosesOnlyFirstCalls, Refused
<1> QED
  BY <1>1, <1>2, <1>3, ThreadTypesHold, PTL DEF RuntimeSpec

(* What cleanup forgets.  A Mongo object that is being registered is in no *)
(* registry, and no walk began with it.                                    *)
Pending(t, m) == pc[t] = "register" /\ arg[t] = m

Unknown(m) ==
  /\ \A s \in Scopes : m \notin registry[s]
  /\ \A t \in Threads : walk[t].start[m] = 0

Fresh ==
  \A m \in MongoObjects :
    /\ home[m] = NoScope => Unknown(m) /\ \A t \in Threads : ~Pending(t, m)
    /\ \A t \in Threads : Pending(t, m) =>
         Unknown(m) /\ clients[m] > 0 /\ \A u \in Threads : Pending(u, m) => u = t

(* A walk knows how far each Mongo object was when it began; those it has  *)
(* done with are closed or have gone on since.                             *)
Walked ==
  /\ \A t \in Threads : \A m \in MongoObjects : walk[t].start[m] <= clients[m]
  /\ \A t \in Threads : \A s \in Scopes : walk[t].scope = s =>
       \A m \in registry[s] : m \in walk[t].todo \/ ~open[m] \/ clients[m] > walk[t].start[m]

CleanupInv == ThreadTypes /\ Fresh /\ Walked

LEMMA CleanupInit ==
  ASSUME RuntimeInit
  PROVE  CleanupInv
<1> USE NoScopeAssumption
<1>1. Fresh
  BY DEF RuntimeInit, NoWalk, Fresh, Pending, Unknown
<1>2. Walked
  BY DEF RuntimeInit, NoWalk, Walked
<1> QED
  BY <1>1, <1>2, ThreadTypesInit DEF CleanupInv

(* A step of the calls is not one of the connections.                      *)
LEMMA CallsKeep ==
  ASSUME CleanupInv, UNCHANGED <<home, clients, open, registry, walk>>,
         \A t \in Threads, m \in MongoObjects : Pending(t, m)' => Pending(t, m)
  PROVE  Fresh' /\ Walked'
<1>1. \A m \in MongoObjects : Unknown(m)' <=> Unknown(m)
  BY DEF Unknown
<1>2. Fresh'
  BY <1>1 DEF CleanupInv, Fresh
<1> QED
  BY <1>2 DEF CleanupInv, Walked

LEMMA ConnectKeeps ==
  ASSUME CleanupInv, NEW t \in Threads, NEW m \in MongoObjects, NEW s \in Scopes,
         Connect(t, m, s)
  PROVE  Fresh' /\ Walked'
<1> USE NoScopeAssumption
<1>1. /\ home[m] = NoScope /\ home' = [home EXCEPT ![m] = s] /\ clients' = [clients EXCEPT ![m] = 1]
      /\ open' = [open EXCEPT ![m] = TRUE] /\ pc' = [pc EXCEPT ![t] = "register"]
      /\ arg' = [arg EXCEPT ![t] = m] /\ UNCHANGED <<registry, walk>>
  BY DEF Connect, Goto
<1>2. Unknown(m) /\ \A u \in Threads : ~Pending(u, m)
  BY <1>1 DEF CleanupInv, Fresh
<1>3. \A n \in MongoObjects : Unknown(n)' <=> Unknown(n)
  BY <1>1 DEF Unknown
<1>4. /\ \A u \in Threads : Pending(u, m)' => u = t
      /\ \A n \in MongoObjects \ {m} : \A u \in Threads : Pending(u, n)' => Pending(u, n)
  BY <1>1, <1>2 DEF CleanupInv, ThreadTypes, RuntimeTypeOK, Pending
<1>5. /\ clients'[m] = 1 /\ home'[m] # NoScope
      /\ \A n \in MongoObjects \ {m} : clients'[n] = clients[n] /\ home'[n] = home[n] /\ open'[n] = open[n]
  BY <1>1 DEF CleanupInv, ThreadTypes, RuntimeTypeOK
<1>6. Fresh'
  BY <1>2, <1>3, <1>4, <1>5 DEF CleanupInv, Fresh
<1>7. \A u \in Threads : walk[u].start[m] = 0 /\ \A r \in Scopes : m \notin registry[r]
  BY <1>2 DEF Unknown
<1> QED
  BY <1>1, <1>5, <1>6, <1>7 DEF CleanupInv, Walked, ThreadTypes, RuntimeTypeOK

LEMMA ReconnectKeeps ==
  ASSUME CleanupInv, NEW t \in Threads, NEW m \in MongoObjects, Reconnect(t, m)
  PROVE  Fresh' /\ Walked'
<1>1. /\ home[m] # NoScope /\ clients' = [clients EXCEPT ![m] = @ + 1]
      /\ open' = [open EXCEPT ![m] = TRUE] /\ UNCHANGED <<pc, arg, home, registry, walk>>
  BY DEF Reconnect
<1>2. /\ clients'[m] = clients[m] + 1 /\ clients[m] \in Nat
      /\ \A n \in MongoObjects \ {m} : clients'[n] = clients[n] /\ open'[n] = open[n]
  BY <1>1 DEF CleanupInv, ThreadTypes, RuntimeTypeOK
<1>3. \A n \in MongoObjects : Unknown(n)' <=> Unknown(n)
  BY <1>1 DEF Unknown
<1>4. Fresh'
  BY <1>1, <1>2, <1>3 DEF CleanupInv, Fresh, Pending
<1>5. \A u \in Threads : walk[u].start[m] \in Nat /\ walk[u].start[m] <= clients[m]
  BY DEF CleanupInv, ThreadTypes, RuntimeTypeOK, Walked
<1>6. \A u \in Threads : clients'[m] > walk[u].start[m]
  BY <1>2, <1>5
<1>7. \A u \in Threads, n \in MongoObjects : walk'[u].start[n] <= clients'[n]
  BY <1>1, <1>2, <1>5 DEF CleanupInv, Walked
<1>8. \A r \in Scopes : registry[r] \subseteq MongoObjects
  BY DEF CleanupInv, ThreadTypes, RuntimeTypeOK
<1> QED
  BY <1>1, <1>2, <1>4, <1>6, <1>7, <1>8 DEF CleanupInv, Walked

LEMMA RegisterKeeps ==
  ASSUME CleanupInv, NEW t \in Threads, Register(t)
  PROVE  Fresh' /\ Walked'
<1> USE NoScopeAssumption
<1>1. PICK m \in MongoObjects, s \in Scopes : m = arg[t] /\ s = home[m] /\ Pending(t, m)
  BY DEF CleanupInv, ThreadTypes, Aimed, Register, Pending
<1>2. PICK seen \in SUBSET Threads : walk' = Disturbed(s, {m}, seen)
  BY <1>1 DEF Register
<1>3. WalkedOn(walk', {m})
  <2>1. {m} \in SUBSET MongoObjects
    BY <1>1
  <2> QED
    BY <1>1, <1>2, <2>1, DisturbedWalks DEF CleanupInv
<1>4. /\ registry' = [registry EXCEPT ![s] = @ \union {m}] /\ pc' = [pc EXCEPT ![t] = "run"]
      /\ arg' = [arg EXCEPT ![t] = NoScope] /\ UNCHANGED <<home, clients, open>>
  BY <1>1 DEF Register, Goto, connVars
<1>5. /\ clients[m] > 0 /\ Unknown(m) /\ home[m] # NoScope
      /\ \A u \in Threads : Pending(u, m) => u = t
  BY <1>1 DEF CleanupInv, Fresh
<1>6. /\ \A n \in MongoObjects \ {m} : Unknown(n)' <=> Unknown(n)
      /\ \A u \in Threads : walk'[u].start[m] = 0
  BY <1>1, <1>3, <1>4, <1>5
     DEF WalkedOn, Unknown, CleanupInv, ThreadTypes, RuntimeTypeOK
<1>7. /\ \A n \in MongoObjects, u \in Threads : Pending(u, n)' => Pending(u, n) /\ u # t
  BY <1>4 DEF Pending, CleanupInv, ThreadTypes, RuntimeTypeOK
<1>8. \A u \in Threads : ~Pending(u, m)'
  BY <1>1, <1>5, <1>7
<1>9. Fresh'
  BY <1>4, <1>5, <1>6, <1>7, <1>8 DEF CleanupInv, Fresh
<1>10. \A u \in Threads, n \in MongoObjects : walk'[u].start[n] <= clients'[n]
  BY <1>3, <1>4 DEF WalkedOn, CleanupInv, Walked
<1>11. ASSUME NEW u \in Threads, NEW r \in Scopes, walk'[u].scope = r, NEW n \in registry'[r]
       PROVE  n \in walk'[u].todo \/ ~open'[n] \/ clients'[n] > walk'[u].start[n]
  <2>1. CASE n = m
    BY <1>4, <1>5, <1>6, <1>11, <2>1
  <2>2. CASE n # m
    <3>1. n \in registry[r] /\ walk[u].scope = r
      BY <1>1, <1>3, <1>4, <1>11, <2>2
         DEF WalkedOn, CleanupInv, ThreadTypes, RuntimeTypeOK
    <3> QED
      BY <1>3, <1>4, <3>1 DEF WalkedOn, CleanupInv, Walked
  <2> QED
    BY <2>1, <2>2
<1> QED
  BY <1>9, <1>10, <1>11 DEF Walked

LEMMA CleanupKeeps ==
  ASSUME CleanupInv, NEW t \in Threads, NEW s \in Scopes, CleanupBegins(t, s)
  PROVE  Fresh' /\ Walked'
<1> USE NoScopeAssumption
<1> DEFINE begun == [m \in MongoObjects |-> IF m \in registry[s] THEN clients[m] ELSE 0]
           w == [scope |-> s, todo |-> registry[s], changed |-> FALSE, start |-> begun]
<1>1. /\ walk' = [walk EXCEPT ![t] = w] /\ pc' = [pc EXCEPT ![t] = "cleanup"]
      /\ UNCHANGED <<arg, home, clients, open, registry>>
  BY DEF CleanupBegins, Goto, connVars
<1>2. /\ w.scope = s /\ w.todo = registry[s]
      /\ \A m \in MongoObjects : w.start[m] = IF m \in registry[s] THEN clients[m] ELSE 0
  OBVIOUS
<1> HIDE DEF w, begun
<1>3. walk'[t] = w /\ \A u \in Threads \ {t} : walk'[u] = walk[u]
  BY <1>1 DEF CleanupInv, ThreadTypes, RuntimeTypeOK
<1>4. \A m \in MongoObjects : Unknown(m) => Unknown(m)'
  BY <1>1, <1>2, <1>3 DEF Unknown
<1>5. \A m \in MongoObjects, u \in Threads : Pending(u, m)' => Pending(u, m)
  BY <1>1 DEF Pending, CleanupInv, ThreadTypes, RuntimeTypeOK
<1>6. Fresh'
  BY <1>1, <1>4, <1>5 DEF CleanupInv, Fresh
<1>7. \A u \in Threads, m \in MongoObjects : walk'[u].start[m] <= clients'[m]
  <2>1. \A m \in MongoObjects : clients[m] \in Nat /\ 0 <= clients[m] /\ clients[m] <= clients[m]
    BY DEF CleanupInv, ThreadTypes, RuntimeTypeOK
  <2> QED
    BY <1>1, <1>2, <1>3, <2>1 DEF CleanupInv, Walked
<1> QED
  BY <1>1, <1>2, <1>3, <1>6, <1>7 DEF CleanupInv, Walked

LEMMA CleanupClosesKeeps ==
  ASSUME CleanupInv, NEW t \in Threads, NEW m \in MongoObjects, CleanupCloses(t, m)
  PROVE  Fresh' /\ Walked'
<1>1. /\ open' = [open EXCEPT ![m] = FALSE]
      /\ walk' = [walk EXCEPT ![t].todo = walk[t].todo \ {m}]
      /\ UNCHANGED <<pc, arg, home, clients, registry>>
  BY DEF CleanupCloses
<1>2. \A u \in Threads : /\ walk'[u].scope = walk[u].scope /\ walk'[u].start = walk[u].start
                         /\ walk[u].todo \subseteq walk'[u].todo \union {m}
  BY <1>1 DEF CleanupInv, ThreadTypes, RuntimeTypeOK
<1>3. ~open'[m] /\ \A n \in MongoObjects \ {m} : open'[n] = open[n]
  BY <1>1 DEF CleanupInv, ThreadTypes, RuntimeTypeOK
<1>4. \A n \in MongoObjects : Unknown(n)' <=> Unknown(n)
  BY <1>1, <1>2 DEF Unknown
<1>5. Fresh'
  BY <1>1, <1>4 DEF CleanupInv, Fresh, Pending
<1>6. \A u \in Threads, n \in MongoObjects : walk'[u].start[n] <= clients'[n]
  BY <1>1, <1>2 DEF CleanupInv, Walked
<1>7. \A r \in Scopes : registry[r] \subseteq MongoObjects
  BY DEF CleanupInv, ThreadTypes, RuntimeTypeOK
<1> QED
  BY <1>1, <1>2, <1>3, <1>5, <1>6, <1>7 DEF CleanupInv, Walked

(* A walk that is over, thrown or done, knows nothing.                     *)
LEMMA WalkOverKeeps ==
  ASSUME CleanupInv, NEW t \in Threads, NEW walks, WalkedOn(walks, {}),
         walk' = [walks EXCEPT ![t] = NoWalk], pc' = [pc EXCEPT ![t] = "run"],
         UNCHANGED <<arg, home, clients, open>>,
         \A s \in Scopes : registry'[s] \subseteq registry[s]
  PROVE  Fresh' /\ Walked'
<1> USE NoScopeAssumption
<1>1. /\ NoWalk.scope = NoScope /\ \A m \in MongoObjects : NoWalk.start[m] = 0
  BY DEF NoWalk
<1>2. /\ walk'[t] = NoWalk
      /\ \A u \in Threads \ {t} : walk'[u].scope = walk[u].scope /\ walk'[u].start = walk[u].start
                                  /\ walk[u].todo \subseteq walk'[u].todo
  BY DEF WalkedOn
<1>3. \A m \in MongoObjects : Unknown(m) => Unknown(m)'
  BY <1>1, <1>2 DEF Unknown
<1>4. \A m \in MongoObjects, u \in Threads : Pending(u, m)' => Pending(u, m)
  BY DEF Pending, CleanupInv, ThreadTypes, RuntimeTypeOK
<1>5. Fresh'
  BY <1>3, <1>4 DEF CleanupInv, Fresh
<1>6. \A u \in Threads, m \in MongoObjects : walk'[u].start[m] <= clients'[m]
  <2>1. \A m \in MongoObjects : 0 <= clients[m]
    BY DEF CleanupInv, ThreadTypes, RuntimeTypeOK
  <2> QED
    BY <1>1, <1>2, <2>1 DEF CleanupInv, Walked
<1> QED
  BY <1>1, <1>2, <1>5, <1>6 DEF CleanupInv, Walked

LEMMA CleanupNext ==
  ASSUME CleanupInv, [RuntimeNext]_runtimeVars
  PROVE  CleanupInv'
<1>1. ThreadTypes'
  BY ThreadTypesNext DEF CleanupInv
<1>2. ASSUME UNCHANGED runtimeVars PROVE Fresh' /\ Walked'
  BY <1>2, CallsKeep DEF runtimeVars, callVars, connVars, Pending
<1>3. ASSUME NEW t \in Threads,
             \/ \E s \in Scopes \union {NoScope} : Call(t, s)
             \/ InitGlobal(t) \/ Enter(t) \/ Return(t)
      PROVE  Fresh' /\ Walked'
  <2>1. UNCHANGED <<home, clients, open, registry, walk>>
    BY <1>3 DEF Call, InitGlobal, Enter, Return, connVars
  <2>2. \A u \in Threads, m \in MongoObjects : Pending(u, m)' => Pending(u, m)
    <3>1. \/ UNCHANGED <<pc, arg>>
          \/ \E to \in {"run", "initGlobal", "enter"} :
               pc' = [pc EXCEPT ![t] = to] /\ \E a : arg' = [arg EXCEPT ![t] = a]
          \/ pc' = [pc EXCEPT ![t] = "enter"] /\ UNCHANGED arg
      BY <1>3 DEF Call, InitGlobal, Enter, Return, Goto
    <3> QED
      BY <3>1 DEF CleanupInv, ThreadTypes, RuntimeTypeOK, Pending
  <2> QED
    BY <2>1, <2>2, CallsKeep
<1>4. ASSUME NEW t \in Threads, CleanupThrows(t) PROVE Fresh' /\ Walked'
  <2>1. WalkedOn(walk, {})
    BY DEF WalkedOn, CleanupInv, ThreadTypes, RuntimeTypeOK, Walk
  <2> QED
    BY <1>4, <2>1, WalkOverKeeps DEF CleanupThrows, Goto, callVars, connVars
<1>5. ASSUME NEW t \in Threads, CleanupClears(t) PROVE Fresh' /\ Walked'
  <2>1. walk[t].scope \in Scopes
    BY <1>5 DEF CleanupClears, CleanupInv, ThreadTypes, Aimed
  <2>2. WalkedOn(Disturbed(walk[t].scope, {}, {}), {})
    <3>1. {} \in SUBSET MongoObjects /\ {} \in SUBSET Threads
      OBVIOUS
    <3> QED
      BY <2>1, <3>1, DisturbedWalks DEF CleanupInv
  <2>3. \A s \in Scopes : registry'[s] \subseteq registry[s]
    BY <1>5, <2>1 DEF CleanupClears, CleanupInv, ThreadTypes, RuntimeTypeOK
  <2> QED
    BY <1>5, <2>2, <2>3, WalkOverKeeps DEF CleanupClears, Goto, callVars, connVars
<1>6. Fresh' /\ Walked'
  BY <1>2, <1>3, <1>4, <1>5, ConnectKeeps, ReconnectKeeps, RegisterKeeps, CleanupKeeps,
     CleanupClosesKeeps DEF RuntimeNext, ScopeOrNone
<1> QED
  BY <1>1, <1>6 DEF CleanupInv

(* Only a cleanup that is done takes Mongo objects out of a registry, and  *)
(* its walk tells which of them can be open.                               *)
LEMMA ForgetsClosed ==
  ASSUME CleanupInv, [RuntimeNext]_runtimeVars, NEW s \in Scopes, NEW m \in registry[s] \ registry'[s], open[m]
  PROVE  \E t \in Threads : walk[t].scope = s /\ clients[m] > walk[t].start[m]
<1>1. registry' # registry
  OBVIOUS
<1>2. PICK t \in Threads : Register(t) \/ CleanupClears(t)
  BY <1>1
     DEF RuntimeNext, runtimeVars, Call, InitGlobal, Enter, Return, Connect,
         Reconnect,
              CleanupBegins, CleanupCloses, CleanupThrows
<1>3. CASE Register(t)
  BY <1>3 DEF Register, CleanupInv, ThreadTypes, RuntimeTypeOK
<1>4. CASE CleanupClears(t)
  <2>1. walk[t].scope = s /\ walk[t].todo = {}
    BY <1>4 DEF CleanupClears, CleanupInv, ThreadTypes, RuntimeTypeOK
  <2> QED
    BY <2>1 DEF CleanupInv, Walked
<1> QED
  BY <1>2, <1>3, <1>4

(* A connection that cleanup forgets open was registered, or made anew,    *)
(* after that cleanup began; every other one is closed.                    *)
THEOREM ForgetsOnlyRaced == RuntimeSpec => ForgottenOpenOnlyIfRaced
<1>1. RuntimeInit => CleanupInv
  BY CleanupInit
<1>2. CleanupInv /\ [RuntimeNext]_runtimeVars => CleanupInv'
  BY CleanupNext
<1>3. CleanupInv /\ [RuntimeNext]_runtimeVars
      => [\A s \in Scopes : \A m \in registry[s] \ registry'[s] :
            open[m] => \E t \in Threads : walk[t].scope = s /\ Raced(t, m)]_runtimeVars
  BY ForgetsClosed DEF Raced
<1> QED
  BY <1>1, <1>2, <1>3, PTL DEF RuntimeSpec, ForgottenOpenOnlyIfRaced

(* The scope that runs is that of the last call that has one.              *)
LastWith(f, i) ==
  i \in 1 .. Len(f) /\ f[i] # NoScope /\ \A j \in i + 1 .. Len(f) : f[j] = NoScope

LEMMA LastExists ==
  ASSUME NEW f \in Seq(Scopes \union {NoScope}), NEW k \in 1 .. Len(f), f[k] # NoScope
  PROVE  \E i : LastWith(f, i)
<1> DEFINE after == {d \in 0 .. Len(f) : f[Len(f) - d] # NoScope /\ d < Len(f)}
<1>1. Len(f) \in Nat
  OBVIOUS
<1>2. Len(f) - k \in after
  BY <1>1
<1>3. after \subseteq Nat
  BY <1>1
<1> DEFINE less == {p \in Nat \X Nat : p[1] < p[2]}
<1>4. PICK d \in after : \A e \in after : <<e, d>> \notin less
  <2>1. IsWellFoundedOn(less, Nat)
    BY NatLessThanWellFounded DEF OpToRel
  <2> HIDE DEF less, after
  <2> QED
    BY <1>2, <1>3, <2>1, WFMin
<1>5. \A e \in after : ~(e < d)
  BY <1>3, <1>4
<1>6. ASSUME NEW j \in Len(f) - d + 1 .. Len(f) PROVE f[j] = NoScope
  <2>1. /\ Len(f) - j \in 0 .. Len(f) /\ Len(f) - j < d /\ Len(f) - j < Len(f)
        /\ Len(f) - (Len(f) - j) = j
    BY <1>1, <1>3
  <2> QED
    BY <1>5, <2>1
<1>7. Len(f) - d \in 1 .. Len(f) /\ f[Len(f) - d] # NoScope
  BY <1>1, <1>3
<1>8. LastWith(f, Len(f) - d)
  BY <1>6, <1>7 DEF LastWith
<1> QED
  BY <1>8

Innermost(f) ==
  IF \E i \in DOMAIN f : f[i] # NoScope
  THEN f[CHOOSE i \in DOMAIN f : /\ f[i] # NoScope
                                 /\ \A j \in i + 1 .. Len(f) : f[j] = NoScope]
  ELSE NoScope

LEMMA InnermostIs ==
  ASSUME NEW f \in Seq(Scopes \union {NoScope})
  PROVE  /\ \A i : LastWith(f, i) => Innermost(f) = f[i]
         /\ (\A i \in 1 .. Len(f) : f[i] = NoScope) => Innermost(f) = NoScope
<1>1. DOMAIN f = 1 .. Len(f) /\ Len(f) \in Nat
  OBVIOUS
<1>2. ASSUME NEW i, LastWith(f, i) PROVE Innermost(f) = f[i]
  <2> DEFINE c == CHOOSE n \in DOMAIN f :
                    f[n] # NoScope /\ \A j \in n + 1 .. Len(f) : f[j] = NoScope
  <2>1. c \in 1 .. Len(f) /\ f[c] # NoScope /\ \A j \in c + 1 .. Len(f) : f[j] = NoScope
    BY <1>1, <1>2 DEF LastWith
  <2>2. Innermost(f) = f[c]
    BY <1>1, <1>2 DEF LastWith, Innermost
  <2> HIDE DEF c
  <2>3. ~(i < c) /\ ~(c < i)
    BY <1>1, <1>2, <2>1 DEF LastWith
  <2> QED
    BY <1>1, <1>2, <2>1, <2>2, <2>3 DEF LastWith
<1> QED
  BY <1>1, <1>2 DEF Innermost

LEMMA RunningIs ==
  ASSUME NEW t \in Threads
  PROVE  RunningScope(t) = Innermost(frames[t])
BY DEF RunningScope, Innermost

LEMMA InnermostAppend ==
  ASSUME NEW f \in Seq(Scopes \union {NoScope}), NEW s \in Scopes \union {NoScope}
  PROVE  Innermost(Append(f, s)) = IF s = NoScope THEN Innermost(f) ELSE s
<1> DEFINE g == Append(f, s)
           n == Len(f)
<1>1. /\ n \in Nat /\ Len(g) = n + 1 /\ g[n + 1] = s /\ \A i \in 1 .. n : g[i] = f[i]
      /\ g \in Seq(Scopes \union {NoScope})
  OBVIOUS
<1> HIDE DEF g
<1>2. CASE s # NoScope
  <2>1. LastWith(g, n + 1)
    BY <1>1, <1>2 DEF LastWith
  <2> QED
    BY <1>1, <1>2, <2>1, InnermostIs DEF g
<1>3. CASE s = NoScope
  <2>1. CASE \A i \in 1 .. n : f[i] = NoScope
    <3>1. \A i \in 1 .. Len(g) : g[i] = NoScope
      BY <1>1, <1>3, <2>1
    <3> QED
      BY <1>1, <1>3, <2>1, <3>1, InnermostIs DEF g
  <2>2. CASE \E i \in 1 .. n : f[i] # NoScope
    <3>1. PICK i : LastWith(f, i)
      BY <2>2, LastExists
    <3>2. LastWith(g, i) /\ g[i] = f[i]
      BY <1>1, <1>3, <3>1 DEF LastWith
    <3> QED
      BY <1>1, <1>3, <3>1, <3>2, InnermostIs, ZenonT(60) DEF g
  <2> QED
    BY <2>1, <2>2
<1> QED
  BY <1>2, <1>3

(* Entering a call keeps the scope right; leaving one may not.             *)
LEMMA StaleStep ==
  ASSUME ThreadTypes, [RuntimeNext]_runtimeVars, NEW t \in Threads, factory = "mongo",
         ScopeRight(t), ~ScopeRight(t)'
  PROVE  Len(frames'[t]) < Len(frames[t]) /\ BareScope(t)' = RunningScope(t)
<1>1. /\ executing[t] = RunningScope(t) /\ executing'[t] # RunningScope(t)'
      /\ frames[t] \in Seq(Scopes \union {NoScope})
  BY DEF ScopeRight, BareScope, ThreadTypes, RuntimeTypeOK, ScopeOrNone
<1>2. ASSUME frames'[t] = frames[t], executing'[t] = executing[t] PROVE FALSE
  BY <1>1, <1>2 DEF RunningScope
<1>3. ASSUME Enter(t) PROVE FALSE
  <2>1. arg[t] \in Scopes \union {NoScope}
    BY <1>3 DEF Enter, ThreadTypes, Aimed
  <2>2. /\ frames'[t] = Append(frames[t], arg[t])
        /\ executing'[t] = Updated(executing[t], arg[t])
    BY <1>3 DEF Enter, ThreadTypes, RuntimeTypeOK
  <2>3. RunningScope(t)' = Innermost(frames'[t])
    BY DEF RunningScope, Innermost
  <2>4. RunningScope(t)' = Updated(RunningScope(t), arg[t])
    BY <1>1, <2>1, <2>2, <2>3, RunningIs, InnermostAppend DEF Updated
  <2> QED
    BY <1>1, <2>2, <2>4
<1>4. CASE Return(t)
  <2>1. /\ frames[t] # << >> /\ frames'[t] = SubSeq(frames[t], 1, Len(frames[t]) - 1)
        /\ executing'[t] = IF Len(frames[t]) = 1 THEN NoScope ELSE executing[t]
    BY <1>4 DEF Return, ThreadTypes, RuntimeTypeOK
  <2>2. Len(frames[t]) \in Nat /\ Len(frames[t]) > 0 /\ Len(frames'[t]) = Len(frames[t]) - 1
    BY <1>1, <2>1
  <2>3. ASSUME Len(frames[t]) = 1 PROVE FALSE
    <3>1. frames'[t] \in Seq(Scopes \union {NoScope}) /\ DOMAIN frames'[t] = {}
      BY <1>1, <2>1, <2>2, <2>3
    <3>2. RunningScope(t)' = NoScope
      BY <3>1 DEF RunningScope
    <3> QED
      BY <1>1, <2>1, <2>3, <3>2
  <2> QED
    BY <1>1, <2>1, <2>2, <2>3 DEF BareScope
<1>5. ASSUME NEW u \in Threads \ {t}, Enter(u) \/ Return(u) PROVE FALSE
  BY <1>2, <1>5 DEF Enter, Return, ThreadTypes, RuntimeTypeOK
<1>6. ASSUME UNCHANGED <<frames, executing>> PROVE FALSE
  BY <1>2, <1>6
<1> QED
  BY <1>3, <1>4, <1>5, <1>6, ZenonT(60)
     DEF RuntimeNext, runtimeVars, callVars, Call, InitGlobal, Connect, Reconnect, Register,
         CleanupBegins, CleanupCloses, CleanupThrows, CleanupClears

(* In a MongoContext the scope that objects get without "new" is the one     *)
(* that runs, until a nested call for another scope returns.               *)
THEOREM StaleOnlyAfterReturn == RuntimeSpec => StaleOnlyAfterNestedReturn
<1>1. ThreadTypes /\ [RuntimeNext]_runtimeVars
      => [\A t \in Threads :
            factory = "mongo" /\ ScopeRight(t) /\ ~ScopeRight(t)' =>
              /\ Len(frames'[t]) < Len(frames[t])
              /\ BareScope(t)' = RunningScope(t)]_runtimeVars
  BY StaleStep
<1> QED
  BY <1>1, ThreadTypesHold, PTL DEF RuntimeSpec, StaleOnlyAfterNestedReturn

=============================================================================
