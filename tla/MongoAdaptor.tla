---------------------------- MODULE MongoAdaptor ----------------------------
(***************************************************************************)
(* The Mongo objects of one MongoScope, the Java driver clients behind     *)
(* them, and what the scope keeps about them: the registry of connections, *)
(* the write-concern flag and the last called database (adaptor/Mongo.java *)
(* and the connection part of MongoScope.java).                            *)
(*                                                                         *)
(* A script creates Mongo objects and calls find, insert, update, remove,  *)
(* auth and logout on them; the host application that embeds the scope     *)
(* flips the flag, hands in driver clients of its own, closes them, and    *)
(* calls cleanup.  Calls run one at a time here; RuntimeThreads models     *)
(* threads, ShellWrites the errors of writes.  The driver                  *)
(* (mongo-java-driver 2.11) and the server are external: they are          *)
(* modelled by what Mongo.java relies on.                                  *)
(***************************************************************************)

CONSTANTS
  Mongos,        \* the JavaScript Mongo objects
  Clients,       \* the driver clients (com.mongodb.Mongo), each created once
  HostClients,   \* the clients the host application created itself
  Databases,     \* the databases a script authenticates to
  Stores,        \* those of them it reads and writes, one collection each
  NoClient,      \* innerMongo == null
  NoDB           \* lastCalledDB == null

ASSUME HostAssumption == HostClients \subseteq Clients
ASSUME StoresAssumption == Stores \subseteq Databases
ASSUME NoneAssumption ==
  /\ NoClient \notin Clients
  /\ NoDB \notin Clients \X Stores

VARIABLES
  shellConcern,  \* MongoScope.useMongoShellWriteConcern
  registered,    \* MongoScope.mongoConnections
  lastCalled,    \* MongoScope.lastCalledDB: a database of a client, or NoDB
  cursor,        \* the database of a client the script's last query reads from
  inner,         \* Mongo.innerMongo, per Mongo object
  mongoOptions,  \* Mongo.mongoOptions per Mongo object: "host", or null
  client         \* the driver clients

scopeVars == <<shellConcern, registered>>
mongoVars == <<inner, mongoOptions>>
vars == <<shellConcern, registered, lastCalled, cursor, inner, mongoOptions,
          client>>

\* authed is what the driver believes (DB.isAuthenticated), session is what
\* the server believes.
Client == [ status  : {"unused", "open", "closed"},
            concern : {"ack", "unack", "host"},
            profile : {"default", "host"},
            authed  : SUBSET Databases,
            session : SUBSET Databases ]

Blank == [ status |-> "unused", concern |-> "ack", profile |-> "default",
           authed |-> {}, session |-> {} ]

HostMade == [Blank EXCEPT !.status = "open", !.concern = "host",
                          !.profile = "host"]

\* innerMongo != null && innerMongo.getConnector().isOpen(), in a given table
\* of the clients and in the current one.
OpenIn(table, c) == c # NoClient /\ table[c].status = "open"

IsOpen(c) == OpenIn(client, c)

Init ==
  /\ shellConcern = FALSE
  /\ registered = {}
  /\ lastCalled = NoDB
  /\ cursor = NoDB
  /\ inner = [m \in Mongos |-> NoClient]
  /\ mongoOptions = [m \in Mongos |-> "default"]
  /\ client = [c \in Clients |-> IF c \in HostClients THEN HostMade ELSE Blank]

-----------------------------------------------------------------------------
(* Opening and closing driver clients.                                      *)

\* The WriteConcern initMongoConnection leaves on a client.
Concern(was) == IF shellConcern THEN "unack" ELSE was

\* com.mongodb.Mongo.close(): the server forgets the logins of the sockets.  Of
\* the driver's own records only its list of authenticated databases is ever
\* read again, so only that is kept.
Shut(rec) == [Blank EXCEPT !.status = "closed", !.authed = rec.authed]

Closed(table, c) == [table EXCEPT ![c] = Shut(@)]

\* Variant: closing one client closes them all.
CloseEvery(table, c) ==
  [x \in Clients |-> IF OpenIn(table, x) THEN Shut(table[x]) ELSE table[x]]

\* close(): nothing to do for a Mongo that never connected.
Close(table, c) == IF c = NoClient THEN table ELSE Closed(table, c)

\* A client built by initMongoConnection: the options of a wrapped client are
\* restored, its write concern is not.
Created(profile) ==
  [Blank EXCEPT !.status = "open", !.concern = Concern("ack"),
                !.profile = profile]

\* A client initMongoConnection finds open.
Kept(rec) == [rec EXCEPT !.concern = Concern(@)]

\* Variant: authenticating with a plain command, behind the driver's back.
LoggedInByCommand(rec, ds) == [rec EXCEPT !.session = @ \union ds]

\* DB.authenticateCommand accepted for the databases ds.
LoggedIn(rec, ds) ==
  [rec EXCEPT !.authed = @ \union ds, !.session = @ \union ds]

\* Variant: a client that is already open for the same hosts is reused.
InitPooled(m, c, profile, table, logins) ==
  \E n \in Clients :
    /\ table[n].status # "closed"
    /\ inner' = [inner EXCEPT ![m] = n]
    /\ client' = [table EXCEPT ![n] =
                     LoggedIn(IF @.status = "open" THEN @ ELSE Created(profile),
                              logins)]

\* Variant: the caller logs in through the database object of the old client.
InitLoginElsewhere(m, c, profile, table, logins) ==
  \E n \in Clients :
    /\ table[n].status = "unused"
    /\ inner' = [inner EXCEPT ![m] = n]
    /\ client' = [table EXCEPT ![n] = Created(profile)]

\* initMongoConnection() on Mongo object m whose innerMongo is c, where table
\* is the clients by then and logins the databases the caller goes on to log
\* in to: an open client stays, otherwise a new one is built.
InitMongoConnection(m, c, profile, table, logins) ==
  \/ /\ OpenIn(table, c)
     /\ inner' = [inner EXCEPT ![m] = c]
     /\ client' = [table EXCEPT ![c] = LoggedIn(Kept(@), logins)]
  \/ /\ ~OpenIn(table, c)
     /\ \E n \in Clients :
          /\ table[n].status = "unused"
          /\ inner' = [inner EXCEPT ![m] = n]
          /\ client' = [table EXCEPT ![n] = LoggedIn(Created(profile), logins)]

\* new Mongo(hosts): the constructor, then setParentScope.
ConnectToHosts(m) ==
  /\ inner[m] = NoClient
  /\ InitMongoConnection(m, NoClient, "default", client, {})
  /\ registered' = registered \union {m}
  /\ UNCHANGED <<shellConcern, lastCalled, cursor, mongoOptions>>

\* new Mongo(client): wraps a client the host application made, which may
\* have been closed since, and remembers its options.
WrapClient(m, c) ==
  /\ inner[m] = NoClient
  /\ c \in HostClients
  /\ mongoOptions' = [mongoOptions EXCEPT ![m] = "host"]
  /\ InitMongoConnection(m, c, "host", client, {})
  /\ registered' = registered \union {m}
  /\ UNCHANGED <<shellConcern, lastCalled, cursor>>

-----------------------------------------------------------------------------
(* Writes and reads.                                                        *)

\* insert, update and remove: saveLastCalledDB comes after the driver call, so
\* only a write that did not throw gets there; a closed client always throws.
Write(m, d) ==
  /\ IsOpen(inner[m])
  /\ lastCalled' = <<inner[m], d>>
  /\ UNCHANGED <<scopeVars, cursor, mongoVars, client>>

\* find() on a collection: the driver makes a cursor without contacting the
\* server, also on a closed client.
Query(m, d) ==
  /\ inner[m] # NoClient
  /\ cursor' = <<inner[m], d>>
  /\ UNCHANGED <<scopeVars, lastCalled, mongoVars, client>>

\* The script reads its cursor to the end.
Exhaust ==
  /\ cursor # NoDB
  /\ IsOpen(cursor[1])
  /\ cursor' = NoDB
  /\ UNCHANGED <<scopeVars, lastCalled, mongoVars, client>>

-----------------------------------------------------------------------------
(* Authentication.                                                          *)

\* Variants of Auth: it does not close the client it replaces; it closes it and
\* fails to build another.
AuthWithoutClose(m, d, accepted) ==
  /\ inner[m] # NoClient
  /\ InitMongoConnection(m, NoClient, mongoOptions[m], client,
                         IF accepted THEN {d} ELSE {})
  /\ UNCHANGED <<scopeVars, lastCalled, cursor, mongoOptions>>

AuthCloseOnly(m, d, accepted) ==
  /\ inner[m] # NoClient
  /\ client' = Close(client, inner[m])
  /\ UNCHANGED <<scopeVars, lastCalled, cursor, mongoVars>>

\* db.auth(): DB.auth turns an exception of Mongo.auth into the result 0.  The
\* driver authenticates a database once per client, so a second time goes
\* through a client built anew.
Auth(m, d, accepted) ==
  LET c == inner[m]
      logins == IF accepted THEN {d} ELSE {}
  IN
  /\ c # NoClient
  /\ \/ /\ d \in client[c].authed
        /\ InitMongoConnection(m, c, mongoOptions[m], Close(client, c), logins)
     \/ /\ d \notin client[c].authed
        /\ accepted => client[c].status = "open"
        /\ client' = [client EXCEPT ![c] = LoggedIn(@, logins)]
        /\ UNCHANGED inner
  /\ UNCHANGED <<scopeVars, lastCalled, cursor, mongoOptions>>

\* db.logout() is a command; the driver goes on believing the database is
\* authenticated.  On a closed client it throws and changes nothing.
Logout(m, d) ==
  /\ IsOpen(inner[m])
  /\ client' = [client EXCEPT ![inner[m]].session = @ \ {d}]
  /\ UNCHANGED <<scopeVars, lastCalled, cursor, mongoVars>>

-----------------------------------------------------------------------------
(* The host application.                                                    *)

\* MongoScope.cleanup(): close every registered connection, forget them all.
Cleanup ==
  /\ client' = [c \in Clients |->
                  IF \E m \in registered : inner[m] = c
                  THEN Shut(client[c]) ELSE client[c]]
  /\ registered' = {}
  /\ UNCHANGED <<shellConcern, lastCalled, cursor, mongoVars>>

SetShellConcern(on) ==
  /\ shellConcern' = on
  /\ UNCHANGED <<registered, lastCalled, cursor, mongoVars, client>>

\* The host application closes a client of its own.
HostCloses(c) ==
  /\ IsOpen(c)
  /\ client' = Closed(client, c)
  /\ UNCHANGED <<scopeVars, lastCalled, cursor, mongoVars>>

Next ==
  \/ \E m \in Mongos :
       \/ ConnectToHosts(m)
       \/ \E c \in HostClients : WrapClient(m, c)
       \/ \E d \in Stores : Write(m, d) \/ Query(m, d)
       \/ \E d \in Databases :
            \/ \E accepted \in BOOLEAN : Auth(m, d, accepted)
            \/ Logout(m, d)
  \/ Exhaust
  \/ Cleanup
  \/ \E on \in BOOLEAN : SetShellConcern(on)
  \/ \E c \in HostClients : HostCloses(c)

Spec == Init /\ [][Next]_vars

-----------------------------------------------------------------------------
(* Properties.                                                              *)

\* Every variable has its type, a client that was never built is blank, a Mongo
\* object has only clients that were built, and is registered only once it has
\* one.
TypeOK ==
  /\ shellConcern \in BOOLEAN
  /\ registered \in SUBSET Mongos
  /\ lastCalled \in (Clients \X Stores) \union {NoDB}
  /\ cursor \in (Clients \X Stores) \union {NoDB}
  /\ inner \in [Mongos -> Clients \union {NoClient}]
  /\ mongoOptions \in [Mongos -> {"default", "host"}]
  /\ client \in [Clients -> Client]
  /\ \A c \in Clients : client[c].status = "unused" => client[c] = Blank
  /\ \A m \in Mongos : inner[m] # NoClient => client[inner[m]].status # "unused"
  /\ \A m \in registered : inner[m] # NoClient

\* No driver client is left open with nothing pointing at it: whatever a Mongo
\* object opened, it closed before it opened another (Mongo.auth closes the old
\* client first).
NoOrphanClient ==
  \A c \in Clients \ HostClients :
    client[c].status = "open" => \E m \in Mongos : inner[m] = c

\* Two Mongo objects have one driver client in common only when the host
\* application gave them that client: authenticating again through one Mongo
\* object does not cut off another that connected by itself.
NoSharedClient ==
  \A m, n \in Mongos :
    m # n /\ inner[m] = inner[n] => inner[m] \in HostClients \union {NoClient}

\* The server never has a login the driver does not know of, so asking the
\* driver (db.isAuthenticated) is enough to tell when a client has to be
\* replaced before authenticating.
DriverKnowsLogins ==
  \A c \in Clients : client[c].session \subseteq client[c].authed

\* A Mongo object loses its client under it only to cleanup, or because the
\* client is the host application's.
ClientPulledOnlyByCleanup ==
  [][\A m \in Mongos :
       IsOpen(inner[m]) /\ client'[inner'[m]].status # "open"
       => inner[m] \in HostClients \/ (m \in registered /\ registered' = {})]_vars

\* When auth reports success the Mongo object's client is open and the server
\* knows the login, also when the database was authenticated before, logged out
\* of, or closed by cleanup in between.
AuthTakesEffect ==
  [][\A m \in Mongos, d \in Databases :
       client' # client /\ Auth(m, d, TRUE) =>
         client'[inner'[m]].status = "open" /\ d \in client'[inner'[m]].session]_vars

\* What the scope remembers as last called, and the cursor a script is reading,
\* are cut off from the server only when the Mongo object they went through is
\* authenticated again (the old client is closed under them), when the host
\* closes its client, or by cleanup; a reconnection elsewhere leaves them alone.
HandleCutOnlyByOwner ==
  [][\A h \in {lastCalled, cursor} \ {NoDB} :
       IsOpen(h[1]) /\ client'[h[1]].status # "open"
       => \/ h[1] \in HostClients
          \/ \E m \in Mongos :
               /\ inner[m] = h[1]
               /\ \/ m \in registered /\ registered' = {}
                  \/ /\ inner'[m] # inner[m]
                     /\ client[inner[m]].authed # {}]_vars

=============================================================================
