---------------------------- MODULE ShellWrites ----------------------------
(***************************************************************************)
(* What becomes of the errors of writes: insert, save, update and remove   *)
(* (collection.js) through adaptor/Mongo.java to the server, and from      *)
(* there by an exception, a printed message, getLastError, the question    *)
(* of the prompt (utils.js) or the host application's at the last called   *)
(* database, back to the scope that wrote; and what addUser and            *)
(* changeUserPassword (db.js) and ensureIndex conclude from them.          *)
(*                                                                         *)
(* All scopes run on one thread, and a driver client gives a thread the    *)
(* connection it used before: so a client stands for the connection, and   *)
(* the server keeps the error of the last operation on it.  A host may     *)
(* give its own client to several scopes; a scope's script may create one  *)
(* client of its own.  Driver and server are external.                     *)
(***************************************************************************)
EXTENDS Integers, Sequences

CONSTANTS
  Scopes,
  Host,        \* the client of the host application
  None,
  InsertFlags, \* the options scripts pass to insert
  Flags,       \* the flags the host may give its scopes
  MaxErrors    \* bound: writes that fail

ASSUME BoundsAssumption == MaxErrors \in Nat
ASSUME FlagsAssumption ==
  /\ InsertFlags \subseteq Nat /\ 0 \in InsertFlags
  /\ Flags \subseteq [Scopes -> [shellConcern : BOOLEAN, printErrors : BOOLEAN]]
ASSUME NoneAssumption == None \notin Nat /\ None \notin Scopes /\ Host \notin Scopes \union {None}

\* The client a scope's script creates has the scope's name.
Clients == Scopes \union {Host}

VARIABLES
  flags,        \* useMongoShellWriteConcern, stdoutMongoErrorMessages of a scope
  callLastError,\* __callLastError
  client,       \* the client of the global db, or None
  lastCalled,   \* the client of MongoScope.lastCalledDB, or None
  concern,      \* the WriteConcern of a client
  given,        \* the WriteConcern the host gave its client
  options,      \* the options of the data collection's object that a client keeps
  lastError,    \* the failed write the server would name on a client, or None
  failed,       \* the writes that failed so far, in order
  latest,       \* the last write of a scope if it failed, or None
  told,         \* the failed writes that the scope that wrote has heard of
  missed,       \* the failed writes the shell asked for in vain
  claimed,      \* the failed writes of a call that asked and then reported success
  wrapped       \* the scopes that have wrapped the host's client

vars == <<flags, callLastError, client, lastCalled, concern, given, options, lastError,
          failed, latest, told, missed, claimed, wrapped>>

\* The driver's default is to wait for writes in a MongoClient, which is what a
\* scope makes of its own, and not to wait in a com.mongodb.Mongo, which the
\* host's client may be.
Concerns == {"ack", "unack"}

Init ==
  /\ flags \in Flags
  /\ callLastError = [s \in Scopes |-> FALSE]
  /\ client = [s \in Scopes |-> None] /\ lastCalled = [s \in Scopes |-> None]
  /\ given \in Concerns
  /\ concern = [c \in Clients |-> IF c = Host THEN given ELSE "ack"]
  /\ options = [c \in Clients |-> 0]
  /\ lastError = [c \in Clients |-> None]
  /\ failed = << >> /\ latest = [s \in Scopes |-> None]
  /\ told = {} /\ missed = {} /\ claimed = {} /\ wrapped = {}

\* Scope s hears of a failed write, or of none; which may be its own.
Hears(s, w) == {w} \intersect {v \in DOMAIN failed' : failed'[v].by = s}

\* Variant: every client of a scope writes without waiting.
ConcernAlways(s, was) == "unack"

\* initMongoConnection sets the shell's write concern, or leaves the client's.
Concern(s, was) == IF flags[s].shellConcern THEN "unack" ELSE was

\* db = a database of a Mongo object that the script creates, or that wraps the
\* host's client.
Connect(s, c) ==
  /\ c \in {s, Host} /\ client[s] # c
  /\ client' = [client EXCEPT ![s] = c]
  /\ concern' = [concern EXCEPT ![c] = Concern(s, @)]
  /\ wrapped' = IF c = Host THEN wrapped \union {s} ELSE wrapped
  /\ UNCHANGED <<flags, callLastError, lastCalled, given, options, lastError,
                 failed, latest, told, missed, claimed>>

-----------------------------------------------------------------------------
(* Writing.                                                                 *)

Kinds == {"good", "listed", "unlisted"}

\* A write on client c: good, or failing with an error that is or is not in the
\* list of handleMongoException.  The server keeps its error.
Sent(s, c, kind) ==
  IF kind = "good"
  THEN /\ lastError' = [lastError EXCEPT ![c] = None]
       /\ latest' = [latest EXCEPT ![s] = None]
       /\ UNCHANGED failed
  ELSE /\ Len(failed) < MaxErrors
       /\ failed' = Append(failed, [by |-> s, on |-> c])
       /\ lastError' = [lastError EXCEPT ![c] = Len(failed')]
       /\ latest' = [latest EXCEPT ![s] = Len(failed')]

\* handleMongoException: the errors of the list are printed, others are thrown.
Swallowed(s, kind) == flags[s].printErrors /\ kind = "listed"

\* saveLastCalledDB, skipped by the driver's exception.
SaveLastCalledDB(s, c, news) ==
  lastCalled' = [lastCalled EXCEPT ![s] = IF news THEN @ ELSE c]

\* Variant: a failed insert restores the options, a good one does not.
OptionsLeft(old, new, news) == IF news THEN old ELSE new

\* insert sets the options of the collection object and restores them, unless
\* the driver's exception comes in between.
RestoreOptions(old, new, news) == IF news THEN new ELSE old

\* Variant: the prompt does not ask when the shell prints errors anyway.
AskUnlessPrinting(s) == callLastError' = [callLastError EXCEPT ![s] = ~flags[s].printErrors]

\* The shell is not verbose: the prompt will ask for the last error.
LeaveToPrompt(s) == callLastError' = [callLastError EXCEPT ![s] = TRUE]

\* A question of the shell for a failed write brings what the server says of a
\* client, or an exception.
Asked(s, answer, answered) ==
  /\ told' = told \union (IF answered THEN Hears(s, answer) ELSE {})
  /\ missed' = missed \union ({latest'[s]} \ {None, IF answered THEN answer ELSE None})

\* The end of a write on client c: news is that the driver's exception named it.  A
\* verbose shell (set verbose true) asks for the last error at once.
WriteEnds(s, c, news, thrown, verbose, answered) ==
  \/ /\ thrown \/ ~verbose
     /\ told' = told \union (IF news THEN Hears(s, latest'[s]) ELSE {})
     /\ IF thrown THEN UNCHANGED callLastError ELSE LeaveToPrompt(s)
     /\ UNCHANGED missed
  \/ /\ ~thrown /\ verbose
     /\ Asked(s, lastError'[c], answered \/ news)
     /\ UNCHANGED callLastError

\* insert with some options, and update, remove (new is None).  An acknowledged
\* write that fails ends in an exception or, printed, goes on.
Write(s, kind, new, verbose, answered) ==
  LET c == client[s]
      news == kind # "good" /\ concern[c] = "ack"
  IN
  /\ c # None
  /\ Sent(s, c, kind)
  /\ SaveLastCalledDB(s, c, news)
  /\ options' = [options EXCEPT ![c] = IF new = None THEN @ ELSE RestoreOptions(@, new, news)]
  /\ WriteEnds(s, c, news, news /\ ~Swallowed(s, kind), verbose, answered)
  /\ UNCHANGED <<flags, client, concern, given, claimed, wrapped>>

\* Variant: an acknowledged write is not asked for.
ReturnsAcknowledged(c, gle) == concern[c] = "ack" \/ gle = "none" \/ (gle = "answer" /\ lastError'[c] = None)

\* _createUser returns when the last error is none, or nothing ("norepl") to wait for, and
\* when the question throws; it throws on an error and when replication takes too long.
Returns(c, gle) == gle = "none" \/ (gle = "answer" /\ lastError'[c] = None)

\* A call that writes and then asks for the last error, in a shell that is not verbose;
\* with goesOn, also when the write threw.  It reports success or not.  The objects of
\* the system collections have options of their own, or are left as they are.
Confirm(s, kind, goesOn, gle, success) ==
  LET c == client[s]
      news == kind # "good" /\ concern[c] = "ack"
      thrown == news /\ ~Swallowed(s, kind)
      asks == ~thrown \/ goesOn
  IN
  /\ c # None
  /\ Sent(s, c, kind)
  /\ SaveLastCalledDB(s, c, news)
  /\ IF thrown THEN UNCHANGED callLastError ELSE LeaveToPrompt(s)
  /\ told' = told \union IF news \/ gle # "none" THEN Hears(s, latest'[s]) ELSE {}
  /\ missed' = missed \union IF asks /\ gle = "none" THEN {latest'[s]} \ {None} ELSE {}
  /\ claimed' = claimed \union IF asks /\ success THEN {latest'[s]} \ {None} ELSE {}
  /\ UNCHANGED <<flags, client, concern, given, options, wrapped>>

\* _createUser, in which addUser ends, saves the user by an insert or an update; a save
\* that throws for want of a login is taken for one that succeeded, and the question is
\* asked.
CreateUser(s, kind, login, gle) == Confirm(s, kind, login, gle, Returns(client[s], gle))

\* Without an answer these two throw.
NoError(c, gle) == gle = "answer" /\ lastError'[c] = None

\* changeUserPassword updates and asks through the global db.
ChangeUserPassword(s, kind, gle) == Confirm(s, kind, FALSE, gle, NoError(client[s], gle))

\* ensureIndex inserts a document and returns the error, or nothing.
EnsureIndex(s, kind, gle) == Confirm(s, kind, FALSE, gle, NoError(client[s], gle))

-----------------------------------------------------------------------------
(* Reading, and asking.                                                     *)

\* Variant: a query stores the last called database, too.
OtherStores(s) ==
  /\ client[s] # None
  /\ lastError' = [lastError EXCEPT ![client[s]] = None]
  /\ lastCalled' = [lastCalled EXCEPT ![s] = client[s]]
  /\ UNCHANGED <<flags, callLastError, client, concern, given, options, failed,
                 latest, told, missed, claimed, wrapped>>

\* Any other operation of the scope: the server's last error is of that one.
Other(s) ==
  /\ client[s] # None
  /\ lastError' = [lastError EXCEPT ![client[s]] = None]
  /\ UNCHANGED <<flags, callLastError, client, lastCalled, concern, given, options,
                 failed, latest, told, missed, claimed, wrapped>>

\* The script calls db.getLastError(); the command leaves the error as it is.
GetLastError(s) ==
  /\ client[s] # None
  /\ UNCHANGED <<flags, callLastError, client, lastCalled, concern, given, options,
                 lastError, failed, latest, missed, claimed, wrapped>>
  /\ told' = told \union Hears(s, lastError[client[s]])

\* shellPrintHelper(undefined): clear the flag, then ask for the last error of the
\* current db.
ShellPrintHelper(s, answered) ==
  /\ callLastError[s] /\ client[s] # None
  /\ callLastError' = [callLastError EXCEPT ![s] = FALSE]
  /\ UNCHANGED <<flags, client, lastCalled, concern, given, options, lastError,
                 failed, latest, claimed, wrapped>>
  /\ Asked(s, lastError[client[s]], answered)

\* The host application asks for the last error at getLastCalledDB().
HostAsks(s) ==
  /\ lastCalled[s] # None
  /\ UNCHANGED <<flags, callLastError, client, lastCalled, concern, given, options,
                 lastError, failed, latest, missed, claimed, wrapped>>
  /\ told' = told \union Hears(s, lastError[lastCalled[s]])

Next ==
  \E s \in Scopes :
    \/ \E c \in Clients : Connect(s, c)
    \/ \E kind \in Kinds, new \in InsertFlags \union {None}, verbose \in BOOLEAN :
         \E answered \in {TRUE, ~verbose} : Write(s, kind, new, verbose, answered)
    \/ \E gle \in {"answer", "timeout", "none"} : CreateUser(s, "good", FALSE, gle)
    \/ \E kind \in Kinds \ {"good"}, login \in BOOLEAN, gle \in {"answer", "none"} :
         CreateUser(s, kind, login, gle)
    \/ \E kind \in Kinds, gle \in {"answer", "none"} :
         ChangeUserPassword(s, kind, gle) \/ EnsureIndex(s, kind, gle)
    \/ Other(s)
    \/ GetLastError(s)
    \/ \E answered \in BOOLEAN : ShellPrintHelper(s, answered)
    \/ HostAsks(s)

Spec == Init /\ [][Next]_vars

-----------------------------------------------------------------------------
(* Properties.                                                              *)

\* Every variable has its type.
TypeOK ==
  /\ flags \in Flags /\ callLastError \in [Scopes -> BOOLEAN]
  /\ client \in [Scopes -> Clients \union {None}]
  /\ lastCalled \in [Scopes -> Clients \union {None}]
  /\ concern \in [Clients -> Concerns] /\ given \in Concerns
  /\ options \in [Clients -> InsertFlags]
  /\ lastError \in [Clients -> Nat \union {None}]
  /\ failed \in Seq([by : Scopes, on : Clients])
  /\ latest \in [Scopes -> Nat \union {None}]
  /\ told \subseteq DOMAIN failed /\ missed \subseteq DOMAIN failed
  /\ claimed \subseteq DOMAIN failed
  /\ wrapped \subseteq Scopes

\* A scope without the shell's write concern hears at once of every write of its
\* own that fails, by an exception or a printed message; except on the host's
\* client, when the host made it not to wait for writes, or when a scope with the
\* shell's write concern had wrapped it before.
HeardAtOnce ==
  [][\A w \in DOMAIN failed' \ DOMAIN failed :
       ~flags[failed'[w].by].shellConcern /\ w \notin told'
       => /\ failed'[w].on = Host
          /\ given = "unack" \/ \E t \in wrapped : flags[t].shellConcern]_vars

\* The host application can find the error of a scope's last write that nobody
\* told the scope of: the last called database is where it failed, and the server
\* names that error there, or none when something else was done on that
\* connection since, or, on the host's client, that of another scope's later write.
HostFindsError ==
  \A s \in Scopes :
    latest[s] \notin told \union {None} =>
      LET c == failed[latest[s]].on IN
      /\ lastCalled[s] = c
      /\ lastError[c] \notin {latest[s], None} =>
           c = Host /\ lastError[c] > latest[s] /\ failed[lastError[c]].by # s

\* While the last write of a scope failed and it has not heard of it, the prompt
\* has yet to ask, or the shell has asked in vain.
PromptOwesAnswer ==
  \A s \in Scopes :
    latest[s] \notin told \union {None}
    => callLastError[s] \/ latest[s] \in missed

\* A collection object is left with the options of an insert only by an insert
\* that failed, and of which its scope heard.
OptionsLeakOnlyOnError ==
  \A c \in Clients :
    options[c] # 0 => \E w \in told : failed[w].on = c

\* addUser, changeUserPassword and ensureIndex report success only when the write is
\* stored, whatever the write concern and the printed errors, unless the question for
\* the last error was not answered: then addUser returns all the same.
SuccessMeansStored == claimed \subseteq missed

=============================================================================
