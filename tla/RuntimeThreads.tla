--------------------------- MODULE RuntimeThreads ---------------------------
(***************************************************************************)
(* Threads of a host application inside the runtime: MongoRuntime.call and *)
(* its global ContextFactory, the scope a MongoContext believes it is      *)
(* executing, and the connection registry of a MongoScope, which cleanup   *)
(* walks while scripts on other threads connect and authenticate.          *)
(*                                                                         *)
(* A thread is outside the runtime (no frames) or in a stack of calls: a   *)
(* Java function that a script calls calls MongoRuntime again, in the same *)
(* Rhino Context.  Rhino (ContextFactory, Context) and HashSet are         *)
(* external: hasExplicitGlobal and initGlobal are two separate calls, an   *)
(* iterator is not synchronized with the set it walks.                     *)
(***************************************************************************)
EXTENDS Naturals, Sequences

CONSTANTS
  Threads,
  Scopes,       \* the MongoScopes
  MongoObjects, \* the JavaScript Mongo objects, of any scope
  NoScope,      \* the null scope of some MongoActions, of no execution
  MaxDepth,     \* bound: how deep calls nest
  MaxClients    \* bound: how many driver clients a Mongo object goes through

ASSUME ThreadsAssumption == Threads # {}
ASSUME NoScopeAssumption == NoScope \notin Scopes
ASSUME BoundsAssumption == MaxDepth \in Nat /\ MaxClients \in Nat

VARIABLES
  factory,      \* the global ContextFactory: none set, a MongoContextFactory, other
  pc,           \* what a thread does next
  arg,          \* the scope a thread's call is for, the Mongo it is registering
  frames,       \* the scopes of the MongoActions a thread is in, outermost first
  executing,    \* MongoContext.executingMongoScope of a thread's Context
  lost,         \* how many calls of a thread failed with IllegalStateException
  home,         \* the scope of a Mongo object
  clients,      \* how many driver clients a Mongo object has had
  open,         \* whether the last of them is open
  registry,     \* MongoScope.mongoConnections, per scope
  walk,         \* a thread's iteration over a scope's mongoConnections
  through,      \* auxiliary: a call has got through to its action
  late          \* auxiliary: a thread's call, not yet through, began after that

callVars == <<factory, frames, executing, lost, through, late>>
connVars == <<home, clients, open>>
runtimeVars ==
  <<factory, pc, arg, frames, executing, lost, home, clients, open, registry, walk,
    through, late>>

ScopeOrNone == Scopes \union {NoScope}

\* todo is what the iterator has yet to return; changed says the set was
\* modified since the iterator was made.  start is an auxiliary record: the
\* clients each Mongo object of the registry had had when the iteration began,
\* 0 for the others.
NoWalk == [ scope |-> NoScope, todo |-> {}, changed |-> FALSE,
            start |-> [m \in MongoObjects |-> 0] ]

RuntimeInit ==
  /\ factory \in {"none", "other"}
  /\ pc = [t \in Threads |-> "run"]
  /\ arg = [t \in Threads |-> NoScope]
  /\ frames = [t \in Threads |-> << >>]
  /\ executing = [t \in Threads |-> NoScope]
  /\ lost = [t \in Threads |-> 0]
  /\ home = [m \in MongoObjects |-> NoScope]
  /\ clients = [m \in MongoObjects |-> 0]
  /\ open = [m \in MongoObjects |-> FALSE]
  /\ registry = [s \in Scopes |-> {}]
  /\ walk = [t \in Threads |-> NoWalk]
  /\ through = FALSE
  /\ late = [t \in Threads |-> FALSE]

\* Thread t runs its own code, outside the runtime or in its innermost call.
Running(t) == pc[t] = "run"

Top(t) == frames[t][Len(frames[t])]

Goto(t, label) == pc' = [pc EXCEPT ![t] = label]

-----------------------------------------------------------------------------
(* MongoRuntime.call.                                                       *)

\* Variant: the factory is set without asking whether one is set.
CallUnasked(t, s) ==
  /\ Running(t) /\ Len(frames[t]) < MaxDepth
  /\ arg' = [arg EXCEPT ![t] = s]
  /\ Goto(t, "initGlobal")
  /\ late' = [late EXCEPT ![t] = through]
  /\ UNCHANGED <<factory, frames, executing, lost, through, connVars, registry, walk>>

\* call(action), the action's scope being s: hasExplicitGlobal() is asked first.
\* InitMongoScopeAction and some actions of BSONizer have no scope.
Call(t, s) ==
  /\ Running(t) /\ Len(frames[t]) < MaxDepth
  /\ arg' = [arg EXCEPT ![t] = s]
  /\ Goto(t, IF factory = "none" THEN "initGlobal" ELSE "enter")
  /\ late' = [late EXCEPT ![t] = through]
  /\ UNCHANGED <<factory, frames, executing, lost, through, connVars, registry, walk>>

\* initGlobal(new MongoContextFactory()) throws when another thread was first.
InitGlobal(t) ==
  /\ pc[t] = "initGlobal"
  /\ IF factory = "none"
     THEN /\ factory' = "mongo"
          /\ Goto(t, "enter")
          /\ UNCHANGED <<arg, lost, late>>
     ELSE /\ lost' = [lost EXCEPT ![t] = @ + 1]
          /\ Goto(t, "run")
          /\ arg' = [arg EXCEPT ![t] = NoScope]
          /\ late' = [late EXCEPT ![t] = FALSE]
          /\ UNCHANGED factory
  /\ UNCHANGED <<frames, executing, through, connVars, registry, walk>>

\* Variant: an action without a scope hides the scope around it.
UpdatedAlways(was, s) == s

\* MongoContext.updateExecutingMongoScope.
Updated(was, s) == IF s = NoScope THEN was ELSE s

\* Context.call and MongoAction.run: a nested call stays in the Context of the
\* outer one; a Context another factory made knows no scope.
Enter(t) ==
  /\ pc[t] = "enter"
  /\ frames' = [frames EXCEPT ![t] = Append(@, arg[t])]
  /\ executing' = [executing EXCEPT
                     ![t] = IF factory = "mongo" THEN Updated(@, arg[t]) ELSE @]
  /\ arg' = [arg EXCEPT ![t] = NoScope]
  /\ Goto(t, "run")
  /\ through' = TRUE
  /\ late' = [late EXCEPT ![t] = FALSE]
  /\ UNCHANGED <<factory, lost, connVars, registry, walk>>

\* The action is done; the Context goes with the outermost call.
Return(t) ==
  /\ Running(t) /\ frames[t] # << >>
  /\ frames' = [frames EXCEPT ![t] = SubSeq(@, 1, Len(@) - 1)]
  /\ executing' = [executing EXCEPT ![t] = IF Len(frames[t]) = 1 THEN NoScope ELSE @]
  /\ UNCHANGED <<factory, pc, arg, lost, through, late, connVars, registry, walk>>

\* resolveParentAndPrototype(): the scope an object gets that thread t's script
\* made without "new".  NoScope: an exception.
BareScope(t) == executing[t]

-----------------------------------------------------------------------------
(* Connections.                                                             *)

\* The walks of scope s once its registry was changed by a thread other than the
\* walking one; seen says which of them come upon the added Mongo objects.
Disturbed(s, added, seen) ==
  [t \in Threads |->
     IF walk[t].scope # s THEN walk[t]
     ELSE [walk[t] EXCEPT !.changed = TRUE,
                          !.todo = IF t \in seen /\ @ # {} THEN @ \union added ELSE @]]

\* A script makes a Mongo object, with "new" in its own scope s, without it in
\* the one BareScope gives: setParentScope connects first ...
Connect(t, m, s) ==
  /\ Running(t) /\ frames[t] # << >> /\ Top(t) # NoScope
  /\ s \in {Top(t), BareScope(t)} \ {NoScope}
  /\ home[m] = NoScope
  /\ home' = [home EXCEPT ![m] = s]
  /\ clients' = [clients EXCEPT ![m] = 1]
  /\ open' = [open EXCEPT ![m] = TRUE]
  /\ arg' = [arg EXCEPT ![t] = m]
  /\ Goto(t, "register")
  /\ UNCHANGED <<callVars, registry, walk>>

\* ... and then calls addMongoConnection.
Register(t) ==
  /\ pc[t] = "register"
  /\ LET s == home[arg[t]]
     IN /\ registry' = [registry EXCEPT ![s] = @ \union {arg[t]}]
        /\ \E seen \in SUBSET Threads : walk' = Disturbed(s, {arg[t]}, seen)
  /\ arg' = [arg EXCEPT ![t] = NoScope]
  /\ Goto(t, "run")
  /\ UNCHANGED <<callVars, connVars>>

\* Mongo.auth on a database the driver believes authenticated: close() and
\* initMongoConnection().
Reconnect(t, m) ==
  /\ Running(t) /\ frames[t] # << >> /\ Top(t) = home[m] /\ home[m] # NoScope
  /\ clients[m] < MaxClients
  /\ clients' = [clients EXCEPT ![m] = @ + 1]
  /\ open' = [open EXCEPT ![m] = TRUE]
  /\ UNCHANGED <<callVars, pc, arg, home, registry, walk>>

\* cleanup(), which the host application calls, outside the runtime or from a
\* Java function that a script called: the for statement makes the iterator ...
CleanupBegins(t, s) ==
  /\ Running(t)
  /\ walk' = [walk EXCEPT ![t] =
       [ scope |-> s, todo |-> registry[s], changed |-> FALSE,
         start |-> [m \in MongoObjects |-> IF m \in registry[s] THEN clients[m] ELSE 0] ]]
  /\ Goto(t, "cleanup")
  /\ UNCHANGED <<callVars, arg, connVars, registry>>

\* Variant: the walk gives up on the first connection it finds closed.
CleanupSkips(t, m) ==
  /\ pc[t] = "cleanup" /\ m \in walk[t].todo
  /\ open' = [open EXCEPT ![m] = FALSE]
  /\ walk' = [walk EXCEPT ![t].todo = IF open[m] THEN @ \ {m} ELSE {}]
  /\ UNCHANGED <<callVars, pc, arg, home, clients, registry>>

\* ... closes one connection after the other ...
CleanupCloses(t, m) ==
  /\ pc[t] = "cleanup" /\ m \in walk[t].todo
  /\ open' = [open EXCEPT ![m] = FALSE]
  /\ walk' = [walk EXCEPT ![t].todo = @ \ {m}]
  /\ UNCHANGED <<callVars, pc, arg, home, clients, registry>>

\* ... which a ConcurrentModificationException ends when the iterator notices
\* that the set has changed (it need not) ...
CleanupThrows(t) ==
  /\ pc[t] = "cleanup" /\ walk[t].todo # {} /\ walk[t].changed
  /\ walk' = [walk EXCEPT ![t] = NoWalk]
  /\ Goto(t, "run")
  /\ UNCHANGED <<callVars, arg, connVars, registry>>

\* ... and clear() forgets them all.
CleanupClears(t) ==
  /\ pc[t] = "cleanup" /\ walk[t].todo = {}
  /\ registry' = [registry EXCEPT ![walk[t].scope] = {}]
  /\ walk' = [Disturbed(walk[t].scope, {}, {}) EXCEPT ![t] = NoWalk]
  /\ Goto(t, "run")
  /\ UNCHANGED <<callVars, arg, connVars>>

RuntimeNext ==
  \E t \in Threads :
    \/ \E s \in ScopeOrNone : Call(t, s)
    \/ InitGlobal(t)
    \/ Enter(t)
    \/ Return(t)
    \/ \E m \in MongoObjects :
         \/ \E s \in Scopes : Connect(t, m, s)
         \/ Reconnect(t, m)
         \/ CleanupCloses(t, m)
    \/ Register(t)
    \/ \E s \in Scopes : CleanupBegins(t, s)
    \/ CleanupThrows(t)
    \/ CleanupClears(t)

RuntimeSpec == RuntimeInit /\ [][RuntimeNext]_runtimeVars

-----------------------------------------------------------------------------
(* Properties.                                                              *)

\* Every variable has its type, and a thread outside the runtime executes no
\* scope: nothing of one call is left for the next one on a pooled thread.
RuntimeTypeOK ==
  /\ factory \in {"none", "mongo", "other"}
  /\ pc \in [Threads -> {"run", "initGlobal", "enter", "register", "cleanup"}]
  /\ arg \in [Threads -> ScopeOrNone \union MongoObjects]
  /\ frames \in [Threads -> Seq(ScopeOrNone)]
  /\ executing \in [Threads -> ScopeOrNone]
  /\ lost \in [Threads -> Nat]
  /\ home \in [MongoObjects -> ScopeOrNone]
  /\ clients \in [MongoObjects -> Nat]
  /\ open \in [MongoObjects -> BOOLEAN]
  /\ registry \in [Scopes -> SUBSET MongoObjects]
  /\ walk \in [Threads -> [ scope : ScopeOrNone, todo : SUBSET MongoObjects,
                            changed : BOOLEAN, start : [MongoObjects -> Nat] ]]
  /\ through \in BOOLEAN
  /\ late \in [Threads -> BOOLEAN]
  /\ \A t \in Threads : frames[t] = << >> => executing[t] = NoScope

\* initGlobal is about to refuse the call of thread t.
Refused(t) == pc[t] = "initGlobal" /\ factory # "none"

\* Only the race to set the global factory loses calls: a thread loses one at
\* most, one thread at least loses none, none is lost when another factory was
\* set before, and none that began after a call, of any thread, got through.
LosesOnlyFirstCalls ==
  /\ \A t \in Threads : lost[t] <= 1 /\ ~(Refused(t) /\ late[t])
  /\ \E t \in Threads : lost[t] = 0
  /\ factory = "other" => \A t \in Threads : lost[t] = 0

\* The innermost scope thread t executes.
RunningScope(t) ==
  IF \E i \in DOMAIN frames[t] : frames[t][i] # NoScope
  THEN frames[t][CHOOSE i \in DOMAIN frames[t] :
                   /\ frames[t][i] # NoScope
                   /\ \A j \in i + 1 .. Len(frames[t]) : frames[t][j] = NoScope]
  ELSE NoScope

ScopeRight(t) == BareScope(t) = RunningScope(t)

\* In a MongoContext, objects made without "new" go to the scope that is running,
\* until a nested call for another scope returns; then they go to that other
\* scope (nothing restores the executing scope).
StaleOnlyAfterNestedReturn ==
  [][\A t \in Threads :
       factory = "mongo" /\ ScopeRight(t) /\ ~ScopeRight(t)' =>
         /\ Len(frames'[t]) < Len(frames[t])
         /\ BareScope(t)' = RunningScope(t)]_runtimeVars

\* Since the cleanup of thread t began, Mongo object m was registered (it may
\* have been connected before that) or got another client by authentication.
Raced(t, m) == walk[t].start[m] = 0 \/ clients[m] > walk[t].start[m]

\* When cleanup forgets a connection that is open, the connection was
\* registered, or made anew by authentication, after cleanup began: every one
\* that was registered before and stayed as it was is closed.
ForgottenOpenOnlyIfRaced ==
  [][\A s \in Scopes : \A m \in registry[s] \ registry'[s] :
       open[m] => \E t \in Threads : walk[t].scope = s /\ Raced(t, m)]_runtimeVars

\* The javadoc of MongoRuntime.call: "If the global ContextFactory has not
\* explicitly been set yet then this method will set" one; a call does not fail
\* because of it.
CallsGetThrough == \A t \in Threads : lost[t] = 0

=============================================================================
