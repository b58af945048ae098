-------------------------- MODULE BalancerControl --------------------------
(***************************************************************************)
(* Shells that turn the balancer of a sharded cluster off and on again:    *)
(* sh.stopBalancer, sh.startBalancer and sh.setBalancerState (utils_sh.js), *)
(* their ShardingTest forms (shardingtest.js), and the splitter that       *)
(* getSplitKeysForChunks returns (collection.js).                          *)
(*                                                                         *)
(* The balancers are external.  Each mongos runs rounds: it enters a ping  *)
(* in config.mongos, reads config.settings, takes the lock "balancer" in   *)
(* config.locks, moves chunks, enters a second ping with waiting set, and  *)
(* gives the lock back.  A round it skips ends with the second ping as     *)
(* well; one that fails does not.  No shell has a clock: a wait may time   *)
(* out whenever what it waits for has not come.                            *)
(***************************************************************************)
EXTENDS Integers, FiniteSets

CONSTANTS
  Mongos,       \* the mongos processes
  Shells,       \* the shells, one call at a time each
  NoOne,        \* holds the lock: it is free
  Gone,         \* holds the lock: a process that died with it
  PerSecond,    \* pings a mongos can make while a Date's text stays the same
  MayCall,      \* bound: what each shell calls
  MaxPings,     \* bound: pings of one mongos
  MaxCalls,     \* bound: calls of one shell
  MaxLosses     \* bound: crashes, failed rounds and lost updates

ASSUME BoundsAssumption ==
  /\ PerSecond \in Nat \ {0} /\ MaxPings \in Nat
  /\ MaxCalls \in Nat /\ MaxLosses \in Nat
  /\ MayCall \in [Shells -> SUBSET {"stop", "start", "off", "on", "split"}]
  /\ NoOne \notin Mongos /\ Gone \notin Mongos /\ NoOne # Gone

VARIABLES
  stopped,      \* config.settings, { _id: "balancer" }: stopped
  entry,        \* config.mongos: ping and waiting of each mongos that ever ran
  at,           \* where each mongos is in its round
  holder, ts,   \* config.locks, { _id: "balancer" }: who has it, and its ts
  pc, call,     \* where each shell is in which call
  viaTest,      \* the call is ShardingTest's, which replaces the global db
  db, oldDB,    \* the shell's global db: its own, or the config database
  active,       \* the pings waitForPingChange still has to look at
  remaining,    \* those it has given up on
  beginTS,      \* the ts waitForDLock compares with
  result,       \* how the shell's last call ended
  held,         \* stopped has been true ever since this shell set it
  freeTS,       \* ts when waitForDLock found the lock free
  calls, losses \* counts for the bounds

mongosVars == <<entry, at, holder, ts>>
shellVars == <<pc, call, viaTest, db, oldDB, active, remaining, beginTS, result, freeTS, calls>>
vars == <<stopped, mongosVars, shellVars, held, losses>>

Never == [ping |-> 0, waiting |-> TRUE]

Init ==
  /\ stopped \in BOOLEAN
  /\ entry = [m \in Mongos |-> Never] /\ at = [m \in Mongos |-> "off"]
  /\ holder = NoOne /\ ts = 0
  /\ pc = [s \in Shells |-> "idle"] /\ call = [s \in Shells |-> "none"]
  /\ viaTest = [s \in Shells |-> FALSE] /\ db = [s \in Shells |-> "own"]
  /\ oldDB = [s \in Shells |-> "own"]
  /\ active = [s \in Shells |-> {}] /\ remaining = [s \in Shells |-> {}]
  /\ beginTS = [s \in Shells |-> 0] /\ result = [s \in Shells |-> "none"]
  /\ held = [s \in Shells |-> FALSE] /\ freeTS = [s \in Shells |-> 0]
  /\ calls = [s \in Shells |-> 0] /\ losses = 0

-----------------------------------------------------------------------------
(* The balancer of one mongos.                                              *)

Ping(m, waiting) ==
  entry' = [entry EXCEPT ![m] = [ping |-> @.ping + 1, waiting |-> waiting]]

\* A mongos comes up, for the first time or again, and rests.
Boot(m) ==
  /\ at[m] = "off"
  /\ at' = [at EXCEPT ![m] = "resting"]
  /\ UNCHANGED <<stopped, entry, holder, ts, shellVars, held, losses>>

BeginRound(m) ==
  /\ at[m] = "resting" /\ entry[m].ping < MaxPings
  /\ Ping(m, FALSE)
  /\ at' = [at EXCEPT ![m] = "pinged"]
  /\ UNCHANGED <<stopped, holder, ts, shellVars, held, losses>>

ReadSettings(m) ==
  /\ at[m] = "pinged"
  /\ IF stopped
     THEN Ping(m, TRUE) /\ at' = [at EXCEPT ![m] = "resting"]
     ELSE at' = [at EXCEPT ![m] = "cleared"] /\ UNCHANGED entry
  /\ UNCHANGED <<stopped, holder, ts, shellVars, held, losses>>

\* The lock of a process that has died may be taken over.
TakeLock(m) ==
  /\ at[m] = "cleared" /\ holder \in {NoOne, Gone}
  /\ holder' = m /\ ts' = ts + 1
  /\ at' = [at EXCEPT ![m] = "balancing"]
  /\ UNCHANGED <<stopped, entry, shellVars, held, losses>>

SkipRound(m) ==
  /\ at[m] = "cleared" /\ holder # NoOne
  /\ Ping(m, TRUE) /\ at' = [at EXCEPT ![m] = "resting"]
  /\ UNCHANGED <<stopped, holder, ts, shellVars, held, losses>>

\* The second ping of a round is entered while the lock is still held.
EndRound(m) ==
  /\ at[m] = "balancing"
  /\ Ping(m, TRUE) /\ at' = [at EXCEPT ![m] = "leaving"]
  /\ UNCHANGED <<stopped, holder, ts, shellVars, held, losses>>

Unlock(m) ==
  /\ at[m] = "leaving"
  /\ holder' = NoOne /\ at' = [at EXCEPT ![m] = "resting"]
  /\ UNCHANGED <<stopped, entry, ts, shellVars, held, losses>>

\* A round that fails gives the lock back and enters no second ping.
FailRound(m) ==
  /\ at[m] \in {"pinged", "cleared", "balancing"} /\ losses < MaxLosses
  /\ at' = [at EXCEPT ![m] = "resting"]
  /\ holder' = IF holder = m THEN NoOne ELSE holder
  /\ losses' = losses + 1
  /\ UNCHANGED <<stopped, entry, ts, shellVars, held>>

Crash(m) ==
  /\ at[m] # "off" /\ losses < MaxLosses
  /\ at' = [at EXCEPT ![m] = "off"]
  /\ holder' = IF holder = m THEN Gone ELSE holder
  /\ losses' = losses + 1
  /\ UNCHANGED <<stopped, entry, ts, shellVars, held>>

MongosStep(m) ==
  \/ Boot(m) \/ BeginRound(m) \/ ReadSettings(m) \/ TakeLock(m) \/ SkipRound(m)
  \/ EndRound(m) \/ Unlock(m) \/ FailRound(m) \/ Crash(m)

-----------------------------------------------------------------------------
(* The shells.                                                              *)

Calls == {"stop", "start", "off", "on", "split"}

TurnsOff(c) == c \in {"stop", "off", "split"}

\* A script calls sh.stopBalancer, sh.startBalancer, sh.setBalancerState(false) or
\* (true), the ShardingTest form of one of the first two, or a splitter.
Call(s, c, test) ==
  /\ pc[s] = "idle" /\ calls[s] < MaxCalls /\ c \in MayCall[s]
  /\ test => c \in {"stop", "start"}
  /\ pc' = [pc EXCEPT ![s] = "set"] /\ call' = [call EXCEPT ![s] = c]
  /\ viaTest' = [viaTest EXCEPT ![s] = test]
  /\ result' = [result EXCEPT ![s] = "none"]
  /\ remaining' = [remaining EXCEPT ![s] = {}]
  /\ calls' = [calls EXCEPT ![s] = @ + 1]
  /\ UNCHANGED <<stopped, mongosVars, db, oldDB, active, beginTS, freeTS, held, losses>>

\* The update of config.settings; nobody asks whether it was carried out.
Update(s, value, lost) ==
  /\ lost => losses < MaxLosses
  /\ losses' = IF lost THEN losses + 1 ELSE losses
  /\ stopped' = IF lost THEN stopped ELSE value
  /\ held' = IF lost THEN held
             ELSE [t \in Shells |-> value /\ (t = s \/ held[t])]

\* Variant: stopBalancer waits for the lock only.
SetSkipsPings(s, lost) ==
  /\ pc[s] = "set"
  /\ Update(s, TurnsOff(call[s]), lost)
  /\ active' = [active EXCEPT ![s] = {}]
  /\ pc' = [pc EXCEPT ![s] =
              CASE call[s] = "stop"  -> "lock"
                [] call[s] = "start" -> "readLock"
                [] call[s] = "split" -> "splitting"
                [] OTHER             -> "idle"]
  /\ IF viaTest[s]
     THEN /\ oldDB' = [oldDB EXCEPT ![s] = db[s]]
          /\ db' = [db EXCEPT ![s] = "config"]
     ELSE UNCHANGED <<db, oldDB>>
  /\ UNCHANGED <<mongosVars, call, viaTest, remaining, beginTS, result, freeTS, calls>>

\* The setting is changed, then the ShardingTest form replaces db.
Set(s, lost) ==
  /\ pc[s] = "set"
  /\ Update(s, TurnsOff(call[s]), lost)
  /\ pc' = [pc EXCEPT ![s] =
              CASE call[s] = "stop"  -> "readPings"
                [] call[s] = "start" -> "readLock"
                [] call[s] = "split" -> "splitting"
                [] OTHER             -> "idle"]
  /\ IF viaTest[s]
     THEN /\ oldDB' = [oldDB EXCEPT ![s] = db[s]]
          /\ db' = [db EXCEPT ![s] = "config"]
     ELSE UNCHANGED <<db, oldDB>>
  /\ UNCHANGED <<mongosVars, call, viaTest, active, remaining, beginTS, result,
                 freeTS, calls>>

\* The call returns; the ShardingTest form puts db back.
Return(s, r) ==
  /\ pc' = [pc EXCEPT ![s] = "idle"]
  /\ result' = [result EXCEPT ![s] = r]
  /\ db' = IF viaTest[s] THEN [db EXCEPT ![s] = oldDB[s]] ELSE db

\* An exception leaves db as it is.
Raise(s) ==
  /\ pc' = [pc EXCEPT ![s] = "idle"]
  /\ result' = [result EXCEPT ![s] = "threw"]
  /\ UNCHANGED db

-----------------------------------------------------------------------------
(* sh.waitForBalancerOff.                                                   *)

\* The hosts whose last ping was not at the end of a round are active.
ReadPings(s) ==
  /\ pc[s] = "readPings"
  /\ active' = [active EXCEPT ![s] =
       {[host |-> m, ping |-> entry[m].ping] : m \in {n \in Mongos : ~entry[n].waiting}}]
  /\ pc' = [pc EXCEPT ![s] = "pings"]
  /\ UNCHANGED <<stopped, mongosVars, call, viaTest, db, oldDB, remaining, beginTS,
                 result, freeTS, calls, held, losses>>

\* Pings are compared as texts, which tell seconds apart.
PingText(p) == p \div PerSecond

Changed(a) == PingText(entry[a.host].ping) # PingText(a.ping)

InPings(s) == pc[s] \in {"pings", "pingsAgain"}

\* waitForPingChange sees that a host has been round to its ping again.
SeePing(s, a) ==
  /\ InPings(s) /\ Changed(a)
  /\ active' = [active EXCEPT ![s] = @ \ {a}]
  /\ UNCHANGED <<stopped, mongosVars, pc, call, viaTest, db, oldDB, remaining,
                 beginTS, result, freeTS, calls, held, losses>>

\* Variant: only a host that has ended a round is given up on.
GiveUpOnWaiting(s, a) ==
  /\ InPings(s) /\ ~Changed(a) /\ entry[a.host].waiting
  /\ active' = [active EXCEPT ![s] = @ \ {a}]
  /\ remaining' = [remaining EXCEPT ![s] = @ \union {a}]
  /\ UNCHANGED <<stopped, mongosVars, pc, call, viaTest, db, oldDB, beginTS, result,
                 freeTS, calls, held, losses>>

\* It gives up on a host.
GiveUp(s, a) ==
  /\ InPings(s) /\ ~Changed(a)
  /\ active' = [active EXCEPT ![s] = @ \ {a}]
  /\ remaining' = [remaining EXCEPT ![s] = @ \union {a}]
  /\ UNCHANGED <<stopped, mongosVars, pc, call, viaTest, db, oldDB, beginTS, result,
                 freeTS, calls, held, losses>>

\* The hosts given up on are the active ones of the second wait.
PingsSeen(s) ==
  /\ pc[s] = "pings" /\ active[s] = {}
  /\ active' = [active EXCEPT ![s] = remaining[s]]
  /\ remaining' = [remaining EXCEPT ![s] = {}]
  /\ pc' = [pc EXCEPT ![s] = "lock"]
  /\ UNCHANGED <<stopped, mongosVars, call, viaTest, db, oldDB, beginTS, result,
                 freeTS, calls, held, losses>>

\* Variant: a lock that a dead process or somebody else holds will do.
LockSeen(s) ==
  /\ pc[s] = "lock"
  /\ freeTS' = [freeTS EXCEPT ![s] = ts]
  /\ pc' = [pc EXCEPT ![s] = "pingsAgain"]
  /\ UNCHANGED <<stopped, mongosVars, call, viaTest, db, oldDB, active, remaining,
                 beginTS, result, calls, held, losses>>

\* waitForDLock finds the lock free.
LockFree(s) ==
  /\ pc[s] = "lock" /\ holder = NoOne
  /\ freeTS' = [freeTS EXCEPT ![s] = ts]
  /\ pc' = [pc EXCEPT ![s] = "pingsAgain"]
  /\ UNCHANGED <<stopped, mongosVars, call, viaTest, db, oldDB, active, remaining,
                 beginTS, result, calls, held, losses>>

\* It waits too long: the exception is raised again.
LockTimeout(s) ==
  /\ pc[s] = "lock" /\ holder # NoOne
  /\ Raise(s)
  /\ active' = [active EXCEPT ![s] = {}]
  /\ UNCHANGED <<stopped, mongosVars, call, viaTest, oldDB, remaining, beginTS,
                 freeTS, calls, held, losses>>

\* The hosts that are left now are only warned of.
Stopped(s) ==
  /\ pc[s] = "pingsAgain" /\ active[s] = {}
  /\ Return(s, IF remaining[s] = {} THEN "stopped" ELSE "warned")
  /\ UNCHANGED <<stopped, mongosVars, call, viaTest, oldDB, active, remaining,
                 beginTS, freeTS, calls, held, losses>>

-----------------------------------------------------------------------------
(* sh.waitForDLock for a change, and the splitter.                          *)

ReadLock(s) ==
  /\ pc[s] = "readLock"
  /\ beginTS' = [beginTS EXCEPT ![s] = ts]
  /\ pc' = [pc EXCEPT ![s] = "change"]
  /\ UNCHANGED <<stopped, mongosVars, call, viaTest, db, oldDB, active, remaining,
                 result, freeTS, calls, held, losses>>

LockChanged(s) ==
  /\ pc[s] = "change" /\ ts # beginTS[s]
  /\ Return(s, "started")
  /\ UNCHANGED <<stopped, mongosVars, call, viaTest, oldDB, active, remaining,
                 beginTS, freeTS, calls, held, losses>>

NoChange(s) ==
  /\ pc[s] = "change" /\ ts = beginTS[s]
  /\ Raise(s)
  /\ UNCHANGED <<stopped, mongosVars, call, viaTest, oldDB, active, remaining,
                 beginTS, freeTS, calls, held, losses>>

\* The splitter sleeps, splits, and turns the balancer on, as it was or not.
SplitterEnds(s, lost) ==
  /\ pc[s] = "splitting"
  /\ Update(s, FALSE, lost)
  /\ Return(s, "none")
  /\ UNCHANGED <<mongosVars, call, viaTest, oldDB, active, remaining, beginTS,
                 freeTS, calls>>

ShellStep(s) ==
  \/ \E lost \in BOOLEAN : Set(s, lost)
  \/ ReadPings(s)
  \/ \E a \in active[s] : SeePing(s, a) \/ GiveUp(s, a)
  \/ PingsSeen(s) \/ LockFree(s) \/ LockTimeout(s) \/ Stopped(s)
  \/ ReadLock(s) \/ LockChanged(s) \/ NoChange(s)
  \/ \E lost \in BOOLEAN : SplitterEnds(s, lost)

Next ==
  \/ \E m \in Mongos : MongosStep(m)
  \/ \E s \in Shells, c \in Calls, test \in BOOLEAN : Call(s, c, test)
  \/ \E s \in Shells : ShellStep(s)

\* A shell goes on: every wait of these calls has a timeout.  Scripts need not
\* call, and the balancers owe nothing.
Spec == Init /\ [][Next]_vars /\ \A s \in Shells : WF_vars(ShellStep(s))

-----------------------------------------------------------------------------
(* Properties.                                                              *)

\* Every variable has its type.
TypeOK ==
  /\ stopped \in BOOLEAN
  /\ entry \in [Mongos -> [ping : Nat, waiting : BOOLEAN]]
  /\ at \in [Mongos -> {"off", "resting", "pinged", "cleared", "balancing", "leaving"}]
  /\ holder \in Mongos \union {NoOne, Gone} /\ ts \in Nat
  /\ pc \in [Shells -> {"idle", "set", "readPings", "pings", "lock", "pingsAgain",
                        "readLock", "change", "splitting"}]
  /\ call \in [Shells -> Calls \union {"none"}]
  /\ viaTest \in [Shells -> BOOLEAN]
  /\ db \in [Shells -> {"own", "config"}] /\ oldDB \in [Shells -> {"own", "config"}]
  /\ active \in [Shells -> SUBSET [host : Mongos, ping : Nat]]
  /\ remaining \in [Shells -> SUBSET [host : Mongos, ping : Nat]]
  /\ beginTS \in [Shells -> Nat] /\ freeTS \in [Shells -> Nat]
  /\ result \in [Shells -> {"none", "stopped", "warned", "started", "threw"}]
  /\ held \in [Shells -> BOOLEAN] /\ calls \in [Shells -> Nat] /\ losses \in Nat

\* When stopBalancer has returned, and the balancer has been off since it was
\* turned off, only a host it warned of can still be in a round or go into one.
OnlyWarnedHostsBalance ==
  \A s \in Shells, m \in Mongos :
    /\ held[s] /\ result[s] \in {"stopped", "warned"}
    /\ at[m] \in {"cleared", "balancing"}
    => \E a \in remaining[s] : a.host = m

\* A round that is moving chunks when stopBalancer has returned, warning or not,
\* took the lock after stopBalancer had found it free.
NoOldRound ==
  \A s \in Shells :
    /\ result[s] \in {"stopped", "warned"}
    /\ \E m \in Mongos : at[m] = "balancing"
    => ts > freeTS[s]

\* Every call comes to an end, whatever the balancers do.
EveryCallEnds == \A s \in Shells : pc[s] # "idle" ~> pc[s] = "idle"

=============================================================================
