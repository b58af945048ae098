----------------------- MODULE BalancerControl_proofs -----------------------
(***************************************************************************)
(* Proofs about BalancerControl, for any number of mongos and of shells.   *)
(***************************************************************************)
EXTENDS BalancerControl, TLAPS

(* The second ping's flag, and the setting, keep their types.              *)
LEMMA PingTypes ==
  ASSUME TypeOK, NEW m \in Mongos, NEW waiting \in BOOLEAN, Ping(m, waiting)
  PROVE  entry' \in [Mongos -> [ping : Nat, waiting : BOOLEAN]]
BY DEF TypeOK, Ping

LEMMA UpdateTypes ==
  ASSUME TypeOK, NEW s \in Shells, NEW value \in BOOLEAN, NEW lost \in BOOLEAN,
         Update(s, value, lost)
  PROVE  losses' \in Nat /\ stopped' \in BOOLEAN /\ held' \in [Shells -> BOOLEAN]
<1>1. losses' \in Nat /\ stopped' \in BOOLEAN
  BY DEF TypeOK, Update
<1>2. CASE lost
  BY <1>1, <1>2 DEF TypeOK, Update
<1>3. CASE ~lost
  <2>1. held' = [t \in Shells |-> value /\ (t = s \/ held[t])]
    BY <1>3 DEF Update
  <2> QED
    BY <1>1, <2>1
<1> QED
  BY <1>2, <1>3

(* One step per action keeps the types.                                    *)
LEMMA TypeStep == TypeOK /\ [Next]_vars => TypeOK'
<1> SUFFICES ASSUME TypeOK, [Next]_vars PROVE TypeOK'
  OBVIOUS
<1> USE BoundsAssumption DEF TypeOK, mongosVars, shellVars, Calls
<1>1. ASSUME NEW m \in Mongos, MongosStep(m) PROVE TypeOK'
  <2>1. CASE Boot(m)
    BY <2>1 DEF Boot
  <2>2. CASE BeginRound(m)
    BY <2>2 DEF BeginRound, Ping
  <2>3. CASE ReadSettings(m)
    <3>1. entry' \in [Mongos -> [ping : Nat, waiting : BOOLEAN]]
      BY <2>3, PingTypes DEF ReadSettings
    <3> QED
      BY <2>3, <3>1, ZenonT(60) DEF ReadSettings
  <2>4. CASE TakeLock(m)
    BY <2>4 DEF TakeLock
  <2>5. CASE SkipRound(m)
    BY <2>5 DEF SkipRound, Ping
  <2>6. CASE EndRound(m)
    BY <2>6 DEF EndRound, Ping
  <2>7. CASE Unlock(m)
    BY <2>7 DEF Unlock
  <2>8. CASE FailRound(m)
    BY <2>8 DEF FailRound
  <2>9. CASE Crash(m)
    BY <2>9 DEF Crash
  <2> QED
    BY <1>1, <2>1, <2>2, <2>3, <2>4, <2>5, <2>6, <2>7, <2>8, <2>9 DEF MongosStep
<1>2. ASSUME NEW s \in Shells, NEW c \in Calls, NEW test \in BOOLEAN, Call(s, c, test)
      PROVE  TypeOK'
  BY <1>2 DEF Call
<1>3. ASSUME NEW s \in Shells, ShellStep(s) PROVE TypeOK'
  <2>1. ASSUME NEW lost \in BOOLEAN, Set(s, lost) PROVE TypeOK'
    <3>1. losses' \in Nat /\ stopped' \in BOOLEAN /\ held' \in [Shells -> BOOLEAN]
      <4>1. Update(s, TurnsOff(call[s]), lost)
        BY <2>1 DEF Set
      <4>2. TurnsOff(call[s]) \in BOOLEAN
        BY SMT DEF TurnsOff
      <4> QED
        BY <4>1, <4>2, UpdateTypes, ZenonT(60)
    <3>2. pc' \in [Shells -> {"idle", "set", "readPings", "pings", "lock", "pingsAgain",
                              "readLock", "change", "splitting"}]
      BY <2>1 DEF Set
    <3>3. db' \in [Shells -> {"own", "config"}] /\ oldDB' \in [Shells -> {"own", "config"}]
      BY <2>1, ZenonT(60) DEF Set
    <3> QED
      BY <2>1, <3>1, <3>2, <3>3 DEF Set
  <2>2. CASE ReadPings(s)
    BY <2>2 DEF ReadPings
  <2>3. ASSUME NEW a \in active[s], SeePing(s, a) PROVE TypeOK'
    BY <2>3 DEF SeePing
  <2>4. ASSUME NEW a \in active[s], GiveUp(s, a) PROVE TypeOK'
    BY <2>4 DEF GiveUp
  <2>5. CASE PingsSeen(s)
    BY <2>5 DEF PingsSeen
  <2>6. CASE LockFree(s)
    BY <2>6 DEF LockFree
  <2>7. CASE LockTimeout(s)
    BY <2>7 DEF LockTimeout, Raise
  <2>8. CASE Stopped(s)
    BY <2>8 DEF Stopped, Return
  <2>9. CASE ReadLock(s)
    BY <2>9 DEF ReadLock
  <2>10. CASE LockChanged(s)
    BY <2>10 DEF LockChanged, Return
  <2>11. CASE NoChange(s)
    BY <2>11 DEF NoChange, Raise
  <2>12. ASSUME NEW lost \in BOOLEAN, SplitterEnds(s, lost) PROVE TypeOK'
    <3>1. losses' \in Nat /\ stopped' \in BOOLEAN /\ held' \in [Shells -> BOOLEAN]
      BY <2>12, UpdateTypes, ZenonT(60) DEF SplitterEnds
    <3> QED
      BY <2>12, <3>1 DEF SplitterEnds, Return
  <2> QED
    BY <1>3, <2>1, <2>2, <2>3, <2>4, <2>5, <2>6, <2>7, <2>8, <2>9, <2>10, <2>11, <2>12
       DEF ShellStep
<1>4. CASE UNCHANGED vars
  BY <1>4 DEF vars
<1> QED
  BY <1>1, <1>2, <1>3, <1>4 DEF Next

(* Whatever mongos and shells there are, every variable keeps its type.    *)
THEOREM TypeCorrect == Spec => []TypeOK
<1>1. Init => TypeOK
  BY BoundsAssumption DEF Init, TypeOK, Never, Calls
<1> QED
  BY <1>1, TypeStep, PTL DEF Spec

-----------------------------------------------------------------------------
(* What stopBalancer may conclude.  OnlyWarnedHostsBalance speaks of the   *)
(* state in which the call has returned; the invariant behind it follows   *)
(* the hosts in a round through the waits: from the moment the pings are   *)
(* read, while the setting holds, every host past its reading of the       *)
(* settings is among those still looked at or given up on, with the ping it *)
(* entered before that reading.                                            *)

InRound(m) == at[m] \in {"cleared", "balancing"}

Doc(m) == [host |-> m, ping |-> entry[m].ping]

Over(s) == result[s] \in {"stopped", "warned"}

RoundsPinged ==
  \A m \in Mongos : at[m] \in {"pinged", "cleared", "balancing"} => ~entry[m].waiting

OverIdle == \A s \in Shells : Over(s) => pc[s] = "idle"

Watched(s, m) ==
  /\ InPings(s) => Doc(m) \in active[s] \union remaining[s]
  /\ pc[s] = "lock" => Doc(m) \in active[s]
  /\ Over(s) => Doc(m) \in remaining[s]

Watch ==
  \A s \in Shells :
    held[s] => stopped /\ \A m \in Mongos : InRound(m) => Watched(s, m)

WatchInv == TypeOK /\ RoundsPinged /\ OverIdle /\ Watch

(* A host in a round has entered no ping since it began it.                *)
LEMMA PingedStep == TypeOK /\ RoundsPinged /\ [Next]_vars => RoundsPinged'
<1> SUFFICES ASSUME TypeOK, RoundsPinged, [Next]_vars PROVE RoundsPinged'
  OBVIOUS
<1> USE DEF RoundsPinged, mongosVars, shellVars
<1>1. ASSUME NEW m \in Mongos, MongosStep(m) PROVE RoundsPinged'
  <2> USE DEF TypeOK
  <2>1. CASE Boot(m)
    BY <2>1 DEF Boot
  <2>2. CASE BeginRound(m)
    BY <2>2 DEF BeginRound, Ping
  <2>3. CASE ReadSettings(m)
    <3>1. CASE stopped
      BY <2>3, <3>1 DEF ReadSettings, Ping
    <3>2. CASE ~stopped
      BY <2>3, <3>2 DEF ReadSettings
    <3> QED
      BY <3>1, <3>2
  <2>4. CASE TakeLock(m)
    BY <2>4 DEF TakeLock
  <2>5. CASE SkipRound(m)
    BY <2>5 DEF SkipRound, Ping
  <2>6. CASE EndRound(m)
    BY <2>6 DEF EndRound, Ping
  <2>7. CASE Unlock(m)
    BY <2>7 DEF Unlock
  <2>8. CASE FailRound(m)
    BY <2>8 DEF FailRound
  <2>9. CASE Crash(m)
    BY <2>9 DEF Crash
  <2> QED
    BY <1>1, <2>1, <2>2, <2>3, <2>4, <2>5, <2>6, <2>7, <2>8, <2>9 DEF MongosStep
<1>2. ASSUME NEW s \in Shells, NEW c \in Calls, NEW test \in BOOLEAN, Call(s, c, test)
      PROVE  RoundsPinged'
  BY <1>2 DEF Call
<1>3. ASSUME NEW s \in Shells, ShellStep(s) PROVE UNCHANGED mongosVars
  BY <1>3 DEF ShellStep, Set, ReadPings, SeePing, GiveUp, PingsSeen, LockFree,
              LockTimeout, Stopped, ReadLock, LockChanged, NoChange, SplitterEnds
<1>4. CASE UNCHANGED vars
  BY <1>4 DEF vars
<1> QED
  BY <1>1, <1>2, <1>3, <1>4 DEF Next

(* While the setting is off, no host comes into a round, and one that is in a *)
(* round stays there without another ping.                                    *)
LEMMA NoNewRound ==
  ASSUME TypeOK, stopped, NEW m \in Mongos, MongosStep(m),
         NEW n \in Mongos, InRound(n)'
  PROVE  InRound(n) /\ entry'[n] = entry[n]
<1> USE DEF TypeOK, InRound
<1>1. CASE Boot(m)
  BY <1>1 DEF Boot
<1>2. CASE BeginRound(m)
  BY <1>2 DEF BeginRound, Ping
<1>3. CASE ReadSettings(m)
  BY <1>3 DEF ReadSettings, Ping
<1>4. CASE TakeLock(m)
  BY <1>4 DEF TakeLock
<1>5. CASE SkipRound(m)
  BY <1>5 DEF SkipRound, Ping
<1>6. CASE EndRound(m)
  BY <1>6 DEF EndRound, Ping
<1>7. CASE Unlock(m)
  BY <1>7 DEF Unlock
<1>8. CASE FailRound(m)
  BY <1>8 DEF FailRound
<1>9. CASE Crash(m)
  BY <1>9 DEF Crash
<1> QED
  BY <1>1, <1>2, <1>3, <1>4, <1>5, <1>6, <1>7, <1>8, <1>9 DEF MongosStep

(* A call that is over has returned to the script.                         *)
LEMMA OverStep == TypeOK /\ OverIdle /\ [Next]_vars => OverIdle'
<1> SUFFICES ASSUME TypeOK, OverIdle, [Next]_vars PROVE OverIdle'
  OBVIOUS
<1> USE DEF TypeOK, OverIdle, Over
<1>1. ASSUME NEW m \in Mongos, MongosStep(m) PROVE OverIdle'
  BY <1>1 DEF MongosStep, Boot, BeginRound, ReadSettings, TakeLock, SkipRound,
              EndRound, Unlock, FailRound, Crash, shellVars
<1>2. ASSUME NEW s \in Shells, NEW c \in Calls, NEW test \in BOOLEAN, Call(s, c, test)
      PROVE  OverIdle'
  BY <1>2 DEF Call
<1>3. ASSUME NEW s \in Shells, ShellStep(s) PROVE OverIdle'
  <2>1. ASSUME NEW lost \in BOOLEAN, Set(s, lost) PROVE OverIdle'
    BY <2>1 DEF Set
  <2>2. CASE ReadPings(s)
    BY <2>2 DEF ReadPings
  <2>3. ASSUME NEW a \in active[s], SeePing(s, a) \/ GiveUp(s, a) PROVE OverIdle'
    BY <2>3 DEF SeePing, GiveUp
  <2>4. CASE PingsSeen(s)
    BY <2>4 DEF PingsSeen
  <2>5. CASE LockFree(s)
    BY <2>5 DEF LockFree
  <2>6. CASE LockTimeout(s)
    BY <2>6 DEF LockTimeout, Raise
  <2>7. CASE Stopped(s)
    BY <2>7 DEF Stopped, Return
  <2>8. CASE ReadLock(s)
    BY <2>8 DEF ReadLock
  <2>9. CASE LockChanged(s)
    BY <2>9 DEF LockChanged, Return
  <2>10. CASE NoChange(s)
    BY <2>10 DEF NoChange, Raise
  <2>11. ASSUME NEW lost \in BOOLEAN, SplitterEnds(s, lost) PROVE OverIdle'
    BY <2>11 DEF SplitterEnds, Return
  <2> QED
    BY <1>3, <2>1, <2>2, <2>3, <2>4, <2>5, <2>6, <2>7, <2>8, <2>9, <2>10, <2>11
       DEF ShellStep
<1>4. CASE UNCHANGED vars
  BY <1>4 DEF vars, shellVars
<1> QED
  BY <1>1, <1>2, <1>3, <1>4 DEF Next

(* What an update does to the hold of any shell.                           *)
LEMMA UpdateHolds ==
  ASSUME TypeOK, NEW s \in Shells, NEW value \in BOOLEAN, NEW lost \in BOOLEAN,
         Update(s, value, lost), NEW t \in Shells, held'[t],
         held[t] => stopped
  PROVE  stopped' /\ (t # s => held[t])
<1>1. CASE lost
  BY <1>1 DEF Update
<1>2. CASE ~lost
  <2>1. held' = [u \in Shells |-> value /\ (u = s \/ held[u])] /\ stopped' = value
    BY <1>2 DEF Update
  <2>2. held'[t] = (value /\ (t = s \/ held[t]))
    BY <2>1, Zenon
  <2> QED
    BY <2>1, <2>2
<1> QED
  BY <1>1, <1>2

(* A shell other than the one that moves held the setting before, if it does now. *)
LEMMA ShellHolds ==
  ASSUME TypeOK, NEW s \in Shells, ShellStep(s), NEW t \in Shells, held'[t],
         held[t] => stopped
  PROVE  stopped' /\ (t # s => held[t])
<1>1. ASSUME NEW lost \in BOOLEAN, Set(s, lost) PROVE stopped' /\ (t # s => held[t])
  <2>1. Update(s, TurnsOff(call[s]), lost)
    BY <1>1 DEF Set
  <2>2. TurnsOff(call[s]) \in BOOLEAN
    BY SMT DEF TurnsOff
  <2>3. held[t] => stopped
    OBVIOUS
  <2> QED
    BY <2>1, <2>2, <2>3, UpdateHolds, Zenon
<1>2. ASSUME NEW lost \in BOOLEAN, SplitterEnds(s, lost)
      PROVE  stopped' /\ (t # s => held[t])
  <2>1. Update(s, FALSE, lost)
    BY <1>2 DEF SplitterEnds
  <2>2. held[t] => stopped
    OBVIOUS
  <2> QED
    BY <2>1, <2>2, UpdateHolds, Zenon
<1> QED
  BY <1>1, <1>2
     DEF ShellStep, ReadPings, SeePing, GiveUp, PingsSeen, LockFree, LockTimeout,
         Stopped, ReadLock, LockChanged, NoChange

(* A shell that holds the setting finds it off.                            *)
LEMMA HeldIsOff ==
  ASSUME TypeOK, [Next]_vars, NEW t \in Shells, held[t] => stopped, held'[t]
  PROVE  stopped'
<1>1. ASSUME NEW m \in Mongos, MongosStep(m) PROVE stopped'
  BY <1>1 DEF MongosStep, Boot, BeginRound, ReadSettings, TakeLock, SkipRound,
              EndRound, Unlock, FailRound, Crash
<1>2. ASSUME NEW s \in Shells, NEW c \in Calls, NEW test \in BOOLEAN, Call(s, c, test)
      PROVE  stopped'
  BY <1>2 DEF Call
<1>3. ASSUME NEW s \in Shells, ShellStep(s) PROVE stopped'
  BY <1>3, ShellHolds
<1>4. CASE UNCHANGED vars
  BY <1>4 DEF vars
<1> QED
  BY <1>1, <1>2, <1>3, <1>4 DEF Next

(* The one step that needs the others: each action of a shell hands the hosts *)
(* in a round from one stage of the wait to the next.                         *)
LEMMA WatchStep == WatchInv /\ [Next]_vars => Watch'
<1> SUFFICES ASSUME WatchInv, [Next]_vars, NEW t \in Shells, held'[t]
             PROVE  stopped' /\ \A m \in Mongos : InRound(m)' => Watched(t, m)'
  BY DEF Watch
<1> USE DEF WatchInv, Watch
<1>1. ASSUME NEW m \in Mongos, MongosStep(m),
             NEW n \in Mongos
      PROVE  InRound(n)' => Watched(t, n)'
  <2>1. UNCHANGED <<stopped, held, pc, result, active, remaining>>
    BY <1>1 DEF MongosStep, Boot, BeginRound, ReadSettings, TakeLock, SkipRound,
                EndRound, Unlock, FailRound, Crash, shellVars
  <2>2. held[t] /\ stopped
    BY <2>1
  <2>3. InRound(n)' => InRound(n) /\ entry'[n] = entry[n]
    BY <1>1, <2>2, NoNewRound
  <2>4. InRound(n) => Watched(t, n)
    BY <2>2
  <2> QED
    BY <2>1, <2>2, <2>3, <2>4 DEF Watched, InPings, Doc, Over
<1>2. ASSUME NEW s \in Shells, NEW c \in Calls, NEW test \in BOOLEAN, Call(s, c, test),
             NEW n \in Mongos
      PROVE  InRound(n)' => Watched(t, n)'
  <2>1. UNCHANGED <<stopped, held, active, mongosVars>>
    BY <1>2 DEF Call
  <2>2. held[t] /\ stopped /\ (InRound(n) => Watched(t, n))
    BY <2>1
  <2>3. CASE t = s
    BY <1>2, <2>1, <2>2, <2>3 DEF Call, TypeOK, Watched, InPings, Over, mongosVars
  <2>4. CASE t # s
    <3>1. pc'[t] = pc[t] /\ result'[t] = result[t] /\ remaining'[t] = remaining[t]
      BY <1>2, <2>4 DEF Call, TypeOK
    <3> QED
      BY <2>1, <2>2, <3>1 DEF Watched, InPings, Over, InRound, Doc, mongosVars
  <2> QED
    BY <2>3, <2>4
<1>3. ASSUME NEW s \in Shells, ShellStep(s), NEW n \in Mongos
      PROVE  InRound(n)' => Watched(t, n)'
  <2>1. UNCHANGED mongosVars
    BY <1>3 DEF ShellStep, Set, ReadPings, SeePing, GiveUp, PingsSeen, LockFree,
                LockTimeout, Stopped, ReadLock, LockChanged, NoChange, SplitterEnds
  <2>2. (InRound(n)' <=> InRound(n)) /\ Doc(n)' = Doc(n)
    BY <2>1 DEF InRound, Doc, mongosVars
  <2>3. stopped' /\ (t # s => held[t])
    BY <1>3, ShellHolds
  <2>4. CASE t # s
    <3> USE <1>3, <2>4 DEF TypeOK, ShellStep, Set, ReadPings, SeePing, GiveUp, PingsSeen,
            LockFree, LockTimeout, Stopped, ReadLock, LockChanged, NoChange,
            SplitterEnds, Return, Raise
    <3>1. /\ pc'[t] = pc[t] /\ result'[t] = result[t]
          /\ active'[t] = active[t] /\ remaining'[t] = remaining[t]
      <4>1. pc'[t] = pc[t]
        BY ZenonT(60)
      <4>2. result'[t] = result[t]
        BY ZenonT(60)
      <4>3. active'[t] = active[t]
        BY ZenonT(60)
      <4>4. remaining'[t] = remaining[t]
        BY ZenonT(60)
      <4> QED
        BY <4>1, <4>2, <4>3, <4>4
    <3>2. InRound(n) => Watched(t, n)
      BY <2>3, <2>4
    <3> QED
      BY <2>2, <2>3, <3>1, <3>2 DEF Watched, InPings, Over
  <2>5. CASE t = s /\ InRound(n)
    <3> USE DEF TypeOK, Watched, InPings, Over, OverIdle
    <3>1. ASSUME NEW lost \in BOOLEAN, Set(s, lost) PROVE Watched(s, n)'
      BY <3>1 DEF Set
    <3>2. CASE ReadPings(s)
      <4>1. Doc(n) \in active'[s]
        BY <2>5, <3>2 DEF ReadPings, Doc, InRound, RoundsPinged
      <4> QED
        BY <2>2, <3>2, <4>1 DEF ReadPings
    <3>3. ASSUME NEW a \in active[s], SeePing(s, a) PROVE Watched(s, n)'
      <4>1. a # Doc(n)
        BY <3>3 DEF SeePing, Changed, Doc
      <4>2. held[s] /\ Watched(s, n)
        BY <2>5, <3>3 DEF SeePing
      <4> QED
        BY <2>2, <3>3, <4>1, <4>2 DEF SeePing
    <3>4. ASSUME NEW a \in active[s], GiveUp(s, a) PROVE Watched(s, n)'
      <4>1. held[s] /\ Watched(s, n)
        BY <2>5, <3>4 DEF GiveUp
      <4> QED
        BY <2>2, <3>4, <4>1 DEF GiveUp
    <3>5. CASE PingsSeen(s)
      <4>1. held[s] /\ Watched(s, n)
        BY <2>5, <3>5 DEF PingsSeen
      <4> QED
        BY <2>2, <3>5, <4>1 DEF PingsSeen
    <3>6. CASE LockFree(s)
      <4>1. held[s] /\ Watched(s, n)
        BY <2>5, <3>6 DEF LockFree
      <4> QED
        BY <2>2, <3>6, <4>1 DEF LockFree
    <3>7. CASE LockTimeout(s)
      <4>1. pc'[s] = "idle" /\ result'[s] = "threw"
        BY <3>7 DEF LockTimeout, Raise
      <4> QED
        BY <2>5, <4>1
    <3>8. CASE Stopped(s)
      <4>1. held[s] /\ Watched(s, n)
        BY <2>5, <3>8 DEF Stopped
      <4>2. Doc(n) \in remaining[s]
        BY <3>8, <4>1 DEF Stopped
      <4> QED
        BY <2>2, <3>8, <4>2 DEF Stopped, Return
    <3>9. CASE ReadLock(s)
      <4>1. pc'[s] = "change" /\ result'[s] = result[s] /\ pc[s] = "readLock"
        BY <3>9 DEF ReadLock
      <4> QED
        BY <2>5, <4>1
    <3>10. CASE LockChanged(s)
      <4>1. pc'[s] = "idle" /\ result'[s] = "started"
        BY <3>10 DEF LockChanged, Return
      <4> QED
        BY <2>5, <4>1
    <3>11. CASE NoChange(s)
      <4>1. pc'[s] = "idle" /\ result'[s] = "threw"
        BY <3>11 DEF NoChange, Raise
      <4> QED
        BY <2>5, <4>1
    <3>12. ASSUME NEW lost \in BOOLEAN, SplitterEnds(s, lost) PROVE Watched(s, n)'
      BY <3>12 DEF SplitterEnds, Return
    <3> QED
      BY <1>3, <2>3, <2>5, <3>1, <3>2, <3>3, <3>4, <3>5, <3>6, <3>7, <3>8, <3>9,
         <3>10, <3>11, <3>12 DEF ShellStep
  <2> QED
    BY <2>2, <2>3, <2>4, <2>5
<1>4. CASE UNCHANGED vars
  <2>1. UNCHANGED <<stopped, held, pc, result, active, remaining, entry, at>>
    BY <1>4 DEF vars, mongosVars, shellVars
  <2> QED
    BY <2>1 DEF Watched, InPings, Over, InRound, Doc
<1> QED
  BY HeldIsOff, <1>1, <1>2, <1>3, <1>4 DEF Next

(* While the setting holds after stopBalancer has returned, only a host it    *)
(* has warned of is in a round or can go into one: the property of the run    *)
(* "balancer", for any number of mongos and of shells.                        *)
THEOREM StopBalancerStops == Spec => []OnlyWarnedHostsBalance
<1>1. Init => WatchInv
  <2>1. Init => TypeOK
    BY BoundsAssumption DEF Init, TypeOK, Never, Calls
  <2> QED
    BY <2>1 DEF Init, WatchInv, RoundsPinged, OverIdle, Over, Watch
<1>2. WatchInv /\ [Next]_vars => WatchInv'
  BY TypeStep, PingedStep, OverStep, WatchStep DEF WatchInv
<1>3. WatchInv => OnlyWarnedHostsBalance
  BY DEF WatchInv, Watch, Watched, OnlyWarnedHostsBalance, InRound, Over, Doc
<1> QED
  BY <1>1, <1>2, <1>3, PTL DEF Spec

-----------------------------------------------------------------------------
(* What the free lock tells stopBalancer.  The lock carries the number of  *)
(* the round that took it last; who moves chunks holds the lock, so when it *)
(* is free nobody does, and who takes it later leaves a higher number.     *)

LockHeld == \A m \in Mongos : at[m] \in {"balancing", "leaving"} => holder = m

SawFree(s) == pc[s] = "pingsAgain" \/ Over(s)

FreeSeen ==
  \A s \in Shells :
    SawFree(s) => /\ freeTS[s] <= ts
                  /\ \A m \in Mongos : at[m] = "balancing" => freeTS[s] < ts

RoundInv == TypeOK /\ LockHeld /\ FreeSeen

(* A mongos that moves chunks, or has done so and not yet unlocked, has the *)
(* lock.                                                                   *)
LEMMA LockStep == TypeOK /\ LockHeld /\ [Next]_vars => LockHeld'
<1> SUFFICES ASSUME TypeOK, LockHeld, [Next]_vars PROVE LockHeld'
  OBVIOUS
<1> USE BoundsAssumption DEF LockHeld, TypeOK, mongosVars
<1>1. ASSUME NEW m \in Mongos, MongosStep(m) PROVE LockHeld'
  <2>1. CASE Boot(m)
    BY <2>1 DEF Boot
  <2>2. CASE BeginRound(m)
    BY <2>2 DEF BeginRound
  <2>3. CASE ReadSettings(m)
    <3>1. CASE stopped
      BY <2>3, <3>1 DEF ReadSettings
    <3>2. CASE ~stopped
      BY <2>3, <3>2 DEF ReadSettings
    <3> QED
      BY <3>1, <3>2
  <2>4. CASE TakeLock(m)
    BY <2>4 DEF TakeLock
  <2>5. CASE SkipRound(m)
    BY <2>5 DEF SkipRound
  <2>6. CASE EndRound(m)
    BY <2>6 DEF EndRound
  <2>7. CASE Unlock(m)
    BY <2>7 DEF Unlock
  <2>8. CASE FailRound(m)
    BY <2>8 DEF FailRound
  <2>9. CASE Crash(m)
    BY <2>9 DEF Crash
  <2> QED
    BY <1>1, <2>1, <2>2, <2>3, <2>4, <2>5, <2>6, <2>7, <2>8, <2>9 DEF MongosStep
<1>2. ASSUME UNCHANGED <<at, holder>> PROVE LockHeld'
  BY <1>2
<1>3. ASSUME NEW s \in Shells, ShellStep(s) PROVE UNCHANGED <<at, holder>>
  BY <1>3 DEF ShellStep, Set, ReadPings, SeePing, GiveUp, PingsSeen, LockFree,
              LockTimeout, Stopped, ReadLock, LockChanged, NoChange, SplitterEnds
<1>4. ASSUME NEW s \in Shells, NEW c \in Calls, NEW test \in BOOLEAN, Call(s, c, test)
      PROVE  UNCHANGED <<at, holder>>
  BY <1>4 DEF Call
<1>5. UNCHANGED vars => UNCHANGED <<at, holder>>
  BY DEF vars
<1> QED
  BY <1>1, <1>2, <1>3, <1>4, <1>5 DEF Next

(* What a round does to a shell that has seen the lock free: rounds under  *)
(* way go on only after ts has risen, and ts never falls.                  *)
LEMMA RoundKeepsFree ==
  ASSUME RoundInv, NEW m \in Mongos, MongosStep(m)
  PROVE  FreeSeen'
<1> USE BoundsAssumption DEF RoundInv, TypeOK
<1>1. UNCHANGED shellVars
  BY DEF MongosStep, Boot, BeginRound, ReadSettings, TakeLock, SkipRound, EndRound,
         Unlock, FailRound, Crash
<1>2. ASSUME NEW s \in Shells PROVE SawFree(s)' <=> SawFree(s)
  BY <1>1 DEF SawFree, Over, shellVars
<1>3. freeTS' = freeTS
  BY <1>1 DEF shellVars
<1>4. CASE TakeLock(m)
  <2>1. ts' = ts + 1
    BY <1>4 DEF TakeLock
  <2> QED
    BY <1>2, <1>3, <2>1 DEF FreeSeen
<1>5. CASE ~TakeLock(m)
  <2>1. ts' = ts
    BY <1>5 DEF MongosStep, Boot, BeginRound, ReadSettings, SkipRound, EndRound,
                Unlock, FailRound, Crash
  <2>2. ASSUME NEW n \in Mongos, at'[n] = "balancing" PROVE at[n] = "balancing"
    <3>1. CASE Boot(m) \/ BeginRound(m) \/ ReadSettings(m) \/ SkipRound(m)
      BY <2>2, <3>1, ZenonT(60) DEF Boot, BeginRound, ReadSettings, SkipRound
    <3>2. CASE EndRound(m) \/ Unlock(m) \/ FailRound(m) \/ Crash(m)
      BY <2>2, <3>2, ZenonT(60) DEF EndRound, Unlock, FailRound, Crash
    <3> QED
      BY <1>5, <3>1, <3>2 DEF MongosStep
  <2> QED
    BY <1>2, <1>3, <2>1, <2>2 DEF FreeSeen
<1> QED
  BY <1>4, <1>5

(* A step of a shell leaves the rounds alone, and gives no shell but the   *)
(* one that finds the lock free a new claim.                               *)
LEMMA ClaimIsOld ==
  ASSUME TypeOK, NEW s \in Shells, ShellStep(s), ~LockFree(s), NEW t \in Shells,
         SawFree(t)'
  PROVE  SawFree(t)
<1> USE DEF TypeOK, SawFree, Over
<1>1. ASSUME NEW lost \in BOOLEAN, Set(s, lost) PROVE SawFree(t)
  <2>1. result' = result
    BY <1>1 DEF Set
  <2>2. pc'[t] = "pingsAgain" => pc[t] = "pingsAgain"
    BY <1>1 DEF Set
  <2> QED
    BY <2>1, <2>2
<1>2. CASE ReadPings(s)
  BY <1>2 DEF ReadPings
<1>3. ASSUME NEW a \in active[s], SeePing(s, a) \/ GiveUp(s, a) PROVE SawFree(t)
  BY <1>3 DEF SeePing, GiveUp
<1>4. CASE PingsSeen(s)
  BY <1>4 DEF PingsSeen
<1>5. CASE LockTimeout(s)
  BY <1>5 DEF LockTimeout, Raise
<1>6. CASE Stopped(s)
  BY <1>6 DEF Stopped, Return
<1>7. CASE ReadLock(s)
  BY <1>7 DEF ReadLock
<1>8. CASE LockChanged(s)
  BY <1>8 DEF LockChanged, Return
<1>9. CASE NoChange(s)
  BY <1>9 DEF NoChange, Raise
<1>10. ASSUME NEW lost \in BOOLEAN, SplitterEnds(s, lost) PROVE SawFree(t)
  BY <1>10 DEF SplitterEnds, Return
<1> QED
  BY <1>1, <1>2, <1>3, <1>4, <1>5, <1>6, <1>7, <1>8, <1>9, <1>10 DEF ShellStep

LEMMA ShellKeepsFree ==
  ASSUME RoundInv, NEW s \in Shells, ShellStep(s)
  PROVE  FreeSeen'
<1> USE BoundsAssumption DEF RoundInv, TypeOK
<1>1. UNCHANGED <<at, holder, ts>>
  BY DEF mongosVars, ShellStep, Set, ReadPings, SeePing, GiveUp, PingsSeen, LockFree,
         LockTimeout, Stopped, ReadLock, LockChanged, NoChange, SplitterEnds
<1>2. CASE LockFree(s)
  <2>1. \A m \in Mongos : at[m] # "balancing"
    BY <1>2 DEF LockFree, LockHeld
  <2>2. freeTS'[s] = ts /\ \A t \in Shells \ {s} : freeTS'[t] = freeTS[t]
    BY <1>2 DEF LockFree
  <2>3. \A t \in Shells \ {s} : SawFree(t)' <=> SawFree(t)
    BY <1>2 DEF LockFree, SawFree, Over
  <2> QED
    BY <1>1, <2>1, <2>2, <2>3 DEF FreeSeen
<1>3. CASE ~LockFree(s)
  <2>1. freeTS' = freeTS
    BY <1>3 DEF ShellStep, Set, ReadPings, SeePing, GiveUp, PingsSeen, LockTimeout,
                Stopped, ReadLock, LockChanged, NoChange, SplitterEnds
  <2>2. \A t \in Shells : SawFree(t)' => SawFree(t)
    BY <1>3, ClaimIsOld
  <2> QED
    BY <1>1, <2>1, <2>2 DEF FreeSeen
<1> QED
  BY <1>2, <1>3

(* Any step keeps what a free lock has told.                               *)
LEMMA FreeStep == RoundInv /\ [Next]_vars => FreeSeen'
<1> SUFFICES ASSUME RoundInv, [Next]_vars PROVE FreeSeen'
  OBVIOUS
<1>1. ASSUME NEW m \in Mongos, MongosStep(m) PROVE FreeSeen'
  BY <1>1, RoundKeepsFree
<1>2. ASSUME NEW s \in Shells, NEW c \in Calls, NEW test \in BOOLEAN, Call(s, c, test)
      PROVE  FreeSeen'
  <2>1. UNCHANGED <<at, ts, freeTS>>
    BY <1>2 DEF Call, mongosVars
  <2>2. \A t \in Shells : SawFree(t)' => SawFree(t)
    BY <1>2 DEF Call, SawFree, Over, RoundInv, TypeOK
  <2> QED
    BY <2>1, <2>2 DEF FreeSeen, RoundInv
<1>3. ASSUME NEW s \in Shells, ShellStep(s) PROVE FreeSeen'
  BY <1>3, ShellKeepsFree
<1>4. CASE UNCHANGED vars
  BY <1>4 DEF vars, mongosVars, shellVars, FreeSeen, SawFree, Over, RoundInv
<1> QED
  BY <1>1, <1>2, <1>3, <1>4 DEF Next

(* A round that moves chunks when stopBalancer has returned took the lock  *)
(* after stopBalancer had found it free, whatever the setting became since. *)
THEOREM OldRoundsOver == Spec => []NoOldRound
<1>1. Init => RoundInv
  <2>1. Init => TypeOK
    BY BoundsAssumption DEF Init, TypeOK, Never, Calls
  <2>2. Init => LockHeld /\ FreeSeen
    BY DEF Init, LockHeld, FreeSeen, SawFree, Over
  <2> QED
    BY <2>1, <2>2 DEF RoundInv
<1>2. RoundInv /\ [Next]_vars => RoundInv'
  BY TypeStep, LockStep, FreeStep DEF RoundInv
<1>3. RoundInv => NoOldRound
  <2> SUFFICES ASSUME RoundInv, NEW s \in Shells, Over(s), NEW m \in Mongos,
                      at[m] = "balancing"
               PROVE  ts > freeTS[s]
    BY DEF NoOldRound, Over
  <2> QED
    BY DEF RoundInv, FreeSeen, SawFree, TypeOK
<1> QED
  BY <1>1, <1>2, <1>3, PTL DEF Spec

=============================================================================
