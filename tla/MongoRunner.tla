---------------------------- MODULE MongoRunner ----------------------------
(***************************************************************************)
(* MongoRunner (servers.js): the shell's test scripts start, stop and      *)
(* restart server programs.  A port is taken from usedPortMap, options are *)
(* saved by run id for a restart, and the data directory has the name of   *)
(* the port.  startMongodTest, and the fixtures of servers_misc.js         *)
(* (MongodRunner, ToolTest, ReplTest, SyncCCTest), start programs beside   *)
(* it, on ports they are given or have chosen for good.                    *)
(*                                                                         *)
(* One script runs, one call after the other; a call that starts a program *)
(* waits for a connection to its port (startWithArgs).  The programs are   *)
(* external: they bind their port, exit when it or their directory is      *)
(* taken, and crash.  Options that only reach the command line are left    *)
(* out; a port of MongoRunner is its distance from 27000, and ports do not *)
(* run out.  One port stands for the three of a SyncCCTest, and one for    *)
(* the two of a ReplTest, which all need one another only at the server.   *)
(***************************************************************************)
EXTENDS Integers, FiniteSets

CONSTANTS
  NumPorts, \* bound: the ports a script uses
  MaxCalls  \* bound: calls that start a program

ASSUME SizesAssumption == NumPorts \in Nat \ {0} /\ MaxCalls \in Nat \ {0}

Ports == 1 .. NumPorts
AllocatedPort == 31000 \* allocatePorts: the first port of every ToolTest and ReplTest
SyncCCPort == 30000
AllPorts == Ports \union {AllocatedPort, SyncCCPort}

\* A program has the number of the call that started it; a run id is the number of the
\* call that made it, or 0 for a program started without MongoRunner.
Programs == 1 .. MaxCalls
RunIds == Programs
\* A mongos has no directory; it counts as one of its own.
Dirs == {"mongod", "mongos", "test"} \X Ports
        \union {"test", "tool", "repl"} \X {AllocatedPort, SyncCCPort}

\* The options a script passes, and those that are saved; port 0 is none.
Options == [port : 0 .. NumPorts, forgetPort : BOOLEAN, noRemember : BOOLEAN,
            appendOptions : BOOLEAN, data : SUBSET {"clean", "keep"}]
None == [port |-> 0, forgetPort |-> FALSE, noRemember |-> FALSE,
         appendOptions |-> FALSE, data |-> {}]
Waits == {"unset", "true", "false"}

NotSaved == [saved |-> FALSE]
NotStarted == [started |-> FALSE]
NoHandle == [port |-> 0]

VARIABLES
  usedPortMap,  \* MongoRunner.usedPortMap
  savedOptions, \* MongoRunner.savedOptions
  calls,        \* the calls made so far
  program,      \* what was started by a call: port, directory, run id, whether the port
                \* was chosen by nextOpenPort, and the options the call passed
  pending,      \* the programs that have not bound their port yet
  listening,    \* the program that has a port, or 0
  disk,         \* the runs that have data in a directory
  handle,       \* the connection a call returned: port, run id, the program behind it
  waiting,      \* the call that waits for its connection, or 0
  tool,         \* m of the script's ToolTest, by the call that made it, or 0
  ran           \* the runs whose program has been up since it was told to start clean

runnerVars == <<usedPortMap, savedOptions>>
programVars == <<program, pending, listening, disk, ran>>
vars == <<runnerVars, programVars, calls, handle, waiting, tool>>

Init ==
  /\ usedPortMap = {} /\ savedOptions = [r \in RunIds |-> NotSaved]
  /\ calls = 0 /\ program = [k \in Programs |-> NotStarted]
  /\ pending = {} /\ listening = [p \in AllPorts |-> 0] /\ disk = [d \in Dirs |-> {}]
  /\ handle = [k \in Programs |-> NoHandle] /\ waiting = 0 /\ ran = {}
  /\ tool = 0

Alive(k) == k \in pending \/ \E p \in AllPorts : listening[p] = k

-----------------------------------------------------------------------------
(* The programs.                                                            *)

Exits(k) == pending' = pending \ {k} /\ UNCHANGED <<listening, disk, ran>>

\* A program that was started binds its port and opens its directory, or exits.
Bind(k) ==
  LET p == program[k].port  d == program[k].dir IN
  /\ k \in pending
  /\ IF listening[p] # 0 \/ \E q \in AllPorts : listening[q] # 0 /\ program[listening[q]].dir = d
     THEN Exits(k)
     ELSE /\ pending' = pending \ {k} /\ listening' = [listening EXCEPT ![p] = k]
          /\ disk' = [disk EXCEPT ![d] = @ \union {program[k].runId}]
          /\ ran' = ran \union {program[k].runId}
  /\ UNCHANGED <<runnerVars, program, calls, handle, waiting, tool>>

FailToStart(k) ==
  /\ k \in pending /\ Exits(k)
  /\ UNCHANGED <<runnerVars, program, calls, handle, waiting, tool>>

Crash(p) ==
  /\ listening[p] # 0 /\ listening' = [listening EXCEPT ![p] = 0]
  /\ UNCHANGED <<runnerVars, program, pending, disk, ran, calls, handle, waiting, tool>>

\* Programs on port p end.
Killed(p) ==
  /\ listening' = [listening EXCEPT ![p] = 0]
  /\ pending' = {k \in pending : program[k].port # p}

-----------------------------------------------------------------------------
(* The script.                                                              *)

Idle == waiting = 0

\* nextOpenPort; ports do not run out.
HasOpenPort == Ports \ usedPortMap # {}

\* Variant: the port after as many as are used.
PortAfterUsed == 1 + Cardinality(usedPortMap)

NextOpenPort == CHOOSE p \in Ports \ usedPortMap : \A q \in Ports \ usedPortMap : p <= q

\* The program of call k is started, in a directory that may be reset.
Spawn(k, port, dir, runId, auto, asked, reset, waits) ==
  /\ calls' = k
  /\ program' = [program EXCEPT ![k] = [started |-> TRUE, port |-> port, dir |-> dir,
                                        runId |-> runId, auto |-> auto, asked |-> asked]]
  /\ pending' = pending \union {k}
  /\ disk' = IF reset THEN [disk EXCEPT ![dir] = {}] ELSE disk
  /\ waiting' = IF waits THEN k ELSE 0
  /\ ran' = IF "clean" \in asked.data THEN ran \ {runId} ELSE ran
  /\ UNCHANGED listening

\* mongoOptions of a restart: the saved options under those that are passed.
Merged(restart, r, o) ==
  IF ~restart \/ ~savedOptions[r].saved THEN o
  ELSE LET s == savedOptions[r].options IN
       [port |-> IF o.port # 0 THEN o.port ELSE s.port,
        forgetPort |-> o.forgetPort \/ s.forgetPort,
        noRemember |-> o.noRemember \/ s.noRemember,
        appendOptions |-> o.appendOptions \/ s.appendOptions,
        data |-> o.data \union s.data]

\* Variant: options are saved before the port is chosen.
RememberedEarly(m, port) == m

\* What is saved of the merged options m: the port unless it is to be forgotten.
Remembered(m, port) == IF m.forgetPort THEN m ELSE [m EXCEPT !.port = port]

ShouldRemember(restart, m) ==
  (~restart /\ ~m.noRemember) \/ (restart /\ m.appendOptions)

\* The default for waitForConnect is true; the option itself was deleted before, so
\* that a call which passes true does not wait either.
WaitForConnect(wait) == wait = "unset"

\* Variant: a port that the script names is not entered.
PortEntered(m, port) == IF m.port = 0 THEN usedPortMap \union {port} ELSE usedPortMap

PortUsed(m, port) == usedPortMap \union {port}

Resets(restart, m) == "clean" \in m.data \/ (~restart /\ "keep" \notin m.data)

\* runMongod and runMongos, up to the connection.  Without a wait runMongod returns
\* null, and runMongos an object that has no connection.
Run(kind, restart, r, o, wait) ==
  LET k == calls + 1
      m == Merged(restart, r, o)
      auto == m.port = 0
      port == IF auto THEN NextOpenPort ELSE m.port
  IN /\ Idle /\ calls < MaxCalls /\ (auto => HasOpenPort)
     /\ usedPortMap' = PortUsed(m, port)
     /\ savedOptions' = IF ShouldRemember(restart, m)
                        THEN [savedOptions EXCEPT ![r] = [saved |-> TRUE,
                                                          options |-> Remembered(m, port)]]
                        ELSE savedOptions
     /\ Spawn(k, port, <<kind, port>>, r, auto, o,
              kind = "mongod" /\ Resets(restart, m), WaitForConnect(wait))
     /\ handle' = IF kind = "mongos" /\ ~WaitForConnect(wait)
                  THEN [handle EXCEPT ![k] = [port |-> port, runId |-> r, to |-> 0]]
                  ELSE handle
     /\ UNCHANGED tool

Start(kind, o, wait) == Run(kind, FALSE, calls + 1, o, wait)

\* { restart : <a connection or its runId> }.
Restart(h, o, wait) ==
  /\ handle[h] # NoHandle /\ handle[h].runId # 0
  /\ Run(program[h].dir[1], TRUE, handle[h].runId, o, wait)

\* A program beside MongoRunner; the call waits for a connection.
Beside(port, dir, auto, reset) ==
  /\ Idle /\ calls < MaxCalls
  /\ Spawn(calls + 1, port, dir, 0, auto, None, reset, TRUE)
  /\ UNCHANGED <<savedOptions, handle>>

\* startMongodTest: with no port it takes one of MongoRunner, but one that is named is
\* not entered.
StartMongodTest(named, restart) ==
  LET port == IF named = 0 THEN NextOpenPort ELSE named IN
  /\ named = 0 => HasOpenPort
  /\ usedPortMap' = IF named = 0 THEN usedPortMap \union {port} ELSE usedPortMap
  /\ Beside(port, <<"test", port>>, named = 0, ~restart) /\ UNCHANGED tool

\* SyncCCTest, and its tempStart, which keeps the data.
SyncCCStart(restart) ==
  /\ Beside(SyncCCPort, <<"test", SyncCCPort>>, FALSE, ~restart)
  /\ UNCHANGED <<usedPortMap, tool>>

\* A node of a ReplTest, or a MongodRunner, with or without its data.
ReplTestStart(reuse) ==
  /\ Beside(AllocatedPort, <<"repl", AllocatedPort>>, FALSE, ~reuse)
  /\ UNCHANGED <<usedPortMap, tool>>

\* startDB of a ToolTest that was just made, with a new directory, or is used again.
StartDB(made) ==
  /\ tool = 0 /\ tool' = calls + 1
  /\ Beside(AllocatedPort, <<"tool", AllocatedPort>>, FALSE, made)
  /\ UNCHANGED usedPortMap

\* ToolTest.stop does nothing when startDB has failed.
ToolTestStop ==
  /\ Idle /\ tool # 0 /\ tool' = 0 /\ Killed(AllocatedPort)
  /\ UNCHANGED <<runnerVars, program, disk, ran, calls, handle, waiting>>

\* startWithArgs and startMongoProgram: whoever answers on the port is connected to.
Connect ==
  LET p == program[waiting].port IN
  /\ ~Idle /\ listening[p] # 0
  /\ handle' = [handle EXCEPT ![waiting] = [port |-> p, runId |-> program[waiting].runId,
                                            to |-> listening[p]]]
  /\ waiting' = 0
  /\ UNCHANGED <<runnerVars, programVars, calls, tool>>

\* A call ends with no connection, and startDB with an exception.
NotConnected ==
  /\ waiting' = 0 /\ tool' = IF tool = waiting THEN 0 ELSE tool
  /\ UNCHANGED <<runnerVars, programVars, calls, handle>>

\* The program has ended: the call returns null.
Ended ==
  /\ ~Idle /\ listening[program[waiting].port] = 0 /\ ~Alive(waiting) /\ NotConnected

\* assert.soon gives up on a program that does not answer.
GiveUp == ~Idle /\ waiting \in pending /\ NotConnected

Frees(p) == usedPortMap \ {p}

\* stopMongod of MongoRunner, with a port or a connection, of which only the port counts.
StopPort(p) ==
  /\ Idle /\ Killed(p) /\ usedPortMap' = Frees(p)
  /\ UNCHANGED <<savedOptions, program, disk, ran, calls, handle, waiting, tool>>

\* The native stopMongod with a port: the stop of a ReplTest or SyncCCTest, tempKill.
StopNative(p) ==
  /\ Idle /\ Killed(p) /\ (listening[p] # 0 \/ \E k \in pending : program[k].port = p)
  /\ UNCHANGED <<runnerVars, program, disk, ran, calls, handle, waiting, tool>>

\* isStopped, of a port or a connection, of which only the port counts.
IsStopped(p) == p \notin usedPortMap

\* What scripts pass: new programs with or without a port, restarts with what was saved.
NewOptions ==
  {None, [None EXCEPT !.forgetPort = TRUE], [None EXCEPT !.noRemember = TRUE],
   [None EXCEPT !.data = {"clean"}], [None EXCEPT !.data = {"keep"}]}
  \union {[None EXCEPT !.port = p] : p \in Ports}
RestartOptions ==
  {None, [None EXCEPT !.appendOptions = TRUE, !.data = {"keep"}],
   [None EXCEPT !.data = {"clean"}]}

Next ==
  \/ \E k \in Programs : Bind(k) \/ FailToStart(k)
  \/ \E p \in AllPorts : Crash(p) \/ StopNative(p)
  \/ \E p \in Ports : StopPort(p)
  \/ \E o \in NewOptions : Start("mongod", o, "unset")
  \/ \E kind \in {"mongod", "mongos"}, wait \in Waits : Start(kind, None, wait)
  \/ \E h \in Programs, o \in RestartOptions : Restart(h, o, "unset")
  \/ \E named \in 0 .. NumPorts, restart \in BOOLEAN : StartMongodTest(named, restart)
  \/ \E keep \in BOOLEAN : SyncCCStart(keep) \/ ReplTestStart(keep) \/ StartDB(keep)
  \/ ToolTestStop
  \/ Connect \/ Ended \/ GiveUp

Spec == Init /\ [][Next]_vars

-----------------------------------------------------------------------------
(* Properties.                                                              *)

TypeOK ==
  /\ usedPortMap \subseteq Ports /\ calls \in 0 .. MaxCalls /\ waiting \in 0 .. calls /\ tool \in 0 .. calls
  /\ savedOptions \in [RunIds -> {NotSaved} \union [saved : {TRUE}, options : Options]]
  /\ program \in [Programs -> {NotStarted} \union
                     [started : {TRUE}, port : AllPorts, dir : Dirs, runId : 0 .. MaxCalls,
                      auto : BOOLEAN, asked : Options]]
  /\ pending \subseteq 1 .. calls /\ listening \in [AllPorts -> 0 .. calls]
  /\ disk \in [Dirs -> SUBSET (0 .. MaxCalls)] /\ ran \subseteq 0 .. MaxCalls
  /\ handle \in [Programs -> {NoHandle} \union
                    [port : AllPorts, runId : 0 .. MaxCalls, to : 0 .. MaxCalls]]
  /\ \A k \in Programs : program[k] # NotStarted <=> k <= calls

\* A program that MongoRunner started or whose port it chose; the others are those
\* started beside it on a port that is fixed or that the script named.
Entered(k) == program[k].runId # 0 \/ program[k].auto

\* isStopped does not say of a living program that it has stopped, when MongoRunner
\* started it or chose its port, whoever has taken and freed that port since.
StoppedMeansStopped ==
  \A k \in 1 .. calls : IsStopped(program[k].port) /\ Entered(k) => ~Alive(k)

\* A call that leaves the port to nextOpenPort connects to the program it started,
\* also when that one is slow to bind the port or exits; or else to one that
\* startMongodTest started on that port because the script named it.
OwnProgramAnswers ==
  \A k \in 1 .. calls :
    handle[k] # NoHandle /\ program[k].auto
    => handle[k].to \in {0, k} \/ ~Entered(handle[k].to)

Starts(k) == calls' = k /\ calls = k - 1

\* A run's port went to another run.
PassedOn(r) ==
  \E i, j \in 1 .. calls : /\ i < j /\ program[i].runId = r /\ program[j].runId # r
                         /\ program[i].port = program[j].port

\* A run whose options or port were not kept for it.
Forgotten(r) == program[r].asked.noRemember \/ program[r].asked.forgetPort

\* A restart was told to start clean with or after one whose options were appended to
\* the saved ones: appendOptions is saved with them, so that this option is as well.
CleanAppended(r) ==
  \E i, j \in 1 .. calls : /\ i <= j /\ program[i].runId = r /\ program[j].runId = r
                         /\ program[i].asked.appendOptions
                         /\ "clean" \in program[j].asked.data

\* A program restarted without being told to start clean finds the data of its run,
\* unless the run was not to be remembered, was started clean or has appended that it
\* is to start clean, or its port went to another run meanwhile.
RestartFindsData ==
  [][\A k \in Programs :
       LET r == program[k]'.runId IN
       Starts(k) /\ r \in ran \ {0} /\ "clean" \notin program[k]'.asked.data /\ program[k]'.dir[1] = "mongod"
       => \/ r \in disk'[program[k]'.dir] \/ Forgotten(r) \/ PassedOn(r)
          \/ "clean" \in program[r].asked.data \/ CleanAppended(r)]_vars

=============================================================================
