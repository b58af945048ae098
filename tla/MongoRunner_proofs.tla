------------------------- MODULE MongoRunner_proofs -------------------------
(***************************************************************************)
(* Proofs about MongoRunner, for any number of ports and of calls.         *)
(***************************************************************************)
EXTENDS MongoRunner, WellFoundedInduction, TLAPS

(* NextOpenPort chooses a port: a set of ports has a smallest one.         *)
LEMMA SmallestPort ==
  ASSUME NEW S \in SUBSET Ports, S # {}
  PROVE  \E p \in S : \A q \in S : p <= q
<1> DEFINE R == {ss \in Nat \X Nat : ss[1] < ss[2]}
<1>1. IsWellFoundedOn(R, Nat)
  BY NatLessThanWellFounded DEF OpToRel
<1>2. S \subseteq Nat
  BY SizesAssumption DEF Ports
<1>3. PICK p \in S : \A q \in S : ~(<<q, p>> \in R)
  <2> HIDE DEF R
  <2> QED
    BY <1>1, <1>2, WFMin
<1>4. \A q \in S : ~(q < p)
  BY <1>2, <1>3
<1> QED
  BY <1>2, <1>4

LEMMA OpenPort ==
  ASSUME HasOpenPort
  PROVE  NextOpenPort \in Ports \ usedPortMap
<1> DEFINE S == Ports \ usedPortMap
<1>1. \E p \in S : \A q \in S : p <= q
  BY SmallestPort DEF HasOpenPort
<1> QED
  BY <1>1 DEF NextOpenPort

-----------------------------------------------------------------------------
(* The inductive invariant.                                                *)

\* Programs are numbered by the calls made, and only those live.
Counted ==
  /\ calls \in 0 .. MaxCalls /\ program = [k \in Programs |-> program[k]]
  /\ pending \subseteq 1 .. calls /\ listening \in [AllPorts -> 0 .. calls]

\* Who listens on a port was started for it.
ListenersAtHome ==
  \A p \in AllPorts : listening[p] # 0 => program[listening[p]].port = p

PortInv == Counted /\ ListenersAtHome /\ StoppedMeansStopped

LEMMA InitInv == Init => PortInv
BY SizesAssumption
DEF Init, PortInv, Counted, ListenersAtHome, StoppedMeansStopped, Alive, Programs

(* A living program is one of those started.                               *)
LEMMA AliveIsStarted ==
  ASSUME Counted, NEW k, Alive(k), k # 0
  PROVE  k \in 1 .. calls
BY DEF Counted, Alive

(* When nothing is started, no port is freed and what lives lived before,  *)
(* the invariant stays.                                                    *)
LEMMA NothingStarted ==
  ASSUME PortInv, UNCHANGED <<calls, program>>, usedPortMap' = usedPortMap,
         pending' \subseteq pending,
         listening' \in [AllPorts -> 0 .. calls],
         \A p \in AllPorts : listening'[p] # 0 => listening'[p] = listening[p]
  PROVE  PortInv'
<1>1. Counted'
  BY DEF PortInv, Counted
<1>2. ListenersAtHome'
  BY DEF PortInv, ListenersAtHome
<1>3. ASSUME NEW k \in 1 .. calls, Alive(k)' PROVE Alive(k)
  <2>1. k # 0
    BY DEF PortInv, Counted
  <2> QED
    BY <1>3, <2>1 DEF Alive
<1>4. StoppedMeansStopped'
  BY <1>3 DEF PortInv, StoppedMeansStopped, IsStopped, Entered
<1> QED
  BY <1>1, <1>2, <1>4 DEF PortInv

(* A stop kills every program that was started for the port.               *)
LEMMA KilledInv ==
  ASSUME PortInv, NEW p, Killed(p), UNCHANGED <<calls, program>>,
         usedPortMap' \in {usedPortMap, Frees(p)}
  PROVE  PortInv'
<1>1. /\ listening' \in [AllPorts -> 0 .. calls] /\ pending' \subseteq pending
      /\ \A q \in AllPorts : listening'[q] # 0 => listening'[q] = listening[q] /\ q # p
  <2>1. 0 \in 0 .. calls
    BY SizesAssumption DEF PortInv, Counted
  <2>2. listening' = [listening EXCEPT ![p] = 0] /\ listening \in [AllPorts -> 0 .. calls]
    BY DEF Killed, PortInv, Counted
  <2>3. pending' \subseteq pending
    BY DEF Killed
  <2> QED
    BY <2>1, <2>2, <2>3
<1>2. Counted'
  BY <1>1 DEF PortInv, Counted
<1>3. ListenersAtHome'
  BY <1>1 DEF PortInv, ListenersAtHome
<1>4. ASSUME NEW k \in 1 .. calls, Alive(k)'
      PROVE  Alive(k) /\ program[k].port # p
  <2>1. k # 0
    BY DEF PortInv, Counted
  <2>2. CASE k \in pending'
    BY <2>2 DEF Killed, Alive
  <2>3. CASE k \notin pending'
    <3>1. PICK q \in AllPorts : listening'[q] = k
      BY <1>4, <2>3 DEF Alive
    <3>2. listening[q] = k /\ q # p /\ program[k].port = q
      BY <1>1, <2>1, <3>1 DEF PortInv, ListenersAtHome
    <3> QED
      BY <3>2 DEF Alive
  <2> QED
    BY <2>2, <2>3
<1>5. StoppedMeansStopped'
  <2> SUFFICES ASSUME NEW k \in 1 .. calls, program[k].port \notin usedPortMap',
                      Entered(k), Alive(k)'
               PROVE  FALSE
    BY DEF StoppedMeansStopped, IsStopped, Entered
  <2>1. Alive(k) /\ program[k].port # p
    BY <1>4
  <2>2. program[k].port \notin usedPortMap
    BY <2>1 DEF Frees
  <2> QED
    BY <2>1, <2>2 DEF PortInv, StoppedMeansStopped, IsStopped
<1> QED
  BY <1>2, <1>3, <1>5 DEF PortInv

(* A program that is started has its port entered, or was started beside   *)
(* MongoRunner on a port it was given.                                     *)
LEMMA SpawnInv ==
  ASSUME PortInv, calls < MaxCalls,
         NEW port, NEW dir, NEW runId, NEW auto, NEW asked, NEW reset, NEW waits,
         Spawn(calls + 1, port, dir, runId, auto, asked, reset, waits),
         usedPortMap \subseteq usedPortMap',
         (runId = 0 /\ ~auto) \/ port \in usedPortMap'
  PROVE  PortInv'
<1> DEFINE new == calls + 1
<1>1. calls \in Nat /\ new \in Programs /\ calls' = new
  BY SizesAssumption DEF PortInv, Counted, Programs, Spawn
<1>2. /\ program'[new].port = port /\ program'[new].runId = runId
      /\ program'[new].auto = auto
      /\ program' = [k \in Programs |-> program'[k]]
      /\ \A k \in Programs : k # new => program'[k] = program[k]
  BY <1>1 DEF Spawn, PortInv, Counted
<1>3. pending' = pending \union {new} /\ listening' = listening
  BY DEF Spawn
<1>4. 1 .. calls \subseteq Programs /\ \A k \in 1 .. calls' : k = new \/ k \in 1 .. calls
  <2>1. MaxCalls \in Nat /\ calls \in Nat /\ calls < MaxCalls /\ calls' = calls + 1
    BY <1>1, SizesAssumption
  <2>2. 1 .. calls \subseteq 1 .. MaxCalls
    BY <2>1
  <2>3. \A k \in 1 .. calls' : k = new \/ k \in 1 .. calls
    BY <2>1
  <2> QED
    BY <2>2, <2>3 DEF Programs
<1>5. Counted'
  BY <1>1, <1>2, <1>3, SizesAssumption DEF PortInv, Counted, Programs
<1>6. ListenersAtHome'
  <2> SUFFICES ASSUME NEW p \in AllPorts, listening[p] # 0
               PROVE  program'[listening[p]].port = p
    BY <1>3 DEF ListenersAtHome
  <2>1. listening[p] \in 1 .. calls /\ listening[p] # new
    BY <1>1 DEF PortInv, Counted
  <2> QED
    BY <1>2, <1>4, <2>1 DEF PortInv, ListenersAtHome
<1>7. StoppedMeansStopped'
  <2> SUFFICES ASSUME NEW k \in 1 .. calls', program'[k].port \notin usedPortMap',
                      Entered(k)', Alive(k)'
               PROVE  FALSE
    BY DEF StoppedMeansStopped, IsStopped
  <2>1. k # new /\ k \in 1 .. calls
    BY <1>2, <1>4 DEF Entered
  <2>2. program'[k] = program[k]
    BY <1>2, <1>4, <2>1
  <2>3. Alive(k)
    BY <1>3, <2>1 DEF Alive
  <2>4. program[k].port \notin usedPortMap
    BY <2>2
  <2> QED
    BY <2>1, <2>2, <2>3, <2>4 DEF PortInv, StoppedMeansStopped, IsStopped, Entered
<1> QED
  BY <1>5, <1>6, <1>7 DEF PortInv

(* Run starts a program whose port it enters.                              *)
LEMMA RunInv ==
  ASSUME PortInv, NEW kind, NEW restart, NEW r, NEW o, NEW wait,
         Run(kind, restart, r, o, wait)
  PROVE  PortInv'
<1> DEFINE m == Merged(restart, r, o)
           auto == m.port = 0
           port == IF auto THEN NextOpenPort ELSE m.port
           reset == kind = "mongod" /\ Resets(restart, m)
<1>1. /\ calls < MaxCalls /\ usedPortMap' = PortUsed(m, port)
      /\ Spawn(calls + 1, port, <<kind, port>>, r, auto, o, reset, WaitForConnect(wait))
  BY DEF Run
<1>2. usedPortMap \subseteq usedPortMap' /\ port \in usedPortMap'
  BY <1>1 DEF PortUsed
<1> HIDE DEF m, auto, port, reset
<1> QED
  BY <1>1, <1>2, SpawnInv

LEMMA BesideInv ==
  ASSUME PortInv, NEW port, NEW dir, NEW auto, NEW reset, Beside(port, dir, auto, reset),
         usedPortMap \subseteq usedPortMap', ~auto \/ port \in usedPortMap'
  PROVE  PortInv'
<1>1. calls < MaxCalls /\ Spawn(calls + 1, port, dir, 0, auto, None, reset, TRUE)
  BY DEF Beside
<1> DEFINE t == TRUE
<1>2. Spawn(calls + 1, port, dir, 0, auto, None, reset, t)
  BY <1>1
<1> HIDE DEF t
<1> QED
  BY <1>1, <1>2, SpawnInv

LEMMA BindInv ==
  ASSUME PortInv, NEW k \in Programs, Bind(k)
  PROVE  PortInv'
<1> DEFINE p == program[k].port
<1>1. k \in pending /\ k \in 1 .. calls /\ k # 0
  BY SizesAssumption DEF Bind, PortInv, Counted
<1>2. UNCHANGED <<calls, program, usedPortMap>>
  BY DEF Bind, runnerVars
<1>3. CASE Exits(k)
  BY <1>2, <1>3, NothingStarted DEF Exits, PortInv, Counted
<1>4. CASE ~Exits(k)
  <2>1. pending' = pending \ {k} /\ listening' = [listening EXCEPT ![p] = k]
    BY <1>4 DEF Bind
  <2>2. Counted'
    <3>1. k \in 0 .. calls /\ listening \in [AllPorts -> 0 .. calls]
      BY <1>1, SizesAssumption DEF PortInv, Counted
    <3>2. listening' \in [AllPorts -> 0 .. calls]
      BY <2>1, <3>1
    <3> QED
      BY <1>2, <2>1, <3>2 DEF PortInv, Counted
  <2>3. ListenersAtHome'
    BY <1>1, <1>2, <2>1 DEF PortInv, Counted, ListenersAtHome
  <2>4. ASSUME NEW j \in 1 .. calls, Alive(j)' PROVE Alive(j)
    <3>1. j # 0
      BY DEF PortInv, Counted
    <3> QED
      BY <1>1, <2>1, <2>4, <3>1 DEF Alive, PortInv, Counted
  <2>5. StoppedMeansStopped'
    BY <1>2, <2>4 DEF PortInv, StoppedMeansStopped, IsStopped, Entered
  <2> QED
    BY <2>2, <2>3, <2>5 DEF PortInv
<1> QED
  BY <1>3, <1>4

-----------------------------------------------------------------------------

LEMMA StepInv == PortInv /\ [Next]_vars => PortInv'
<1> SUFFICES ASSUME PortInv, [Next]_vars PROVE PortInv'
  OBVIOUS
<1>1. ASSUME NEW k \in Programs, Bind(k) PROVE PortInv'
  BY <1>1, BindInv
<1>2. ASSUME NEW k \in Programs, FailToStart(k) PROVE PortInv'
  BY <1>2, NothingStarted DEF FailToStart, Exits, runnerVars, PortInv, Counted
<1>3. ASSUME NEW p \in AllPorts, Crash(p) PROVE PortInv'
  <2>1. 0 \in 0 .. calls
    BY SizesAssumption DEF PortInv, Counted
  <2>2. listening' \in [AllPorts -> 0 .. calls]
    BY <1>3, <2>1 DEF Crash, PortInv, Counted
  <2>3. \A q \in AllPorts : listening'[q] # 0 => listening'[q] = listening[q]
    BY <1>3 DEF Crash, PortInv, Counted
  <2> QED
    BY <1>3, <2>2, <2>3, NothingStarted DEF Crash, runnerVars
<1>4. ASSUME NEW p \in AllPorts, StopNative(p) PROVE PortInv'
  BY <1>4, KilledInv DEF StopNative, runnerVars
<1>5. ASSUME NEW p \in Ports, StopPort(p) PROVE PortInv'
  BY <1>5, KilledInv DEF StopPort
<1>6. ASSUME NEW kind, NEW o, NEW wait, Start(kind, o, wait) PROVE PortInv'
  <2> DEFINE f == FALSE
  <2>1. Run(kind, f, calls + 1, o, wait)
    BY <1>6 DEF Start
  <2> HIDE DEF f
  <2> QED
    BY <2>1, RunInv
<1>7. ASSUME NEW h \in Programs, NEW o, NEW wait, Restart(h, o, wait) PROVE PortInv'
  <2> DEFINE t == TRUE
  <2>1. Run(program[h].dir[1], t, handle[h].runId, o, wait)
    BY <1>7 DEF Restart
  <2> HIDE DEF t
  <2> QED
    BY <2>1, RunInv
<1>8. ASSUME NEW named, NEW restart, StartMongodTest(named, restart) PROVE PortInv'
  BY <1>8, BesideInv DEF StartMongodTest
<1>9. ASSUME NEW keep, SyncCCStart(keep) \/ ReplTestStart(keep) \/ StartDB(keep)
      PROVE  PortInv'
  BY <1>9, BesideInv DEF SyncCCStart, ReplTestStart, StartDB
<1>10. CASE ToolTestStop
  BY <1>10, KilledInv DEF ToolTestStop, runnerVars
<1>11. CASE Connect \/ Ended \/ GiveUp \/ UNCHANGED vars
  <2>1. UNCHANGED <<calls, program, usedPortMap, pending, listening>>
    BY <1>11 DEF Connect, Ended, GiveUp, NotConnected, runnerVars, programVars, vars
  <2> QED
    BY <2>1, NothingStarted DEF PortInv, Counted
<1> QED
  BY <1>1, <1>2, <1>3, <1>4, <1>5, <1>6, <1>7, <1>8, <1>9, <1>10, <1>11 DEF Next

LEMMA Invariant == Spec => []PortInv
<1> QED
  BY InitInv, StepInv, PTL DEF Spec

(* isStopped of MongoRunner does not say of a living program that it has   *)
(* stopped, when MongoRunner started it or chose its port, whoever has     *)
(* taken and freed that port since.                                        *)
THEOREM LivingIsNotStopped == Spec => []StoppedMeansStopped
<1>1. PortInv => StoppedMeansStopped
  BY DEF PortInv
<1> QED
  BY <1>1, Invariant, PTL

-----------------------------------------------------------------------------
(* The data of a run.  RestartFindsData speaks of the call that restarts;  *)
(* what it needs to know is what was saved of the run, and which directory *)
(* its programs had.                                                       *)

(* A program of a run has the run's kind, a port and the directory of that; *)
(* the run is the first call's that started one.                           *)
RunsKnown ==
  \A i \in 1 .. calls :
    LET r == program[i].runId IN
    r # 0 => /\ r \in 1 .. i /\ program[r].runId = r /\ program[i].port \in Ports
             /\ program[i].dir = <<program[r].dir[1], program[i].port>>
             /\ program[r].dir[1] \in {"mongod", "mongos"}

HandlesKnown ==
  \A h \in Programs : handle[h] # NoHandle =>
    h \in 1 .. calls /\ handle[h].runId = program[h].runId

(* What is saved of a run that is not to be forgotten: the port of all its *)
(* programs, and to append options or to start clean only if a call was    *)
(* told so.                                                                *)
KeptFor(r) ==
  LET s == savedOptions[r].options IN
  /\ savedOptions[r].saved /\ s.port = program[r].port /\ ~s.forgetPort
  /\ \A i \in 1 .. calls : program[i].runId = r => program[i].port = program[r].port
  /\ s.appendOptions =>
       \E i \in 1 .. calls : program[i].runId = r /\ program[i].asked.appendOptions
  /\ "clean" \in s.data => "clean" \in program[r].asked.data \/ CleanAppended(r)

SavedKept ==
  \A r \in 1 .. calls : program[r].runId = r /\ ~Forgotten(r) => KeptFor(r)

Excused(r) ==
  Forgotten(r) \/ PassedOn(r) \/ "clean" \in program[r].asked.data \/ CleanAppended(r)

DataKept ==
  \A r \in ran \ {0} :
    /\ r \in 1 .. calls /\ program[r].runId = r
    /\ r \in disk[program[r].dir] \/ Excused(r)

DataInv == TypeOK /\ RunsKnown /\ HandlesKnown /\ SavedKept /\ DataKept

(* The options there are, merged and remembered.                           *)
LEMMA OptionsAre ==
  /\ None \in Options /\ NewOptions \subseteq Options /\ RestartOptions \subseteq Options
  /\ \A o \in RestartOptions : o.port = 0 /\ ~o.forgetPort
<1>1. NumPorts \in Nat /\ 0 \in 0 .. NumPorts
  BY SizesAssumption
<1>2. None \in Options
  BY <1>1 DEF None, Options
<1>3. ASSUME NEW o \in NewOptions PROVE o \in Options
  <2>1. CASE o \in {[None EXCEPT !.port = p] : p \in Ports}
    <3>1. PICK p \in Ports : o = [None EXCEPT !.port = p]
      BY <2>1
    <3>2. p \in 0 .. NumPorts
      BY <1>1 DEF Ports
    <3> QED
      BY <1>2, <3>1, <3>2 DEF Options
  <2>2. CASE o \notin {[None EXCEPT !.port = p] : p \in Ports}
    BY <1>2, <1>3, <2>2, ZenonT(60) DEF NewOptions, Options
  <2> QED
    BY <2>1, <2>2
<1>4. ASSUME NEW o \in RestartOptions PROVE o \in Options /\ o.port = 0 /\ ~o.forgetPort
  <2>1. None.port = 0 /\ ~None.forgetPort
    BY DEF None
  <2> QED
    BY <1>2, <1>4, <2>1 DEF RestartOptions, Options
<1> QED
  BY <1>2, <1>3, <1>4

LEMMA MergedIs ==
  ASSUME TypeOK, NEW restart \in BOOLEAN, NEW r, restart => r \in RunIds, NEW o \in Options
  PROVE  /\ Merged(restart, r, o) \in Options
         /\ ~restart => Merged(restart, r, o) = o
         /\ restart /\ savedOptions[r].saved =>
              LET m == Merged(restart, r, o)  s == savedOptions[r].options IN
              /\ o.port = 0 => m.port = s.port
              /\ m.forgetPort <=> (o.forgetPort \/ s.forgetPort)
              /\ m.appendOptions <=> (o.appendOptions \/ s.appendOptions)
              /\ m.data = o.data \union s.data
         /\ restart /\ ~savedOptions[r].saved => Merged(restart, r, o) = o
<1>1. CASE ~restart \/ ~savedOptions[r].saved
  BY <1>1 DEF Merged
<1>2. CASE restart /\ savedOptions[r].saved
  <2> DEFINE s == savedOptions[r].options
             m == [port |-> IF o.port # 0 THEN o.port ELSE s.port,
                   forgetPort |-> o.forgetPort \/ s.forgetPort,
                   noRemember |-> o.noRemember \/ s.noRemember,
                   appendOptions |-> o.appendOptions \/ s.appendOptions,
                   data |-> o.data \union s.data]
  <2>1. s \in Options
    <3>1. r \in RunIds
      BY <1>2
    <3>2. savedOptions[r] \in {NotSaved} \union [saved : {TRUE}, options : Options]
      BY <3>1 DEF TypeOK
    <3>3. ~NotSaved.saved
      BY DEF NotSaved
    <3>4. savedOptions[r] \in [saved : {TRUE}, options : Options]
      BY <1>2, <3>2, <3>3
    <3> QED
      BY <3>4
  <2>2. Merged(restart, r, o) = m
    BY <1>2 DEF Merged
  <2> HIDE DEF s
  <2>3. m \in Options
    BY <2>1 DEF Options
  <2>4. /\ o.port = 0 => m.port = s.port
        /\ m.forgetPort <=> (o.forgetPort \/ s.forgetPort)
        /\ m.appendOptions <=> (o.appendOptions \/ s.appendOptions)
        /\ m.data = o.data \union s.data
    BY <2>1 DEF Options
  <2> HIDE DEF m
  <2> QED
    BY <1>2, <2>2, <2>3, <2>4 DEF s
<1> QED
  BY <1>1, <1>2

LEMMA RememberedIs ==
  ASSUME NEW m \in Options, NEW port \in Ports
  PROVE  LET y == Remembered(m, port) IN
         /\ y \in Options /\ y.appendOptions = m.appendOptions /\ y.data = m.data
         /\ y.forgetPort = m.forgetPort /\ (~m.forgetPort => y.port = port)
<1>1. port \in 0 .. NumPorts
  BY SizesAssumption DEF Ports
<1> QED
  BY <1>1 DEF Remembered, Options

(* A call that starts a program adds one, and changes no other.            *)
Started == [started : {TRUE}, port : AllPorts, dir : Dirs, runId : 0 .. MaxCalls,
            auto : BOOLEAN, asked : Options]
Begun(port, dir, runId, auto, asked) ==
  [started |-> TRUE, port |-> port, dir |-> dir, runId |-> runId,
   auto |-> auto, asked |-> asked]

LEMMA CallsGrow ==
  ASSUME calls \in 0 .. MaxCalls, calls < MaxCalls
  PROVE  /\ calls \in Nat /\ MaxCalls \in Nat /\ calls + 1 \in Programs /\ calls + 1 # 0
         /\ calls + 1 \in 0 .. MaxCalls /\ calls + 1 \notin 1 .. calls
         /\ 0 .. calls \subseteq 0 .. calls + 1
         /\ 1 .. calls \subseteq Programs /\ 1 .. calls \subseteq 1 .. calls + 1
         /\ 1 .. calls + 1 \subseteq Programs
         /\ \A i \in 1 .. calls + 1 : i = calls + 1 \/ i \in 1 .. calls
         /\ \A i \in 1 .. calls : i < calls + 1
<1>1. MaxCalls \in Nat /\ calls \in Nat
  BY SizesAssumption
<1> QED
  BY <1>1 DEF Programs

LEMMA SpawnAdds ==
  ASSUME TypeOK, calls < MaxCalls,
         NEW port, NEW dir, NEW runId, NEW auto, NEW asked, NEW reset, NEW waits,
         Begun(port, dir, runId, auto, asked) \in Started,
         Spawn(calls + 1, port, dir, runId, auto, asked, reset, waits)
  PROVE  /\ calls' = calls + 1 /\ listening' = listening
         /\ program' \in [Programs -> {NotStarted} \union Started]
         /\ program'[calls + 1] \in Started
         /\ program'[calls + 1].port = port /\ program'[calls + 1].dir = dir
         /\ program'[calls + 1].runId = runId /\ program'[calls + 1].asked = asked
         /\ \A i \in Programs : i # calls + 1 => program'[i] = program[i]
<1>1. calls + 1 \in Programs
  BY CallsGrow DEF TypeOK
<1> DEFINE x == Begun(port, dir, runId, auto, asked)
<1>2. x \in Started
  OBVIOUS
<1>3. program' = [program EXCEPT ![calls + 1] = x]
  BY DEF Spawn, Begun
<1>4. program \in [Programs -> {NotStarted} \union Started]
  BY DEF TypeOK, Started
<1>5. /\ x.port = port /\ x.dir = dir /\ x.runId = runId /\ x.asked = asked
  BY DEF Begun
<1> HIDE DEF x
<1>6. /\ program' \in [Programs -> {NotStarted} \union Started] /\ program'[calls + 1] = x
      /\ \A i \in Programs : i # calls + 1 => program'[i] = program[i]
  BY <1>1, <1>2, <1>3, <1>4
<1> QED
  BY <1>2, <1>5, <1>6 DEF Spawn

LEMMA SpawnTypes ==
  ASSUME TypeOK, calls < MaxCalls,
         NEW port, NEW dir, NEW runId, NEW auto, NEW asked, NEW reset, NEW waits,
         Begun(port, dir, runId, auto, asked) \in Started,
         Spawn(calls + 1, port, dir, runId, auto, asked, reset, waits),
         usedPortMap' \subseteq Ports, tool' \in 0 .. calls + 1,
         savedOptions' \in [RunIds -> {NotSaved} \union [saved : {TRUE}, options : Options]],
         handle' \in [Programs -> {NoHandle} \union
                       [port : AllPorts, runId : 0 .. MaxCalls, to : 0 .. MaxCalls]]
  PROVE  TypeOK'
<1>1. /\ calls' = calls + 1 /\ listening' = listening
      /\ program' \in [Programs -> {NotStarted} \union Started]
      /\ program'[calls + 1] \in Started
      /\ \A i \in Programs : i # calls + 1 => program'[i] = program[i]
  BY SpawnAdds
<1>2. /\ calls \in Nat /\ calls + 1 \in 0 .. MaxCalls /\ calls + 1 \in Programs
      /\ 0 .. calls \subseteq 0 .. calls + 1 /\ 1 .. calls \subseteq 1 .. calls + 1
  BY CallsGrow DEF TypeOK
<1>3. waiting' \in 0 .. calls'
  BY <1>1, <1>2 DEF Spawn
<1>4. pending' \subseteq 1 .. calls'
  BY <1>1, <1>2 DEF Spawn, TypeOK
<1>5. listening' \in [AllPorts -> 0 .. calls']
  BY <1>1, <1>2 DEF TypeOK
<1>6. disk' \in [Dirs -> SUBSET (0 .. MaxCalls)] /\ ran' \subseteq 0 .. MaxCalls
  BY DEF Spawn, TypeOK
<1>7. \A k \in Programs : program'[k] # NotStarted <=> k <= calls'
  <2>1. \A k \in Programs : k \in Nat
    BY DEF Programs
  <2>2. NotStarted \notin Started
    <3>1. \A y \in Started : y.started
      BY DEF Started
    <3>2. ~NotStarted.started
      BY DEF NotStarted
    <3> QED
      BY <3>1, <3>2
  <2>3. \A k \in Programs : program[k] # NotStarted <=> k <= calls
    BY DEF TypeOK
  <2>4. ASSUME NEW k \in Programs PROVE program'[k] # NotStarted <=> k <= calls + 1
    <3>1. CASE k = calls + 1
      BY <1>1, <1>2, <2>2, <3>1
    <3>2. CASE k # calls + 1
      <4>1. program'[k] = program[k]
        BY <1>1, <3>2
      <4>2. k <= calls <=> k <= calls + 1
        BY <1>2, <2>1, <3>2
      <4> QED
        BY <2>3, <4>1, <4>2
    <3> QED
      BY <3>1, <3>2
  <2> QED
    BY <1>1, <2>4
<1> QED
  BY <1>1, <1>2, <1>3, <1>4, <1>5, <1>6, <1>7 DEF TypeOK, Started


(* What a call to MongoRunner starts, and what it saves.                   *)
ChosenPort(m) == IF m.port = 0 THEN NextOpenPort ELSE m.port

LEMMA RunStarts ==
  ASSUME TypeOK, NEW kind \in {"mongod", "mongos"}, NEW restart \in BOOLEAN,
         NEW r \in RunIds, NEW o \in Options, NEW wait, Run(kind, restart, r, o, wait)
  PROVE  LET m == Merged(restart, r, o)  port == ChosenPort(m)  auto == m.port = 0 IN
         /\ calls < MaxCalls /\ m \in Options /\ port \in Ports
         /\ Begun(port, <<kind, port>>, r, auto, o) \in Started
<1> DEFINE m == Merged(restart, r, o)
           port == ChosenPort(m)
           auto == m.port = 0
<1>1. m \in Options
  BY MergedIs
<1>2. port \in Ports
  <2>1. CASE m.port = 0
    BY <2>1, OpenPort DEF Run, ChosenPort
  <2>2. CASE m.port # 0
    <3>1. m.port \in 0 .. NumPorts
      BY <1>1 DEF Options
    <3> QED
      BY <2>2, <3>1, SizesAssumption DEF Ports, ChosenPort
  <2> QED
    BY <2>1, <2>2
<1>3. auto \in BOOLEAN /\ calls < MaxCalls
  BY DEF Run
<1>4. port \in AllPorts /\ <<kind, port>> \in Dirs /\ r \in 0 .. MaxCalls
  BY <1>2, SizesAssumption DEF AllPorts, Dirs, RunIds, Programs
<1> HIDE DEF m, port, auto
<1>5. Begun(port, <<kind, port>>, r, auto, o) \in Started
  BY <1>3, <1>4 DEF Begun, Started
<1> QED
  BY <1>1, <1>2, <1>3, <1>5 DEF m, port, auto

LEMMA RunTypes ==
  ASSUME TypeOK, NEW kind \in {"mongod", "mongos"}, NEW restart \in BOOLEAN,
         NEW r \in RunIds, NEW o \in Options, NEW wait, Run(kind, restart, r, o, wait)
  PROVE  TypeOK'
<1> DEFINE m == Merged(restart, r, o)
           port == ChosenPort(m)
           auto == m.port = 0
           dir == <<kind, port>>
           reset == kind = "mongod" /\ Resets(restart, m)
           waits == WaitForConnect(wait)
<1>1. /\ calls < MaxCalls /\ m \in Options /\ port \in Ports
      /\ Begun(port, dir, r, auto, o) \in Started
  BY RunStarts
<1>2. /\ usedPortMap' = PortUsed(m, port)
      /\ Spawn(calls + 1, port, dir, r, auto, o, reset, waits)
      /\ savedOptions' = IF ShouldRemember(restart, m)
                         THEN [savedOptions EXCEPT ![r] =
                                 [saved |-> TRUE, options |-> Remembered(m, port)]]
                         ELSE savedOptions
      /\ handle' \in {handle, [handle EXCEPT ![calls + 1] =
                                 [port |-> port, runId |-> r, to |-> 0]]}
      /\ tool' = tool
  BY DEF Run, ChosenPort
<1> HIDE DEF m, port, auto, dir, reset, waits
<1>3. calls + 1 \in Programs /\ 0 .. calls \subseteq 0 .. calls + 1
  BY <1>1, CallsGrow DEF TypeOK
<1>4. usedPortMap' \subseteq Ports /\ tool' \in 0 .. calls + 1
  BY <1>1, <1>2, <1>3 DEF PortUsed, TypeOK
<1>5. savedOptions' \in [RunIds -> {NotSaved} \union [saved : {TRUE}, options : Options]]
  <2>1. Remembered(m, port) \in Options
    BY <1>1, RememberedIs
  <2>2. [saved |-> TRUE, options |-> Remembered(m, port)] \in [saved : {TRUE}, options : Options]
    BY <2>1
  <2> QED
    BY <1>2, <2>2 DEF TypeOK
<1>6. handle' \in [Programs -> {NoHandle} \union
                    [port : AllPorts, runId : 0 .. MaxCalls, to : 0 .. MaxCalls]]
  <2>1. [port |-> port, runId |-> r, to |-> 0]
        \in [port : AllPorts, runId : 0 .. MaxCalls, to : 0 .. MaxCalls]
    BY <1>1, SizesAssumption DEF AllPorts, RunIds, Programs
  <2> QED
    BY <1>2, <1>3, <2>1 DEF TypeOK
<1> QED
  BY <1>1, <1>2, <1>4, <1>5, <1>6, SpawnTypes

LEMMA BesideTypes ==
  ASSUME TypeOK, NEW port, NEW dir, NEW auto, NEW reset, Beside(port, dir, auto, reset),
         Begun(port, dir, 0, auto, None) \in Started, usedPortMap' \subseteq Ports,
         tool' \in 0 .. calls + 1
  PROVE  TypeOK'
<1> DEFINE t == TRUE
<1>1. calls < MaxCalls /\ Spawn(calls + 1, port, dir, 0, auto, None, reset, t)
  BY DEF Beside
<1>2. savedOptions' = savedOptions /\ handle' = handle
  BY DEF Beside
<1>3. /\ savedOptions' \in [RunIds -> {NotSaved} \union [saved : {TRUE}, options : Options]]
      /\ handle' \in [Programs -> {NoHandle} \union
                       [port : AllPorts, runId : 0 .. MaxCalls, to : 0 .. MaxCalls]]
  BY <1>2 DEF TypeOK
<1> HIDE DEF t
<1> QED
  BY <1>1, <1>3, SpawnTypes


(* What is started beside MongoRunner is started in a directory of its own. *)
BesideDirs == {"test", "tool", "repl"} \X AllPorts

LEMMA BesideStarts ==
  ASSUME NEW port \in AllPorts, NEW name, NEW auto, auto \in BOOLEAN,
         <<name, port>> \in Dirs
  PROVE  Begun(port, <<name, port>>, 0, auto, None) \in Started
<1>1. 0 \in 0 .. MaxCalls /\ None \in Options
  BY SizesAssumption, OptionsAre
<1> QED
  BY <1>1 DEF Begun, Started

LEMMA BesideIs ==
  ASSUME TypeOK,
         \/ \E named \in 0 .. NumPorts, restart \in BOOLEAN : StartMongodTest(named, restart)
         \/ \E keep \in BOOLEAN : SyncCCStart(keep) \/ ReplTestStart(keep) \/ StartDB(keep)
  PROVE  \E port, dir, auto, reset :
            /\ Beside(port, dir, auto, reset) /\ dir[1] \in {"test", "tool", "repl"}
            /\ Begun(port, dir, 0, auto, None) \in Started
            /\ usedPortMap' \subseteq Ports /\ tool' \in 0 .. calls + 1
<1>1. /\ SyncCCPort \in AllPorts /\ AllocatedPort \in AllPorts
      /\ <<"test", SyncCCPort>> \in Dirs /\ <<"repl", AllocatedPort>> \in Dirs
      /\ <<"tool", AllocatedPort>> \in Dirs
  BY DEF AllPorts, Dirs
<1>2. tool \in 0 .. calls + 1 /\ calls + 1 \in 0 .. calls + 1
  BY SizesAssumption DEF TypeOK
<1> DEFINE f == FALSE
<1>3. f \in BOOLEAN
  OBVIOUS
<1>4. ASSUME NEW named \in 0 .. NumPorts, NEW restart \in BOOLEAN,
             StartMongodTest(named, restart)
      PROVE  \E port, dir, auto, reset :
               /\ Beside(port, dir, auto, reset) /\ dir[1] \in {"test", "tool", "repl"}
               /\ Begun(port, dir, 0, auto, None) \in Started
               /\ usedPortMap' \subseteq Ports /\ tool' \in 0 .. calls + 1
  <2> DEFINE port == IF named = 0 THEN NextOpenPort ELSE named
             auto == named = 0
             dir == <<"test", port>>
             reset == ~restart
  <2>1. port \in Ports
    <3>1. CASE named = 0
      BY <1>4, <3>1, OpenPort DEF StartMongodTest
    <3>2. CASE named # 0
      BY <3>2, SizesAssumption DEF Ports
    <3> QED
      BY <3>1, <3>2
  <2>2. /\ Beside(port, dir, auto, reset) /\ tool' = tool
        /\ usedPortMap' = IF named = 0 THEN usedPortMap \union {port} ELSE usedPortMap
    BY <1>4 DEF StartMongodTest
  <2>3. port \in AllPorts /\ <<"test", port>> \in Dirs /\ auto \in BOOLEAN
    BY <2>1 DEF AllPorts, Dirs
  <2> HIDE DEF port, auto
  <2>4. Begun(port, dir, 0, auto, None) \in Started
    BY <2>3, BesideStarts
  <2>5. dir[1] \in {"test", "tool", "repl"}
    OBVIOUS
  <2>6. usedPortMap' \subseteq Ports
    BY <2>1, <2>2 DEF TypeOK
  <2> HIDE DEF dir, reset
  <2> QED
    BY <1>2, <2>2, <2>4, <2>5, <2>6
<1>5. ASSUME NEW keep \in BOOLEAN, SyncCCStart(keep)
      PROVE  \E port, dir, auto, reset :
               /\ Beside(port, dir, auto, reset) /\ dir[1] \in {"test", "tool", "repl"}
               /\ Begun(port, dir, 0, auto, None) \in Started
               /\ usedPortMap' \subseteq Ports /\ tool' \in 0 .. calls + 1
  <2> DEFINE dir == <<"test", SyncCCPort>>  reset == ~keep
  <2>1. Beside(SyncCCPort, dir, f, reset) /\ UNCHANGED <<usedPortMap, tool>>
    BY <1>5 DEF SyncCCStart
  <2> HIDE DEF f
  <2>2. Begun(SyncCCPort, dir, 0, f, None) \in Started
    BY <1>1, <1>3, BesideStarts
  <2>3. dir[1] \in {"test", "tool", "repl"}
    OBVIOUS
  <2> HIDE DEF dir, reset
  <2> QED
    BY <1>2, <2>1, <2>2, <2>3 DEF TypeOK
<1>6. ASSUME NEW keep \in BOOLEAN, ReplTestStart(keep)
      PROVE  \E port, dir, auto, reset :
               /\ Beside(port, dir, auto, reset) /\ dir[1] \in {"test", "tool", "repl"}
               /\ Begun(port, dir, 0, auto, None) \in Started
               /\ usedPortMap' \subseteq Ports /\ tool' \in 0 .. calls + 1
  <2> DEFINE dir == <<"repl", AllocatedPort>>  reset == ~keep
  <2>1. Beside(AllocatedPort, dir, f, reset) /\ UNCHANGED <<usedPortMap, tool>>
    BY <1>6 DEF ReplTestStart
  <2> HIDE DEF f
  <2>2. Begun(AllocatedPort, dir, 0, f, None) \in Started
    BY <1>1, <1>3, BesideStarts
  <2>3. dir[1] \in {"test", "tool", "repl"}
    OBVIOUS
  <2> HIDE DEF dir, reset
  <2> QED
    BY <1>2, <2>1, <2>2, <2>3 DEF TypeOK
<1>7. ASSUME NEW keep \in BOOLEAN, StartDB(keep)
      PROVE  \E port, dir, auto, reset :
               /\ Beside(port, dir, auto, reset) /\ dir[1] \in {"test", "tool", "repl"}
               /\ Begun(port, dir, 0, auto, None) \in Started
               /\ usedPortMap' \subseteq Ports /\ tool' \in 0 .. calls + 1
  <2> DEFINE dir == <<"tool", AllocatedPort>>
  <2>1. Beside(AllocatedPort, dir, f, keep) /\ tool' = calls + 1 /\ UNCHANGED usedPortMap
    BY <1>7 DEF StartDB
  <2> HIDE DEF f
  <2>2. Begun(AllocatedPort, dir, 0, f, None) \in Started
    BY <1>1, <1>3, BesideStarts
  <2>3. dir[1] \in {"test", "tool", "repl"}
    OBVIOUS
  <2> HIDE DEF dir
  <2> QED
    BY <1>2, <2>1, <2>2, <2>3 DEF TypeOK
<1> QED
  BY <1>4, <1>5, <1>6, <1>7


-----------------------------------------------------------------------------
(* The steps that start nothing.                                           *)

LEMMA StartedIs ==
  ASSUME TypeOK, NEW k \in 1 .. calls
  PROVE  k \in Programs /\ k # 0 /\ k \in 0 .. MaxCalls /\ program[k] \in Started
<1>1. k \in Programs /\ k <= calls /\ k # 0 /\ k \in 0 .. MaxCalls
  BY SizesAssumption DEF TypeOK, Programs
<1>2. program[k] # NotStarted /\ program[k] \in {NotStarted} \union Started
  BY <1>1 DEF TypeOK, Started
<1> QED
  BY <1>1, <1>2

LEMMA BindTypes ==
  ASSUME TypeOK, NEW k \in Programs, Bind(k)
  PROVE  TypeOK'
<1>1. k \in 1 .. calls /\ k \in 0 .. calls
  BY SizesAssumption DEF Bind, TypeOK
<1>2. program[k] \in Started
  BY <1>1, StartedIs
<1> DEFINE p == program[k].port  d == program[k].dir  r == program[k].runId
<1>3. p \in AllPorts /\ d \in Dirs /\ r \in 0 .. MaxCalls
  BY <1>2 DEF Started
<1>4. pending' = pending \ {k} /\ UNCHANGED <<runnerVars, program, calls, handle, waiting, tool>>
  BY DEF Bind, Exits
<1>5. \/ UNCHANGED <<listening, disk, ran>>
      \/ /\ listening' = [listening EXCEPT ![p] = k]
         /\ disk' = [disk EXCEPT ![d] = @ \union {r}] /\ ran' = ran \union {r}
  BY DEF Bind, Exits
<1> HIDE DEF p, d, r
<1>6. /\ listening' \in [AllPorts -> 0 .. calls]
      /\ disk' \in [Dirs -> SUBSET (0 .. MaxCalls)] /\ ran' \subseteq 0 .. MaxCalls
  <2>1. /\ listening \in [AllPorts -> 0 .. calls]
        /\ disk \in [Dirs -> SUBSET (0 .. MaxCalls)] /\ ran \subseteq 0 .. MaxCalls
    BY DEF TypeOK
  <2>2. CASE UNCHANGED <<listening, disk, ran>>
    BY <2>1, <2>2
  <2>3. CASE /\ listening' = [listening EXCEPT ![p] = k]
             /\ disk' = [disk EXCEPT ![d] = @ \union {r}] /\ ran' = ran \union {r}
    <3>1. disk[d] \union {r} \in SUBSET (0 .. MaxCalls)
      BY <1>3, <2>1
    <3> QED
      BY <1>1, <1>3, <2>1, <2>3, <3>1
  <2> QED
    BY <1>5, <2>2, <2>3
<1> QED
  BY <1>4, <1>6 DEF TypeOK, runnerVars

(* What ends programs, or a call, keeps the types.                         *)
LEMMA EndTypes ==
  ASSUME TypeOK, UNCHANGED <<savedOptions, program, disk, ran, calls>>,
         usedPortMap' \subseteq usedPortMap, pending' \subseteq pending,
         listening' = listening \/ \E p \in AllPorts : listening' = [listening EXCEPT ![p] = 0],
         waiting' \in {waiting, 0}, tool' \in {tool, 0},
         handle' \in [Programs -> {NoHandle} \union
                       [port : AllPorts, runId : 0 .. MaxCalls, to : 0 .. MaxCalls]]
  PROVE  TypeOK'
<1>1. 0 \in 0 .. calls
  BY SizesAssumption DEF TypeOK
<1>2. listening' \in [AllPorts -> 0 .. calls]
  BY <1>1 DEF TypeOK
<1>3. waiting' \in 0 .. calls' /\ tool' \in 0 .. calls'
  BY <1>1 DEF TypeOK
<1> QED
  BY <1>2, <1>3 DEF TypeOK

LEMMA ConnectTypes ==
  ASSUME TypeOK, Connect
  PROVE  /\ TypeOK' /\ waiting \in 1 .. calls
         /\ \A h \in Programs : handle'[h] # handle[h] =>
               h = waiting /\ handle'[h].runId = program[h].runId
<1> DEFINE p == program[waiting].port
           x == [port |-> p, runId |-> program[waiting].runId, to |-> listening[p]]
<1>1. waiting \in 1 .. calls
  BY DEF TypeOK, Connect, Idle
<1>2. program[waiting] \in Started /\ waiting \in Programs
  BY <1>1, StartedIs
<1>3. p \in AllPorts /\ program[waiting].runId \in 0 .. MaxCalls
  BY <1>2 DEF Started
<1>4. listening[p] \in 0 .. MaxCalls
  BY <1>3, SizesAssumption DEF TypeOK
<1>5. handle' = [handle EXCEPT ![waiting] = x]
  BY DEF Connect
<1>6. x.runId = program[waiting].runId
      /\ x \in [port : AllPorts, runId : 0 .. MaxCalls, to : 0 .. MaxCalls]
  BY <1>3, <1>4
<1> HIDE DEF x
<1>7. handle' \in [Programs -> {NoHandle} \union
                    [port : AllPorts, runId : 0 .. MaxCalls, to : 0 .. MaxCalls]]
      /\ \A h \in Programs : handle'[h] = IF h = waiting THEN x ELSE handle[h]
  BY <1>2, <1>5, <1>6 DEF TypeOK
<1>8. TypeOK'
  BY <1>7, EndTypes DEF Connect, runnerVars, programVars
<1> QED
  BY <1>1, <1>6, <1>7, <1>8

LEMMA InitTypes == Init => TypeOK
<1>1. /\ 0 \in 0 .. MaxCalls /\ \A k \in Programs : ~(k <= 0)
  BY SizesAssumption DEF Programs
<1>2. ASSUME Init PROVE TypeOK
  BY <1>1, <1>2 DEF Init, TypeOK
<1> QED
  BY <1>2


LEMMA QuietData ==
  ASSUME DataInv, TypeOK', UNCHANGED <<savedOptions, program, disk, ran, calls>>,
         \A h \in Programs : handle'[h] # handle[h] =>
            h \in 1 .. calls /\ handle'[h].runId = program[h].runId
  PROVE  DataInv'
<1>1. RunsKnown'
  BY DEF DataInv, RunsKnown
<1>2. HandlesKnown'
  BY DEF DataInv, HandlesKnown
<1>3. SavedKept'
  BY DEF DataInv, SavedKept, KeptFor, Forgotten, CleanAppended
<1>4. DataKept'
  BY DEF DataInv, DataKept, Excused, Forgotten, PassedOn, CleanAppended
<1> QED
  BY <1>1, <1>2, <1>3, <1>4 DEF DataInv

LEMMA BindData ==
  ASSUME DataInv, NEW k \in Programs, Bind(k)
  PROVE  DataInv'
<1>1. TypeOK'
  BY BindTypes DEF DataInv
<1> DEFINE d == program[k].dir  r == program[k].runId
<1>2. /\ UNCHANGED <<savedOptions, program, calls, handle>>
      /\ \/ UNCHANGED <<disk, ran>>
         \/ disk' = [disk EXCEPT ![d] = @ \union {r}] /\ ran' = ran \union {r}
  BY DEF Bind, Exits, runnerVars
<1>3. CASE UNCHANGED <<disk, ran>>
  BY <1>1, <1>2, <1>3, QuietData
<1>4. CASE disk' = [disk EXCEPT ![d] = @ \union {r}] /\ ran' = ran \union {r}
  <2>1. k \in 1 .. calls
    BY SizesAssumption DEF Bind, DataInv, TypeOK
  <2>2. program[k] \in Started /\ k \in 0 .. MaxCalls
    BY <2>1, StartedIs DEF DataInv
  <2>3. d \in Dirs
    BY <2>2 DEF Started
  <2>4. \A x \in Dirs : disk[x] \subseteq disk'[x] /\ (x = d => r \in disk'[x])
    BY <1>4, <2>3 DEF DataInv, TypeOK
  <2>5. RunsKnown' /\ HandlesKnown'
    BY <1>2 DEF DataInv, RunsKnown, HandlesKnown
  <2>6. SavedKept'
    BY <1>2 DEF DataInv, SavedKept, KeptFor, Forgotten, CleanAppended
  <2>7. \A x \in 1 .. calls : Excused(x)' <=> Excused(x)
    BY <1>2 DEF Excused, Forgotten, PassedOn, CleanAppended
  <2>8. ASSUME NEW x \in ran' \ {0}
        PROVE  /\ x \in 1 .. calls /\ program[x].runId = x
               /\ x \in disk'[program[x].dir] \/ Excused(x)
    <3>1. CASE x \in ran
      <4>1. x \in 1 .. calls /\ program[x].runId = x
            /\ (x \in disk[program[x].dir] \/ Excused(x))
        BY <2>8, <3>1 DEF DataInv, DataKept
      <4>2. program[x].dir \in Dirs
        <5>1. program[x] \in Started
          BY <4>1, StartedIs DEF DataInv
        <5> QED
          BY <5>1 DEF Started
      <4> QED
        BY <2>4, <4>1, <4>2
    <3>2. CASE x \notin ran
      <4>1. x = r /\ r # 0
        BY <1>4, <2>8, <3>2
      <4>2. /\ r \in 1 .. k /\ program[r].runId = r
            /\ d = <<program[r].dir[1], program[k].port>>
        BY <2>1, <4>1 DEF DataInv, RunsKnown
      <4>3. r \in 1 .. calls
        BY <2>1, <4>2, SizesAssumption DEF DataInv, TypeOK
      <4>4. program[r].dir = <<program[r].dir[1], program[r].port>>
        BY <4>1, <4>2, <4>3 DEF DataInv, RunsKnown
      <4>5. program[k].port = program[r].port \/ Forgotten(r)
        BY <2>1, <4>2, <4>3 DEF DataInv, SavedKept, KeptFor
      <4>6. CASE Forgotten(r)
        BY <4>1, <4>2, <4>3, <4>6 DEF Excused
      <4>7. CASE program[k].port = program[r].port
        <5>1. program[r].dir = d
          BY <4>2, <4>4, <4>7
        <5> QED
          BY <2>3, <2>4, <4>1, <4>2, <4>3, <5>1
      <4> QED
        BY <4>5, <4>6, <4>7
    <3> QED
      BY <3>1, <3>2
  <2>9. DataKept'
    <3> SUFFICES ASSUME NEW x \in ran' \ {0}
                 PROVE  /\ x \in 1 .. calls' /\ program'[x].runId = x
                        /\ x \in disk'[program'[x].dir] \/ Excused(x)'
      BY DEF DataKept
    <3> QED
      BY <1>2, <2>7, <2>8
  <2> QED
    BY <1>1, <2>5, <2>6, <2>9 DEF DataInv
<1> QED
  BY <1>2, <1>3, <1>4

LEMMA InitData == Init => DataInv
<1>1. ASSUME Init PROVE DataInv
  <2>1. TypeOK
    BY <1>1, InitTypes
  <2>2. calls = 0 /\ ran = {} /\ \A h \in Programs : handle[h] = NoHandle
    BY <1>1 DEF Init
  <2>3. 1 .. calls = {}
    BY <2>2
  <2> QED
    BY <2>1, <2>2, <2>3 DEF DataInv, RunsKnown, HandlesKnown, SavedKept, DataKept
<1> QED
  BY <1>1


-----------------------------------------------------------------------------
(* The steps that start a program.                                         *)

LEMMA ExcusesStay ==
  ASSUME TypeOK, calls < MaxCalls, calls' = calls + 1,
         \A i \in Programs : i # calls + 1 => program'[i] = program[i],
         NEW r \in 1 .. calls
  PROVE  /\ program'[r] = program[r] /\ (Forgotten(r)' <=> Forgotten(r))
         /\ (CleanAppended(r) => CleanAppended(r)') /\ (Excused(r) => Excused(r)')
<1>1. /\ 1 .. calls \subseteq Programs /\ 1 .. calls \subseteq 1 .. calls'
      /\ \A i \in 1 .. calls : program'[i] = program[i]
  BY CallsGrow DEF TypeOK
<1>2. Forgotten(r)' <=> Forgotten(r)
  BY <1>1 DEF Forgotten
<1>3. CleanAppended(r) => CleanAppended(r)'
  BY <1>1 DEF CleanAppended
<1>4. PassedOn(r) => PassedOn(r)'
  BY <1>1 DEF PassedOn
<1> QED
  BY <1>1, <1>2, <1>3, <1>4 DEF Excused

LEMMA SpawnRuns ==
  ASSUME DataInv, calls < MaxCalls,
         NEW port, NEW dir, NEW runId, NEW auto, NEW asked, NEW reset, NEW waits,
         Begun(port, dir, runId, auto, asked) \in Started,
         Spawn(calls + 1, port, dir, runId, auto, asked, reset, waits),
         \/ runId = 0
         \/ /\ port \in Ports /\ dir[1] \in {"mongod", "mongos"}
            /\ dir = <<dir[1], port>>
            /\ \/ runId = calls + 1
               \/ /\ runId \in 1 .. calls /\ program[runId].runId = runId
                  /\ dir[1] = program[runId].dir[1]
  PROVE  RunsKnown'
<1>1. /\ calls' = calls + 1
      /\ program'[calls + 1].port = port /\ program'[calls + 1].dir = dir
      /\ program'[calls + 1].runId = runId
      /\ \A i \in Programs : i # calls + 1 => program'[i] = program[i]
  BY SpawnAdds DEF DataInv
<1>2. /\ calls \in Nat /\ calls + 1 \notin 1 .. calls /\ 1 .. calls \subseteq Programs
      /\ \A i \in 1 .. calls + 1 : i = calls + 1 \/ i \in 1 .. calls
  BY CallsGrow DEF DataInv, TypeOK
<1>3. \A i \in 1 .. calls : program'[i] = program[i]
  BY <1>1, <1>2
<1> SUFFICES ASSUME NEW i \in 1 .. calls + 1, program'[i].runId # 0
             PROVE  LET r == program'[i].runId IN
                    /\ r \in 1 .. i /\ program'[r].runId = r /\ program'[i].port \in Ports
                    /\ program'[i].dir = <<program'[r].dir[1], program'[i].port>>
                    /\ program'[r].dir[1] \in {"mongod", "mongos"}
  BY <1>1 DEF RunsKnown
<1> DEFINE r == program'[i].runId
<1>4. CASE i = calls + 1
  <2>1. r = runId /\ program'[i].port = port /\ program'[i].dir = dir /\ runId # 0
    BY <1>1, <1>4
  <2>2. CASE runId = calls + 1
    <3>1. calls + 1 \in 1 .. calls + 1
      BY <1>2
    <3> QED
      BY <1>1, <1>4, <2>1, <2>2, <3>1
  <2>3. CASE runId # calls + 1
    <3>1. runId \in 1 .. calls /\ runId \in 1 .. i
      BY <1>2, <1>4, <2>1, <2>3
    <3>2. program'[runId] = program[runId]
      BY <1>3, <3>1
    <3> QED
      BY <2>1, <2>3, <3>1, <3>2
  <2> QED
    BY <2>2, <2>3
<1>5. CASE i # calls + 1
  <2>1. i \in 1 .. calls /\ program'[i] = program[i]
    BY <1>2, <1>3, <1>5
  <2>2. /\ r \in 1 .. i /\ program[r].runId = r /\ program[i].port \in Ports
        /\ program[i].dir = <<program[r].dir[1], program[i].port>>
        /\ program[r].dir[1] \in {"mongod", "mongos"}
    BY <2>1 DEF DataInv, RunsKnown
  <2>3. r \in 1 .. calls
    BY <1>2, <2>1, <2>2
  <2>4. program'[r] = program[r]
    BY <1>3, <2>3
  <2> HIDE DEF r
  <2> QED
    BY <2>1, <2>2, <2>4 DEF r
<1> QED
  BY <1>4, <1>5

LEMMA SpawnData ==
  ASSUME DataInv, calls < MaxCalls,
         NEW port, NEW dir, NEW runId, NEW auto, NEW asked, NEW reset, NEW waits,
         Begun(port, dir, runId, auto, asked) \in Started,
         Spawn(calls + 1, port, dir, runId, auto, asked, reset, waits), RunsKnown',
         runId = 0 => dir[1] \notin {"mongod", "mongos"},
         reset /\ runId \in ran' \ {0} => Excused(runId)'
  PROVE  DataKept'
<1>1. /\ calls' = calls + 1
      /\ program'[calls + 1].port = port /\ program'[calls + 1].dir = dir
      /\ program'[calls + 1].runId = runId
      /\ \A i \in Programs : i # calls + 1 => program'[i] = program[i]
  BY SpawnAdds DEF DataInv
<1>2. /\ calls \in Nat /\ calls + 1 \in 1 .. calls + 1
      /\ 1 .. calls \subseteq 1 .. calls + 1 /\ \A i \in 1 .. calls : i < calls + 1
  BY CallsGrow DEF DataInv, TypeOK
<1> SUFFICES ASSUME NEW r \in ran' \ {0}
             PROVE  /\ r \in 1 .. calls + 1 /\ program'[r].runId = r
                    /\ r \in disk'[program'[r].dir] \/ Excused(r)'
  BY <1>1 DEF DataKept
<1>3. r \in ran
  BY DEF Spawn
<1>4. r \in 1 .. calls /\ program[r].runId = r /\ (r \in disk[program[r].dir] \/ Excused(r))
  BY <1>3 DEF DataInv, DataKept
<1>5. program'[r] = program[r] /\ (Excused(r) => Excused(r)')
  BY <1>1, <1>4, ExcusesStay DEF DataInv
<1>6. CASE Excused(r)
  BY <1>2, <1>4, <1>5, <1>6
<1>7. CASE ~Excused(r) /\ (~reset \/ program[r].dir # dir)
  <2>1. r \in disk[program[r].dir]
    BY <1>4, <1>7
  <2>2. program[r].dir \in Dirs
    <3>1. program[r] \in Started
      BY <1>4, StartedIs DEF DataInv
    <3> QED
      BY <3>1 DEF Started
  <2>3. disk' = disk \/ (disk' = [disk EXCEPT ![dir] = {}] /\ program[r].dir # dir)
    BY <1>7 DEF Spawn
  <2>4. disk'[program[r].dir] = disk[program[r].dir]
    BY <2>2, <2>3 DEF DataInv, TypeOK
  <2> QED
    BY <1>2, <1>4, <1>5, <2>1, <2>4
<1>8. CASE reset /\ program[r].dir = dir
  <2>1. CASE runId = r
    BY <1>2, <1>4, <1>5, <1>8, <2>1
  <2>2. CASE runId # r
    <3>1. /\ program[r].dir = <<program[r].dir[1], program[r].port>>
          /\ program[r].dir[1] \in {"mongod", "mongos"}
      BY <1>4 DEF DataInv, RunsKnown
    <3>2. runId # 0
      BY <1>8, <3>1
    <3>3. dir = <<program'[runId].dir[1], port>>
      BY <1>1, <1>2, <3>2 DEF RunsKnown
    <3>4. port = program[r].port
      BY <1>8, <3>1, <3>3
    <3>5. PassedOn(r)'
      BY <1>1, <1>2, <1>4, <1>5, <2>2, <3>4 DEF PassedOn
    <3> QED
      BY <1>2, <1>4, <1>5, <3>5 DEF Excused
  <2> QED
    BY <2>1, <2>2
<1> QED
  BY <1>6, <1>7, <1>8


LEMMA SpawnSaved ==
  ASSUME DataInv, calls < MaxCalls,
         NEW port, NEW dir, NEW runId, NEW auto, NEW asked, NEW reset, NEW waits,
         Begun(port, dir, runId, auto, asked) \in Started,
         Spawn(calls + 1, port, dir, runId, auto, asked, reset, waits),
         \A r \in 1 .. calls : r # runId => savedOptions'[r] = savedOptions[r],
         runId # 0 /\ ~Forgotten(runId)' => KeptFor(runId)'
  PROVE  SavedKept'
<1>1. /\ calls' = calls + 1 /\ program'[calls + 1].runId = runId
      /\ \A i \in Programs : i # calls + 1 => program'[i] = program[i]
  BY SpawnAdds DEF DataInv
<1>2. /\ 1 .. calls \subseteq Programs /\ 1 .. calls \subseteq 1 .. calls + 1
      /\ calls + 1 \notin 1 .. calls
      /\ \A i \in 1 .. calls + 1 : i = calls + 1 \/ i \in 1 .. calls
      /\ calls \in Nat
  BY CallsGrow DEF DataInv, TypeOK
<1>3. \A i \in 1 .. calls : program'[i] = program[i]
  BY <1>1, <1>2
<1> SUFFICES ASSUME NEW r \in 1 .. calls + 1, program'[r].runId = r, ~Forgotten(r)'
             PROVE  KeptFor(r)'
  BY <1>1 DEF SavedKept
<1>4. CASE r = runId
  BY <1>2, <1>4
<1>5. CASE r # runId
  <2>1. r \in 1 .. calls /\ r # calls + 1
    BY <1>1, <1>2, <1>5
  <2>2. program'[r] = program[r] /\ savedOptions'[r] = savedOptions[r]
    BY <1>3, <1>5, <2>1
  <2>3. ~Forgotten(r) /\ (CleanAppended(r) => CleanAppended(r)')
    BY <1>1, <2>1, ExcusesStay DEF DataInv
  <2>4. KeptFor(r)
    BY <2>1, <2>2, <2>3 DEF DataInv, SavedKept
  <2>5. ASSUME NEW i \in 1 .. calls + 1, program'[i].runId = r
        PROVE  program'[i].port = program'[r].port
    <3>1. i \in 1 .. calls
      BY <1>1, <1>2, <1>5, <2>5
    <3> QED
      BY <1>3, <2>2, <2>4, <2>5, <3>1 DEF KeptFor
  <2>6. (\E i \in 1 .. calls : program[i].runId = r /\ program[i].asked.appendOptions)
        => \E i \in 1 .. calls + 1 : program'[i].runId = r /\ program'[i].asked.appendOptions
    BY <1>2, <1>3
  <2> QED
    BY <1>1, <2>2, <2>3, <2>4, <2>5, <2>6 DEF KeptFor
<1> QED
  BY <1>4, <1>5

(* What is started beside MongoRunner is of no run, and saves nothing.     *)
LEMMA BesideData ==
  ASSUME DataInv, NEW port, NEW dir, NEW auto, NEW reset, Beside(port, dir, auto, reset),
         dir[1] \in {"test", "tool", "repl"},
         Begun(port, dir, 0, auto, None) \in Started, usedPortMap' \subseteq Ports,
         tool' \in 0 .. calls + 1
  PROVE  DataInv'
<1> DEFINE t == TRUE  zero == 0
<1>1. /\ calls < MaxCalls /\ Spawn(calls + 1, port, dir, zero, auto, None, reset, t)
      /\ Begun(port, dir, zero, auto, None) \in Started
      /\ savedOptions' = savedOptions /\ handle' = handle
  BY DEF Beside
<1>2. TypeOK'
  BY BesideTypes DEF DataInv
<1>3. zero = 0
  OBVIOUS
<1> HIDE DEF t, zero
<1>4. /\ calls' = calls + 1 /\ \A i \in Programs : i # calls + 1 => program'[i] = program[i]
  BY <1>1, SpawnAdds DEF DataInv
<1>5. RunsKnown'
  BY <1>1, <1>3, SpawnRuns
<1>6. SavedKept'
  BY <1>1, <1>3, SpawnSaved
<1>7. DataKept'
  BY <1>1, <1>3, <1>5, SpawnData
<1>8. HandlesKnown'
  <2>1. 1 .. calls \subseteq 1 .. calls + 1 /\ calls + 1 \notin 1 .. calls
    BY <1>1, CallsGrow DEF DataInv, TypeOK
  <2> QED
    BY <1>1, <1>4, <2>1 DEF DataInv, HandlesKnown
<1> QED
  BY <1>2, <1>5, <1>6, <1>7, <1>8 DEF DataInv


(* A call to MongoRunner: a run of its own, or a restart of the run r, with *)
(* options that leave the port to what was saved.                          *)
RunOf(kind, restart, r, o) ==
  \/ ~restart /\ r = calls + 1
  \/ /\ restart /\ r \in 1 .. calls /\ program[r].runId = r /\ kind = program[r].dir[1]
     /\ o.port = 0 /\ ~o.forgetPort

(* The merged options of a restart: the port of the run, and to start clean *)
(* only if a call was told so.                                             *)
LEMMA RestartMerges ==
  ASSUME DataInv, NEW r \in 1 .. calls, NEW o \in Options, NEW restart \in BOOLEAN, restart,
         program[r].runId = r, o.port = 0, ~o.forgetPort, ~Forgotten(r)
  PROVE  LET m == Merged(restart, r, o) IN
         /\ KeptFor(r) /\ ~m.forgetPort /\ ChosenPort(m) = program[r].port
         /\ m.appendOptions =>
              \/ o.appendOptions
              \/ \E i \in 1 .. calls : program[i].runId = r /\ program[i].asked.appendOptions
         /\ "clean" \in m.data =>
              \/ "clean" \in o.data \/ "clean" \in program[r].asked.data \/ CleanAppended(r)
<1> DEFINE m == Merged(restart, r, o)  s == savedOptions[r].options
<1>1. KeptFor(r)
  BY DEF DataInv, SavedKept
<1>2. savedOptions[r].saved /\ s.port = program[r].port /\ ~s.forgetPort
  BY <1>1 DEF KeptFor
<1>3. r \in RunIds
  BY StartedIs DEF DataInv, RunIds
<1>4. /\ m.port = s.port /\ (m.forgetPort <=> (o.forgetPort \/ s.forgetPort))
      /\ (m.appendOptions <=> (o.appendOptions \/ s.appendOptions))
      /\ m.data = o.data \union s.data
  BY <1>2, <1>3, MergedIs DEF DataInv
<1> HIDE DEF m, s
<1>5. program[r].port \in Ports
  <2>1. r # 0
    BY StartedIs DEF DataInv
  <2> QED
    BY <2>1 DEF DataInv, RunsKnown
<1>6. m.port = program[r].port /\ m.port # 0
  BY <1>2, <1>4, <1>5, SizesAssumption DEF Ports
<1>7. ~m.forgetPort
  BY <1>2, <1>4
<1>8. ChosenPort(m) = program[r].port
  BY <1>6 DEF ChosenPort
<1>9. m.appendOptions =>
        \/ o.appendOptions
        \/ \E i \in 1 .. calls : program[i].runId = r /\ program[i].asked.appendOptions
  BY <1>1, <1>4 DEF KeptFor, s
<1>10. "clean" \in m.data =>
         \/ "clean" \in o.data \/ "clean" \in program[r].asked.data \/ CleanAppended(r)
  BY <1>1, <1>4 DEF KeptFor, s
<1> QED
  BY <1>1, <1>7, <1>8, <1>9, <1>10 DEF m

(* What a run of the options o gives: a program, and what is saved of it.  *)
RunGives(kind, restart, r, o) ==
  LET m == Merged(restart, r, o)  port == ChosenPort(m)  new == calls + 1 IN
  /\ calls < MaxCalls /\ m \in Options /\ port \in Ports /\ calls' = new
  /\ savedOptions' = IF ShouldRemember(restart, m)
                     THEN [savedOptions EXCEPT ![r] =
                             [saved |-> TRUE, options |-> Remembered(m, port)]]
                     ELSE savedOptions
  /\ program'[new].port = port /\ program'[new].dir = <<kind, port>>
  /\ program'[new].runId = r /\ program'[new].asked = o
  /\ \A i \in Programs : i # new => program'[i] = program[i]
  /\ ran' = IF "clean" \in o.data THEN ran \ {r} ELSE ran

LEMMA RunParts ==
  ASSUME DataInv, NEW kind \in {"mongod", "mongos"}, NEW restart \in BOOLEAN,
         NEW r \in RunIds, NEW o \in Options, NEW wait, Run(kind, restart, r, o, wait)
  PROVE  RunGives(kind, restart, r, o)
<1> DEFINE m == Merged(restart, r, o)
           port == ChosenPort(m)
           auto == m.port = 0
           dir == <<kind, port>>
           reset == kind = "mongod" /\ Resets(restart, m)
           waits == WaitForConnect(wait)
<1>1. /\ calls < MaxCalls /\ m \in Options /\ port \in Ports
      /\ Begun(port, dir, r, auto, o) \in Started
  BY RunStarts DEF DataInv
<1>2. /\ Spawn(calls + 1, port, dir, r, auto, o, reset, waits)
      /\ savedOptions' = IF ShouldRemember(restart, m)
                         THEN [savedOptions EXCEPT ![r] =
                                 [saved |-> TRUE, options |-> Remembered(m, port)]]
                         ELSE savedOptions
  BY DEF Run, ChosenPort
<1> HIDE DEF m, port, auto, dir, reset, waits
<1>3. /\ calls' = calls + 1
      /\ program'[calls + 1].port = port /\ program'[calls + 1].dir = dir
      /\ program'[calls + 1].runId = r /\ program'[calls + 1].asked = o
      /\ \A i \in Programs : i # calls + 1 => program'[i] = program[i]
  BY <1>1, <1>2, SpawnAdds DEF DataInv
<1>4. ran' = IF "clean" \in o.data THEN ran \ {r} ELSE ran
  BY <1>2 DEF Spawn
<1> QED
  BY <1>1, <1>2, <1>3, <1>4 DEF m, port, dir, RunGives

LEMMA NewRunKept ==
  ASSUME DataInv, NEW kind \in {"mongod", "mongos"}, NEW restart \in BOOLEAN,
         NEW new \in RunIds, NEW o \in Options, NEW wait, Run(kind, restart, new, o, wait),
         restart = FALSE, new = calls + 1, ~Forgotten(new)'
  PROVE  KeptFor(new)'
<1> DEFINE m == Merged(restart, new, o)
           port == ChosenPort(m)
           y == Remembered(m, port)
<1>0. m = Merged(restart, new, o) /\ port = ChosenPort(m) /\ y = Remembered(m, port)
  OBVIOUS
<1> HIDE DEF m, port, y
<1>1. /\ calls < MaxCalls /\ m \in Options /\ port \in Ports /\ calls' = new
      /\ savedOptions' = IF ShouldRemember(restart, m)
                         THEN [savedOptions EXCEPT ![new] = [saved |-> TRUE, options |-> y]]
                         ELSE savedOptions
      /\ program'[new].port = port /\ program'[new].runId = new /\ program'[new].asked = o
      /\ \A i \in Programs : i # new => program'[i] = program[i]
  <2>1. RunGives(kind, restart, new, o)
    BY RunParts
  <2> QED
    BY <1>0, <2>1 DEF RunGives
<1>2. m = o
  BY <1>0, MergedIs DEF DataInv
<1>3. ~o.noRemember /\ ~o.forgetPort
  BY <1>1 DEF Forgotten
<1>4. /\ y.appendOptions = o.appendOptions /\ y.data = o.data
      /\ y.port = port /\ (y.forgetPort = o.forgetPort)
  BY <1>0, <1>1, <1>2, <1>3, RememberedIs
<1>5. ShouldRemember(restart, m)
  BY <1>2, <1>3 DEF ShouldRemember
<1>6. savedOptions'[new].saved /\ savedOptions'[new].options = y
  BY <1>1, <1>5 DEF DataInv, TypeOK
<1>7. /\ new \in 1 .. new /\ calls \in Nat
      /\ \A i \in 1 .. new : i = new \/ i \in 1 .. calls
      /\ 1 .. calls \subseteq Programs /\ new \notin 1 .. calls
  BY <1>1, CallsGrow DEF DataInv, TypeOK
<1>8. ASSUME NEW i \in 1 .. new, program'[i].runId = new PROVE i = new
  <2>1. CASE i \in 1 .. calls
    <3>1. program[i].runId = new
      BY <1>1, <1>7, <1>8, <2>1
    <3>2. new \in 1 .. i
      BY <1>7, <2>1, <3>1 DEF DataInv, RunsKnown
    <3> QED
      BY <1>7, <2>1, <3>2
  <2> QED
    BY <1>7, <2>1
<1>9. ~y.forgetPort
  BY <1>3, <1>4
<1> QED
  BY <1>1, <1>4, <1>6, <1>7, <1>8, <1>9 DEF KeptFor

LEMMA RestartKept ==
  ASSUME DataInv, NEW kind \in {"mongod", "mongos"}, NEW restart \in BOOLEAN,
         NEW r \in RunIds, NEW o \in Options, NEW wait, Run(kind, restart, r, o, wait),
         restart = TRUE, r \in 1 .. calls, program[r].runId = r,
         o.port = 0, ~o.forgetPort, ~Forgotten(r)'
  PROVE  KeptFor(r)'
<1> DEFINE new == calls + 1
           m == Merged(restart, r, o)
           port == ChosenPort(m)
           y == Remembered(m, port)
<1>1. /\ calls < MaxCalls /\ m \in Options /\ port \in Ports /\ calls' = new
      /\ savedOptions' = IF ShouldRemember(restart, m)
                         THEN [savedOptions EXCEPT ![r] =
                                 [saved |-> TRUE, options |-> Remembered(m, port)]]
                         ELSE savedOptions
      /\ program'[new].port = port /\ program'[new].dir = <<kind, port>>
      /\ program'[new].runId = r /\ program'[new].asked = o
      /\ \A i \in Programs : i # new => program'[i] = program[i]
      /\ ran' = IF "clean" \in o.data THEN ran \ {r} ELSE ran
  <2>1. RunGives(kind, restart, r, o)
    BY RunParts
  <2> QED
    BY <2>1, Zenon DEF RunGives
<1>1a. /\ m = Merged(restart, r, o) /\ port = ChosenPort(m) /\ y = Remembered(m, port)
  OBVIOUS
<1> HIDE DEF m, port, y
<1>2. /\ calls < MaxCalls /\ m \in Options /\ port \in Ports /\ calls' = new
      /\ savedOptions' = IF ShouldRemember(restart, m)
                         THEN [savedOptions EXCEPT ![r] = [saved |-> TRUE, options |-> y]]
                         ELSE savedOptions
      /\ program'[new].port = port /\ program'[new].runId = r /\ program'[new].asked = o
      /\ \A i \in Programs : i # new => program'[i] = program[i]
  BY <1>1, <1>1a
<1>3. /\ new \in 1 .. new /\ calls \in Nat
      /\ \A i \in 1 .. new : i = new \/ (i \in 1 .. calls /\ i <= new)
      /\ 1 .. calls \subseteq Programs /\ new \notin 1 .. calls
      /\ 1 .. calls \subseteq 1 .. new
  BY <1>1a, <1>2, CallsGrow DEF DataInv, TypeOK
<1>4. /\ program'[r] = program[r] /\ ~Forgotten(r)
      /\ (CleanAppended(r) => CleanAppended(r)')
  BY <1>1a, <1>2, ExcusesStay DEF DataInv
<1>5. /\ KeptFor(r) /\ ~m.forgetPort /\ port = program[r].port
      /\ m.appendOptions =>
           \/ o.appendOptions
           \/ \E i \in 1 .. calls : program[i].runId = r /\ program[i].asked.appendOptions
      /\ "clean" \in m.data =>
           \/ "clean" \in o.data \/ "clean" \in program[r].asked.data \/ CleanAppended(r)
  BY <1>1a, <1>4, RestartMerges
<1>6. y \in Options /\ y.appendOptions = m.appendOptions /\ y.data = m.data
      /\ y.port = port /\ ~y.forgetPort
  BY <1>1a, <1>2, <1>5, RememberedIs, ZenonT(60)
<1>7. \A i \in 1 .. calls : program'[i] = program[i]
  BY <1>2, <1>3
<1>8. \A i \in 1 .. new : program'[i].runId = r => program'[i].port = program'[r].port
  BY <1>2, <1>3, <1>4, <1>5, <1>7 DEF KeptFor
<1>9. (\E i \in 1 .. calls : program[i].runId = r /\ program[i].asked.appendOptions)
      => \E i \in 1 .. new : program'[i].runId = r /\ program'[i].asked.appendOptions
  BY <1>3, <1>7
<1>10. CASE ~ShouldRemember(restart, m)
  BY <1>2, <1>4, <1>5, <1>8, <1>9, <1>10 DEF KeptFor
<1>11. CASE ShouldRemember(restart, m)
  <2>1. savedOptions'[r].saved /\ savedOptions'[r].options = y
    BY <1>2, <1>11 DEF DataInv, TypeOK
  <2>2. m.appendOptions
    BY <1>11 DEF ShouldRemember
  <2>3. \E i \in 1 .. new : program'[i].runId = r /\ program'[i].asked.appendOptions
    BY <1>2, <1>3, <1>5, <1>9, <2>2
  <2>4. "clean" \in o.data => CleanAppended(r)'
    BY <1>2, <1>3, <2>3 DEF CleanAppended
  <2>5. "clean" \in y.data => "clean" \in program'[r].asked.data \/ CleanAppended(r)'
    BY <1>4, <1>5, <1>6, <2>4
  <2>6. y.port = program'[r].port /\ ~y.forgetPort /\ calls' = new
    BY <1>2, <1>4, <1>5, <1>6
  <2> HIDE DEF y, m, port, new
  <2> QED
    BY <1>8, <2>1, <2>3, <2>5, <2>6 DEF KeptFor
<1> QED
  BY <1>10, <1>11

(* A start or restart that gives a run a program keeps DataInv, if what is *)
(* saved is right and the data that it resets is excused.                  *)
LEMMA RunData ==
  ASSUME DataInv, NEW kind \in {"mongod", "mongos"}, NEW restart \in BOOLEAN,
         NEW r \in RunIds, NEW o \in Options, NEW wait, Run(kind, restart, r, o, wait),
         \/ r = calls + 1
         \/ r \in 1 .. calls /\ program[r].runId = r /\ kind = program[r].dir[1],
         ~Forgotten(r)' => KeptFor(r)',
         r \in ran' /\ Resets(restart, Merged(restart, r, o)) => Excused(r)'
  PROVE  DataInv'
<1> DEFINE m == Merged(restart, r, o)
           port == ChosenPort(m)
           auto == m.port = 0
           dir == <<kind, port>>
           reset == kind = "mongod" /\ Resets(restart, m)
           waits == WaitForConnect(wait)
<1>1. /\ calls < MaxCalls /\ m \in Options /\ port \in Ports
      /\ Begun(port, dir, r, auto, o) \in Started
  BY RunStarts DEF DataInv
<1>2. /\ Spawn(calls + 1, port, dir, r, auto, o, reset, waits)
      /\ savedOptions' = IF ShouldRemember(restart, m)
                         THEN [savedOptions EXCEPT ![r] =
                                 [saved |-> TRUE, options |-> Remembered(m, port)]]
                         ELSE savedOptions
      /\ handle' \in {handle, [handle EXCEPT ![calls + 1] =
                                 [port |-> port, runId |-> r, to |-> 0]]}
  BY DEF Run, ChosenPort
<1>3. dir = <<dir[1], port>> /\ dir[1] = kind
  OBVIOUS
<1>4. reset => Resets(restart, m)
  OBVIOUS
<1>5. r \in ran' /\ reset => Excused(r)'
  BY <1>4
<1> HIDE DEF m, port, auto, dir, reset, waits
<1>6. TypeOK'
  BY RunTypes DEF DataInv
<1>7. RunsKnown'
  BY <1>1, <1>2, <1>3, SpawnRuns
<1>8. \A x \in 1 .. calls : x # r => savedOptions'[x] = savedOptions[x]
  <2>1. \A x \in 1 .. calls : x \in RunIds
    BY StartedIs DEF DataInv, RunIds
  <2> QED
    BY <1>2, <2>1 DEF DataInv, TypeOK
<1>9. SavedKept'
  BY <1>1, <1>2, <1>8, SpawnSaved
<1>10. r # 0
  BY DEF RunIds, Programs
<1>11. DataKept'
  BY <1>1, <1>2, <1>5, <1>7, <1>10, SpawnData
<1>12. HandlesKnown'
  <2>1. /\ calls' = calls + 1 /\ program'[calls + 1].runId = r
        /\ \A i \in Programs : i # calls + 1 => program'[i] = program[i]
    BY <1>1, <1>2, SpawnAdds DEF DataInv
  <2>2. /\ 1 .. calls \subseteq 1 .. calls + 1 /\ calls + 1 \in 1 .. calls + 1
        /\ calls + 1 \notin 1 .. calls
    BY <1>1, CallsGrow DEF DataInv, TypeOK
  <2> SUFFICES ASSUME NEW h \in Programs, handle'[h] # NoHandle
               PROVE  h \in 1 .. calls + 1 /\ handle'[h].runId = program'[h].runId
    BY <2>1 DEF HandlesKnown
  <2>3. CASE handle'[h] = handle[h] /\ h # calls + 1
    BY <2>1, <2>2, <2>3 DEF DataInv, HandlesKnown
  <2>4. CASE handle'[h] = handle[h] /\ h = calls + 1
    BY <2>2, <2>4 DEF DataInv, HandlesKnown
  <2>5. CASE handle'[h] # handle[h]
    <3>1. h = calls + 1 /\ handle'[h].runId = r
      BY <1>2, <2>5 DEF DataInv, TypeOK
    <3> QED
      BY <2>1, <2>2, <3>1
  <2> QED
    BY <2>3, <2>4, <2>5
<1> QED
  BY <1>6, <1>7, <1>9, <1>11, <1>12 DEF DataInv

LEMMA StartData ==
  ASSUME DataInv, NEW kind \in {"mongod", "mongos"}, NEW o \in Options, NEW wait,
         Start(kind, o, wait)
  PROVE  DataInv'
<1> DEFINE restart == FALSE
<1>1. PICK r : r = calls + 1
  OBVIOUS
<1>2. Run(kind, restart, r, o, wait)
  BY <1>1 DEF Start
<1>3. restart \in BOOLEAN /\ restart = FALSE
  OBVIOUS
<1> HIDE DEF restart
<1>4. r \in RunIds /\ r \notin 1 .. calls /\ r # 0
  BY <1>1, <1>2, CallsGrow DEF Run, DataInv, TypeOK, RunIds
<1>5. ~Forgotten(r)' => KeptFor(r)'
  BY <1>1, <1>2, <1>3, <1>4, NewRunKept
<1>6. r \notin ran'
  <2>1. r \notin ran
    BY <1>4 DEF DataInv, DataKept
  <2>2. ran' \subseteq ran
    BY <1>2 DEF Run, Spawn
  <2> QED
    BY <2>1, <2>2
<1> QED
  BY <1>1, <1>2, <1>3, <1>4, <1>5, <1>6, RunData


(* A restart is of the run of the connection, and of the run's kind.       *)
LEMMA RestartIs ==
  ASSUME DataInv, NEW h \in Programs, NEW o \in RestartOptions, NEW wait,
         Restart(h, o, wait), NEW restart \in BOOLEAN, restart = TRUE
  PROVE  \E kind \in {"mongod", "mongos"}, r \in RunIds :
            /\ Run(kind, restart, r, o, wait)
            /\ r \in 1 .. calls /\ program[r].runId = r /\ kind = program[r].dir[1]
<1>1. PICK kind, r : kind = program[h].dir[1] /\ r = handle[h].runId
  OBVIOUS
<1>2. Run(kind, restart, r, o, wait) /\ handle[h] # NoHandle /\ r # 0
  BY <1>1, Zenon DEF Restart
<1>3. h \in 1 .. calls /\ r = program[h].runId
  BY <1>1, <1>2 DEF DataInv, HandlesKnown
<1>4. /\ r \in 1 .. h /\ program[r].runId = r
      /\ program[h].dir = <<program[r].dir[1], program[h].port>>
      /\ program[r].dir[1] \in {"mongod", "mongos"}
  BY <1>2, <1>3 DEF DataInv, RunsKnown
<1>5. r \in 1 .. calls
  BY <1>3, <1>4, SizesAssumption DEF DataInv, TypeOK
<1>6. r \in RunIds /\ kind = program[r].dir[1]
  BY <1>1, <1>4, <1>5, StartedIs DEF DataInv, RunIds
<1> QED
  BY <1>2, <1>4, <1>5, <1>6

(* It clears the data of a run only if it is told so, or with an excuse.   *)
LEMMA RestartClears ==
  ASSUME DataInv, NEW kind \in {"mongod", "mongos"}, NEW restart \in BOOLEAN,
         NEW r \in RunIds, NEW o \in RestartOptions, NEW wait,
         Run(kind, restart, r, o, wait), restart = TRUE, r \in 1 .. calls,
         program[r].runId = r, Resets(restart, Merged(restart, r, o)), ~Excused(r)
  PROVE  "clean" \in o.data
<1>1. o \in Options /\ o.port = 0 /\ ~o.forgetPort
  BY OptionsAre
<1>2. "clean" \in Merged(restart, r, o).data
  BY DEF Resets
<1>3. ~Forgotten(r)
  BY DEF Excused
<1>4. "clean" \in o.data \/ "clean" \in program[r].asked.data \/ CleanAppended(r)
  BY <1>1, <1>2, <1>3, RestartMerges
<1> QED
  BY <1>4 DEF Excused

LEMMA RestartData ==
  ASSUME DataInv, NEW h \in Programs, NEW o \in RestartOptions, NEW wait, Restart(h, o, wait)
  PROVE  DataInv'
<1> DEFINE restart == TRUE
<1>1. restart \in BOOLEAN /\ restart = TRUE
  OBVIOUS
<1> HIDE DEF restart
<1>2. PICK kind \in {"mongod", "mongos"}, r \in RunIds :
        /\ Run(kind, restart, r, o, wait)
        /\ r \in 1 .. calls /\ program[r].runId = r /\ kind = program[r].dir[1]
  BY <1>1, RestartIs, ZenonT(60)
<1>3. o \in Options /\ o.port = 0 /\ ~o.forgetPort
  BY OptionsAre
<1>4. ~Forgotten(r)' => KeptFor(r)'
  BY <1>1, <1>2, <1>3, RestartKept
<1>5. /\ calls < MaxCalls /\ calls' = calls + 1
      /\ \A i \in Programs : i # calls + 1 => program'[i] = program[i]
      /\ "clean" \in o.data => ran' = ran \ {r}
  <2>1. RunGives(kind, restart, r, o)
    BY <1>1, <1>2, <1>3, RunParts
  <2> QED
    BY <2>1 DEF RunGives
<1>6. Excused(r) => Excused(r)'
  BY <1>2, <1>5, ExcusesStay DEF DataInv
<1>7. r \in ran' /\ Resets(restart, Merged(restart, r, o)) => Excused(r)'
  BY <1>1, <1>2, <1>5, <1>6, RestartClears
<1> QED
  BY <1>1, <1>2, <1>3, <1>4, <1>7, RunData


LEMMA StepData == DataInv /\ [Next]_vars => DataInv'
<1> SUFFICES ASSUME DataInv, [Next]_vars PROVE DataInv'
  OBVIOUS
<1>1. NewOptions \subseteq Options /\ None \in Options
  BY OptionsAre
<1>2. TypeOK
  BY DEF DataInv
<1>3. handle \in [Programs -> {NoHandle} \union
                   [port : AllPorts, runId : 0 .. MaxCalls, to : 0 .. MaxCalls]]
  BY <1>2 DEF TypeOK
<1>4. ASSUME NEW k \in Programs, Bind(k) PROVE DataInv'
  BY <1>4, BindData
<1>5. ASSUME NEW k \in Programs, FailToStart(k) PROVE DataInv'
  <2>1. /\ UNCHANGED <<savedOptions, usedPortMap, program, disk, ran, calls, handle>>
        /\ UNCHANGED <<listening, waiting, tool>> /\ pending' \subseteq pending
    BY <1>5 DEF FailToStart, Exits, runnerVars
  <2>2. TypeOK'
    BY <1>2, <1>3, <2>1, EndTypes
  <2> QED
    BY <2>1, <2>2, QuietData
<1>6. ASSUME NEW p \in AllPorts, Crash(p) PROVE DataInv'
  <2>1. /\ UNCHANGED <<savedOptions, usedPortMap, program, disk, ran, calls, handle>>
        /\ UNCHANGED <<pending, waiting, tool>> /\ listening' = [listening EXCEPT ![p] = 0]
    BY <1>6 DEF Crash, runnerVars
  <2>2. TypeOK'
    BY <1>2, <1>3, <2>1, EndTypes
  <2> QED
    BY <2>1, <2>2, QuietData
<1>7. ASSUME NEW p \in AllPorts, Killed(p), usedPortMap' \subseteq usedPortMap,
             UNCHANGED <<savedOptions, program, disk, ran, calls, handle, waiting>>,
             tool' \in {tool, 0}
      PROVE  DataInv'
  <2>1. pending' \subseteq pending /\ listening' = [listening EXCEPT ![p] = 0]
    BY <1>7 DEF Killed
  <2>2. TypeOK'
    BY <1>2, <1>3, <1>7, <2>1, EndTypes
  <2> QED
    BY <1>7, <2>2, QuietData
<1>8. ASSUME NEW p \in AllPorts, StopNative(p) PROVE DataInv'
  BY <1>7, <1>8 DEF StopNative, runnerVars
<1>9. ASSUME NEW p \in Ports, StopPort(p) PROVE DataInv'
  <2>1. p \in AllPorts /\ usedPortMap' \subseteq usedPortMap
    BY <1>9 DEF StopPort, Frees, AllPorts
  <2> QED
    BY <1>7, <1>9, <2>1 DEF StopPort
<1>10. CASE ToolTestStop
  <2>1. AllocatedPort \in AllPorts
    BY DEF AllPorts
  <2> QED
    BY <1>7, <1>10, <2>1 DEF ToolTestStop, runnerVars
<1>11. ASSUME NEW kind \in {"mongod", "mongos"}, NEW o \in Options, NEW wait,
              Start(kind, o, wait)
       PROVE  DataInv'
  BY <1>11, StartData
<1>12. ASSUME NEW h \in Programs, NEW o \in RestartOptions, NEW wait, Restart(h, o, wait)
       PROVE  DataInv'
  BY <1>12, RestartData
<1>13. CASE \/ \E named \in 0 .. NumPorts, restart \in BOOLEAN :
                  StartMongodTest(named, restart)
            \/ \E keep \in BOOLEAN : SyncCCStart(keep) \/ ReplTestStart(keep) \/ StartDB(keep)
  <2>1. PICK port, dir, auto, reset :
            /\ Beside(port, dir, auto, reset) /\ dir[1] \in {"test", "tool", "repl"}
            /\ Begun(port, dir, 0, auto, None) \in Started
            /\ usedPortMap' \subseteq Ports /\ tool' \in 0 .. calls + 1
    BY <1>2, <1>13, BesideIs
  <2> QED
    BY <2>1, BesideData
<1>14. CASE Connect
  <2>1. /\ TypeOK' /\ waiting \in 1 .. calls
        /\ \A h \in Programs : handle'[h] # handle[h] =>
              h = waiting /\ handle'[h].runId = program[h].runId
    BY <1>2, <1>14, ConnectTypes
  <2>2. UNCHANGED <<savedOptions, program, disk, ran, calls>>
    BY <1>14 DEF Connect, runnerVars, programVars
  <2> QED
    BY <2>1, <2>2, QuietData
<1>15. CASE Ended \/ GiveUp \/ UNCHANGED vars
  <2>1. /\ UNCHANGED <<savedOptions, usedPortMap, program, disk, ran, calls, handle>>
        /\ UNCHANGED <<pending, listening>> /\ waiting' \in {waiting, 0} /\ tool' \in {tool, 0}
    BY <1>15 DEF Ended, GiveUp, NotConnected, runnerVars, programVars, vars
  <2>2. TypeOK'
    BY <1>2, <1>3, <2>1, EndTypes
  <2> QED
    BY <2>1, <2>2, QuietData
<1> QED
  BY <1>1, <1>4, <1>5, <1>6, <1>8, <1>9, <1>10, <1>11, <1>12, <1>13, <1>14, <1>15 DEF Next

LEMMA DataInvariant == Spec => []DataInv
<1> QED
  BY InitData, StepData, PTL DEF Spec

(* Type correctness.                                                       *)
THEOREM TypeCorrect == Spec => []TypeOK
<1>1. DataInv => TypeOK
  BY DEF DataInv
<1> QED
  BY <1>1, DataInvariant, PTL

(* The call that restarts, without being told to start clean and with no   *)
(* excuse, starts in the directory of the run, and does not clear it.      *)
LEMMA RestartFinds ==
  ASSUME DataInv, NEW h \in Programs, NEW o \in RestartOptions, NEW wait, Restart(h, o, wait)
  PROVE  LET new == calls + 1  r == program'[new].runId IN
         r \in ran /\ "clean" \notin program'[new].asked.data =>
           r \in disk'[program'[new].dir] \/ Excused(r)
<1> DEFINE restart == TRUE
<1>1. restart \in BOOLEAN /\ restart = TRUE
  OBVIOUS
<1> HIDE DEF restart
<1>2. PICK kind \in {"mongod", "mongos"}, r \in RunIds :
        /\ Run(kind, restart, r, o, wait)
        /\ r \in 1 .. calls /\ program[r].runId = r /\ kind = program[r].dir[1]
  BY <1>1, RestartIs, ZenonT(60)
<1>3. o \in Options /\ o.port = 0 /\ ~o.forgetPort
  BY OptionsAre
<1> DEFINE m == Merged(restart, r, o)
           port == ChosenPort(m)
           auto == m.port = 0
           dir == <<kind, port>>
           reset == kind = "mongod" /\ Resets(restart, m)
           waits == WaitForConnect(wait)
           new == calls + 1
<1>4. program'[new].dir = dir /\ program'[new].runId = r /\ program'[new].asked = o
  <2>1. /\ calls < MaxCalls /\ m \in Options /\ port \in Ports
        /\ Begun(port, dir, r, auto, o) \in Started
    BY <1>1, <1>2, <1>3, RunStarts DEF DataInv
  <2>2. Spawn(new, port, dir, r, auto, o, reset, waits)
    BY <1>2 DEF Run, ChosenPort
  <2> HIDE DEF m, port, auto, dir, reset, waits
  <2> QED
    BY <2>1, <2>2, SpawnAdds DEF DataInv
<1>5. Spawn(new, port, dir, r, auto, o, reset, waits)
  BY <1>2 DEF Run, ChosenPort
<1> SUFFICES ASSUME r \in ran, "clean" \notin o.data
             PROVE  r \in disk'[dir] \/ Excused(r)
  BY <1>4
<1>6. CASE ~Excused(r)
  <2>1. r \in ran \ {0}
    BY <1>2, StartedIs DEF DataInv
  <2>2. r \in disk[program[r].dir]
    BY <1>6, <2>1 DEF DataInv, DataKept
  <2>3. port = program[r].port
    BY <1>1, <1>2, <1>3, <1>6, RestartMerges DEF Excused
  <2>4. program[r].dir = dir
    BY <1>2, <2>1, <2>3 DEF DataInv, RunsKnown
  <2>5. ~reset
    BY <1>1, <1>2, <1>6, RestartClears
  <2>6. disk' = disk
    BY <1>5, <2>5 DEF Spawn
  <2> QED
    BY <2>2, <2>4, <2>6
<1> QED
  BY <1>6


(* A new run has no data yet, and what is started beside MongoRunner is of *)
(* no run.                                                                 *)
Finds(k) ==
  LET r == program'[k].runId IN
  r \in ran \ {0} /\ "clean" \notin program'[k].asked.data =>
    r \in disk'[program'[k].dir] \/ Excused(r)

LEMMA StepFinds ==
  ASSUME DataInv, Next, calls' # calls, NEW k, k = calls + 1
  PROVE  Finds(k)
<1>1. ASSUME NEW kind \in {"mongod", "mongos"}, NEW o \in Options, NEW wait,
             Start(kind, o, wait)
      PROVE  Finds(k)
  <2> DEFINE restart == FALSE
  <2>1. Run(kind, restart, k, o, wait)
    BY <1>1 DEF Start
  <2>2. k \in RunIds /\ k \notin 1 .. calls /\ k # 0 /\ restart \in BOOLEAN
    BY <2>1, CallsGrow DEF Run, DataInv, TypeOK, RunIds
  <2> HIDE DEF restart
  <2>3. program'[k].runId = k
    <3>1. RunGives(kind, restart, k, o)
      BY <1>1, <2>1, <2>2, RunParts
    <3> QED
      BY <2>2, <3>1 DEF RunGives
  <2>4. k \notin ran
    BY <2>2 DEF DataInv, DataKept
  <2> QED
    BY <2>3, <2>4 DEF Finds
<1>2. ASSUME NEW h \in Programs, NEW o \in RestartOptions, NEW wait, Restart(h, o, wait)
      PROVE  Finds(k)
  <2>1. LET new == calls + 1  r == program'[new].runId IN
        r \in ran /\ "clean" \notin program'[new].asked.data =>
          r \in disk'[program'[new].dir] \/ Excused(r)
    BY <1>2, RestartFinds
  <2> QED
    BY <2>1 DEF Finds
<1>3. CASE \/ \E named \in 0 .. NumPorts, restart \in BOOLEAN :
                 StartMongodTest(named, restart)
           \/ \E keep \in BOOLEAN : SyncCCStart(keep) \/ ReplTestStart(keep) \/ StartDB(keep)
  <2>1. PICK port, dir, auto, reset :
            /\ Beside(port, dir, auto, reset) /\ dir[1] \in {"test", "tool", "repl"}
            /\ Begun(port, dir, 0, auto, None) \in Started
            /\ usedPortMap' \subseteq Ports /\ tool' \in 0 .. calls + 1
    BY <1>3, BesideIs DEF DataInv
  <2> DEFINE t == TRUE  zero == 0
  <2>2. /\ calls < MaxCalls /\ Spawn(calls + 1, port, dir, zero, auto, None, reset, t)
        /\ Begun(port, dir, zero, auto, None) \in Started
    BY <2>1 DEF Beside
  <2>3. zero = 0
    OBVIOUS
  <2> HIDE DEF t, zero
  <2>4. program'[calls + 1].runId = zero
    BY <2>2, SpawnAdds DEF DataInv
  <2> QED
    BY <2>3, <2>4 DEF Finds
<1>4. ASSUME NEW i \in Programs, Bind(i) \/ FailToStart(i) PROVE FALSE
  BY <1>4 DEF Bind, FailToStart
<1>5. ASSUME NEW p, Crash(p) \/ StopNative(p) \/ StopPort(p) PROVE FALSE
  BY <1>5 DEF Crash, StopNative, StopPort
<1>6. CASE ToolTestStop \/ Connect \/ Ended \/ GiveUp
  BY <1>6 DEF ToolTestStop, Connect, Ended, GiveUp, NotConnected
<1>7. NewOptions \subseteq Options /\ None \in Options
  BY OptionsAre
<1> QED
  BY <1>1, <1>2, <1>3, <1>4, <1>5, <1>6, <1>7 DEF Next

(* A program restarted without being told to start clean finds the data of *)
(* its run, unless the run was not to be remembered, was started clean or  *)
(* has appended that it is to start clean, or its port went to another run. *)
THEOREM RestartsFindData == Spec => RestartFindsData
<1>1. ASSUME DataInv, [Next]_vars, NEW k \in Programs, Starts(k),
             program'[k].runId \in ran \ {0}, "clean" \notin program'[k].asked.data
      PROVE  LET r == program'[k].runId IN
             \/ r \in disk'[program'[k].dir] \/ Forgotten(r) \/ PassedOn(r)
             \/ "clean" \in program[r].asked.data \/ CleanAppended(r)
  <2>1. k = calls + 1 /\ calls' # calls
    BY <1>1, SizesAssumption DEF Starts, DataInv, TypeOK, Programs
  <2>2. Next
    BY <1>1, <2>1 DEF vars
  <2>3. Finds(k)
    BY <1>1, <2>1, <2>2, StepFinds
  <2> QED
    BY <1>1, <2>3 DEF Finds, Excused
<1>2. DataInv /\ [Next]_vars =>
        [\A k \in Programs :
           LET r == program[k]'.runId IN
           Starts(k) /\ r \in ran \ {0} /\ "clean" \notin program[k]'.asked.data
             /\ program[k]'.dir[1] = "mongod"
           => \/ r \in disk'[program[k]'.dir] \/ Forgotten(r) \/ PassedOn(r)
              \/ "clean" \in program[r].asked.data \/ CleanAppended(r)]_vars
  BY <1>1
<1> QED
  BY <1>2, DataInvariant, PTL DEF Spec, RestartFindsData

-----------------------------------------------------------------------------
(* A port that is chosen was not entered before, and while the call waits  *)
(* for its program nothing else is started.                                *)

\* The call that waits on a port that was chosen waits there alone.
AloneThere ==
  waiting # 0 /\ program[waiting].auto =>
    \A j \in 1 .. calls :
      Alive(j) /\ program[j].port = program[waiting].port /\ j # waiting => ~Entered(j)

\* A connection is one of a call made, to a program started.
Connected ==
  /\ handle = [k \in Programs |-> handle[k]] /\ waiting \in 0 .. calls
  /\ \A k \in Programs :
       handle[k] # NoHandle => k \in 1 .. calls /\ handle[k].to \in 0 .. calls

OwnInv ==
  /\ Connected /\ AloneThere /\ OwnProgramAnswers

\* What a call that starts program k does.
Launched(k) ==
  /\ program'[k].auto => program'[k].port \in Ports \ usedPortMap
  /\ \A j \in Programs \ {k} : program'[j] = program[j]
  /\ calls' = k /\ pending' = pending \union {k} /\ listening' = listening
  /\ waiting' \in {0, k}
  /\ handle' = handle \/ \E h : h.to = 0 /\ handle' = [handle EXCEPT ![k] = h]

LEMMA SpawnBegins ==
  ASSUME PortInv, calls < MaxCalls,
         NEW port, NEW dir, NEW runId, NEW auto, NEW asked, NEW reset, NEW waits,
         Spawn(calls + 1, port, dir, runId, auto, asked, reset, waits),
         auto => port \in Ports \ usedPortMap,
         handle' = handle \/ \E h : h.to = 0 /\ handle' = [handle EXCEPT ![calls + 1] = h]
  PROVE  Launched(calls + 1)
<1>1. calls + 1 \in Programs
  BY SizesAssumption DEF PortInv, Counted, Programs
<1>2. program' = [program EXCEPT ![calls + 1] =
                    [started |-> TRUE, port |-> port, dir |-> dir,
                     runId |-> runId, auto |-> auto, asked |-> asked]]
  BY DEF Spawn
<1>3. /\ program'[calls + 1].port = port /\ program'[calls + 1].auto = auto
      /\ \A j \in Programs \ {calls + 1} : program'[j] = program[j]
  BY <1>1, <1>2 DEF PortInv, Counted
<1>4. /\ calls' = calls + 1 /\ pending' = pending \union {calls + 1} /\ listening' = listening
      /\ waiting' \in {0, calls + 1}
  BY DEF Spawn
<1> QED
  BY <1>3, <1>4, Zenon DEF Launched

LEMMA RunBegins ==
  ASSUME PortInv, NEW kind, NEW restart, NEW r, NEW o, NEW wait,
         Run(kind, restart, r, o, wait)
  PROVE  Launched(calls + 1)
<1> DEFINE m == Merged(restart, r, o)
           auto == m.port = 0
           port == IF auto THEN NextOpenPort ELSE m.port
           reset == kind = "mongod" /\ Resets(restart, m)
           h == [port |-> port, runId |-> r, to |-> 0]
<1>1. /\ calls < MaxCalls
      /\ Spawn(calls + 1, port, <<kind, port>>, r, auto, o, reset, WaitForConnect(wait))
  BY DEF Run
<1>2. auto => port \in Ports \ usedPortMap
  BY OpenPort DEF Run
<1>3. h.to = 0 /\ (handle' = handle \/ handle' = [handle EXCEPT ![calls + 1] = h])
  BY DEF Run
<1> HIDE DEF m, auto, port, reset, h
<1>4. handle' = handle \/ \E g : g.to = 0 /\ handle' = [handle EXCEPT ![calls + 1] = g]
  BY <1>3
<1> QED
  BY <1>1, <1>2, <1>4, SpawnBegins

LEMMA BesideBegins ==
  ASSUME PortInv, NEW port, NEW dir, NEW auto, NEW reset, Beside(port, dir, auto, reset),
         auto => port \in Ports \ usedPortMap
  PROVE  Launched(calls + 1)
<1> DEFINE t == TRUE
<1>1. /\ calls < MaxCalls /\ handle' = handle
      /\ Spawn(calls + 1, port, dir, 0, auto, None, reset, t)
  BY DEF Beside
<1> HIDE DEF t
<1> QED
  BY <1>1, SpawnBegins

LEMMA StepBegins ==
  ASSUME PortInv, Next, calls' # calls
  PROVE  Launched(calls + 1)
<1>1. ASSUME NEW kind, NEW o, NEW wait, Start(kind, o, wait) PROVE Launched(calls + 1)
  <2> DEFINE f == FALSE
  <2>1. Run(kind, f, calls + 1, o, wait)
    BY <1>1 DEF Start
  <2> HIDE DEF f
  <2> QED
    BY <2>1, RunBegins
<1>2. ASSUME NEW h \in Programs, NEW o, NEW wait, Restart(h, o, wait)
      PROVE  Launched(calls + 1)
  <2> DEFINE t == TRUE
  <2>1. Run(program[h].dir[1], t, handle[h].runId, o, wait)
    BY <1>2 DEF Restart
  <2> HIDE DEF t
  <2> QED
    BY <2>1, RunBegins
<1>3. ASSUME NEW named, NEW restart, StartMongodTest(named, restart)
      PROVE  Launched(calls + 1)
  <2> DEFINE port == IF named = 0 THEN NextOpenPort ELSE named
             auto == named = 0
             reset == ~restart
  <2>1. Beside(port, <<"test", port>>, auto, reset)
    BY <1>3 DEF StartMongodTest
  <2>2. auto => port \in Ports \ usedPortMap
    BY <1>3, OpenPort DEF StartMongodTest
  <2> HIDE DEF port, auto, reset
  <2> QED
    BY <2>1, <2>2, BesideBegins
<1>4. ASSUME NEW keep, SyncCCStart(keep) \/ ReplTestStart(keep) \/ StartDB(keep)
      PROVE  Launched(calls + 1)
  <2> DEFINE f == FALSE
  <2>1. PICK port, dir, reset : Beside(port, dir, f, reset)
    BY <1>4 DEF SyncCCStart, ReplTestStart, StartDB
  <2>2. ~f
    OBVIOUS
  <2> HIDE DEF f
  <2> QED
    BY <2>1, <2>2, BesideBegins
<1>5. ASSUME NEW k \in Programs, Bind(k) \/ FailToStart(k) PROVE FALSE
  BY <1>5 DEF Bind, FailToStart
<1>6. ASSUME NEW p, Crash(p) \/ StopNative(p) \/ StopPort(p) PROVE FALSE
  BY <1>6 DEF Crash, StopNative, StopPort
<1>7. CASE ToolTestStop \/ Connect \/ Ended \/ GiveUp
  BY <1>7 DEF ToolTestStop, Connect, Ended, GiveUp, NotConnected
<1> QED
  BY <1>1, <1>2, <1>3, <1>4, <1>5, <1>6, <1>7 DEF Next

(* A start keeps the invariant: a chosen port was not entered, so that no  *)
(* living program that MongoRunner enters has it.                          *)
LEMMA BegunOwn ==
  ASSUME PortInv, PortInv', OwnInv, Launched(calls + 1)
  PROVE  OwnInv'
<1> DEFINE new == calls + 1
<1>1. /\ calls \in Nat /\ MaxCalls \in Nat /\ calls' = new /\ new \in Programs
      /\ 1 .. calls \subseteq Programs /\ new \notin 1 .. calls
      /\ \A k \in 1 .. calls' : k = new \/ k \in 1 .. calls
  <2>1. calls \in Nat /\ MaxCalls \in Nat /\ calls' = new /\ calls' \in 0 .. MaxCalls
    BY SizesAssumption DEF Launched, PortInv, Counted
  <2> QED
    BY <2>1 DEF Programs
<1>2. \A k \in 1 .. calls : program'[k] = program[k] /\ k # new
  BY <1>1 DEF Launched
<1>3. PICK h : h.to = 0 /\ handle' \in {handle, [handle EXCEPT ![new] = h]}
  <2> DEFINE none == [to |-> 0]
  <2>1. none.to = 0
    OBVIOUS
  <2> HIDE DEF none
  <2> QED
    BY <2>1 DEF Launched
<1>4. /\ handle' = [k \in Programs |-> handle'[k]]
      /\ \A k \in Programs : handle'[k] = handle[k] \/ (k = new /\ handle'[k].to = 0)
  BY <1>1, <1>3 DEF OwnInv, Connected
<1>5. Connected'
  <2>1. waiting' \in 0 .. calls'
    BY <1>1 DEF Launched
  <2> SUFFICES ASSUME NEW k \in Programs, handle'[k] # NoHandle
               PROVE  k \in 1 .. calls' /\ handle'[k].to \in 0 .. calls'
    BY <1>4, <2>1 DEF Connected
  <2>2. CASE handle'[k] = handle[k]
    BY <1>1, <2>2 DEF OwnInv, Connected
  <2>3. CASE k = new /\ handle'[k].to = 0
    BY <1>1, <2>3
  <2> QED
    BY <1>4, <2>2, <2>3
<1>6. AloneThere'
  <2> SUFFICES ASSUME waiting' # 0, program'[waiting'].auto,
                      NEW j \in 1 .. calls', Alive(j)',
                      program'[j].port = program'[waiting'].port, j # waiting'
               PROVE  ~Entered(j)'
    BY DEF AloneThere
  <2>1. waiting' = new /\ program'[new].port \notin usedPortMap
    BY DEF Launched
  <2>2. j \in 1 .. calls /\ j # new /\ program'[j] = program[j]
    BY <1>1, <1>2, <2>1
  <2>3. Alive(j)
    BY <2>2 DEF Launched, Alive
  <2>4. program[j].port \notin usedPortMap
    BY <2>1, <2>2
  <2> QED
    BY <2>2, <2>3, <2>4 DEF PortInv, StoppedMeansStopped, IsStopped, Entered
<1>7. OwnProgramAnswers'
  <2> SUFFICES ASSUME NEW k \in 1 .. calls', handle'[k] # NoHandle, program'[k].auto,
                      handle'[k].to \notin {0, k}
               PROVE  ~Entered(handle[k].to)'
    <3>1. \A k \in 1 .. calls' : k \in Programs
      BY <1>1
    <3>2. \A k \in Programs : handle'[k].to = 0 \/ handle'[k] = handle[k]
      BY <1>4
    <3> QED
      BY <3>1, <3>2 DEF OwnProgramAnswers
  <2>1. k \in Programs /\ handle'[k] = handle[k]
    BY <1>1, <1>4
  <2>2. k \in 1 .. calls /\ handle[k].to \in 1 .. calls
    <3>1. k \in 1 .. calls /\ handle[k].to \in 0 .. calls
      BY <2>1 DEF OwnInv, Connected
    <3> QED
      BY <1>1, <2>1, <3>1
  <2>3. program'[k] = program[k] /\ program'[handle[k].to] = program[handle[k].to]
    BY <1>2, <2>2
  <2> QED
    BY <2>1, <2>2, <2>3 DEF OwnInv, OwnProgramAnswers, Entered
<1> QED
  BY <1>5, <1>6, <1>7 DEF OwnInv

(* What lives after a step that starts nothing lived before.               *)
LEMMA LivedBefore ==
  ASSUME PortInv, [Next]_vars, calls' = calls, NEW k \in 1 .. calls, Alive(k)'
  PROVE  Alive(k)
<1>1. k # 0 /\ listening \in [AllPorts -> 0 .. calls] /\ calls \in Nat
  BY SizesAssumption DEF PortInv, Counted
<1>2. CASE pending' \subseteq pending
           /\ \A p \in AllPorts : listening'[p] # 0 => listening'[p] = listening[p]
  BY <1>1, <1>2 DEF Alive
<1>3. ASSUME NEW j \in Programs, Bind(j) PROVE Alive(k)
  <2>1. CASE Exits(j)
    BY <1>2, <2>1 DEF Exits
  <2>2. CASE ~Exits(j)
    <3>1. /\ j \in pending /\ pending' = pending \ {j}
          /\ listening' = [listening EXCEPT ![program[j].port] = j]
      BY <1>3, <2>2 DEF Bind
    <3> QED
      BY <1>1, <3>1 DEF Alive
  <2> QED
    BY <2>1, <2>2
<1>4. ASSUME NEW p, Killed(p) PROVE Alive(k)
  BY <1>1, <1>2, <1>4 DEF Killed
<1>5. ASSUME NEW j \in Programs, FailToStart(j) PROVE Alive(k)
  BY <1>2, <1>5 DEF FailToStart, Exits
<1>6. ASSUME NEW p \in AllPorts, Crash(p) PROVE Alive(k)
  BY <1>1, <1>2, <1>6 DEF Crash
<1>7. ASSUME NEW p, StopPort(p) \/ StopNative(p) \/ ToolTestStop PROVE Alive(k)
  BY <1>4, <1>7 DEF StopPort, StopNative, ToolTestStop
<1>8. CASE Connect \/ Ended \/ GiveUp \/ UNCHANGED vars
  <2>1. UNCHANGED <<pending, listening>>
    BY <1>8 DEF Connect, Ended, GiveUp, NotConnected, programVars, vars
  <2> QED
    BY <1>2, <2>1
<1>9. ASSUME NEW kind, NEW o, NEW wait, NEW restart, NEW r, Run(kind, restart, r, o, wait)
      PROVE  FALSE
  BY <1>1, <1>9 DEF Run, Spawn
<1>10. ASSUME NEW port, NEW dir, NEW auto, NEW reset, Beside(port, dir, auto, reset)
       PROVE  FALSE
  BY <1>1, <1>10 DEF Beside, Spawn
<1>11. ASSUME NEW h, NEW kind, NEW o, NEW wait, Start(kind, o, wait) \/ Restart(h, o, wait)
       PROVE  FALSE
  <2> DEFINE t == TRUE
             f == FALSE
  <2>1. Run(kind, f, calls + 1, o, wait) \/ Run(program[h].dir[1], t, handle[h].runId, o, wait)
    BY <1>11 DEF Start, Restart
  <2> HIDE DEF t, f
  <2> QED
    BY <1>9, <2>1
<1>12. ASSUME NEW named, NEW keep,
              \/ StartMongodTest(named, keep) \/ SyncCCStart(keep)
              \/ ReplTestStart(keep) \/ StartDB(keep)
       PROVE  FALSE
  <2>1. PICK port, dir, auto, reset : Beside(port, dir, auto, reset)
    BY <1>12 DEF StartMongodTest, SyncCCStart, ReplTestStart, StartDB
  <2> QED
    BY <1>10, <2>1
<1> QED
  BY <1>3, <1>5, <1>6, <1>7, <1>8, <1>11, <1>12 DEF Next

(* While no program starts, no connection is made but to who answers.      *)
LEMMA QuietOwn ==
  ASSUME PortInv, OwnInv, [Next]_vars, UNCHANGED <<calls, program, handle>>,
         waiting' \in {0, waiting}
  PROVE  OwnInv'
<1>1. Connected'
  BY SizesAssumption DEF PortInv, Counted, OwnInv, Connected
<1>2. AloneThere'
  BY LivedBefore DEF OwnInv, AloneThere, Entered
<1>3. OwnProgramAnswers'
  BY DEF OwnInv, OwnProgramAnswers, Entered
<1> QED
  BY <1>1, <1>2, <1>3 DEF OwnInv

LEMMA ConnectOwn ==
  ASSUME PortInv, TypeOK, OwnInv, Connect
  PROVE  OwnInv'
<1> DEFINE p == program[waiting].port
           h == [port |-> p, runId |-> program[waiting].runId, to |-> listening[p]]
<1>1. /\ waiting # 0 /\ listening[p] # 0 /\ waiting' = 0
      /\ handle' = [handle EXCEPT ![waiting] = h]
      /\ UNCHANGED <<calls, program, pending, listening>>
  BY DEF Connect, Idle, programVars
<1>2. waiting \in 1 .. calls /\ waiting \in Programs /\ 0 \in 0 .. calls
  BY <1>1, SizesAssumption DEF PortInv, Counted, OwnInv, Connected, Programs
<1>3. /\ handle' = [k \in Programs |-> handle'[k]]
      /\ \A k \in Programs : handle'[k] = IF k = waiting THEN h ELSE handle[k]
  BY <1>1, <1>2 DEF OwnInv, Connected
<1>4. h.to = listening[p]
  OBVIOUS
<1>5. p \in AllPorts
  BY <1>2, StartedIs DEF Started
<1>6. /\ listening[p] \in 1 .. calls /\ program[listening[p]].port = p
      /\ Alive(listening[p])
  <2>1. listening[p] \in 0 .. calls
    BY <1>5 DEF PortInv, Counted
  <2> QED
    BY <1>1, <1>5, <2>1 DEF PortInv, ListenersAtHome, Alive
<1> HIDE DEF p, h
<1>7. Connected'
  BY <1>1, <1>2, <1>3, <1>4, <1>6 DEF OwnInv, Connected
<1>8. AloneThere'
  BY <1>1 DEF AloneThere
<1>9. program[waiting].auto /\ listening[p] # waiting => ~Entered(listening[p])
  BY <1>1, <1>6 DEF OwnInv, AloneThere, p
<1>10. OwnProgramAnswers'
  <2> SUFFICES ASSUME NEW k \in 1 .. calls, handle'[k] # NoHandle, program[k].auto,
                      handle'[k].to \notin {0, k}
               PROVE  ~Entered(handle'[k].to)
    BY <1>1 DEF OwnProgramAnswers, Entered
  <2>1. k \in Programs
    BY SizesAssumption DEF PortInv, Counted, Programs
  <2>2. CASE k = waiting
    BY <1>3, <1>4, <1>9, <2>1, <2>2
  <2>3. CASE k # waiting
    BY <1>3, <2>1, <2>3 DEF OwnInv, OwnProgramAnswers
  <2> QED
    BY <2>2, <2>3
<1> QED
  BY <1>7, <1>8, <1>10 DEF OwnInv

LEMMA StepOwn ==
  ASSUME PortInv, PortInv', TypeOK, OwnInv, [Next]_vars
  PROVE  OwnInv'
<1>1. CASE calls' # calls
  <2>1. Next
    BY <1>1 DEF vars
  <2> QED
    BY <1>1, <2>1, StepBegins, BegunOwn
<1>2. CASE Connect
  BY <1>2, ConnectOwn
<1>3. ASSUME UNCHANGED <<calls, program, handle>>, waiting' \in {0, waiting}
      PROVE  OwnInv'
  BY <1>3, QuietOwn
<1>4. CASE Ended \/ GiveUp \/ ToolTestStop \/ UNCHANGED vars
  BY <1>3, <1>4 DEF Ended, GiveUp, NotConnected, ToolTestStop, programVars, vars
<1>5. ASSUME NEW k, NEW p, \/ Bind(k) \/ FailToStart(k)
                           \/ Crash(p) \/ StopNative(p) \/ StopPort(p)
      PROVE  OwnInv'
  BY <1>3, <1>5 DEF Bind, FailToStart, Crash, StopNative, StopPort
<1>6. ASSUME Next PROVE \/ calls' # calls \/ Connect \/ Ended \/ GiveUp \/ ToolTestStop
                        \/ \E k, p : \/ Bind(k) \/ FailToStart(k)
                                      \/ Crash(p) \/ StopNative(p) \/ StopPort(p)
  <2>1. calls + 1 # calls
    BY SizesAssumption DEF PortInv, Counted
  <2>2. ASSUME NEW kind, NEW restart, NEW r, NEW o, NEW wait, Run(kind, restart, r, o, wait)
        PROVE  calls' = calls + 1
    BY <2>2 DEF Run, Spawn
  <2>3. ASSUME NEW port, NEW dir, NEW auto, NEW reset, Beside(port, dir, auto, reset)
        PROVE  calls' = calls + 1
    BY <2>3 DEF Beside, Spawn
  <2>4. ASSUME NEW h, NEW kind, NEW o, NEW wait, Start(kind, o, wait) \/ Restart(h, o, wait)
        PROVE  calls' = calls + 1
    <3> DEFINE t == TRUE
               f == FALSE
    <3>1. Run(kind, f, calls + 1, o, wait) \/ Run(program[h].dir[1], t, handle[h].runId, o, wait)
      BY <2>4 DEF Start, Restart
    <3> HIDE DEF t, f
    <3> QED
      BY <2>2, <3>1
  <2>5. ASSUME NEW named, NEW keep,
               \/ StartMongodTest(named, keep) \/ SyncCCStart(keep)
               \/ ReplTestStart(keep) \/ StartDB(keep)
        PROVE  calls' = calls + 1
    <3>1. PICK port, dir, auto, reset : Beside(port, dir, auto, reset)
      BY <2>5 DEF StartMongodTest, SyncCCStart, ReplTestStart, StartDB
    <3> QED
      BY <2>3, <3>1
  <2> QED
    BY <1>6, <2>1, <2>4, <2>5 DEF Next
<1> QED
  BY <1>1, <1>2, <1>4, <1>5, <1>6

(* A call that leaves the port to MongoRunner is connected to the program  *)
(* it started, or to one startMongodTest started on a port it was given.   *)
THEOREM CallsGetTheirOwn == Spec => []OwnProgramAnswers
<1>1. Init => OwnInv
  BY SizesAssumption DEF Init, OwnInv, Connected, AloneThere, OwnProgramAnswers
<1>2. PortInv /\ PortInv' /\ TypeOK /\ OwnInv /\ [Next]_vars => OwnInv'
  BY StepOwn
<1>3. OwnInv => OwnProgramAnswers
  BY DEF OwnInv
<1> QED
  BY <1>1, <1>2, <1>3, Invariant, TypeCorrect, PTL DEF Spec

=============================================================================
