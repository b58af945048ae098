------------------------- MODULE ShellWrites_proofs -------------------------
(***************************************************************************)
(* Proofs about ShellWrites, for any scopes, flags and number of failed    *)
(* writes.                                                                 *)
(***************************************************************************)
EXTENDS ShellWrites, SequenceTheorems, TLAPS

-----------------------------------------------------------------------------
(* The inductive invariant.                                                *)

\* The error a connection names, and the one a scope remembers, is of a write that
\* failed, on that connection and of that scope.
Named ==
  /\ \A c \in Clients :
       lastError[c] # None => lastError[c] \in DOMAIN failed /\ failed[lastError[c]].on = c
  /\ \A s \in Scopes :
       latest[s] # None => latest[s] \in DOMAIN failed /\ failed[latest[s]].by = s

\* A scope writes and is asked for on a client of its own or the host's.
OwnOrHost ==
  /\ \A s \in Scopes : client[s] \in {s, Host, None} /\ lastCalled[s] \in {s, Host, None}
  /\ \A w \in DOMAIN failed : failed[w].on \in {failed[w].by, Host}

\* A client does not wait for its writes when a scope that made or wrapped it, or
\* the host for its own, says so.
UnackBySomeone ==
  /\ \A s \in Scopes : concern[s] = "unack" => flags[s].shellConcern
  /\ concern[Host] = "unack" =>
       given = "unack" \/ \E t \in wrapped : flags[t].shellConcern

Inv ==
  /\ TypeOK /\ Named /\ OwnOrHost /\ UnackBySomeone
  /\ HostFindsError /\ PromptOwesAnswer
  /\ OptionsLeakOnlyOnError /\ SuccessMeansStored

LEMMA InitInv == Init => Inv
<1> SUFFICES ASSUME Init PROVE Inv
  OBVIOUS
<1> USE BoundsAssumption, FlagsAssumption, NoneAssumption DEF Init
<1>1. TypeOK
  BY DEF TypeOK, Clients, Concerns
<1>2. Named /\ OwnOrHost /\ UnackBySomeone
  BY DEF Named, OwnOrHost, UnackBySomeone, Clients
<1>3. HostFindsError /\ PromptOwesAnswer /\ OptionsLeakOnlyOnError
  BY DEF HostFindsError, PromptOwesAnswer, OptionsLeakOnlyOnError
<1>4. SuccessMeansStored
  BY DEF SuccessMeansStored
<1> QED
  BY <1>1, <1>2, <1>3, <1>4 DEF Inv

-----------------------------------------------------------------------------
(* What a write comes to, whichever call it is in: the driver's exception  *)
(* (news), the questions of a verbose shell or of the call, and what they  *)
(* bring, leave the same marks.                                            *)

News(s, kind) == kind # "good" /\ concern[client[s]] = "ack"

Latest(s) == {latest'[s]} \ {None}

Written(s, kind) ==
  /\ client[s] # None
  /\ Sent(s, client[s], kind)
  /\ SaveLastCalledDB(s, client[s], News(s, kind))
  /\ options' \in [Clients -> InsertFlags]
  /\ \A c \in Clients : options'[c] # options[c] => c = client[s] /\ News(s, kind)
  /\ callLastError' \in {callLastError, [callLastError EXCEPT ![s] = TRUE]}
  /\ told \subseteq told' /\ told' \subseteq told \union Latest(s)
  /\ missed \subseteq missed' /\ missed' \subseteq missed \union Latest(s)
  /\ claimed' \subseteq claimed \union (Latest(s) \cap missed')
  /\ News(s, kind) => Latest(s) \subseteq told'
  /\ \/ callLastError'[s]
     \/ Latest(s) \subseteq told'
     \/ Latest(s) \subseteq missed'
  /\ UNCHANGED <<flags, client, concern, given, wrapped>>

(* The server names the write that failed last, which is the latest of the *)
(* scope; or none.                                                         *)
LEMMA SentNames ==
  ASSUME TypeOK, NEW s \in Scopes, NEW kind, client[s] # None,
         Sent(s, client[s], kind)
  PROVE  /\ lastError'[client[s]] = latest'[s]
         /\ kind = "good" => latest'[s] = None
         /\ kind # "good" => latest'[s] # None
<1>1. client[s] \in Clients
  BY DEF TypeOK
<1>2. CASE kind = "good"
  BY <1>1, <1>2 DEF Sent, TypeOK
<1>3. CASE kind # "good"
  <2>1. Len(failed') \in Nat
    BY <1>3 DEF Sent, TypeOK
  <2> QED
    BY <1>1, <1>3, <2>1, NoneAssumption DEF Sent, TypeOK
<1> QED
  BY <1>2, <1>3

(* What the scope hears of its write is that write.                        *)
LEMMA HearsLatest ==
  ASSUME TypeOK, NEW s \in Scopes, NEW kind, client[s] # None, Sent(s, client[s], kind)
  PROVE  Hears(s, latest'[s]) = Latest(s)
<1>1. CASE kind = "good"
  <2>1. latest'[s] = None /\ failed' = failed
    BY <1>1, SentNames DEF Sent
  <2>2. None \notin DOMAIN failed
    BY NoneAssumption, LenProperties DEF TypeOK
  <2> QED
    BY <2>1, <2>2 DEF Hears, Latest
<1>2. CASE kind # "good"
  <2> DEFINE new == [by |-> s, on |-> client[s]]
  <2>1. failed' = Append(failed, new) /\ latest'[s] = Len(failed')
    BY <1>2 DEF Sent, TypeOK
  <2>2. new \in [by : Scopes, on : Clients] /\ new.by = s
    BY DEF TypeOK
  <2> HIDE DEF new
  <2>3. /\ Len(failed') = Len(failed) + 1 /\ failed'[Len(failed) + 1] = new
        /\ failed' \in Seq([by : Scopes, on : Clients])
    BY <2>1, <2>2, AppendProperties DEF TypeOK
  <2>4. latest'[s] \in DOMAIN failed' /\ failed'[latest'[s]] = new
    BY <2>1, <2>3, LenProperties DEF TypeOK
  <2>5. latest'[s] # None
    BY <1>2, SentNames
  <2> QED
    BY <2>2, <2>4, <2>5 DEF Hears, Latest
<1> QED
  BY <1>1, <1>2

LEMMA WriteComesTo ==
  ASSUME TypeOK, NEW s \in Scopes, NEW kind, NEW new \in InsertFlags \union {None},
         NEW verbose \in BOOLEAN, NEW answered \in BOOLEAN,
         Write(s, kind, new, verbose, answered)
  PROVE  Written(s, kind)
<1> DEFINE c == client[s]
<1>1. /\ c # None /\ Sent(s, c, kind) /\ SaveLastCalledDB(s, c, News(s, kind))
      /\ options' = [options EXCEPT ![c] =
                       IF new = None THEN @ ELSE RestoreOptions(@, new, News(s, kind))]
      /\ WriteEnds(s, c, News(s, kind), News(s, kind) /\ ~Swallowed(s, kind), verbose, answered)
      /\ UNCHANGED <<flags, client, concern, given, claimed, wrapped>>
  BY DEF Write, News
<1>2. lastError'[c] = latest'[s] /\ (News(s, kind) => latest'[s] # None)
  BY <1>1, SentNames DEF News
<1>3. callLastError[s] \in BOOLEAN /\ [callLastError EXCEPT ![s] = TRUE][s]
  BY DEF TypeOK
<1>4. Hears(s, latest'[s]) = Latest(s)
  BY <1>1, HearsLatest
<1>5. /\ options' \in [Clients -> InsertFlags]
      /\ \A d \in Clients : options'[d] # options[d] => d = c /\ News(s, kind)
  BY <1>1 DEF TypeOK, RestoreOptions
<1>6. CASE /\ (News(s, kind) /\ ~Swallowed(s, kind)) \/ ~verbose
           /\ told' = told \union (IF News(s, kind) THEN Hears(s, latest'[s]) ELSE {})
           /\ IF News(s, kind) /\ ~Swallowed(s, kind) THEN UNCHANGED callLastError
              ELSE LeaveToPrompt(s)
           /\ UNCHANGED missed
  <2>1. told \subseteq told' /\ told' \subseteq told \union Latest(s)
    BY <1>4, <1>6
  <2>2. News(s, kind) => Latest(s) \subseteq told'
    BY <1>4, <1>6
  <2>3. callLastError'[s] \/ Latest(s) \subseteq told'
    BY <1>3, <1>6, <2>2 DEF LeaveToPrompt
  <2> QED
    BY <1>1, <1>5, <1>6, <2>1, <2>2, <2>3 DEF Written, LeaveToPrompt
<1>7. CASE /\ ~(News(s, kind) /\ ~Swallowed(s, kind)) /\ verbose
           /\ Asked(s, lastError'[c], answered \/ News(s, kind))
           /\ UNCHANGED callLastError
  <2>1. CASE answered \/ News(s, kind)
    <3>1. told' = told \union Latest(s)
      BY <1>2, <1>4, <1>7, <2>1 DEF Asked
    <3>2. missed' = missed
      BY <1>2, <1>7, <2>1 DEF Asked
    <3> QED
      BY <1>1, <1>5, <1>7, <3>1, <3>2 DEF Written
  <2>2. CASE ~(answered \/ News(s, kind))
    <3>1. told' = told
      BY <1>7, <2>2 DEF Asked
    <3>2. missed' = missed \union Latest(s)
      BY <1>7, <2>2 DEF Asked, Latest
    <3> QED
      BY <1>1, <1>5, <1>7, <2>2, <3>1, <3>2 DEF Written
  <2> QED
    BY <2>1, <2>2
<1> QED
  BY <1>1, <1>6, <1>7 DEF WriteEnds

(* A call that asks afterwards reports success only when there is nothing  *)
(* to report, or it has asked in vain.                                     *)
LEMMA CallComesTo ==
  ASSUME TypeOK, NEW s \in Scopes, NEW kind \in Kinds, NEW goesOn \in BOOLEAN,
         NEW gle,
         \/ Confirm(s, kind, goesOn, gle, Returns(client[s], gle))
         \/ Confirm(s, kind, goesOn, gle, NoError(client[s], gle))
  PROVE  Written(s, kind)
<1> DEFINE c == client[s]
           thrown == News(s, kind) /\ ~Swallowed(s, kind)
           asks == ~thrown \/ goesOn
<1>1. /\ c # None /\ Sent(s, c, kind) /\ SaveLastCalledDB(s, c, News(s, kind))
      /\ IF thrown THEN UNCHANGED callLastError ELSE LeaveToPrompt(s)
      /\ UNCHANGED <<flags, client, concern, given, options, wrapped>>
  BY DEF Confirm, News
<1>2. told' = told \union IF News(s, kind) \/ gle # "none" THEN Latest(s) ELSE {}
  <2>1. Hears(s, latest'[s]) = Latest(s)
    BY <1>1, HearsLatest
  <2> QED
    BY <2>1 DEF Confirm, News
<1>3. missed' = missed \union IF asks /\ gle = "none" THEN Latest(s) ELSE {}
  BY DEF Confirm, News, Latest
<1>4. lastError'[c] = latest'[s]
  BY <1>1, SentNames
<1>5. claimed' \subseteq claimed \union (Latest(s) \cap missed')
  <2>1. CASE Confirm(s, kind, goesOn, gle, Returns(c, gle))
    <3>1. claimed' = claimed \union IF asks /\ Returns(c, gle) THEN Latest(s) ELSE {}
      BY <2>1 DEF Confirm, News, Latest
    <3>2. CASE gle = "none"
      BY <1>3, <3>1, <3>2
    <3>3. CASE gle # "none"
      <4>1. Returns(c, gle) => Latest(s) = {}
        BY <1>4, <3>3 DEF Returns, Latest
      <4> QED
        BY <3>1, <4>1
    <3> QED
      BY <3>2, <3>3
  <2>2. CASE Confirm(s, kind, goesOn, gle, NoError(c, gle))
    <3>1. claimed' = claimed \union IF asks /\ NoError(c, gle) THEN Latest(s) ELSE {}
      BY <2>2 DEF Confirm, News, Latest
    <3>2. NoError(c, gle) => Latest(s) = {}
      BY <1>4 DEF NoError, Latest
    <3> QED
      BY <3>1, <3>2
  <2> QED
    BY <2>1, <2>2
<1>6. callLastError'[s] \/ Latest(s) \subseteq told'
  <2>1. CASE thrown
    BY <1>2, <2>1
  <2>2. CASE ~thrown
    BY <1>1, <2>2 DEF LeaveToPrompt, TypeOK
  <2> QED
    BY <2>1, <2>2
<1>7. told \subseteq told' /\ told' \subseteq told \union Latest(s)
  BY <1>2
<1>8. News(s, kind) => Latest(s) \subseteq told'
  BY <1>2
<1>9. callLastError' \in {callLastError, [callLastError EXCEPT ![s] = TRUE]}
  BY <1>1 DEF LeaveToPrompt
<1>10. missed \subseteq missed' /\ missed' \subseteq missed \union Latest(s)
  BY <1>3
<1>11. options' = options /\ options \in [Clients -> InsertFlags]
  BY <1>1 DEF TypeOK
<1> HIDE DEF c, thrown, asks
<1> QED
  BY <1>1, <1>5, <1>6, <1>7, <1>8, <1>9, <1>10, <1>11 DEF Written, c

-----------------------------------------------------------------------------
(* A write keeps the invariant.                                            *)

(* The failed writes are of scopes and on clients.                         *)
LEMMA FailedTypes ==
  ASSUME TypeOK, NEW w \in DOMAIN failed
  PROVE  failed[w].by \in Scopes /\ failed[w].on \in Clients
<1>1. failed \in Seq([by : Scopes, on : Clients])
  BY DEF TypeOK
<1>2. w \in 1..Len(failed)
  BY <1>1, LenProperties
<1>3. failed[w] \in [by : Scopes, on : Clients]
  BY <1>1, <1>2, ElementOfSeq
<1> QED
  BY <1>3

(* What is known of the writes that failed before stays, and a new one is  *)
(* the latest of its scope.                                                *)
LEMMA FailedGrows ==
  ASSUME TypeOK, NEW s \in Scopes, NEW kind \in Kinds, client[s] # None,
         Sent(s, client[s], kind)
  PROVE  /\ failed' \in Seq([by : Scopes, on : Clients])
         /\ DOMAIN failed \subseteq DOMAIN failed'
         /\ \A w \in DOMAIN failed : failed'[w] = failed[w]
         /\ \A w \in DOMAIN failed' \ DOMAIN failed :
              w = latest'[s] /\ failed'[w] = [by |-> s, on |-> client[s]] /\ kind # "good"
         /\ latest'[s] # None =>
              latest'[s] \in DOMAIN failed' /\ failed'[latest'[s]] = [by |-> s, on |-> client[s]]
<1> DEFINE c == client[s]
<1>1. c \in Clients /\ failed \in Seq([by : Scopes, on : Clients]) /\ latest \in [Scopes -> Nat \union {None}]
  BY DEF TypeOK
<1>2. CASE kind = "good"
  BY <1>1, <1>2 DEF Sent
<1>3. CASE kind # "good"
  <2>1. failed' = Append(failed, [by |-> s, on |-> c]) /\ latest' = [latest EXCEPT ![s] = Len(failed')]
    BY <1>3 DEF Sent
  <2> DEFINE new == [by |-> s, on |-> c]
  <2>2. new \in [by : Scopes, on : Clients]
    BY <1>1
  <2>3. /\ failed' \in Seq([by : Scopes, on : Clients])
        /\ Len(failed') = Len(failed) + 1
        /\ \A w \in 1 .. Len(failed) : failed'[w] = failed[w]
        /\ failed'[Len(failed) + 1] = new
    BY <1>1, <2>1, <2>2, AppendProperties
  <2>4. latest'[s] = Len(failed) + 1
    BY <1>1, <2>1, <2>3
  <2>5. DOMAIN failed = 1 .. Len(failed) /\ DOMAIN failed' = 1 .. Len(failed) + 1 /\ Len(failed) \in Nat
    BY <1>1, <2>3, LenProperties
  <2> HIDE DEF new
  <2>6. DOMAIN failed \subseteq DOMAIN failed' /\ latest'[s] \in DOMAIN failed'
    BY <2>4, <2>5
  <2>7. \A w \in DOMAIN failed' \ DOMAIN failed : w = Len(failed) + 1
    BY <2>5
  <2> QED
    BY <1>3, <2>3, <2>4, <2>5, <2>6, <2>7 DEF new
<1> QED
  BY <1>2, <1>3

LEMMA WrittenTypes ==
  ASSUME Inv, NEW s \in Scopes, NEW kind \in Kinds, Written(s, kind)
  PROVE  TypeOK' /\ Named' /\ OwnOrHost' /\ UnackBySomeone'
<1> DEFINE c == client[s]
<1> USE NoneAssumption DEF Inv
<1>1. c \in Clients /\ c \in {s, Host}
  BY DEF TypeOK, Written, OwnOrHost
<1>2. Sent(s, c, kind) /\ c # None
  BY DEF Written
<1>3. /\ failed' \in Seq([by : Scopes, on : Clients])
      /\ DOMAIN failed \subseteq DOMAIN failed'
      /\ \A w \in DOMAIN failed : failed'[w] = failed[w]
      /\ \A w \in DOMAIN failed' \ DOMAIN failed :
           w = latest'[s] /\ failed'[w] = [by |-> s, on |-> c] /\ kind # "good"
      /\ latest'[s] # None =>
           latest'[s] \in DOMAIN failed' /\ failed'[latest'[s]] = [by |-> s, on |-> c]
  BY <1>2, FailedGrows
<1>4. DOMAIN failed = 1 .. Len(failed) /\ DOMAIN failed' = 1 .. Len(failed') /\ Len(failed') \in Nat
  BY <1>3, LenProperties DEF TypeOK
<1>5. /\ lastError' = [lastError EXCEPT ![c] = latest'[s]]
      /\ latest' = [latest EXCEPT ![s] = latest'[s]] /\ latest'[s] \in Nat \union {None}
  <2>1. CASE kind = "good"
    BY <1>2, <2>1 DEF Sent, TypeOK
  <2>2. CASE kind # "good"
    BY <1>2, <1>4, <2>2 DEF Sent, TypeOK
  <2> QED
    BY <2>1, <2>2
<1>6. Latest(s) \subseteq DOMAIN failed'
  BY <1>3 DEF Latest
<1>7. TypeOK'
  <2>1. told' \subseteq DOMAIN failed' /\ missed' \subseteq DOMAIN failed'
    BY <1>3, <1>6 DEF Written, TypeOK
  <2>2. claimed' \subseteq DOMAIN failed'
    BY <1>3, <1>6 DEF Written, TypeOK
  <2>3. lastError' \in [Clients -> Nat \union {None}] /\ latest' \in [Scopes -> Nat \union {None}]
    BY <1>5 DEF TypeOK
  <2>4. options' \in [Clients -> InsertFlags]
    BY DEF Written
  <2>5. lastCalled' \in [Scopes -> Clients \union {None}]
    BY <1>1 DEF Written, TypeOK, SaveLastCalledDB
  <2>6. callLastError' \in [Scopes -> BOOLEAN]
    BY DEF Written, TypeOK
  <2> QED
    BY <1>3, <2>1, <2>2, <2>3, <2>4, <2>5, <2>6 DEF TypeOK, Written
<1>8. Named'
  <2>1. ASSUME NEW d \in Clients, lastError'[d] # None
        PROVE  lastError'[d] \in DOMAIN failed' /\ failed'[lastError'[d]].on = d
    <3>1. CASE d = c
      BY <1>1, <1>3, <1>5, <2>1, <3>1 DEF TypeOK
    <3>2. CASE d # c
      BY <1>3, <1>5, <2>1, <3>2 DEF TypeOK, Named
    <3> QED
      BY <3>1, <3>2
  <2>2. ASSUME NEW t \in Scopes, latest'[t] # None
        PROVE  latest'[t] \in DOMAIN failed' /\ failed'[latest'[t]].by = t
    <3>1. CASE t = s
      BY <1>3, <2>2, <3>1
    <3>2. CASE t # s
      BY <1>3, <1>5, <2>2, <3>2 DEF TypeOK, Named
    <3> QED
      BY <3>1, <3>2
  <2> QED
    BY <2>1, <2>2 DEF Named
<1>9. OwnOrHost'
  <2>1. \A t \in Scopes : client'[t] \in {t, Host, None} /\ lastCalled'[t] \in {t, Host, None}
    BY <1>1 DEF Written, OwnOrHost, SaveLastCalledDB, TypeOK
  <2>2. \A w \in DOMAIN failed' : failed'[w].on \in {failed'[w].by, Host}
    BY <1>1, <1>3 DEF OwnOrHost
  <2> QED
    BY <2>1, <2>2 DEF OwnOrHost
<1>10. UnackBySomeone'
  BY DEF UnackBySomeone, Written
<1> QED
  BY <1>7, <1>8, <1>9, <1>10

(* The scope that writes is told of what the driver raises; of the rest it *)
(* is told, or asked in vain, or the prompt owes it, and the last called   *)
(* database is where it wrote.                                             *)
LEMMA WrittenKeeps ==
  ASSUME Inv, NEW s \in Scopes, NEW kind \in Kinds, Written(s, kind)
  PROVE  Inv'
<1> DEFINE c == client[s]
<1> USE NoneAssumption DEF Inv
<1>1. TypeOK' /\ Named' /\ OwnOrHost' /\ UnackBySomeone'
  BY WrittenTypes
<1>2. c \in Clients /\ c \in {s, Host} /\ Sent(s, c, kind) /\ c # None
  BY DEF TypeOK, Written, OwnOrHost
<1>3. /\ DOMAIN failed \subseteq DOMAIN failed'
      /\ \A w \in DOMAIN failed : failed'[w] = failed[w]
      /\ \A w \in DOMAIN failed' \ DOMAIN failed :
           w = latest'[s] /\ failed'[w] = [by |-> s, on |-> c] /\ kind # "good"
      /\ latest'[s] # None =>
           latest'[s] \in DOMAIN failed' /\ failed'[latest'[s]] = [by |-> s, on |-> c]
  BY <1>2, FailedGrows
<1>4. /\ told \subseteq told' /\ told' \subseteq told \union Latest(s)
      /\ News(s, kind) => Latest(s) \subseteq told'
      /\ UNCHANGED client /\ SaveLastCalledDB(s, c, News(s, kind))
  BY DEF Written
<1>5. lastError'[c] = latest'[s] /\ (kind = "good" => latest'[s] = None)
  BY <1>2, SentNames DEF Inv
<1>6. /\ \A d \in Clients \ {c} : lastError'[d] = lastError[d]
      /\ \A t \in Scopes \ {s} : latest'[t] = latest[t] /\ lastCalled'[t] = lastCalled[t]
  BY <1>2, <1>4 DEF Sent, SaveLastCalledDB, TypeOK
<1>7. HostFindsError'
  <2> SUFFICES ASSUME NEW t \in Scopes, latest'[t] \notin told' \union {None}
               PROVE  LET d == failed'[latest'[t]].on IN
                      /\ lastCalled'[t] = d
                      /\ lastError'[d] \notin {latest'[t], None} =>
                           d = Host /\ lastError'[d] > latest'[t] /\ failed'[lastError'[d]].by # t
    BY DEF HostFindsError
  <2>1. CASE t = s
    <3>1. ~News(s, kind)
      BY <1>4, <2>1 DEF Latest
    <3>2. lastCalled'[s] = c
      BY <1>4, <3>1 DEF SaveLastCalledDB, TypeOK
    <3> QED
      BY <1>3, <1>5, <2>1, <3>2
  <2>2. CASE t # s
    <3> DEFINE w == latest[t]
               d == failed[w].on
    <3>1. latest'[t] = w /\ lastCalled'[t] = lastCalled[t] /\ w \notin told \union {None}
      BY <1>4, <1>6, <2>2
    <3>2. w \in DOMAIN failed /\ failed[w].by = t /\ failed'[w] = failed[w] /\ d \in Clients
      <4>1. w \in DOMAIN failed /\ failed[w].by = t
        BY <3>1 DEF Named
      <4>2. d \in Clients
        BY <4>1, FailedTypes
      <4> QED
        BY <1>3, <4>1, <4>2
    <3>3. /\ lastCalled[t] = d /\ d \in {t, Host}
          /\ lastError[d] \notin {w, None} =>
               d = Host /\ lastError[d] > w /\ failed[lastError[d]].by # t
      BY <3>1, <3>2 DEF HostFindsError, OwnOrHost
    <3>4. CASE d # c
      <4>1. lastError'[d] = lastError[d]
        BY <1>6, <3>2, <3>4
      <4>2. lastError[d] # None => failed'[lastError[d]] = failed[lastError[d]]
        BY <1>3, <3>2 DEF Named
      <4> HIDE DEF w
      <4> QED
        BY <3>1, <3>2, <3>3, <4>1, <4>2
    <3>5. CASE d = c /\ kind = "good"
      BY <1>5, <3>1, <3>2, <3>3, <3>5
    <3>6. CASE d = c /\ kind # "good"
      <4>1. d = Host
        BY <1>2, <2>2, <3>3, <3>6
      <4>2. latest'[s] = Len(failed) + 1 /\ failed'[latest'[s]].by = s
        <5>1. failed' = Append(failed, [by |-> s, on |-> c]) /\ latest'[s] = Len(failed')
          BY <1>2, <3>6 DEF Sent, TypeOK
        <5>2. latest'[s] = Len(failed) + 1
          BY <1>2, <5>1, AppendProperties DEF TypeOK
        <5> QED
          BY <1>2, <1>3, <3>6, <5>2, SentNames
      <4>3. w \in Nat /\ w <= Len(failed) /\ Len(failed) \in Nat
        BY <3>2, LenProperties DEF TypeOK
      <4> HIDE DEF w
      <4> QED
        BY <1>5, <2>2, <3>1, <3>2, <3>3, <3>6, <4>1, <4>2, <4>3
    <3> QED
      BY <3>4, <3>5, <3>6
  <2> QED
    BY <2>1, <2>2
<1>8. PromptOwesAnswer'
  <2> SUFFICES ASSUME NEW t \in Scopes, latest'[t] \notin told' \union {None}
               PROVE  callLastError'[t] \/ latest'[t] \in missed'
    BY DEF PromptOwesAnswer
  <2>1. CASE t = s
    BY <2>1 DEF Written, Latest
  <2>2. CASE t # s
    <3>1. callLastError'[t] = callLastError[t] /\ missed \subseteq missed'
      BY <2>2 DEF Written, TypeOK
    <3> QED
      BY <1>4, <1>6, <2>2, <3>1 DEF PromptOwesAnswer
  <2> QED
    BY <2>1, <2>2
<1>9. OptionsLeakOnlyOnError'
  <2> SUFFICES ASSUME NEW d \in Clients, options'[d] # 0
               PROVE  \E w \in told' : failed'[w].on = d
    BY DEF OptionsLeakOnlyOnError
  <2>1. CASE options'[d] = options[d]
    <3>1. PICK w \in told : failed[w].on = d
      BY <2>1 DEF OptionsLeakOnlyOnError
    <3>2. w \in DOMAIN failed
      BY DEF TypeOK
    <3> QED
      BY <1>3, <1>4, <3>1, <3>2
  <2>2. CASE options'[d] # options[d]
    <3>1. d = c /\ News(s, kind)
      BY <2>2 DEF Written
    <3>2. latest'[s] # None
      BY <1>2, <3>1, SentNames DEF News
    <3> QED
      BY <1>3, <1>4, <3>1, <3>2 DEF Latest
  <2> QED
    BY <2>1, <2>2
<1>10. SuccessMeansStored'
  BY DEF SuccessMeansStored, Written
<1> QED
  BY <1>1, <1>7, <1>8, <1>9, <1>10

-----------------------------------------------------------------------------
(* The other steps.                                                        *)

\* A scope is told, or asks in vain, of a write of its own, on a client of its own
\* or the host's, and the connection may forget that error.
AsksAbout(s, c) ==
  /\ c # None
  /\ told \subseteq told'
  /\ told' \subseteq told \union {w \in DOMAIN failed : failed[w].by = s}
  /\ lastError' \in {lastError, [lastError EXCEPT ![c] = None]}
  /\ \/ UNCHANGED <<callLastError, missed>>
     \/ /\ callLastError' = [callLastError EXCEPT ![s] = FALSE]
        /\ missed \subseteq missed' /\ missed' \subseteq missed \union ({latest[s]} \ {None})
        /\ latest[s] # None => latest[s] \in missed' \/ latest[s] \in told'
  /\ UNCHANGED <<flags, client, lastCalled, concern, given, options, failed, latest,
                 claimed, wrapped>>

LEMMA OtherAsks ==
  ASSUME TypeOK, NEW s \in Scopes, Other(s)
  PROVE  AsksAbout(s, client[s])
BY DEF Other, AsksAbout

LEMMA GetLastErrorAsks ==
  ASSUME TypeOK, NEW s \in Scopes, GetLastError(s)
  PROVE  AsksAbout(s, client[s])
BY DEF GetLastError, AsksAbout, Hears

LEMMA HostAsksAsks ==
  ASSUME TypeOK, NEW s \in Scopes, HostAsks(s)
  PROVE  AsksAbout(s, lastCalled[s])
BY DEF HostAsks, AsksAbout, Hears

LEMMA ShellPrintHelperAsks ==
  ASSUME TypeOK, Named, NEW s \in Scopes, NEW answered \in BOOLEAN,
         ShellPrintHelper(s, answered)
  PROVE  AsksAbout(s, client[s])
<1>1. /\ latest' = latest /\ Asked(s, lastError[client[s]], answered)
      /\ client[s] # None /\ lastError' = lastError
      /\ callLastError' = [callLastError EXCEPT ![s] = FALSE]
      /\ UNCHANGED <<flags, client, lastCalled, concern, given, options, failed, claimed,
                     wrapped>>
  BY DEF ShellPrintHelper
<1>2. CASE answered
  <2>1. latest[s] # None => latest[s] \in DOMAIN failed /\ failed[latest[s]].by = s
    BY DEF Named
  <2>2. /\ told' = told \union Hears(s, lastError[client[s]])
        /\ missed' = missed \union ({latest[s]} \ {None, lastError[client[s]]})
    BY <1>1, <1>2 DEF Asked
  <2>3. Hears(s, lastError[client[s]]) \subseteq {w \in DOMAIN failed : failed[w].by = s}
    BY <1>1 DEF Hears
  <2>4. latest[s] # None => latest[s] \in missed' \/ latest[s] \in told'
    BY <1>1, <2>1, <2>2 DEF Hears
  <2> QED
    BY <1>1, <2>2, <2>3, <2>4 DEF AsksAbout
<1>3. CASE ~answered
  BY <1>1, <1>3 DEF Asked, AsksAbout, Hears
<1> QED
  BY <1>2, <1>3

LEMMA AskingKeeps ==
  ASSUME Inv, NEW s \in Scopes, NEW c \in {client[s], lastCalled[s]}, AsksAbout(s, c)
  PROVE  Inv'
<1> USE NoneAssumption DEF Inv
<1>1. c \in Clients /\ c \in {s, Host}
  BY DEF TypeOK, OwnOrHost, AsksAbout
<1>2. /\ UNCHANGED <<flags, client, lastCalled, concern, given, options, failed, latest,
                     claimed, wrapped>>
      /\ told \subseteq told' /\ missed \subseteq missed'
  BY DEF AsksAbout
<1>3. TypeOK'
  <2>1. lastError' \in [Clients -> Nat \union {None}]
    BY DEF AsksAbout, TypeOK
  <2>2. told' \subseteq DOMAIN failed
    BY DEF AsksAbout, TypeOK
  <2>3. missed' \subseteq DOMAIN failed
    BY DEF AsksAbout, TypeOK, Named
  <2>4. callLastError' \in [Scopes -> BOOLEAN]
    BY DEF AsksAbout, TypeOK
  <2> QED
    BY <1>2, <2>1, <2>2, <2>3, <2>4 DEF TypeOK
<1>4. Named'
  BY <1>2 DEF Named, AsksAbout, TypeOK
<1>5. OwnOrHost' /\ UnackBySomeone'
  BY <1>2 DEF OwnOrHost, UnackBySomeone
<1>6. HostFindsError'
  <2>1. \A d \in Clients : lastError'[d] \in {lastError[d], None}
    BY DEF AsksAbout, TypeOK
  <2>2. \A t \in Scopes : latest[t] # None => failed[latest[t]].on \in Clients
    <3> SUFFICES ASSUME NEW t \in Scopes, latest[t] # None
                 PROVE  failed[latest[t]].on \in Clients
      OBVIOUS
    <3>1. latest[t] \in DOMAIN failed
      BY DEF Named
    <3> QED
      BY <3>1, FailedTypes
  <2> QED
    BY <1>2, <2>1, <2>2 DEF HostFindsError
<1>7. PromptOwesAnswer'
  BY <1>2 DEF PromptOwesAnswer, AsksAbout, TypeOK
<1>8. OptionsLeakOnlyOnError' /\ SuccessMeansStored'
  BY <1>2 DEF OptionsLeakOnlyOnError, SuccessMeansStored
<1> QED
  BY <1>3, <1>4, <1>5, <1>6, <1>7, <1>8

(* A connection takes over the write concern of the scope that makes it.   *)
LEMMA ConnectKeeps ==
  ASSUME Inv, NEW s \in Scopes, NEW c \in Clients, Connect(s, c)
  PROVE  Inv'
<1> USE DEF Inv
<1>1. /\ c \in {s, Host} /\ client' = [client EXCEPT ![s] = c]
      /\ concern' = [concern EXCEPT ![c] = Concern(s, concern[c])]
      /\ wrapped' = IF c = Host THEN wrapped \union {s} ELSE wrapped
      /\ UNCHANGED <<flags, callLastError, lastCalled, given, options, lastError, failed,
                     latest, told, missed, claimed>>
  BY DEF Connect
<1>2. TypeOK'
  BY <1>1 DEF TypeOK, Concern, Concerns
<1>3. Named' /\ OwnOrHost'
  BY <1>1 DEF Named, OwnOrHost, TypeOK
<1>4. UnackBySomeone'
  <2>1. \A t \in Scopes : t # Host
    BY NoneAssumption
  <2>2. CASE c = Host
    <3>1. /\ concern'[Host] = Concern(s, concern[Host]) /\ s \in wrapped'
          /\ \A t \in Scopes : concern'[t] = concern[t]
      BY <1>1, <2>1, <2>2 DEF TypeOK
    <3> QED
      BY <1>1, <2>2, <3>1 DEF UnackBySomeone, Concern
  <2>3. CASE c # Host
    <3>1. /\ concern'[s] = Concern(s, concern[s]) /\ concern'[Host] = concern[Host]
          /\ \A t \in Scopes \ {s} : concern'[t] = concern[t]
      BY <1>1, <2>1, <2>3 DEF TypeOK, Clients
    <3> QED
      BY <1>1, <2>3, <3>1 DEF UnackBySomeone, Concern
  <2> QED
    BY <2>2, <2>3
<1>5. HostFindsError' /\ PromptOwesAnswer' /\ OptionsLeakOnlyOnError' /\ SuccessMeansStored'
  BY <1>1 DEF HostFindsError, PromptOwesAnswer, OptionsLeakOnlyOnError, SuccessMeansStored
<1> QED
  BY <1>2, <1>3, <1>4, <1>5

(* What is written, and what leaves the failed writes as they are.         *)
WritesOrNot ==
  \/ \E s \in Scopes, kind \in Kinds : Written(s, kind)
  \/ UNCHANGED failed

LEMMA StepInv == Inv /\ [Next]_vars => Inv' /\ WritesOrNot
<1> SUFFICES ASSUME Inv, [Next]_vars PROVE Inv' /\ WritesOrNot
  OBVIOUS
<1>0. TypeOK /\ 0 \in InsertFlags
  BY FlagsAssumption DEF Inv
<1>1. ASSUME NEW s \in Scopes, NEW c \in Clients, Connect(s, c) PROVE Inv' /\ WritesOrNot
  BY <1>1, ConnectKeeps DEF Connect, WritesOrNot
<1>2. ASSUME NEW s \in Scopes, NEW kind \in Kinds, Written(s, kind)
      PROVE  Inv' /\ WritesOrNot
  BY <1>2, WrittenKeeps DEF WritesOrNot
<1>3. ASSUME NEW s \in Scopes, NEW kind \in Kinds, NEW new \in InsertFlags \union {None},
             NEW verbose \in BOOLEAN, NEW answered \in {TRUE, ~verbose},
             Write(s, kind, new, verbose, answered)
      PROVE  Inv' /\ WritesOrNot
  <2>1. answered \in BOOLEAN
    OBVIOUS
  <2>2. Written(s, kind)
    BY <1>0, <1>3, <2>1, WriteComesTo
  <2> QED
    BY <1>2, <2>2
<1>4. ASSUME NEW s \in Scopes, NEW kind \in Kinds, NEW login \in BOOLEAN, NEW gle,
             CreateUser(s, kind, login, gle)
      PROVE  Inv' /\ WritesOrNot
  <2>1. Written(s, kind)
    BY <1>0, <1>4, CallComesTo DEF CreateUser
  <2> QED
    BY <1>2, <2>1
<1>5. ASSUME NEW s \in Scopes, NEW kind \in Kinds, NEW gle,
             ChangeUserPassword(s, kind, gle) \/ EnsureIndex(s, kind, gle)
      PROVE  Inv' /\ WritesOrNot
  <2>1. FALSE \in BOOLEAN
    OBVIOUS
  <2>2. Written(s, kind)
    BY <1>0, <1>5, <2>1, CallComesTo DEF ChangeUserPassword, EnsureIndex
  <2> QED
    BY <1>2, <2>2
<1>6. ASSUME NEW s \in Scopes, Other(s) \/ GetLastError(s) PROVE Inv' /\ WritesOrNot
  BY <1>0, <1>6, OtherAsks, GetLastErrorAsks, AskingKeeps DEF AsksAbout, WritesOrNot
<1>7. ASSUME NEW s \in Scopes, NEW answered \in BOOLEAN, ShellPrintHelper(s, answered)
      PROVE  Inv' /\ WritesOrNot
  BY <1>0, <1>7, ShellPrintHelperAsks, AskingKeeps DEF AsksAbout, WritesOrNot, Inv
<1>8. ASSUME NEW s \in Scopes, HostAsks(s) PROVE Inv' /\ WritesOrNot
  BY <1>0, <1>8, HostAsksAsks, AskingKeeps DEF AsksAbout, WritesOrNot
<1>9. CASE UNCHANGED vars
  BY <1>9 DEF vars, Inv, TypeOK, Named, OwnOrHost, UnackBySomeone, HostFindsError,
              PromptOwesAnswer, OptionsLeakOnlyOnError, SuccessMeansStored, WritesOrNot
<1>10. ASSUME NEW s \in Scopes, NEW gle, CreateUser(s, "good", FALSE, gle)
       PROVE  Inv' /\ WritesOrNot
  BY <1>4, <1>10 DEF Kinds
<1> QED
  BY <1>1, <1>3, <1>4, <1>5, <1>6, <1>7, <1>8, <1>9, <1>10 DEF Next

(* A write of a scope without the shell's write concern that fails unheard *)
(* was not waited for; only on the host's client that may be.              *)
LEMMA WrittenIsHeard ==
  ASSUME Inv, NEW s \in Scopes, NEW kind \in Kinds, Written(s, kind),
         NEW w \in DOMAIN failed' \ DOMAIN failed,
         ~flags[failed'[w].by].shellConcern, w \notin told'
  PROVE  /\ failed'[w].on = Host
         /\ given = "unack" \/ \E t \in wrapped : flags[t].shellConcern
<1> DEFINE c == client[s]
<1> USE DEF Inv
<1>1. c \in Clients /\ c \in {s, Host} /\ Sent(s, c, kind) /\ c # None
  BY DEF TypeOK, Written, OwnOrHost
<1>2. w = latest'[s] /\ failed'[w] = [by |-> s, on |-> c] /\ kind # "good"
  BY <1>1, FailedGrows
<1>3. latest'[s] # None
  BY <1>1, <1>2, SentNames
<1>4. ~News(s, kind)
  BY <1>2, <1>3 DEF Written, Latest
<1>5. concern[c] = "unack"
  BY <1>1, <1>2, <1>4 DEF News, TypeOK, Concerns
<1> QED
  BY <1>1, <1>2, <1>5 DEF UnackBySomeone

-----------------------------------------------------------------------------

LEMMA Invariant == Spec => []Inv
<1>1. Inv /\ [Next]_vars => Inv'
  BY StepInv
<1> QED
  BY <1>1, InitInv, PTL DEF Spec

(* For any scopes and flags, every variable keeps its type.                *)
THEOREM TypeCorrect == Spec => []TypeOK
<1>1. Inv => TypeOK
  BY DEF Inv
<1> QED
  BY <1>1, Invariant, PTL

(* A scope without the shell's write concern hears at once of every write  *)
(* of its own that fails, except on the host's client, when the host made  *)
(* it not to wait or a scope with the shell's write concern had wrapped it.*)
THEOREM OwnErrorsHeard == Spec => HeardAtOnce
<1>1. Inv /\ [Next]_vars =>
        [\A w \in DOMAIN failed' \ DOMAIN failed :
           ~flags[failed'[w].by].shellConcern /\ w \notin told'
           => /\ failed'[w].on = Host
              /\ given = "unack" \/ \E t \in wrapped : flags[t].shellConcern]_vars
  BY StepInv, WrittenIsHeard DEF WritesOrNot
<1> QED
  BY <1>1, Invariant, PTL DEF Spec, HeardAtOnce

(* Whatever scopes share the host's client and however they connect anew,  *)
(* the host finds the error of a scope's last write that nobody told the   *)
(* scope of at the last called database, as long as the server has it.     *)
THEOREM HostCanFind == Spec => []HostFindsError
<1>1. Inv => HostFindsError
  BY DEF Inv
<1> QED
  BY <1>1, Invariant, PTL

(* The error of a scope's last write is not forgotten: the scope has heard *)
(* of it, the prompt will ask, or the shell has asked in vain.             *)
THEOREM PromptAsks == Spec => []PromptOwesAnswer
<1>1. Inv => PromptOwesAnswer
  BY DEF Inv
<1> QED
  BY <1>1, Invariant, PTL

(* Options of an insert stay behind only with an error its scope heard of. *)
THEOREM LeaksAreErrors == Spec => []OptionsLeakOnlyOnError
<1>1. Inv => OptionsLeakOnlyOnError
  BY DEF Inv
<1> QED
  BY <1>1, Invariant, PTL

(* addUser, changeUserPassword and ensureIndex report success only of what *)
(* is stored, or of what addUser asked about and got no answer.            *)
THEOREM SuccessIsStored == Spec => []SuccessMeansStored
<1>1. Inv => SuccessMeansStored
  BY DEF Inv
<1> QED
  BY <1>1, Invariant, PTL

=============================================================================
