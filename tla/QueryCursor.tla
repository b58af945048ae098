---------------------------- MODULE QueryCursor ----------------------------
(***************************************************************************)
(* One DBQuery of a script (query.js), the InternalCursor it reads from    *)
(* (adaptor/InternalCursor.java) and the driver's DBCursor behind that,    *)
(* which fetches the result from the server in batches.                    *)
(*                                                                         *)
(* The result is the documents 1 .. NumDocs in order, and stays the same   *)
(* while it is read.  DBCursor (mongo-java-driver 2.11) and the server are *)
(* external: the driver asks for a number of documents, a negative one     *)
(* closing the cursor; the server sends at most that many, and no more     *)
(* than fit in a reply.  Of what a query document says only $explain       *)
(* matters here: the server answers it with one document.                  *)
(***************************************************************************)
EXTENDS Integers, SequencesExt

CONSTANTS
  NumDocs,      \* how many documents match
  Unreadable,   \* those that BSONizer cannot turn into JavaScript, if there are any
  FirstReply,   \* how many the server sends when it is not told
  MaxReply,     \* how many fit in one reply
  ShellBatchSize, \* how many documents shellPrint prints: 20 in the code
  Limits, Skips, BatchSizes,   \* what scripts pass to limit, skip, batchSize
  None,         \* no array
  MaxFaults     \* bound: how many errors come up

ASSUME SizesAssumption ==
  /\ NumDocs \in Nat /\ Unreadable \subseteq 1 .. NumDocs
  /\ FirstReply \in Nat \ {0} /\ MaxReply \in Nat \ {0} /\ FirstReply <= MaxReply
  /\ ShellBatchSize \in Nat \ {0}
  /\ Limits \subseteq Int /\ BatchSizes \subseteq Int /\ Skips \subseteq Nat
  /\ MaxFaults \in Nat
ASSUME NoneAssumption == None \notin Seq(Nat)

VARIABLES
  limit, skip, batchSize,   \* DBQuery._limit, _skip, _batchSize
  query,        \* DBQuery._query: plain, special, or special and with $explain
  executed,     \* DBQuery._cursor # null
  seen,         \* DBQuery._cursorSeen
  returned,     \* DBQuery._numReturned
  arr,          \* DBQuery._arr, or None
  filling,      \* the documents a loop has read so far, or None
  loop,         \* the loop: toArray, forEach, shellPrint, or none
  it,           \* ___it___ is this query
  driver,       \* the DBCursor
  server,       \* the server's cursor
  got,          \* every document the script has been given
  faults,       \* how many errors came up
  ended         \* hasNext() was false

numbers == <<limit, skip, batchSize>>
shape == <<numbers, query>>
vars == <<shape, executed, seen, returned, arr, filling, loop, it,
          driver, server, got, faults, ended>>

\* left is what the driver has fetched and not handed out, num what it has, sizes
\* and getMores its own counts, live whether it knows of an open server cursor.
FreshDriver == [ started |-> FALSE, left |-> 0, num |-> 0, sizes |-> << >>,
                 getMores |-> 0, live |-> FALSE ]

\* next is the document the server sends next, dead that it forgot the cursor,
\* unreadable are the documents that cannot be converted.
FreshServer(unreadable) == [ next |-> 1, dead |-> FALSE, unreadable |-> unreadable ]

\* find() makes the query special when the connection has a read preference, and
\* findOne() passes the limit -1.
Find == query \in {"plain", "special"} /\ limit \in {0, -1}

Init ==
  /\ Find /\ skip = 0 /\ batchSize = 0
  /\ executed = FALSE /\ seen = 0 /\ returned = 0
  /\ arr = None /\ filling = None /\ loop = "none" /\ it = FALSE
  /\ driver = FreshDriver /\ server \in {FreshServer({}), FreshServer(Unreadable)}
  /\ got = << >> /\ faults = 0 /\ ended = FALSE

\* limit(), skip() and batchSize() throw once the query has been executed.
Modify(l, s, b) ==
  /\ ~executed
  /\ limit' = l /\ skip' = s /\ batchSize' = b
  /\ Cardinality({i \in 1 .. 3 : numbers[i] # numbers'[i]}) = 1
  /\ UNCHANGED <<query, executed, seen, returned, arr, filling, loop, it, driver, server,
                 got, faults, ended>>

\* sort, hint, min, max, readPref, snapshot: the query becomes special, and stays so.
\* Once it was sent, this and explain() no longer reach the server.
AddSpecial ==
  /\ ~executed /\ query = "plain" /\ query' = "special"
  /\ UNCHANGED <<numbers, executed, seen, returned, arr, filling, loop, it, driver, server,
                 got, faults, ended>>

\* explain() executes a clone, which shares the document of a special query.
Explain ==
  /\ ~executed /\ query = "special" /\ query' = "explained"
  /\ UNCHANGED <<numbers, executed, seen, returned, arr, filling, loop, it, driver, server,
                 got, faults, ended>>

\* The result: the documents that match from skip on, or one that explains.
FirstResult == IF query = "explained" THEN 1 ELSE skip + 1
NumResults == IF query = "explained" THEN 1 ELSE NumDocs

-----------------------------------------------------------------------------
(* The driver's cursor, as find() sets it up.                               *)

Least(a, b) == IF a < b THEN a ELSE b

Abs(n) == IF n < 0 THEN -n ELSE n

\* DBCursor.limit: zero is none, a negative limit is a batch size.
DriverLimit == IF limit > 0 THEN limit ELSE 0

\* Variant: batchSize is set after limit.
BatchSizeLast == IF batchSize = 1 THEN 2 ELSE batchSize

\* find(): skip, then batchSize, then limit; DBCursor makes a batch size 1 a 2.
DriverBatch ==
  IF limit < 0 THEN limit ELSE IF batchSize = 1 THEN 2 ELSE batchSize

SumOf(sizes) ==
  LET upTo[n \in 0 .. Len(sizes)] == IF n = 0 THEN 0 ELSE upTo[n - 1] + sizes[n]
  IN upTo[Len(sizes)]

\* DBQuery and DBCursor both stop at the limit, each by a count of its own.
AtLimit(count) == limit > 0 /\ count >= limit

Fetched(d) == SumOf(d.sizes)

\* DBApiLayer.chooseBatchSize: the number the driver asks for, negative to have
\* the cursor closed.
Asked(d) ==
  LET size == Abs(DriverBatch)
      remaining == IF DriverLimit > 0 THEN DriverLimit - Fetched(d) ELSE 0
      n == IF size = 0 \/ remaining = 0 THEN size + remaining
           ELSE Least(size, remaining)
  IN IF DriverBatch < 0 \/ n = 1 THEN -n ELSE n

\* How many documents may go into the reply when the driver asks for n, and how
\* many do, from document first on.
Room(n, default) == Least(IF n = 0 THEN default ELSE Abs(n), MaxReply)

Sent(n, first, default) == Least(Room(n, default), Max({0, NumResults + 1 - first}))

\* A reply reaches the driver.  A cursor whose last document has filled a reply may
\* or may not be open still.
Receive(first, default) ==
  LET n == Asked(driver)
      k == Sent(n, first, default)
      more == first + k <= NumResults
  IN \E open \in {more} \union {k = Room(n, default)} :
       LET d == [driver EXCEPT !.started = TRUE, !.left = k,
                               !.sizes = Append(@, k),
                               !.getMores = IF driver.started THEN @ + 1 ELSE 0]
       IN /\ driver' = [d EXCEPT !.live = /\ n >= 0 /\ open
                                          /\ DriverLimit > 0 => Fetched(d) < DriverLimit]
          /\ server' = [server EXCEPT !.next = first + k]

\* DBCursor.hasNext has to ask the server.
MustFetch ==
  /\ driver.left = 0 /\ ~AtLimit(driver.num)
  /\ driver.started => driver.live

-----------------------------------------------------------------------------
(* hasNext().                                                               *)

\* hasNext(), when a batch has to be fetched and comes.
Fetch ==
  /\ MustFetch /\ (driver.started => ~server.dead)
  /\ executed' = TRUE
  /\ IF driver.started THEN Receive(server.next, MaxReply)
                       ELSE Receive(FirstResult, FirstReply)
  /\ UNCHANGED <<shape, seen, returned, arr, filling, loop, it, got, faults, ended>>

\* A loop ends.
EndLoop == filling' = None /\ loop' = "none"

\* An exception reaches the script, or is printed by shellPrint(), which leaves ___it___
\* as it was; whatever toArray() had collected is gone.
Throw == faults' = faults + 1 /\ EndLoop /\ UNCHANGED it

\* What hasNext() false does to a loop: toArray() keeps its array.
LoopDone ==
  /\ arr' = IF loop = "toArray" THEN filling ELSE arr
  /\ it' = (it /\ loop # "shellPrint")
  /\ EndLoop

\* hasNext(), when the query fails.  The driver has no result then and starts from
\* the beginning next time.  An error that MongoScope.handleMongoException prints
\* (silent) leaves hasNext() false.
QueryFails(silent) ==
  /\ MustFetch /\ ~driver.started /\ faults < MaxFaults
  /\ executed' = TRUE
  /\ IF silent
     THEN /\ faults' = faults + 1
          /\ ended' = TRUE
          /\ LoopDone
     ELSE /\ Throw
          /\ UNCHANGED <<arr, ended>>
  /\ UNCHANGED <<shape, seen, returned, driver, server, got>>

\* hasNext(), when the next batch does not come: the request or the reply was
\* lost, or the server has forgotten the cursor (these are never silent).
GetMoreFails(reached) ==
  /\ MustFetch /\ driver.started /\ faults < MaxFaults
  /\ Throw
  /\ IF server.dead
     THEN driver' = [driver EXCEPT !.getMores = @ + 1] /\ UNCHANGED server
     ELSE /\ server' = [server EXCEPT !.next =
                          IF reached THEN @ + Sent(Asked(driver), @, MaxReply) ELSE @]
          /\ UNCHANGED driver
  /\ UNCHANGED <<shape, executed, seen, returned, arr, got, ended>>

\* hasNext() is false at the limit, or when driver and server have no more.
NoNext ==
  /\ executed
  /\ \/ AtLimit(seen) \/ AtLimit(driver.num)
     \/ driver.started /\ driver.left = 0 /\ ~driver.live
  /\ ended' = TRUE /\ LoopDone
  /\ UNCHANGED <<shape, executed, seen, returned, driver, server, got, faults>>

-----------------------------------------------------------------------------
(* next() and toArray().                                                    *)

\* hasNext() is true and needs no fetch; a loop asks the query and so compares its
\* limit, next() asks the cursor.
HasDocument ==
  /\ driver.left > 0 /\ ~AtLimit(driver.num)
  /\ filling # None => ~AtLimit(seen)

PageFull == loop = "shellPrint" /\ Len(filling) = ShellBatchSize

\* Variant: what toArray() has when an exception comes up is kept.
TakeKeepsArray ==
  /\ HasDocument /\ ~PageFull
  /\ seen' = seen + 1
  /\ driver' = [driver EXCEPT !.left = @ - 1, !.num = @ + 1]
  /\ LET d == server.next - driver.left
     IN IF d \in server.unreadable
        THEN /\ faults < MaxFaults /\ Throw
             /\ arr' = IF loop = "toArray" THEN filling ELSE arr
             /\ UNCHANGED <<returned, got>>
        ELSE /\ returned' = returned + 1
             /\ got' = Append(got, d)
             /\ filling' = IF filling = None THEN None ELSE Append(filling, d)
             /\ UNCHANGED <<arr, loop, it, faults>>
  /\ UNCHANGED <<shape, executed, server, ended>>

\* next() with a document at hand (without one it is hasNext() first; at the end
\* it throws and changes nothing).  It counts the document as seen, takes it from
\* the driver, converts it, and counts it as returned.
Take ==
  /\ HasDocument /\ ~PageFull
  /\ seen' = seen + 1
  /\ driver' = [driver EXCEPT !.left = @ - 1, !.num = @ + 1]
  /\ LET d == server.next - driver.left
     IN IF d \in server.unreadable
        THEN /\ faults < MaxFaults /\ Throw
             /\ UNCHANGED <<returned, got>>
        ELSE /\ returned' = returned + 1
             /\ got' = Append(got, d)
             /\ filling' = IF filling = None THEN None ELSE Append(filling, d)
             /\ UNCHANGED <<loop, it, faults>>
  /\ UNCHANGED <<shape, executed, arr, server, ended>>

BeginLoop(name) ==
  /\ filling = None /\ filling' = << >> /\ loop' = name
  /\ UNCHANGED <<shape, executed, seen, returned, arr, it, driver, server, got, faults, ended>>

\* toArray(), length() and q[i] read to the end, unless they did so before.
ToArray == arr = None /\ BeginLoop("toArray")

\* forEach(), map() and itcount() read to the end, and keep nothing.
ForEach == BeginLoop("forEach")

\* shellPrint(), at the prompt or by the command it, prints a page.
ShellPrint == BeginLoop("shellPrint")

\* After a full page hasNext() is asked again; with more to come ___it___ is set.
PageEnds ==
  /\ PageFull /\ HasDocument /\ it' = TRUE /\ EndLoop
  /\ UNCHANGED <<shape, executed, seen, returned, arr, driver, server, got, faults, ended>>

\* Variant: only the current batch counts.
LeftInLastBatch == driver.sizes[driver.getMores + 1] - driver.num

\* objsLeftInBatch(), when hasNext() is true.
ObjsLeftInBatch ==
  driver.sizes[driver.getMores + 1]
    - (driver.num - SumOf(SubSeq(driver.sizes, 1, driver.getMores)))

\* Variant: the limit is applied before the skip.
CountReturnLimited == (IF limit > 0 THEN Least(limit, NumDocs) ELSE NumDocs) - skip

\* countReturn().
CountReturn == IF limit > 0 THEN Least(limit, NumDocs - skip) ELSE NumDocs - skip

\* size(): the server counts, with skip and limit.
Size == LET rest == Max({0, NumDocs - skip}) IN IF limit = 0 THEN rest ELSE Least(Abs(limit), rest)

\* The server forgets a cursor nobody has used for a while.
CursorTimesOut ==
  /\ driver.live /\ ~server.dead /\ faults < MaxFaults
  /\ server' = [server EXCEPT !.dead = TRUE]
  /\ UNCHANGED <<shape, executed, seen, returned, arr, filling, loop, it, driver, got,
                 faults, ended>>

Next ==
  \/ \E l \in Limits, s \in Skips, b \in BatchSizes : Modify(l, s, b)
  \/ Fetch
  \/ \E silent \in BOOLEAN : QueryFails(silent)
  \/ \E reached \in BOOLEAN : GetMoreFails(reached)
  \/ NoNext
  \/ Take
  \/ AddSpecial \/ Explain
  \/ ToArray \/ ForEach \/ ShellPrint \/ PageEnds
  \/ CursorTimesOut

Spec == Init /\ [][Next]_vars

-----------------------------------------------------------------------------
(* Properties.                                                              *)

\* Every variable has its type.
TypeOK ==
  /\ limit \in Limits \union {0, -1} /\ skip \in Skips \union {0}
  /\ batchSize \in BatchSizes \union {0}
  /\ executed \in BOOLEAN /\ seen \in Nat /\ returned \in Nat
  /\ arr \in Seq(Nat) \union {None} /\ filling \in Seq(Nat) \union {None}
  /\ query \in {"plain", "special", "explained"} /\ it \in BOOLEAN
  /\ loop \in {"none", "toArray", "forEach", "shellPrint"}
  /\ loop = "none" <=> filling = None
  /\ driver \in [ started : BOOLEAN, left : Nat, num : Nat, sizes : Seq(Nat),
                  getMores : Nat, live : BOOLEAN ]
  /\ server \in [ next : Nat, dead : BOOLEAN, unreadable : SUBSET Unreadable ]
  /\ got \in Seq(Nat) /\ faults \in Nat /\ ended \in BOOLEAN

\* How many documents the query asks for: a negative limit, or else a negative
\* batch size, is one reply of that size.
Wanted ==
  LET single == IF limit < 0 THEN -limit ELSE IF batchSize < 0 THEN -batchSize ELSE NumResults
      most == IF limit > 0 THEN limit ELSE NumResults
  IN IF limit < 0 \/ batchSize < 0 THEN Least(most, Least(single, MaxReply)) ELSE most

\* The last document it asks for.
LastWanted == Least(NumResults, FirstResult - 1 + Wanted)

\* DBQuery over InternalCursor over DBCursor gives the script what a ResultStream
\* promises: the documents of its window in order, none twice, and all of them
\* unless an error came up, whatever the batches, and however often a failed
\* fetch is tried again.
Stream == INSTANCE ResultStream WITH
  lo <- FirstResult, hi <- LastWanted, running <- executed, faulty <- faults > 0

RefinesStream == Stream!Spec

\* The counts without reading agree with reading to the end: size() with what the script
\* got, when no error came up and one reply has room for what a query with a negative
\* limit or batch size asks for; and countReturn(), which knows neither a negative limit
\* nor a skip beyond the end.
CountsAgree ==
  ended /\ faults = 0 /\ query # "explained" /\ batchSize >= 0 /\ -limit <= MaxReply =>
    /\ Size = Len(got)
    /\ limit >= 0 /\ skip <= NumDocs => CountReturn = Len(got)

\* objsLeftInBatch() is what the driver has left to hand out without asking the
\* server, over all the batches before and the failed fetches between them.
ObjsLeftExact == HasDocument => ObjsLeftInBatch = driver.left

\* An array that toArray() keeps was read to the end, with no exception on the way:
\* it is documents the script got one after the other, and unless an error came up
\* they are the last of the result.
ArrayIsTheRest ==
  arr # None =>
    /\ ended
    /\ \E before \in 0 .. Len(got) - Len(arr) :
         /\ arr = SubSeq(got, before + 1, before + Len(arr))
         /\ faults = 0 => before + Len(arr) = Max({0, LastWanted + 1 - FirstResult})

=============================================================================
