---------------------------- MODULE ResultStream ----------------------------
(***************************************************************************)
(* What a query promises the script that reads it, whatever batches the    *)
(* driver fetches: the documents from lo to hi of the result, in order,    *)
(* each at most once, and all of them unless an error has been reported.   *)
(***************************************************************************)
EXTENDS Integers, Sequences

VARIABLES
  lo, hi,    \* the window of the result the query asks for
  running,   \* it has been sent: its shape is fixed
  got,       \* the documents the script has been given
  faulty,    \* some error came up on the way
  ended      \* the script has been told that there are no more

vars == <<lo, hi, running, got, faulty, ended>>

Size == IF hi < lo THEN 0 ELSE hi - lo + 1

Init == ~running /\ got = << >> /\ ~faulty /\ ~ended

\* skip, limit and batchSize, before the query runs.
Shape == ~running /\ ~running' /\ UNCHANGED <<got, faulty, ended>>

Run == ~running /\ running' /\ UNCHANGED <<lo, hi, got, faulty, ended>>

Deliver ==
  /\ running /\ (ended => faulty)
  /\ Len(got) < Size
  /\ Len(got') = Len(got) + 1
  /\ SubSeq(got', 1, Len(got)) = got
  /\ LET d == got'[Len(got')]
     IN /\ d >= lo + Len(got)
        /\ got # << >> => d > got[Len(got)]
        /\ ~faulty => d = lo + Len(got)
  /\ UNCHANGED <<lo, hi, running, faulty, ended>>

\* An error that is not raised ends the result as well.
Fault == running' /\ faulty' /\ (ended => ended') /\ UNCHANGED <<lo, hi, got>>

\* The query may also run and end in one go.
End ==
  /\ running' /\ (faulty \/ Len(got) = Size)
  /\ ended'
  /\ UNCHANGED <<lo, hi, got, faulty>>

Next == Shape \/ Run \/ Deliver \/ Fault \/ End

Spec == Init /\ [][Next]_vars

=============================================================================
