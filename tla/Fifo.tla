-------------------------------- MODULE Fifo --------------------------------
(***************************************************************************)
(* What a message queue promises the adapters that share a task: messages  *)
(* are handled in the order they were accepted, each once, until the queue *)
(* is closed; from then on at most one more is handled, the others are     *)
(* discarded together.                                                     *)
(***************************************************************************)
EXTENDS Sequences, Integers

VARIABLES
  queue,      \* the messages accepted and neither handled nor discarded
  accepted,   \* how many messages were accepted
  handled,    \* the messages handled, in order
  closed      \* 0 while the queue is open, then the messages handled since, plus 1

vars == <<queue, accepted, handled, closed>>

Init == queue = <<>> /\ accepted = 0 /\ handled = <<>> /\ closed = 0

Accept ==
  /\ closed = 0
  /\ accepted' = accepted + 1 /\ queue' = Append(queue, accepted')
  /\ UNCHANGED <<handled, closed>>

Handle ==
  /\ queue # <<>> /\ closed < 2
  /\ handled' = Append(handled, Head(queue)) /\ queue' = Tail(queue)
  /\ closed' = IF closed = 0 THEN 0 ELSE 2
  /\ UNCHANGED accepted

Close == closed = 0 /\ closed' = 1 /\ UNCHANGED <<queue, accepted, handled>>

\* A queue that is discarded is closed
Discard ==
  /\ queue' = <<>> /\ closed' = IF closed = 0 THEN 1 ELSE closed
  /\ UNCHANGED <<accepted, handled>>

Next == Accept \/ Handle \/ Close \/ Discard
Spec == Init /\ [][Next]_vars
=============================================================================
