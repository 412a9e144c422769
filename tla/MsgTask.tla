------------------------------ MODULE MsgTask -------------------------------
(***************************************************************************)
(* A message task (gps/utils/MsgTask.cpp) on its thread (LocThread): the   *)
(* queue (msg_q.c) is a mutex, a condition variable and a doubly linked    *)
(* list (linked_list.c) with the newest message at its head.  destroy      *)
(* unblocks the queue and lets go of the thread, which deletes the task    *)
(* on its way out; the task's destructor flushes and frees the queue.      *)
(* Nobody sends to a task that is deleted.                                 *)
(***************************************************************************)
EXTENDS LocThread, Sequences

CONSTANTS
  MaxSends    \* bound: messages accepted; they are 1..MaxSends

VARIABLES
  next, prev, \* [message -> message or 0]: the links of its list_element
  head, tail, \* p_head and p_tail, 0 for NULL
  unblocked,
  rcv,        \* the receiver in msg_q_rcv: "enter", "wait" or "woken"
  sent,       \* messages accepted so far
  handled,    \* messages handled, in order
  freed,      \* messages deallocated by a flush
  lastOne     \* was a message handled after the queue was unblocked?

queueVars == <<next, prev, head, tail, unblocked, rcv, sent, handled, freed, lastOne>>
vars == <<threadVars, queueVars>>

Messages == 1..MaxSends

Init ==
  /\ ThreadInit
  /\ next = [m \in Messages |-> 0] /\ prev = [m \in Messages |-> 0]
  /\ head = 0 /\ tail = 0 /\ unblocked = FALSE /\ rcv = "enter"
  /\ sent = 0 /\ handled = <<>> /\ freed = {} /\ lastOne = FALSE

-----------------------------------------------------------------------------
(* linked_list.c *)

\* Mutant: the old head does not learn of its predecessor.
linked_list_add_OneWay(m) ==
  /\ head' = m
  /\ next' = [next EXCEPT ![m] = head]
  /\ tail' = IF head = 0 THEN m ELSE tail
  /\ UNCHANGED prev

linked_list_add(m) ==
  /\ head' = m
  /\ next' = [next EXCEPT ![m] = head]
  /\ prev' = [x \in Messages |-> IF x = head THEN m ELSE IF x = m THEN 0 ELSE prev[x]]
  /\ tail' = IF head = 0 THEN m ELSE tail

linked_list_remove ==
  /\ tail # 0
  /\ tail' = prev[tail]
  /\ next' = [x \in Messages |-> IF x = prev[tail] THEN 0 ELSE next[x]]
  /\ head' = IF prev[tail] = 0 THEN 0 ELSE head
  /\ UNCHANGED prev

linked_list_empty == head = 0

\* The i-th message of the list, walking from e by the links in l
Walk(e, l) ==
  LET at[i \in 0..MaxSends] ==
        IF i = 0 THEN e ELSE IF at[i - 1] = 0 THEN 0 ELSE l[at[i - 1]]
  IN  at

\* Frees the elements from the head on, with their messages
linked_list_flush ==
  /\ freed' = freed \union ({Walk(head, next)[i] : i \in 0..MaxSends} \ {0})
  /\ head' = 0 /\ tail' = 0
  /\ UNCHANGED <<next, prev>>

(* msg_q.c and MsgTask.cpp *)

\* The signal wakes the receiver; an unblocked queue takes no message
sendMsg ==
  /\ sent < MaxSends /\ parent \notin {"idle", "created", "gone"} /\ runnable = "live"
  /\ \/ /\ ~unblocked /\ sent' = sent + 1 /\ linked_list_add(sent + 1)
        /\ rcv' = IF rcv = "wait" THEN "woken" ELSE rcv
     \/ unblocked /\ UNCHANGED <<sent, next, prev, head, tail, rcv>>
  /\ UNCHANGED <<threadVars, unblocked, handled, freed, lastOne>>

msg_q_rcv ==
  /\ thr = "run" /\ rcv = "enter" /\ ~unblocked
  /\ rcv' = IF linked_list_empty THEN "wait" ELSE "woken"
  /\ UNCHANGED <<threadVars, next, prev, head, tail, unblocked, sent, handled, freed, lastOne>>

\* A receiver that is woken, or need not wait, takes the oldest message and handles it
run ==
  /\ thr = "run" /\ rcv = "woken" /\ ~(linked_list_empty /\ ~unblocked)
  /\ rcv' = "enter"
  /\ \/ /\ linked_list_remove /\ handled' = Append(handled, tail)
        /\ lastOne' = unblocked /\ ran(TRUE)
     \/ tail = 0 /\ ran(FALSE) /\ UNCHANGED <<next, prev, head, tail, handled, lastOne>>
  /\ UNCHANGED <<unblocked, sent, freed>>

\* The queue was unblocked before the receiver came in: it takes nothing
runUnblocked ==
  /\ thr = "run" /\ rcv = "enter" /\ unblocked /\ ran(FALSE)
  /\ UNCHANGED queueVars

\* pthread_cond_wait may return without a signal; the receiver looks again
wakeSpuriously ==
  /\ rcv = "wait" /\ rcv' = "woken"
  /\ UNCHANGED <<threadVars, next, prev, head, tail, unblocked, sent, handled, freed, lastOne>>

waitAgain ==
  /\ thr = "run" /\ rcv = "woken" /\ linked_list_empty /\ ~unblocked /\ rcv' = "wait"
  /\ UNCHANGED <<threadVars, next, prev, head, tail, unblocked, sent, handled, freed, lastOne>>

\* Mutant: nobody wakes the receiver.
destroy_Silent ==
  /\ parent = "owns" /\ parent' = "leaving" /\ unblocked' = TRUE
  /\ UNCHANGED <<thr, mRunnable, mJoinable, mRefCount, delegate, runnable,
                 rcv, next, prev, head, tail, sent, handled, freed, lastOne>>

\* MsgTask::destroy: the broadcast wakes the receiver, then the LocThread is deleted; a task
\* without a thread deletes itself
destroy ==
  /\ parent = "owns" /\ parent' = "leaving" /\ unblocked' = TRUE
  /\ rcv' = IF rcv = "wait" THEN "woken" ELSE rcv
  /\ UNCHANGED <<thr, mRunnable, mJoinable, mRefCount, delegate, runnable,
                 next, prev, head, tail, sent, handled, freed, lastOne>>

destroyUnstarted ==
  /\ parent = "failed" /\ runnable = "live" /\ runnable' = "deleted" /\ unblocked' = TRUE
  /\ linked_list_flush
  /\ UNCHANGED <<thr, parent, mRunnable, mJoinable, mRefCount, delegate,
                 rcv, sent, handled, lastOne>>

\* The thread deletes the task: the destructor flushes the queue and frees it
deleteTask == postrun /\ linked_list_flush /\ UNCHANGED <<unblocked, rcv, sent, handled, lastOne>>

-----------------------------------------------------------------------------
Thread == begin \/ prerun \/ loop \/ leave
Parent == started \/ bye \/ join \/ release
Receive == msg_q_rcv \/ run \/ runUnblocked \/ waitAgain \/ deleteTask
Next ==
  \/ (Thread \/ Parent \/ \E j \in BOOLEAN : create(j)) /\ UNCHANGED queueVars
  \/ Receive \/ wakeSpuriously \/ sendMsg \/ destroy \/ destroyUnstarted

\* Both threads go on; a task need not be destroyed, and nobody need send
Fairness ==
  /\ WF_vars(Thread /\ UNCHANGED queueVars) /\ WF_vars(Parent /\ UNCHANGED queueVars)
  /\ WF_vars(Receive)
Spec == Init /\ [][Next]_vars /\ Fairness

-----------------------------------------------------------------------------
(* Properties *)

\* What the list should hold: messages are numbered as they are accepted, the oldest of the
\* list is at its tail and the newest at its head
FromTo(m, n) == [i \in 1..(n - m + 1) |-> m + i - 1]
Queued == IF tail = 0 THEN <<>> ELSE FromTo(tail, head)

Abstract == INSTANCE Fifo WITH
  queue <- Queued, accepted <- sent,
  closed <- IF ~unblocked THEN 0 ELSE IF lastOne THEN 2 ELSE 1

\* The linked list under its mutex, and the task that reads it, are a first in, first out
\* queue: a message is handled once, in order, and after the queue is unblocked at most the
\* one the receiver had been woken for (msg_q.c, linked_list.c, MsgTask::run).
ImplementsFifo == Abstract!Spec

\* Walked from its head and from its tail the list has the same messages, every one of
\* which was accepted and neither handled nor freed; a deleted task leaves no message behind
\* (linked_list_add, linked_list_remove, linked_list_flush).
ListIsSound ==
  LET fromHead == {Walk(head, next)[i] : i \in 0..MaxSends} \ {0}
      fromTail == {Walk(tail, prev)[i] : i \in 0..MaxSends} \ {0}
      done == {handled[i] : i \in DOMAIN handled}
  IN  /\ fromHead = fromTail /\ fromHead = {Queued[i] : i \in DOMAIN Queued}
      /\ fromHead = (1..sent) \ (done \union freed)
      /\ done \intersect freed = {}
      /\ runnable = "deleted" => fromHead = {}

\* A task that is destroyed ends: the waiting receiver is woken, a joinable thread is joined
\* and the delegate is deleted by the last of the two (MsgTask::destroy, LocThread).
TaskEnds == parent = "leaving" ~> delegate = "deleted"
=============================================================================
