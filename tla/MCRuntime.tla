------------------------------ MODULE MCRuntime -------------------------------
(***************************************************************************)
(* What runs on threads and timers of its own: coarse position injection,  *)
(* network-initiated requests, timers and their heap, and a message task   *)
(* with its thread.  There is one instance of each model; a behaviour runs *)
(* one of them, its `part', while the others rest in their initial states. *)
(***************************************************************************)
EXTENDS Odcpi, Integers

CONSTANTS
  \* NiSession
  NiRequests, NiQueue, Agrees,
  \* LocTimer
  Clients, None, Timeouts, MaxStarts, MaxTime, MaxStops,
  \* LocHeap
  HeapItems, HeapRank,
  \* MsgTask
  MaxSends

ASSUME RuntimeAssumption ==
  /\ NiRequests \in Nat /\ NiQueue \in Nat
  /\ None \notin Clients /\ Timeouts \subseteq Nat
  /\ MaxStarts \in Nat /\ MaxTime \in Nat /\ MaxStops \in Nat
  /\ HeapRank \in [HeapItems -> Int]
  /\ MaxSends \in Nat

VARIABLES
  part,
  \* NiSession
  slot, counter, hasClient, adapterQ, answering, thread, informed, payloadsFreed, given,
  \* LocTimer
  now, mTimer, made, stops, mClient, due, heap, top, timerQ, fd, polled, poll, expiring, deleted,
  \* LocHeap
  tree, returned,
  \* MsgTask and LocThread
  thr, parent, mRunnable, mJoinable, mRefCount, delegate, runnable,
  next, prev, head, tail, unblocked, rcv, sent, handled, freed, lastOne

niVars == <<slot, counter, hasClient, adapterQ, answering, thread, informed, payloadsFreed, given>>
timerVars == <<now, mTimer, made, stops, mClient, due, heap, top, timerQ, fd, polled, poll,
  expiring, deleted>>
treeVars == <<tree, returned>>
queueVars == <<next, prev, head, tail, unblocked, rcv, sent, handled, freed, lastOne>>
taskVars == <<thr, parent, mRunnable, mJoinable, mRefCount, delegate, runnable, queueVars>>
mcvars == <<part, vars, niVars, timerVars, treeVars, taskVars>>

-----------------------------------------------------------------------------
(* The instances and their bounds                                          *)

Ni == INSTANCE NiSession WITH
  MaxRequests <- NiRequests, MaxQueue <- NiQueue,
  msgQ <- adapterQ, freed <- payloadsFreed

Timer == INSTANCE LocTimer WITH msgQ <- timerQ

\* Five objects, the pairs 2, 3 and 4, 5 of equal rank.
MCRank == [d \in 1 .. 5 |-> d \div 2]

Heap == INSTANCE LocHeap WITH Items <- HeapItems, Rank <- HeapRank

Task == INSTANCE MsgTask

-----------------------------------------------------------------------------
(* A behaviour of one part                                                 *)

\* What the other parts do in a step of part p
Rest(p) ==
  /\ IF p = "odcpi" THEN TRUE ELSE UNCHANGED vars
  /\ IF p = "ni" THEN TRUE ELSE UNCHANGED niVars
  /\ IF p = "timer" THEN TRUE ELSE UNCHANGED timerVars
  /\ IF p = "heap" THEN TRUE ELSE UNCHANGED treeVars
  /\ IF p = "task" THEN TRUE ELSE UNCHANGED taskVars

Part(p) == part = p /\ UNCHANGED part /\ Rest(p)

MCInit ==
  /\ part \in {"odcpi", "ni", "timer", "heap", "task"}
  /\ Init
  /\ Ni!Init /\ (part # "ni" => hasClient)
  /\ Timer!Init
  /\ Heap!Init
  /\ Task!Init

MCNext ==
  \/ Part("odcpi") /\ Next
  \/ Part("ni") /\ Ni!Next
  \/ Part("timer") /\ Timer!Next
  \/ Part("heap") /\ Heap!Next
  \/ Part("task") /\ Task!Next

\* The fairness of the part that runs: its threads go on, its timers expire.  Only one part
\* takes steps, so the fairness of a disjunction over the parts is that of each of them.
First ==
  \/ Part("odcpi") /\ timeOutCallback
  \/ Part("ni") /\ Ni!AdapterStep
  \/ Part("timer") /\ Timer!Tick
  \/ Part("task") /\ Task!Thread /\ UNCHANGED queueVars
Second ==
  \/ Part("odcpi") /\ Handler
  \/ Part("ni") /\ Ni!ThreadStep(1)
  \/ Part("timer") /\ Timer!Task
  \/ Part("task") /\ Task!Parent /\ UNCHANGED queueVars
Third ==
  \/ Part("ni") /\ Ni!ThreadStep(2)
  \/ Part("timer") /\ Timer!Poll
  \/ Part("task") /\ Task!Receive
MCFairness == WF_mcvars(First) /\ WF_mcvars(Second) /\ WF_mcvars(Third)

MCSpec == MCInit /\ [][MCNext]_mcvars /\ MCFairness

-----------------------------------------------------------------------------
(* Properties                                                              *)

\* A network-initiated request is freed and answered at most once, and one that waits in a
\* slot has the thread that will take it out (GnssAdapter.cpp 1841-1937 and 2351-2480).
NiRequestsAreSound == Ni!FreedOnce /\ Ni!PendingHasThread

\* Every network-initiated request that was shown comes to an end (GnssAdapter.cpp 2351-2410).
RequestEnds == Ni!RequestEnds

\* A timer in the heap has a wake-up on its way, and a delegate is deleted once and held by
\* nothing afterwards (LocTimer.cpp 283-385 and 525-538).
TimersAreWatched == Timer!HeapIsWatched /\ Timer!DeletedOnce

\* A timer that is started ends, by its callback or by a stop (LocTimer.cpp 355-385).
TimerEnds == Timer!TimerEnds

\* The heap is a priority set, and its tree keeps its order and its sizes (LocHeap.cpp
\* 107-268).
ImplementsPrioritySet == Heap!ImplementsPrioritySet /\ Heap!StaysSound

\* The linked list under its mutex and the task that reads it are a first in, first out queue
\* (msg_q.c, linked_list.c, MsgTask.cpp 76-105).
ImplementsFifo == Task!ImplementsFifo

\* The two ends of the list agree, no message is left behind, and the delegate of the thread
\* is deleted by the last of its two owners (linked_list.c, LocThread.cpp 132-204).
TaskIsSound == Task!DelegateIsShared /\ Task!ListIsSound

\* A task that is destroyed ends (MsgTask.cpp 65-74, LocThread.cpp 132-204).
TaskEnds == Task!TaskEnds
=============================================================================
