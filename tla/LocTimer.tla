------------------------------ MODULE LocTimer ------------------------------
(***************************************************************************)
(* Timers (gps/utils/LocTimer.cpp).  A start makes a LocTimerDelegate and  *)
(* posts it to the timer task; a stop posts its removal.  The timer task   *)
(* alone touches the heap and arms the timerfd for the top of it.  The     *)
(* poll thread wakes when the fd expires, disarms it and posts an expiry.  *)
(* A client's start and stop take its LocSharedLock; the expiry reads the  *)
(* delegate's client without it.                                           *)
(*                                                                         *)
(* The heap is the set LocHeap implements and `top' the object peek        *)
(* returns: which of several soonest delegates comes next is left open.    *)
(***************************************************************************)
EXTENDS Integers, Sequences

CONSTANTS
  Clients,    \* the LocTimer objects
  None,       \* NULL
  Timeouts,   \* the delays clients ask for
  MaxStarts,  \* bound: delegates made
  MaxTime,    \* bound: the clock
  MaxStops    \* bound: stops by clients

VARIABLES
  now,        \* CLOCK_BOOTTIME
  mTimer,     \* [Clients -> delegate or 0]
  made,       \* delegates made so far; they are 1..made
  stops,      \* stops by clients so far
  mClient,    \* [delegate -> Clients \union {None}], read without the lock
  due,        \* [delegate -> mFutureTime]
  heap,       \* the delegates in the container
  top,        \* the delegate at the root, 0 in an empty heap
  msgQ,       \* the queue of the timer task
  fd,         \* the time the timerfd is armed for, 0 when it is disarmed
  polled,     \* is the fd in the epoll set?
  poll,       \* the step of the poll thread in LocTimerContainer::expire
  expiring,   \* the MsgTimerExpire in progress
  deleted     \* delegates that have been deleted

vars == <<now, mTimer, made, stops, mClient, due, heap, top, msgQ, fd, polled, poll,
          expiring, deleted>>
clientVars == <<mTimer, made, stops, due>>
heapVars == <<heap, top>>

Delegates == 1..MaxStarts
Idle == [at |-> 0, timer |-> 0, client |-> None]

-----------------------------------------------------------------------------
(* The heap and the kernel timer *)

Soonest(h) == {d \in h : \A e \in h : due[d] <= due[e]}

\* peek after something left the heap: the old top if it is still there
Tops(h) == IF h = {} THEN {0} ELSE IF top \in h THEN {top} ELSE Soonest(h)

outRanks(d, e) == due[d] < due[e]

\* Mutant: the fd is armed only when a later timer is replaced.
updateSoonestTime_Replaced(cur, prior) ==
  IF cur # 0 /\ prior # 0 /\ outRanks(cur, prior) THEN polled' = TRUE /\ fd' = due[cur]
  ELSE UNCHANGED <<fd, polled>>

\* cur is the top now, prior the argument
updateSoonestTime(cur, prior) ==
  \/ cur = prior /\ UNCHANGED <<fd, polled>>
  \/ cur # prior /\ cur = 0 /\ fd' = 0 /\ polled' = FALSE
  \/ /\ cur # prior /\ cur # 0
     /\ IF prior = 0 \/ outRanks(cur, prior)
        THEN polled' = TRUE /\ fd' = due[cur]
        ELSE UNCHANGED <<fd, polled>>

-----------------------------------------------------------------------------
Init ==
  /\ now = 1 /\ mTimer = [c \in Clients |-> 0] /\ made = 0 /\ stops = 0
  /\ mClient = [d \in Delegates |-> None] /\ due = [d \in Delegates |-> 0]
  /\ heap = {} /\ top = 0 /\ msgQ = <<>> /\ fd = 0 /\ polled = FALSE
  /\ poll = "wait" /\ expiring = Idle /\ deleted = {}

Tick ==
  /\ now < MaxTime /\ now' = now + 1
  /\ UNCHANGED <<mTimer, made, stops, mClient, due, heap, top, msgQ, fd, polled, poll,
                 expiring, deleted>>

(* Clients *)

start(c, timeout) ==
  /\ made < MaxStarts /\ now + timeout <= MaxTime
  /\ mTimer[c] = 0     \* a second start returns false
  /\ made' = made + 1
  /\ mTimer' = [mTimer EXCEPT ![c] = made + 1]
  /\ mClient' = [mClient EXCEPT ![made + 1] = c]
  /\ due' = [due EXCEPT ![made + 1] = now + timeout]
  /\ msgQ' = Append(msgQ, [type |-> "push", timer |-> made + 1])
  /\ UNCHANGED <<now, stops, heap, top, fd, polled, poll, expiring, deleted>>

\* LocTimer::stop with the delegate's destroyLocked
StopDelegate(c, queue) ==
  /\ mTimer[c] # 0
  /\ mTimer' = [mTimer EXCEPT ![c] = 0]
  /\ mClient' = [mClient EXCEPT ![mTimer[c]] = None]
  /\ msgQ' = Append(queue, [type |-> "remove", timer |-> mTimer[c]])

stop(c) ==
  /\ stops < MaxStops /\ stops' = stops + 1
  /\ StopDelegate(c, msgQ)
  /\ UNCHANGED <<now, made, due, heap, top, fd, polled, poll, expiring, deleted>>

(* The timer task *)

TaskIdle == expiring = Idle /\ msgQ # <<>>
Handle(type) == TaskIdle /\ Head(msgQ).type = type /\ msgQ' = Tail(msgQ)

add ==
  /\ Handle("push")
  /\ LET d == Head(msgQ).timer
         cur == IF top = 0 \/ outRanks(d, top) THEN d ELSE top
     IN  heap' = heap \union {d} /\ top' = cur /\ updateSoonestTime(cur, top)
  /\ UNCHANGED <<now, mTimer, made, stops, mClient, due, poll, expiring, deleted>>

remove ==
  /\ Handle("remove")
  /\ LET d == Head(msgQ).timer
     IN  /\ heap' = heap \ {d}
         /\ top' \in Tops(heap \ {d})
         /\ IF d \in heap /\ d = top THEN updateSoonestTime(top', 0) ELSE UNCHANGED <<fd, polled>>
         /\ deleted' = deleted \union {d}
  /\ UNCHANGED <<now, mTimer, made, stops, mClient, due, poll, expiring>>

\* MsgTimerExpire takes the time and pops the top, whatever its time is
beginExpire ==
  /\ Handle("expire")
  /\ IF heap = {}
     THEN UNCHANGED <<heap, top, fd, polled, expiring>>
     ELSE /\ heap' = heap \ {top} /\ top' \in Tops(heap \ {top})
          /\ expiring' = [at |-> now, timer |-> top, client |-> mClient[top]]
          /\ UNCHANGED <<fd, polled>>
  /\ UNCHANGED <<now, mTimer, made, stops, mClient, due, poll, deleted>>

\* LocTimerDelegate::expire stops the client it has read and calls it back, then
\* popIfOutRanks takes the next delegate that is due
expire ==
  /\ expiring # Idle
  /\ LET c == expiring.client
     IN  \/ /\ c # None /\ mTimer[c] # 0 /\ StopDelegate(c, msgQ)
         \/ /\ c = None \/ (c # None /\ mTimer[c] = 0)
            /\ UNCHANGED <<mTimer, mClient, msgQ>>
  /\ IF top # 0 /\ due[top] <= expiring.at
     THEN /\ heap' = heap \ {top} /\ top' \in Tops(heap \ {top})
          /\ expiring' = [expiring EXCEPT !.timer = top, !.client = mClient'[top]]
          /\ UNCHANGED <<fd, polled>>
     ELSE /\ expiring' = Idle /\ updateSoonestTime(top, 0)
          /\ UNCHANGED heapVars
  /\ UNCHANGED <<now, made, stops, due, poll, deleted>>

(* The poll thread *)

run ==
  /\ poll = "wait" /\ polled /\ fd # 0 /\ fd <= now
  /\ poll' = "disarm"
  /\ UNCHANGED <<now, mTimer, made, stops, mClient, due, heap, top, msgQ, fd, polled,
                 expiring, deleted>>

disarm ==
  /\ poll = "disarm" /\ poll' = "unpoll" /\ fd' = 0
  /\ UNCHANGED <<now, mTimer, made, stops, mClient, due, heap, top, msgQ, polled,
                 expiring, deleted>>

unpoll ==
  /\ poll = "unpoll" /\ poll' = "post" /\ polled' = FALSE
  /\ UNCHANGED <<now, mTimer, made, stops, mClient, due, heap, top, msgQ, fd,
                 expiring, deleted>>

post ==
  /\ poll = "post" /\ poll' = "wait"
  /\ msgQ' = Append(msgQ, [type |-> "expire", timer |-> 0])
  /\ UNCHANGED <<now, mTimer, made, stops, mClient, due, heap, top, fd, polled,
                 expiring, deleted>>

-----------------------------------------------------------------------------
Task == add \/ remove \/ beginExpire \/ expire
Poll == run \/ disarm \/ unpoll \/ post
Next ==
  \/ Tick \/ Task \/ Poll
  \/ \E c \in Clients : stop(c) \/ \E t \in Timeouts : start(c, t)

\* The threads run and the clock goes on; clients need do nothing
Fairness == WF_vars(Tick) /\ WF_vars(Task) /\ WF_vars(Poll)
Spec == Init /\ [][Next]_vars /\ Fairness

-----------------------------------------------------------------------------
(* Properties *)

InQueue(type) == \E i \in DOMAIN msgQ : msgQ[i].type = type

\* Whatever the poll thread and the timer task do to the fd between each other, a timer in
\* the heap has a wake-up on its way: the fd is polled and armed no later than the top, or
\* an expiry is under way that arms it again (LocTimerContainer::updateSoonestTime and
\* expire, which disarm the same fd from two threads).
HeapIsWatched ==
  heap # {} => \/ polled /\ 0 < fd /\ fd <= due[top]
               \/ poll # "wait" \/ InQueue("expire") \/ expiring # Idle

\* A delegate is removed and deleted once, and nothing holds it afterwards: the expiry
\* leaves the deletion to the removal it posts ("all timers are deleted here, and only
\* here", LocTimerContainer::remove).
DeletedOnce ==
  /\ \A c \in Clients : mTimer[c] \notin deleted
  /\ heap \intersect deleted = {}
  /\ \A i \in DOMAIN msgQ : msgQ[i].timer \notin deleted
  /\ \A i, j \in DOMAIN msgQ : msgQ[i] = msgQ[j] /\ msgQ[i].type = "remove" => i = j

\* Every timer that is started ends, by its callback or by a stop: no wake-up is lost to
\* the disarming of the poll thread (LocTimerContainer::expire).
TimerEnds ==
  \A d \in Delegates : (\E c \in Clients : mTimer[c] = d) ~> (\A c \in Clients : mTimer[c] # d)
=============================================================================
