---------------------------- MODULE MsgTaskProofs ----------------------------
(***************************************************************************)
(* Theorems about a message task and its thread, for any number of         *)
(* messages: the delegate the two sides share is deleted by the last of    *)
(* them, the linked list holds the messages between its ends in order, and *)
(* the task implements the queue its users count on.                       *)
(***************************************************************************)
EXTENDS MsgTask, TLAPS, SequenceTheorems, WellFoundedInduction

-----------------------------------------------------------------------------
(* The delegate.  DelegateIsShared says nothing of mRefCount, which decides  *)
(* the deletion: the invariant is that it counts the sides that still hold   *)
(* the delegate.                                                             *)

ThreadStep == {"none", "begin", "prerun", "loop", "run", "postrun", "release", "done"}
ParentStep == {"idle", "created", "owns", "leaving", "join", "release", "gone", "failed"}

ThreadHolds == thr \notin {"none", "done"}
ParentHolds == parent \in {"created", "owns", "leaving", "join", "release"}

Counted ==
  /\ thr \in ThreadStep /\ parent \in ParentStep
  /\ parent = "idle" => thr = "none"
  /\ mRefCount = (IF ThreadHolds THEN 1 ELSE 0) + (IF ParentHolds THEN 1 ELSE 0)
  /\ delegate = IF parent = "idle" THEN "none" ELSE IF mRefCount = 0 THEN "deleted" ELSE "live"

\* Every step of a task counts the sides that hold the delegate.
LEMMA CountedStep ==
  ASSUME Counted, [Next]_vars
  PROVE  Counted'
  <1> USE DEF Counted, ThreadStep, ParentStep, ThreadHolds, ParentHolds
  <1>1. CASE UNCHANGED threadVars
    BY <1>1 DEF threadVars
  <1>2. ASSUME NEW j \in BOOLEAN, create(j)
        PROVE  Counted'
    BY <1>2 DEF create
  <1>3. CASE started
    BY <1>3 DEF started, DropReference
  <1>4. CASE bye \/ join
    BY <1>4 DEF bye, join
  <1>5. CASE release
    BY <1>5 DEF release, DropReference
  <1>6. CASE begin \/ prerun \/ loop \/ postrun
    BY <1>6 DEF begin, prerun, loop, postrun
  <1>7. CASE leave
    BY <1>7 DEF leave, DropReference
  <1>8. ASSUME NEW again \in BOOLEAN, ran(again)
        PROVE  Counted'
    BY <1>8 DEF ran
  <1>9. CASE destroy
    BY <1>9 DEF destroy
  <1>10. CASE destroyUnstarted
    BY <1>10 DEF destroyUnstarted
  <1>11. CASE Receive
    BY <1>1, <1>6, <1>8, <1>11 DEF Receive, msg_q_rcv, run, runUnblocked, waitAgain, deleteTask
  <1>12. CASE wakeSpuriously \/ sendMsg
    BY <1>1, <1>12 DEF wakeSpuriously, sendMsg
  <1>13. CASE UNCHANGED vars
    BY <1>1, <1>13 DEF vars
  <1> QED
    BY <1>2, <1>3, <1>4, <1>5, <1>6, <1>7, <1>9, <1>10, <1>11, <1>12, <1>13
    DEF Next, Thread, Parent

\* The delegate is deleted when both sides have let go of it, and not before:
\* neither LocThread nor its thread uses a deleted delegate, and none is left.
THEOREM DelegateShared == Spec => []DelegateIsShared
  <1>1. Init => Counted
    BY DEF Init, ThreadInit, Counted, ThreadStep, ParentStep, ThreadHolds, ParentHolds
  <1>2. Counted /\ [Next]_vars => Counted'
    BY CountedStep
  <1>3. Counted => DelegateIsShared
    BY DEF Counted, ThreadStep, ParentStep, ThreadHolds, ParentHolds, DelegateIsShared
  <1> QED
    BY <1>1, <1>2, <1>3, PTL DEF Spec

-----------------------------------------------------------------------------
(* The linked list.  The messages handled are 1, 2, ... in order; those in   *)
(* the list follow them, the oldest at the tail, each linked to both its     *)
(* neighbours; the list is empty when all are handled or the task, deleted,  *)
(* has flushed it.                                                           *)

HandledInOrder ==
  /\ sent \in 0..MaxSends
  /\ handled \in Seq(Nat) /\ Len(handled) <= sent
  /\ \A i \in 1..Len(handled) : handled[i] = i

ListIsLinked ==
  /\ next \in [Messages -> Nat] /\ prev \in [Messages -> Nat]
  /\ IF tail = 0
     THEN head = 0 /\ (sent = Len(handled) \/ runnable = "deleted")
     ELSE /\ tail = Len(handled) + 1 /\ head = sent /\ tail <= head
          /\ \A m \in tail..head : /\ prev[m] = IF m = head THEN 0 ELSE m + 1
                                   /\ next[m] = IF m = tail THEN 0 ELSE m - 1

\* linked_list_add puts the message accepted last at the head.
LEMMA AddLinks ==
  ASSUME MaxSends \in Nat, HandledInOrder, ListIsLinked, sent < MaxSends, runnable = "live",
         sent' = sent + 1, linked_list_add(sent + 1), UNCHANGED <<handled, runnable>>
  PROVE  HandledInOrder' /\ ListIsLinked'
  <1>1. HandledInOrder'
    BY DEF HandledInOrder
  <1>2. sent + 1 \in Messages /\ Len(handled) \in Nat /\ sent \in Nat
    BY DEF HandledInOrder, Messages
  <1>3. head \in Nat
    BY <1>2 DEF ListIsLinked
  <1>4. next' \in [Messages -> Nat] /\ prev' \in [Messages -> Nat]
    BY <1>2, <1>3 DEF linked_list_add, ListIsLinked
  <1>5. CASE tail = 0
    <2>1. head = 0 /\ sent = Len(handled)
      BY <1>5 DEF ListIsLinked
    <2>2. tail' = sent + 1 /\ head' = sent + 1 /\ next'[sent + 1] = 0 /\ prev'[sent + 1] = 0
      BY <1>2, <2>1 DEF linked_list_add, ListIsLinked
    <2> QED
      BY <1>1, <1>2, <1>4, <2>1, <2>2 DEF ListIsLinked
  <1>6. CASE tail # 0
    <2>1. /\ tail = Len(handled) + 1 /\ head = sent /\ tail <= head
          /\ \A m \in tail..head : /\ prev[m] = IF m = head THEN 0 ELSE m + 1
                                   /\ next[m] = IF m = tail THEN 0 ELSE m - 1
      BY <1>6 DEF ListIsLinked
    <2>2. tail' = tail /\ head' = sent + 1 /\ head # 0
      BY <1>2, <2>1 DEF linked_list_add
    <2>3. ASSUME NEW m \in tail..(sent + 1)
          PROVE  /\ prev'[m] = IF m = sent + 1 THEN 0 ELSE m + 1
                 /\ next'[m] = IF m = tail THEN 0 ELSE m - 1
      <3>1. m \in Messages
        BY <1>2, <2>1 DEF Messages
      <3>2. /\ next'[m] = IF m = sent + 1 THEN head ELSE next[m]
            /\ prev'[m] = IF m = head THEN sent + 1 ELSE IF m = sent + 1 THEN 0 ELSE prev[m]
        BY <3>1 DEF linked_list_add, ListIsLinked
      <3>3. CASE m = sent + 1
        BY <1>2, <2>1, <3>2, <3>3
      <3>4. CASE m # sent + 1
        <4>1. m \in tail..head
          BY <1>2, <2>1, <3>4
        <4> QED
          BY <1>2, <2>1, <3>2, <3>4, <4>1
      <3> QED
        BY <3>3, <3>4
    <2> QED
      BY <1>1, <1>2, <1>4, <2>1, <2>2, <2>3 DEF ListIsLinked
  <1> QED
    BY <1>1, <1>5, <1>6

\* linked_list_remove takes the oldest message, the next one to be handled.
LEMMA RemoveLinks ==
  ASSUME MaxSends \in Nat, HandledInOrder, ListIsLinked,
         linked_list_remove, handled' = Append(handled, tail), UNCHANGED <<sent, runnable>>
  PROVE  HandledInOrder' /\ ListIsLinked'
  <1>1. /\ tail = Len(handled) + 1 /\ head = sent /\ tail <= head
        /\ \A m \in tail..head : /\ prev[m] = IF m = head THEN 0 ELSE m + 1
                                 /\ next[m] = IF m = tail THEN 0 ELSE m - 1
    BY DEF ListIsLinked, linked_list_remove
  <1>2. sent \in 0..MaxSends /\ Len(handled) \in Nat
    BY DEF HandledInOrder
  <1>3. handled' \in Seq(Nat) /\ Len(handled') = Len(handled) + 1
    BY <1>1, <1>2 DEF HandledInOrder
  <1>4. \A i \in 1..Len(handled') : handled'[i] = i
    BY <1>1, <1>2, <1>3 DEF HandledInOrder
  <1>5. HandledInOrder'
    BY <1>1, <1>2, <1>3, <1>4 DEF HandledInOrder
  <1>6. tail \in Messages /\ prev[tail] = IF tail = head THEN 0 ELSE tail + 1
    BY <1>1, <1>2 DEF Messages
  <1>7. /\ tail' = prev[tail] /\ prev' = prev
        /\ head' = IF prev[tail] = 0 THEN 0 ELSE head
        /\ next' = [x \in Messages |-> IF x = prev[tail] THEN 0 ELSE next[x]]
    BY DEF linked_list_remove
  <1>8. next' \in [Messages -> Nat] /\ prev' \in [Messages -> Nat]
    BY <1>7 DEF ListIsLinked
  <1>9. CASE tail = head
    BY <1>1, <1>2, <1>3, <1>5, <1>6, <1>7, <1>8, <1>9 DEF ListIsLinked
  <1>10. CASE tail # head
    <2>1. tail' = tail + 1 /\ head' = head
      BY <1>1, <1>2, <1>6, <1>7, <1>10
    <2>2. ASSUME NEW m \in (tail + 1)..head
          PROVE  /\ prev'[m] = IF m = head THEN 0 ELSE m + 1
                 /\ next'[m] = IF m = tail + 1 THEN 0 ELSE m - 1
      <3>1. m \in Messages /\ m \in tail..head
        BY <1>1, <1>2 DEF Messages
      <3> QED
        BY <1>1, <1>2, <1>7, <2>1, <3>1
    <2> QED
      BY <1>1, <1>2, <1>3, <1>5, <1>8, <1>10, <2>1, <2>2 DEF ListIsLinked
  <1> QED
    BY <1>5, <1>9, <1>10

\* Every step keeps the list linked and the messages in order.
LEMMA LinkedStep ==
  ASSUME MaxSends \in Nat, HandledInOrder, ListIsLinked, [Next]_vars
  PROVE  HandledInOrder' /\ ListIsLinked'
  <1>1. CASE UNCHANGED <<next, prev, head, tail, sent, handled>> /\ (runnable = "deleted" => runnable' = "deleted")
    BY <1>1 DEF HandledInOrder, ListIsLinked
  <1>2. CASE UNCHANGED <<next, prev, sent, handled>> /\ head' = 0 /\ tail' = 0 /\ runnable' = "deleted"
    BY <1>2 DEF HandledInOrder, ListIsLinked
  <1>3. CASE UNCHANGED queueVars /\ (Thread \/ Parent \/ \E j \in BOOLEAN : create(j))
    BY <1>1, <1>3 DEF queueVars, Thread, begin, prerun, loop, leave,
                      Parent, started, bye, join, release, create
  <1>4. CASE run
    <2>1. runnable' = runnable
      BY <1>4 DEF run, ran
    <2>2. CASE linked_list_remove /\ handled' = Append(handled, tail)
      BY <1>4, <2>1, <2>2, RemoveLinks DEF run
    <2> QED
      BY <1>1, <1>4, <2>1, <2>2 DEF run
  <1>5. CASE msg_q_rcv \/ runUnblocked \/ waitAgain \/ wakeSpuriously \/ destroy
    BY <1>1, <1>5 DEF msg_q_rcv, runUnblocked, waitAgain, wakeSpuriously, destroy, threadVars,
                      queueVars, ran
  <1>6. CASE deleteTask \/ destroyUnstarted
    BY <1>2, <1>6 DEF deleteTask, destroyUnstarted, postrun, linked_list_flush
  <1>7. CASE sendMsg
    BY <1>1, <1>7, AddLinks DEF sendMsg, threadVars
  <1>8. CASE UNCHANGED vars
    BY <1>1, <1>8 DEF vars, threadVars, queueVars
  <1> QED
    BY <1>3, <1>4, <1>5, <1>6, <1>7, <1>8 DEF Next, Receive

\* The list starts empty.
LEMMA LinkedInit ==
  ASSUME MaxSends \in Nat, Init
  PROVE  HandledInOrder /\ ListIsLinked
  BY DEF Init, ThreadInit, HandledInOrder, ListIsLinked, Messages

\* The links of msg_q's list join the messages between its tail and its head
\* in both directions, and messages are handled in the order of their numbers.
THEOREM MessagesStayLinked ==
  ASSUME MaxSends \in Nat
  PROVE  Spec => [](HandledInOrder /\ ListIsLinked)
  <1>1. Init => HandledInOrder /\ ListIsLinked
    BY LinkedInit
  <1>2. HandledInOrder /\ ListIsLinked /\ [Next]_vars => (HandledInOrder /\ ListIsLinked)'
    BY LinkedStep
  <1> QED
    BY <1>1, <1>2, PTL DEF Spec

-----------------------------------------------------------------------------
(* Walking the list.  Walk is a recursive function: to say what it is one    *)
(* gives a function that satisfies its equation, and SameFrom shows that     *)
(* there is no other.                                                        *)

\* Two functions that start alike and go on alike are alike.
LEMMA SameFrom ==
  ASSUME NEW n \in Nat, NEW g, NEW f, g[0] = f[0],
         \A i \in 1..n : g[i - 1] = f[i - 1] => g[i] = f[i]
  PROVE  \A i \in 0..n : g[i] = f[i]
  <1> DEFINE Wrong == {i \in 0..n : g[i] # f[i]}
  <1>1. SUFFICES ASSUME Wrong # {}
                 PROVE  FALSE
    OBVIOUS
  <1>2. Wrong \subseteq Nat
    OBVIOUS
  <1>3. PICK k \in Wrong : \A j \in Wrong : ~(<<j, k>> \in OpToRel(<, Nat))
    <2> HIDE DEF Wrong
    <2> QED
      BY <1>1, <1>2, NatLessThanWellFounded, WFMin
  <1>4. k \in 0..n /\ k # 0 /\ g[k] # f[k]
    BY <1>3
  <1>5. k \in 1..n /\ k - 1 \in 0..n /\ k - 1 < k
    BY <1>4
  <1>6. \A j \in Wrong : ~(j < k)
    BY <1>2, <1>3 DEF OpToRel
  <1>7. g[k - 1] = f[k - 1]
    BY <1>5, <1>6
  <1> QED
    BY <1>4, <1>5, <1>7

\* f is a walk of the list from e by the links in l.
Follows(f, e, l) ==
  f = [i \in 0..MaxSends |-> IF i = 0 THEN e ELSE IF f[i - 1] = 0 THEN 0 ELSE l[f[i - 1]]]

\* Walk starts and goes on so, provided that some function does.
LEMMA WalkFollows ==
  ASSUME MaxSends \in Nat, NEW e, NEW l, \E f : Follows(f, e, l)
  PROVE  /\ Walk(e, l)[0] = e
         /\ \A i \in 1..MaxSends :
              Walk(e, l)[i] = IF Walk(e, l)[i - 1] = 0 THEN 0 ELSE l[Walk(e, l)[i - 1]]
  <1> DEFINE g == CHOOSE f : Follows(f, e, l)
  <1>1. Follows(g, e, l)
    OBVIOUS
  <1>2. Walk(e, l) = g
    BY DEF Walk, Follows
  <1> HIDE DEF g
  <1>3. g[0] = e
    BY <1>1 DEF Follows
  <1>4. ASSUME NEW i \in 1..MaxSends
        PROVE  g[i] = IF g[i - 1] = 0 THEN 0 ELSE l[g[i - 1]]
    <2>1. i \in 0..MaxSends /\ i # 0
      OBVIOUS
    <2> QED
      BY <1>1, <2>1 DEF Follows
  <1> QED
    BY <1>2, <1>3, <1>4

\* A function that starts and goes on as the walk should is the walk.
LEMMA WalkIs ==
  ASSUME MaxSends \in Nat, NEW e, NEW l, NEW f,
         Follows(f, e, l)
  PROVE  \A i \in 0..MaxSends : Walk(e, l)[i] = f[i]
  <1>1. /\ f[0] = e
        /\ \A i \in 1..MaxSends : f[i] = IF f[i - 1] = 0 THEN 0 ELSE l[f[i - 1]]
    <2>1. \A i \in 1..MaxSends : i \in 0..MaxSends /\ i # 0
      OBVIOUS
    <2> QED
      BY <2>1 DEF Follows
  <1> DEFINE g == Walk(e, l)
  <1>2. /\ g[0] = e
        /\ \A i \in 1..MaxSends : g[i] = IF g[i - 1] = 0 THEN 0 ELSE l[g[i - 1]]
    BY WalkFollows
  <1>3. \A i \in 0..MaxSends : g[i] = f[i]
    <2> HIDE DEF g
    <2> QED
      BY <1>1, <1>2, SameFrom
  <1> QED
    BY <1>3

\* From the tail by p_prev the list goes up to its head, and no further.
LEMMA WalkUp ==
  ASSUME MaxSends \in Nat, HandledInOrder, ListIsLinked, tail # 0
  PROVE  \A i \in 0..MaxSends :
           Walk(tail, prev)[i] = IF i <= head - tail THEN tail + i ELSE 0
  <1> DEFINE f == [i \in 0..MaxSends |-> IF i <= head - tail THEN tail + i ELSE 0]
  <1>1. /\ tail \in Nat /\ head \in Nat /\ 1 <= tail /\ tail <= head
        /\ \A m \in tail..head : prev[m] = IF m = head THEN 0 ELSE m + 1
    BY DEF HandledInOrder, ListIsLinked
  <1>2. ASSUME NEW i \in 0..MaxSends
        PROVE  f[i] = IF i = 0 THEN tail ELSE IF f[i - 1] = 0 THEN 0 ELSE prev[f[i - 1]]
    <2>1. f[i] = IF i <= head - tail THEN tail + i ELSE 0
      OBVIOUS
    <2>2. i # 0 => f[i - 1] = IF i - 1 <= head - tail THEN tail + (i - 1) ELSE 0
      OBVIOUS
    <2> HIDE DEF f
    <2>3. CASE i = 0
      BY <1>1, <2>1, <2>3
    <2>4. CASE i # 0 /\ i - 1 <= head - tail
      <3>1. tail + (i - 1) \in tail..head
        BY <1>1, <2>4
      <3> QED
        BY <1>1, <2>1, <2>2, <2>4, <3>1
    <2>5. CASE i # 0 /\ ~(i - 1 <= head - tail)
      BY <1>1, <2>1, <2>2, <2>5
    <2> QED
      BY <2>3, <2>4, <2>5
  <1>3. Follows(f, tail, prev)
    BY <1>2 DEF Follows
  <1>4. \A i \in 0..MaxSends : Walk(tail, prev)[i] = f[i]
    <2> HIDE DEF f
    <2> QED
      BY <1>3, WalkIs
  <1> QED
    BY <1>4

\* From the head by p_next it goes down to its tail, and no further.
LEMMA WalkDown ==
  ASSUME MaxSends \in Nat, HandledInOrder, ListIsLinked, tail # 0
  PROVE  \A i \in 0..MaxSends :
           Walk(head, next)[i] = IF i <= head - tail THEN head - i ELSE 0
  <1> DEFINE f == [i \in 0..MaxSends |-> IF i <= head - tail THEN head - i ELSE 0]
  <1>1. /\ tail \in Nat /\ head \in Nat /\ 1 <= tail /\ tail <= head
        /\ \A m \in tail..head : next[m] = IF m = tail THEN 0 ELSE m - 1
    BY DEF HandledInOrder, ListIsLinked
  <1>2. ASSUME NEW i \in 0..MaxSends
        PROVE  f[i] = IF i = 0 THEN head ELSE IF f[i - 1] = 0 THEN 0 ELSE next[f[i - 1]]
    <2>1. f[i] = IF i <= head - tail THEN head - i ELSE 0
      OBVIOUS
    <2>2. i # 0 => f[i - 1] = IF i - 1 <= head - tail THEN head - (i - 1) ELSE 0
      OBVIOUS
    <2> HIDE DEF f
    <2>3. CASE i = 0
      BY <1>1, <2>1, <2>3
    <2>4. CASE i # 0 /\ i - 1 <= head - tail
      <3>1. head - (i - 1) \in tail..head
        BY <1>1, <2>4
      <3> QED
        BY <1>1, <2>1, <2>2, <2>4, <3>1
    <2>5. CASE i # 0 /\ ~(i - 1 <= head - tail)
      BY <1>1, <2>1, <2>2, <2>5
    <2> QED
      BY <2>3, <2>4, <2>5
  <1>3. Follows(f, head, next)
    BY <1>2 DEF Follows
  <1>4. \A i \in 0..MaxSends : Walk(head, next)[i] = f[i]
    <2> HIDE DEF f
    <2> QED
      BY <1>3, WalkIs
  <1> QED
    BY <1>4

\* There is nothing to walk in an empty list.
LEMMA WalkNowhere ==
  ASSUME MaxSends \in Nat, NEW l
  PROVE  \A i \in 0..MaxSends : Walk(0, l)[i] = 0
  <1> DEFINE f == [i \in 0..MaxSends |-> 0]
  <1>1. \A i \in 0..MaxSends : i # 0 => i - 1 \in 0..MaxSends
    OBVIOUS
  <1>2. Follows(f, 0, l)
    BY <1>1 DEF Follows
  <1>3. \A i \in 0..MaxSends : Walk(0, l)[i] = f[i]
    <2> HIDE DEF f
    <2> QED
      BY <1>2, WalkIs
  <1> QED
    BY <1>3

-----------------------------------------------------------------------------
(* Both walks meet all messages that are neither handled nor freed.  The     *)
(* messages that are freed are those a deleted task had not handled.         *)

Walked(e, l) == {Walk(e, l)[i] : i \in 0..MaxSends} \ {0}

FreedAtEnd ==
  IF runnable = "deleted"
  THEN head = 0 /\ tail = 0 /\ freed = (Len(handled) + 1)..sent
  ELSE freed = {}

\* Walked from either end the list has the messages from its tail to its head.
LEMMA WalkedList ==
  ASSUME MaxSends \in Nat, HandledInOrder, ListIsLinked
  PROVE  /\ tail = 0 => Walked(head, next) = {} /\ Walked(tail, prev) = {}
         /\ tail # 0 => Walked(head, next) = tail..head /\ Walked(tail, prev) = tail..head
  <1>1. CASE tail = 0
    <2>1. head = 0
      BY <1>1 DEF ListIsLinked
    <2> QED
      BY <1>1, <2>1, WalkNowhere DEF Walked
  <1>2. CASE tail # 0
    <2>1. /\ tail \in Nat /\ head \in Nat /\ 1 <= tail /\ tail <= head /\ head <= MaxSends
      BY <1>2 DEF HandledInOrder, ListIsLinked
    <2>2. Walked(head, next) = tail..head
      <3>1. \A i \in 0..MaxSends : Walk(head, next)[i] = IF i <= head - tail THEN head - i ELSE 0
        BY <1>2, WalkDown
      <3>2. ASSUME NEW m \in tail..head
            PROVE  m \in Walked(head, next)
        <4>1. head - m \in 0..MaxSends /\ head - m <= head - tail /\ head - (head - m) = m /\ m # 0
          BY <2>1
        <4> QED
          BY <3>1, <4>1 DEF Walked
      <3>3. ASSUME NEW m \in Walked(head, next)
            PROVE  m \in tail..head
        <4>1. PICK i \in 0..MaxSends : m = Walk(head, next)[i] /\ m # 0
          BY DEF Walked
        <4>2. i <= head - tail /\ m = head - i
          BY <3>1, <4>1
        <4> QED
          BY <2>1, <4>2
      <3> QED
        BY <3>2, <3>3
    <2>3. Walked(tail, prev) = tail..head
      <3>1. \A i \in 0..MaxSends : Walk(tail, prev)[i] = IF i <= head - tail THEN tail + i ELSE 0
        BY <1>2, WalkUp
      <3>2. ASSUME NEW m \in tail..head
            PROVE  m \in Walked(tail, prev)
        <4>1. m - tail \in 0..MaxSends /\ m - tail <= head - tail /\ tail + (m - tail) = m /\ m # 0
          BY <2>1
        <4> QED
          BY <3>1, <4>1 DEF Walked
      <3>3. ASSUME NEW m \in Walked(tail, prev)
            PROVE  m \in tail..head
        <4>1. PICK i \in 0..MaxSends : m = Walk(tail, prev)[i] /\ m # 0
          BY DEF Walked
        <4>2. i <= head - tail /\ m = tail + i
          BY <3>1, <4>1
        <4> QED
          BY <2>1, <4>2
      <3> QED
        BY <3>2, <3>3
    <2> QED
      BY <1>2, <2>2, <2>3
  <1> QED
    BY <1>1, <1>2

\* Every step keeps account of the messages freed: a flush frees those in the
\* list, and only a task that is deleted is flushed.
LEMMA FreedStep ==
  ASSUME MaxSends \in Nat, HandledInOrder, ListIsLinked, FreedAtEnd, [Next]_vars
  PROVE  FreedAtEnd'
  <1>1. CASE UNCHANGED <<head, tail, sent, handled, freed>> /\ (runnable = "deleted" <=> runnable' = "deleted")
    BY <1>1 DEF FreedAtEnd
  <1>2. CASE deleteTask \/ destroyUnstarted
    <2>1. /\ freed' = freed \union Walked(head, next) /\ head' = 0 /\ tail' = 0
          /\ UNCHANGED <<sent, handled>> /\ runnable' = "deleted"
      BY <1>2 DEF deleteTask, destroyUnstarted, postrun, linked_list_flush, Walked
    <2>2. sent \in Nat /\ Len(handled) \in Nat
      BY DEF HandledInOrder
    <2>3. CASE tail = 0
      <3>1. Walked(head, next) = {}
        BY <2>3, WalkedList
      <3>2. runnable = "deleted" \/ sent = Len(handled)
        BY <2>3 DEF ListIsLinked
      <3>3. sent = Len(handled) => (Len(handled) + 1)..sent = {}
        BY <2>2
      <3> QED
        BY <2>1, <3>1, <3>2, <3>3 DEF FreedAtEnd
    <2>4. CASE tail # 0
      <3>1. Walked(head, next) = tail..head
        BY <2>4, WalkedList
      <3>2. tail = Len(handled) + 1 /\ head = sent
        BY <2>4 DEF ListIsLinked
      <3> QED
        BY <2>1, <2>4, <3>1, <3>2 DEF FreedAtEnd
    <2> QED
      BY <2>3, <2>4
  <1>3. CASE UNCHANGED queueVars /\ (Thread \/ Parent \/ \E j \in BOOLEAN : create(j))
    BY <1>1, <1>3 DEF queueVars, Thread, begin, prerun, loop, leave,
                      Parent, started, bye, join, release, create
  <1>4. CASE run
    <2>1. runnable' = runnable /\ freed' = freed
      BY <1>4 DEF run, ran
    <2>2. CASE tail # 0
      BY <2>1, <2>2 DEF FreedAtEnd
    <2>3. CASE tail = 0
      BY <1>1, <1>4, <2>1, <2>3 DEF run, linked_list_remove
    <2> QED
      BY <2>2, <2>3
  <1>5. CASE msg_q_rcv \/ runUnblocked \/ waitAgain \/ wakeSpuriously \/ destroy
    BY <1>1, <1>5 DEF msg_q_rcv, runUnblocked, waitAgain, wakeSpuriously, destroy, threadVars,
                      queueVars, ran
  <1>6. CASE sendMsg
    BY <1>6 DEF sendMsg, threadVars, FreedAtEnd
  <1>7. CASE UNCHANGED vars
    BY <1>1, <1>7 DEF vars, threadVars, queueVars
  <1> QED
    BY <1>2, <1>3, <1>4, <1>5, <1>6, <1>7 DEF Next, Receive

\* The account of the messages makes the list sound.
LEMMA AccountIsSound ==
  ASSUME MaxSends \in Nat, HandledInOrder, ListIsLinked, FreedAtEnd
  PROVE  ListIsSound
  <1> DEFINE done == {handled[i] : i \in DOMAIN handled}
             queued == {Queued[i] : i \in DOMAIN Queued}
  <1>1. sent \in Nat /\ Len(handled) \in Nat /\ Len(handled) <= sent
    BY DEF HandledInOrder
  <1>2. done = 1..Len(handled)
    <2>1. DOMAIN handled = 1..Len(handled)
      BY DEF HandledInOrder
    <2>2. \A i \in 1..Len(handled) : handled[i] = i
      BY DEF HandledInOrder
    <2> QED
      BY <2>1, <2>2
  <1>3. /\ Walked(head, next) = Walked(tail, prev) /\ Walked(head, next) = queued
        /\ Walked(head, next) = (1..sent) \ (done \union freed)
        /\ done \intersect freed = {}
        /\ runnable = "deleted" => Walked(head, next) = {}
    <2>1. CASE tail = 0
      <3>1. Walked(head, next) = {} /\ Walked(tail, prev) = {}
        BY <2>1, WalkedList
      <3>2. queued = {}
        BY <2>1 DEF Queued
      <3>3. freed = (Len(handled) + 1)..sent
        <4>1. sent = Len(handled) => (Len(handled) + 1)..sent = {}
          BY <1>1
        <4> QED
          BY <2>1, <4>1 DEF FreedAtEnd, ListIsLinked
      <3> HIDE DEF done
      <3> QED
        BY <1>1, <1>2, <3>1, <3>2, <3>3
    <2>2. CASE tail # 0
      <3>1. Walked(head, next) = tail..head /\ Walked(tail, prev) = tail..head
        BY <2>2, WalkedList
      <3>2. tail = Len(handled) + 1 /\ head = sent /\ tail <= head
        BY <2>2 DEF ListIsLinked
      <3>3. freed = {} /\ runnable # "deleted"
        BY <2>2 DEF FreedAtEnd
      <3>4. queued = tail..head
        <4>1. Queued = FromTo(tail, head)
          BY <2>2 DEF Queued
        <4>2. /\ DOMAIN FromTo(tail, head) = 1..(head - tail + 1)
              /\ \A i \in 1..(head - tail + 1) : FromTo(tail, head)[i] = tail + i - 1
          BY DEF FromTo
        <4>3. ASSUME NEW m \in tail..head
              PROVE  m \in queued
          <5>1. m - tail + 1 \in 1..(head - tail + 1) /\ tail + (m - tail + 1) - 1 = m
            BY <1>1, <3>2
          <5> QED
            BY <4>1, <4>2, <5>1
        <4>4. ASSUME NEW i \in 1..(head - tail + 1)
              PROVE  tail + i - 1 \in tail..head
          BY <1>1, <3>2
        <4> QED
          BY <4>1, <4>2, <4>3, <4>4
      <3> HIDE DEF done, queued
      <3> QED
        BY <1>1, <1>2, <3>1, <3>2, <3>3, <3>4
    <2> QED
      BY <2>1, <2>2
  <1> QED
    BY <1>3 DEF ListIsSound, Walked

\* Walked from its head and from its tail the list of a task has the same
\* messages, those that were accepted and neither handled nor freed; a task
\* that is deleted leaves none.
THEOREM MessagesAreSound ==
  ASSUME MaxSends \in Nat
  PROVE  Spec => []ListIsSound
  <1> DEFINE Inv == HandledInOrder /\ ListIsLinked /\ FreedAtEnd
  <1>1. Init => Inv
    <2>1. Init => FreedAtEnd
      BY DEF Init, ThreadInit, FreedAtEnd
    <2> QED
      BY <2>1, LinkedInit
  <1>2. Inv /\ [Next]_vars => Inv'
    BY LinkedStep, FreedStep
  <1>3. Inv => ListIsSound
    BY AccountIsSound
  <1> QED
    BY <1>1, <1>2, <1>3, PTL DEF Spec
-----------------------------------------------------------------------------
(* The refinement of Fifo.  Beside the list it needs to know that the task   *)
(* is not deleted before the queue is unblocked, and that the receiver which *)
(* handled a message after that is not let in again.                         *)

Closing ==
  /\ unblocked \in BOOLEAN /\ lastOne \in BOOLEAN /\ mRunnable \in BOOLEAN
  /\ lastOne => unblocked /\ rcv = "enter"
  /\ parent \in {"leaving", "join", "release", "gone"} => unblocked
  /\ thr = "postrun" => unblocked
  /\ thr \in {"begin", "prerun", "loop", "run"} /\ ~mRunnable => unblocked

\* Every step keeps the order of closing.
LEMMA ClosingStep ==
  ASSUME Closing, ListIsLinked, [Next]_vars
  PROVE  Closing'
  <1> USE DEF Closing
  <1>1. CASE UNCHANGED queueVars /\ Thread
    BY <1>1 DEF queueVars, Thread, begin, prerun, loop, leave
  <1>2. CASE UNCHANGED queueVars /\ Parent
    BY <1>2 DEF queueVars, Parent, started, bye, join, release
  <1>3. ASSUME NEW j \in BOOLEAN, create(j), UNCHANGED queueVars
        PROVE  Closing'
    BY <1>3 DEF create, queueVars
  <1>4. CASE run
    <2>1. tail = 0 => unblocked
      BY <1>4 DEF run, ListIsLinked, linked_list_empty
    <2>2. UNCHANGED <<unblocked, mRunnable, parent>> /\ rcv' = "enter" /\ rcv = "woken"
      BY <1>4 DEF run, ran
    <2>3. \/ thr' = "loop" /\ lastOne' = unblocked
          \/ thr' = "postrun" /\ tail = 0 /\ lastOne' = lastOne
      BY <1>4 DEF run, ran
    <2>4. thr = "run"
      BY <1>4 DEF run
    <2> QED
      BY <2>1, <2>2, <2>3, <2>4
  <1>5. CASE msg_q_rcv \/ waitAgain \/ wakeSpuriously
    BY <1>5 DEF msg_q_rcv, waitAgain, wakeSpuriously, threadVars
  <1>6. CASE runUnblocked
    BY <1>6 DEF runUnblocked, ran, queueVars
  <1>7. CASE deleteTask
    BY <1>7 DEF deleteTask, postrun
  <1>8. CASE destroy \/ destroyUnstarted
    <2>1. unblocked' = TRUE /\ UNCHANGED <<thr, mRunnable, lastOne>>
      BY <1>8 DEF destroy, destroyUnstarted
    <2>2. rcv = "enter" => rcv' = "enter"
      BY <1>8 DEF destroy, destroyUnstarted
    <2> QED
      BY <2>1, <2>2
  <1>9. CASE sendMsg
    BY <1>9 DEF sendMsg, threadVars
  <1>10. CASE UNCHANGED vars
    BY <1>10 DEF vars, threadVars, queueVars
  <1> QED
    BY <1>1, <1>2, <1>3, <1>4, <1>5, <1>6, <1>7, <1>8, <1>9, <1>10 DEF Next, Receive

\* The messages from m to n, as a sequence: what it is to append to it and to
\* take its first.
LEMMA FromToProperties ==
  ASSUME NEW m \in Nat, NEW n \in Nat, m <= n
  PROVE  /\ FromTo(m, n) # <<>> /\ Head(FromTo(m, n)) = m
         /\ FromTo(m, m) = <<m>> /\ Append(<<>>, m) = <<m>>
         /\ Tail(FromTo(m, m)) = <<>>
         /\ FromTo(m, n + 1) = Append(FromTo(m, n), n + 1)
         /\ m # n => FromTo(m + 1, n) = Tail(FromTo(m, n))
  <1>1. ASSUME NEW a \in Nat, NEW b \in Nat, a <= b
        PROVE  /\ FromTo(a, b) \in Seq(Nat) /\ Len(FromTo(a, b)) = b - a + 1
               /\ \A i \in 1..(b - a + 1) : FromTo(a, b)[i] = a + i - 1
    <2>1. b - a + 1 \in Nat /\ \A i \in 1..(b - a + 1) : a + i - 1 \in Nat
      BY <1>1
    <2> QED
      BY <2>1 DEF FromTo
  <1>2. FromTo(m, n) # <<>> /\ Head(FromTo(m, n)) = m
    <2>1. /\ FromTo(m, n) \in Seq(Nat) /\ Len(FromTo(m, n)) = n - m + 1
          /\ \A i \in 1..(n - m + 1) : FromTo(m, n)[i] = m + i - 1
      BY <1>1
    <2>2. 1 \in 1..(n - m + 1) /\ m + 1 - 1 = m
      OBVIOUS
    <2>3. FromTo(m, n)[1] = m
      BY <2>1, <2>2
    <2> QED
      BY <2>1, <2>3
  <1>3. FromTo(m, m) = <<m>>
    <2>1. <<m>> \in Seq(Nat) /\ Len(<<m>>) = 1 /\ <<m>>[1] = m
      OBVIOUS
    <2>2. /\ FromTo(m, m) = [i \in 1..1 |-> m + i - 1]
          /\ \A i \in 1..1 : m + i - 1 \in Nat
      BY DEF FromTo
    <2>3. FromTo(m, m) \in Seq(Nat) /\ Len(FromTo(m, m)) = 1
      BY <2>2
    <2>4. FromTo(m, m)[1] = m
      BY <2>2
    <2> QED
      BY <2>1, <2>3, <2>4, SeqEqual
  <1>4. FromTo(m, n + 1) = Append(FromTo(m, n), n + 1)
    <2>1. /\ FromTo(m, n + 1) \in Seq(Nat) /\ Len(FromTo(m, n + 1)) = n - m + 2
          /\ \A i \in 1..(n - m + 2) : FromTo(m, n + 1)[i] = m + i - 1
      BY <1>1
    <2>2. /\ FromTo(m, n) \in Seq(Nat) /\ Len(FromTo(m, n)) = n - m + 1
          /\ \A i \in 1..(n - m + 1) : FromTo(m, n)[i] = m + i - 1
      BY <1>1
    <2>3. /\ Append(FromTo(m, n), n + 1) \in Seq(Nat)
          /\ Len(Append(FromTo(m, n), n + 1)) = n - m + 2
          /\ \A i \in 1..(n - m + 2) : Append(FromTo(m, n), n + 1)[i] = m + i - 1
      BY <2>2
    <2> QED
      BY <2>1, <2>3, SeqEqual
  <1>5. ASSUME m # n
        PROVE  FromTo(m + 1, n) = Tail(FromTo(m, n))
    <2>1. /\ FromTo(m + 1, n) \in Seq(Nat) /\ Len(FromTo(m + 1, n)) = n - m
          /\ \A i \in 1..(n - m) : FromTo(m + 1, n)[i] = m + i
      <3>1. m + 1 \in Nat /\ m + 1 <= n
        BY <1>5
      <3>2. /\ FromTo(m + 1, n) \in Seq(Nat) /\ Len(FromTo(m + 1, n)) = n - (m + 1) + 1
            /\ \A i \in 1..(n - (m + 1) + 1) : FromTo(m + 1, n)[i] = m + 1 + i - 1
        BY <1>1, <3>1
      <3> QED
        BY <3>2
    <2>2. /\ FromTo(m, n) \in Seq(Nat) /\ Len(FromTo(m, n)) = n - m + 1
          /\ \A i \in 1..(n - m + 1) : FromTo(m, n)[i] = m + i - 1
      BY <1>1
    <2>3. /\ Tail(FromTo(m, n)) \in Seq(Nat) /\ Len(Tail(FromTo(m, n))) = n - m
          /\ \A i \in 1..(n - m) : Tail(FromTo(m, n))[i] = m + i
      BY <1>2, <2>2
    <2> QED
      BY <2>1, <2>3, SeqEqual
  <1>6. Append(<<>>, m) = <<m>> /\ Tail(<<m>>) = <<>>
    OBVIOUS
  <1> QED
    BY <1>2, <1>3, <1>4, <1>5, <1>6

\* Every step of the task is a step of Fifo or leaves it alone: a send accepts,
\* a message taken from the tail is the first of the queue, a flush discards.
LEMMA FifoStep ==
  ASSUME MaxSends \in Nat, HandledInOrder, ListIsLinked, Closing, [Next]_vars
  PROVE  [Abstract!Next]_(Abstract!vars)
  <1> USE DEF Abstract!vars
  <1>1. CASE UNCHANGED <<head, tail, sent, handled, unblocked, lastOne>>
    BY <1>1 DEF Queued
  <1>2. CASE UNCHANGED queueVars
    BY <1>1, <1>2 DEF queueVars
  <1>3. CASE msg_q_rcv \/ runUnblocked \/ waitAgain \/ wakeSpuriously
    BY <1>1, <1>3 DEF msg_q_rcv, runUnblocked, waitAgain, wakeSpuriously, queueVars
  <1>4. CASE sendMsg /\ ~unblocked
    <2>1. /\ sent' = sent + 1 /\ linked_list_add(sent + 1) /\ runnable = "live"
          /\ UNCHANGED <<handled, unblocked, lastOne>>
      BY <1>4 DEF sendMsg
    <2>2. sent \in Nat /\ Len(handled) \in Nat
      BY DEF HandledInOrder
    <2>3. Queued' = Append(Queued, sent + 1)
      <3>1. CASE tail = 0
        <4>1. head' = sent + 1 /\ tail' = sent + 1
          BY <2>1, <3>1 DEF linked_list_add, ListIsLinked
        <4>2. Queued' = FromTo(sent + 1, sent + 1) /\ Queued = <<>>
          BY <2>2, <3>1, <4>1 DEF Queued
        <4> QED
          BY <2>2, <4>2, FromToProperties
      <3>2. CASE tail # 0
        <4>1. tail \in Nat /\ head = sent /\ tail <= head /\ head' = sent + 1 /\ tail' = tail
          BY <2>1, <2>2, <3>2 DEF linked_list_add, ListIsLinked
        <4>2. Queued = FromTo(tail, sent) /\ Queued' = FromTo(tail, sent + 1)
          BY <3>2, <4>1 DEF Queued
        <4> QED
          BY <2>2, <4>1, <4>2, FromToProperties
      <3> QED
        BY <3>1, <3>2
    <2>4. ~unblocked
      BY <1>4
    <2> QED
      BY <2>1, <2>3, <2>4 DEF Abstract!Next, Abstract!Accept
  <1>5. CASE sendMsg /\ unblocked
    BY <1>1, <1>5 DEF sendMsg
  <1>6. CASE destroy
    <2>1. UNCHANGED <<head, tail, sent, handled, lastOne>> /\ unblocked' = TRUE
      BY <1>6 DEF destroy
    <2>2. CASE ~unblocked
      <3>1. ~lastOne
        BY <2>2 DEF Closing
      <3> QED
        BY <2>1, <2>2, <3>1 DEF Queued, Abstract!Next, Abstract!Close
    <2>3. CASE unblocked
      BY <2>1, <2>3 DEF Queued, Closing
    <2> QED
      BY <2>2, <2>3
  <1>7. CASE deleteTask \/ destroyUnstarted
    <2>1. UNCHANGED <<sent, handled, lastOne>> /\ head' = 0 /\ tail' = 0 /\ unblocked' = TRUE
      BY <1>7 DEF deleteTask, destroyUnstarted, linked_list_flush, postrun, Closing
    <2>2. Queued' = <<>>
      BY <2>1 DEF Queued
    <2>3. ~unblocked => ~lastOne
      BY DEF Closing
    <2> QED
      BY <2>1, <2>2, <2>3 DEF Abstract!Next, Abstract!Discard
  <1>8. CASE run
    <2>1. UNCHANGED <<unblocked, sent>> /\ rcv = "woken"
      BY <1>8 DEF run
    <2>2. ~lastOne
      BY <2>1 DEF Closing
    <2>3. CASE linked_list_remove /\ handled' = Append(handled, tail) /\ lastOne' = unblocked
      <3>1. /\ tail = Len(handled) + 1 /\ head = sent /\ tail <= head
            /\ \A m \in tail..head : prev[m] = IF m = head THEN 0 ELSE m + 1
        BY <2>3 DEF ListIsLinked, linked_list_remove
      <3>2. tail \in Nat \ {0} /\ head \in Nat
        BY <3>1 DEF HandledInOrder
      <3>3. prev[tail] = IF tail = head THEN 0 ELSE tail + 1
        BY <3>1, <3>2
      <3>4. Queued = FromTo(tail, head)
        BY <3>2 DEF Queued
      <3>5. Queued # <<>> /\ Head(Queued) = tail
        BY <3>1, <3>2, <3>4, FromToProperties
      <3>6. Queued' = Tail(Queued)
        <4>1. CASE tail = head
          <5>1. tail' = 0
            BY <2>3, <3>2, <3>3, <4>1 DEF linked_list_remove
          <5>2. Queued' = <<>>
            BY <5>1 DEF Queued
          <5>3. tail <= tail /\ tail \in Nat
            BY <3>2
          <5>4. Tail(FromTo(tail, tail)) = <<>>
            BY <5>3, FromToProperties
          <5> QED
            BY <3>4, <4>1, <5>2, <5>4
        <4>2. CASE tail # head
          <5>1. tail' = tail + 1 /\ head' = head
            BY <2>3, <3>2, <3>3, <4>2 DEF linked_list_remove
          <5>2. Queued' = FromTo(tail + 1, head)
            BY <3>2, <5>1 DEF Queued
          <5> QED
            BY <3>1, <3>2, <3>4, <4>2, <5>2, FromToProperties
        <4> QED
          BY <4>1, <4>2
      <3> QED
        BY <2>1, <2>2, <2>3, <3>5, <3>6 DEF Abstract!Next, Abstract!Handle, Closing
    <2>4. CASE UNCHANGED <<head, tail, handled, lastOne>>
      BY <1>1, <2>1, <2>4
    <2> QED
      BY <1>8, <2>3, <2>4 DEF run
  <1>9. CASE UNCHANGED vars
    BY <1>2, <1>9 DEF vars
  <1> QED
    BY <1>2, <1>3, <1>4, <1>5, <1>6, <1>7, <1>8, <1>9 DEF Next, Receive

\* The list under its mutex and the task that reads it implement a first in,
\* first out queue: each message is handled once, in order, and at most one
\* after the queue is unblocked.
THEOREM TaskImplementsFifo ==
  ASSUME MaxSends \in Nat
  PROVE  Spec => ImplementsFifo
  <1> DEFINE Inv == HandledInOrder /\ ListIsLinked /\ Closing
  <1>1. Init => Inv /\ Abstract!Init
    <2>1. Init => HandledInOrder /\ ListIsLinked
      BY LinkedInit
    <2>2. Init => Closing
      BY DEF Init, ThreadInit, Closing
    <2>3. Init => Abstract!Init
      BY DEF Init, Abstract!Init, Queued
    <2> QED
      BY <2>1, <2>2, <2>3
  <1>2. Inv /\ [Next]_vars => Inv'
    BY LinkedStep, ClosingStep
  <1>3. Inv /\ [Next]_vars => [Abstract!Next]_(Abstract!vars)
    BY FifoStep
  <1> QED
    BY <1>1, <1>2, <1>3, PTL DEF Spec, ImplementsFifo, Abstract!Spec
=============================================================================
