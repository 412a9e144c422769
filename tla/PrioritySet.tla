---------------------------- MODULE PrioritySet -----------------------------
(***************************************************************************)
(* What the timers need of LocHeap (gps/utils/LocHeap.h): a set of         *)
(* rankable objects from which one of the highest rank is taken, or the    *)
(* very object that is given is removed.  Objects of equal rank come out   *)
(* in any order.                                                           *)
(*                                                                         *)
(* Of remove LocHeap.h (84-87) promises something else, to find the node   *)
(* that ranks the same as the input; LocHeap.cpp (161-167) says and does   *)
(* what is stated here: an object that is absent is not found although     *)
(* another one ranks the same.                                             *)
(***************************************************************************)
EXTENDS Integers

CONSTANTS
  Items,        \* the objects
  Rank,         \* [Items -> Int]: LocRankable::ranks compares these; lower ranks first
  None          \* NULL

VARIABLES
  items,        \* the objects in the container
  returned      \* the last call that returned an object, and its result

vars == <<items, returned>>

-----------------------------------------------------------------------------
Highest == {d \in items : \A e \in items : ~ (Rank[e] < Rank[d])}

Init == items = {} /\ returned = <<"none", None>>

Push(d) == d \notin items /\ items' = items \union {d} /\ UNCHANGED returned

Pop ==
  \/ items = {} /\ returned' = <<"pop", None>> /\ UNCHANGED items
  \/ \E d \in Highest : returned' = <<"pop", d>> /\ items' = items \ {d}

Remove(d) ==
  /\ returned' = <<"remove", IF d \in items THEN d ELSE None>>
  /\ items' = items \ {d}

Next == Pop \/ \E d \in Items : Push(d) \/ Remove(d)

Spec == Init /\ [][Next]_vars
=============================================================================
