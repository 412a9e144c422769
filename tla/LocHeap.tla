------------------------------ MODULE LocHeap -------------------------------
(***************************************************************************)
(* LocHeap (gps/utils/LocHeap.cpp): the binary tree that keeps the timers  *)
(* in the order of their expiry.  push swaps data on its way down and goes *)
(* to the smaller subtree; pop lifts the higher ranked child up to the     *)
(* hole, level by level, without balancing; remove searches by address     *)
(* below every node the object does not outrank, and pops what it finds.   *)
(*                                                                         *)
(* A node is [data, size, left, right] and Nil is NULL.                    *)
(***************************************************************************)
EXTENDS Integers

CONSTANTS
  Items,   \* the LocRankable objects
  Rank,    \* [Items -> Int]; LocTimerDelegate ranks by expiry, the sooner the higher
  None     \* NULL, as the result of pop and remove

VARIABLES
  tree,    \* mTree
  returned \* the last call that returned an object, and its result

vars == <<tree, returned>>

-----------------------------------------------------------------------------
Nil == [size |-> 0]

Node(data) == [data |-> data, size |-> 1, left |-> Nil, right |-> Nil]

ranks(d, e) == Rank[e] - Rank[d]
outRanks(d, e) == ranks(d, e) > 0

\* The nodes of a tree: no path in it is longer than its size
Nodes(top) ==
  LET level[n \in 0 .. top.size] ==
        IF n = 0 THEN {top} \ {Nil}
        ELSE (UNION {{t.left, t.right} : t \in level[n - 1]}) \ {Nil}
  IN  UNION {level[n] : n \in 0 .. top.size}

DataOf(top) == {t.data : t \in Nodes(top)}

PushNode(top, data) ==
  LET Up(t, d)   == IF outRanks(d, t.data) THEN d ELSE t.data
      Down(t, d) == IF outRanks(d, t.data) THEN t.data ELSE d
      Grown(t, d) == [t EXCEPT !.data = Up(t, d), !.size = @ + 1]
      push[t \in Nodes(top)] == [d \in Items |->
        IF t.left = Nil THEN [Grown(t, d) EXCEPT !.left = Node(Down(t, d))]
        ELSE IF t.right = Nil THEN [Grown(t, d) EXCEPT !.right = Node(Down(t, d))]
        ELSE IF t.left.size <= t.right.size
             THEN [Grown(t, d) EXCEPT !.left = push[t.left][Down(t, d)]]
        ELSE [Grown(t, d) EXCEPT !.right = push[t.right][Down(t, d)]]]
  IN  push[top][data]

\* Mutant: the lower ranked child takes the place of its parent.
SubTop_Other(top) ==
  IF top.left = Nil THEN "right"
  ELSE IF top.right = Nil THEN "left"
  ELSE IF outRanks(top.left.data, top.right.data) THEN "right" ELSE "left"

\* The child that takes the place of its parent
SubTop(top) ==
  IF top.left = Nil THEN "right"
  ELSE IF top.right = Nil THEN "left"
  ELSE IF outRanks(top.left.data, top.right.data) THEN "left" ELSE "right"

\* The tree without the data of its top
PopNode(top) ==
  LET pop[t \in Nodes(top)] ==
        IF t.left = Nil /\ t.right = Nil THEN Nil
        ELSE [t EXCEPT !.size = @ - 1, !.data = t[SubTop(t)].data, ![SubTop(t)] = pop[t[SubTop(t)]]]
  IN  pop[top]

\* The tree after the search for data, and whether it was found
RemoveNode(top, data) ==
  LET removal[t \in Nodes(top) \union {Nil}] ==
        IF t = Nil THEN [tree |-> Nil, found |-> FALSE]
        ELSE IF t.data = data THEN [tree |-> PopNode(t), found |-> TRUE]
        ELSE IF outRanks(data, t.data) THEN [tree |-> t, found |-> FALSE]
        ELSE LET l == removal[t.left]
                 r == removal[t.right]
             IN  IF l.found THEN [tree |-> [t EXCEPT !.left = l.tree, !.size = @ - 1], found |-> TRUE]
                 ELSE IF r.found
                      THEN [tree |-> [t EXCEPT !.right = r.tree, !.size = @ - 1], found |-> TRUE]
                 ELSE [tree |-> t, found |-> FALSE]
  IN  removal[top]

checkNodes(top) ==
  \A t \in Nodes(top) :
    /\ \A side \in {"left", "right"} : t[side] # Nil => ~outRanks(t[side].data, t.data)
    /\ t.size - t.left.size - t.right.size = 1

-----------------------------------------------------------------------------
Init == tree = Nil /\ returned = <<"none", None>>

push(d) ==
  /\ d \notin DataOf(tree)     \* a timer is added once
  /\ tree' = IF tree = Nil THEN Node(d) ELSE PushNode(tree, d)
  /\ UNCHANGED returned

pop ==
  /\ returned' = <<"pop", IF tree = Nil THEN None ELSE tree.data>>
  /\ tree' = IF tree = Nil THEN Nil ELSE PopNode(tree)

remove(d) ==
  /\ tree' = RemoveNode(tree, d).tree
  /\ returned' = <<"remove", IF RemoveNode(tree, d).found THEN d ELSE None>>

Next == pop \/ \E d \in Items : push(d) \/ remove(d)
Spec == Init /\ [][Next]_vars

-----------------------------------------------------------------------------
(* Properties *)

\* Every call leaves a tree that passes the check the code has for its unit test: sizes add
\* up and no node ranks below a descendant (LocHeap.cpp, checkNodes).
StaysSound == [][checkNodes(tree')]_vars

Abstract == INSTANCE PrioritySet WITH items <- DataOf(tree)

\* The tree is a priority set: pop returns an object of the highest rank, remove finds the
\* very object it is given wherever pushes and pops have moved it, never another one of its
\* rank, which is what LocHeap.h 84-87 speaks of, and nothing is lost or duplicated
\* (LocHeap.cpp, push, pop and remove).
ImplementsPrioritySet == Abstract!Spec
=============================================================================
