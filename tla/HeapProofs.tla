------------------------------ MODULE HeapProofs ------------------------------
(***************************************************************************)
(* LocHeap implements PrioritySet, for any objects and ranks and trees of  *)
(* any size.  The methods are recursive functions on the nodes of a tree.  *)
(* Of each, one lemma says that there is a function as the recursion says  *)
(* (the children of a node are smaller), and one what it returns, by       *)
(* induction from the leaves.                                              *)
(***************************************************************************)
EXTENDS MCRuntime, WellFoundedInduction, TLAPS

\* Induction over the numbers
LEMMA SetInduction ==
  ASSUME NEW P, 0 \in P, \A n \in Nat : n \in P => n + 1 \in P
  PROVE  Nat \subseteq P
  <1> SUFFICES ASSUME Nat \ P # {}
               PROVE  FALSE
    OBVIOUS
  <1>1. \E m \in Nat \ P : \A k \in Nat \ P : ~ (<<k, m>> \in OpToRel(<, Nat))
    BY NatLessThanWellFounded, WFMin, Zenon
  <1>2. PICK m \in Nat \ P : \A k \in Nat \ P : ~ (<<k, m>> \in OpToRel(<, Nat))
    BY <1>1
  <1>3. m # 0 /\ m - 1 \in Nat /\ m - 1 < m /\ m - 1 + 1 = m
    OBVIOUS
  <1>4. <<m - 1, m>> \in OpToRel(<, Nat)
    BY <1>3, Zenon DEF OpToRel
  <1>5. m - 1 \in P
    BY <1>2, <1>3, <1>4, Zenon
  <1> QED
    BY <1>3, <1>5, Zenon

\* The nodes below these, one level down
Children(nodes) == (UNION {{t.left, t.right} : t \in nodes}) \ {Heap!Nil}

\* The levels of a tree down to a depth
LevelsTo(root, n, f) ==
  f = [k \in 0 .. n |-> IF k = 0 THEN {root} \ {Heap!Nil} ELSE Children(f[k - 1])]

\* There are such levels to any depth.
LEMMA LevelsExist ==
  ASSUME NEW root, NEW n \in Nat
  PROVE  \E f : LevelsTo(root, n, f)
  <1> DEFINE P == {m \in Nat : \E f : LevelsTo(root, m, f)}
  <1>1. 0 \in P
    <2>1. LevelsTo(root, 0, [k \in 0 .. 0 |-> {root} \ {Heap!Nil}])
      BY DEF LevelsTo
    <2> QED
      BY <2>1
  <1>2. ASSUME NEW m \in Nat, m \in P
        PROVE  m + 1 \in P
    <2>1. PICK f : LevelsTo(root, m, f)
      BY <1>2
    <2> DEFINE g == [k \in 0 .. m + 1 |-> IF k = 0 THEN {root} \ {Heap!Nil} ELSE Children(f[k - 1])]
    <2>2. \A k \in 0 .. m : f[k] = IF k = 0 THEN {root} \ {Heap!Nil} ELSE Children(f[k - 1])
      BY <2>1, Zenon DEF LevelsTo
    <2>3. \A k \in 0 .. m + 1 : g[k] = IF k = 0 THEN {root} \ {Heap!Nil} ELSE Children(f[k - 1])
      BY Zenon
    <2>4. \A k \in 0 .. m : k \in 0 .. m + 1
      OBVIOUS
    <2>5. \A k \in 0 .. m : g[k] = f[k]
      BY <2>2, <2>3, <2>4, Zenon
    <2>6. \A k \in 0 .. m + 1 : k = 0 \/ k - 1 \in 0 .. m
      OBVIOUS
    <2>7. \A k \in 0 .. m + 1 : g[k] = IF k = 0 THEN {root} \ {Heap!Nil} ELSE Children(g[k - 1])
      BY <2>3, <2>5, <2>6, Zenon
    <2>8. LevelsTo(root, m + 1, g)
      BY <2>7, Zenon DEF LevelsTo
    <2> QED
      BY <2>8
  <1> QED
    BY <1>1, <1>2, SetInduction

\* The nodes of a tree are those of its levels.
LEMMA NodesAreLevels ==
  ASSUME NEW root, root.size \in Nat
  PROVE  \E f : LevelsTo(root, root.size, f) /\ Heap!Nodes(root) = UNION {f[n] : n \in 0 .. root.size}
  <1> DEFINE level == CHOOSE f : LevelsTo(root, root.size, f)
  <1>1. \E f : LevelsTo(root, root.size, f)
    BY LevelsExist, Zenon
  <1>2. LevelsTo(root, root.size, level)
    BY <1>1, Zenon
  <1>3. Heap!Nodes(root) = UNION {level[n] : n \in 0 .. root.size}
    BY Zenon DEF Heap!Nodes, LevelsTo, Children
  <1> QED
    BY <1>2, <1>3

-----------------------------------------------------------------------------
(* Trees *)

\* The object d outranks, or has the rank of, what is below it.
Above(d, l, r) ==
  /\ d \notin l \union r /\ l \intersect r = {}
  /\ \A e \in l \union r : HeapRank[d] <= HeapRank[e]

\* The node with this data and these subtrees
Top(d, l, r) == [data |-> d, size |-> l.size + r.size + 1, left |-> l, right |-> r]

\* The members of S are trees, and their subtrees are members of S.
Trees(S) ==
  \A t \in S :
    \/ t = Heap!Nil
    \/ /\ t = Top(t.data, t.left, t.right) /\ t.data \in HeapItems
       /\ t.left \in S /\ t.right \in S /\ t.size \in Nat \ {0}
       /\ Above(t.data, Heap!DataOf(t.left), Heap!DataOf(t.right))

\* A tree as the heap makes them: finite, its sizes right, its data ordered and without
\* duplicates
Tree(t) == \E S : Trees(S) /\ t \in S

\* Only the empty tree has size 0.
LEMMA TreeSize ==
  ASSUME NEW t, Tree(t)
  PROVE  t.size \in Nat /\ (t.size = 0 <=> t = Heap!Nil)
  BY DEF Tree, Trees, Heap!Nil

\* The empty tree is a tree.
LEMMA NilIsTree == Tree(Heap!Nil)
  <1>1. Trees({Heap!Nil})
    BY Zenon DEF Trees
  <1> QED
    BY <1>1, Zenon DEF Tree

\* What a tree is put together from
LEMMA Subtrees ==
  ASSUME NEW t, Tree(t), t # Heap!Nil
  PROVE  /\ t = Top(t.data, t.left, t.right) /\ t.data \in HeapItems
         /\ Tree(t.left) /\ Tree(t.right)
         /\ Above(t.data, Heap!DataOf(t.left), Heap!DataOf(t.right))
         /\ t.left.size \in Nat /\ t.right.size \in Nat /\ t.size = t.left.size + t.right.size + 1
  <1>1. PICK S : Trees(S) /\ t \in S
    BY Zenon DEF Tree
  <1>2. /\ t = Top(t.data, t.left, t.right) /\ t.data \in HeapItems
        /\ t.left \in S /\ t.right \in S
        /\ Above(t.data, Heap!DataOf(t.left), Heap!DataOf(t.right))
    BY <1>1, Zenon DEF Trees
  <1>3. Tree(t.left) /\ Tree(t.right)
    BY <1>1, <1>2, Zenon DEF Tree
  <1>4. t.size = t.left.size + t.right.size + 1
    BY <1>2 DEF Top
  <1> QED
    BY <1>2, <1>3, <1>4, TreeSize, Zenon

-----------------------------------------------------------------------------
(* The nodes of a tree *)

\* The nodes of a tree are trees, with the children of each.
LEMMA NodesClosed ==
  ASSUME NEW root, Tree(root)
  PROVE  /\ root # Heap!Nil => root \in Heap!Nodes(root)
         /\ \A t \in Heap!Nodes(root) : Tree(t) /\ t # Heap!Nil
         /\ Children(Heap!Nodes(root)) \subseteq Heap!Nodes(root)
  <1> DEFINE N == root.size
  <1>1. N \in Nat
    BY TreeSize
  <1>2. PICK f : LevelsTo(root, N, f) /\ Heap!Nodes(root) = UNION {f[n] : n \in 0 .. N}
    BY <1>1, NodesAreLevels, Zenon
  <1>3. \A n \in 0 .. N : f[n] = IF n = 0 THEN {root} \ {Heap!Nil} ELSE Children(f[n - 1])
    BY <1>2, Zenon DEF LevelsTo
  <1> DEFINE P == {n \in Nat : n <= N => \A t \in f[n] : Tree(t) /\ t # Heap!Nil /\ t.size <= N - n}
  <1> HIDE DEF N
  <1>4. 0 \in P
    <2>1. f[0] = {root} \ {Heap!Nil}
      BY <1>1, <1>3
    <2> QED
      BY <1>1, <2>1 DEF N
  <1>5. ASSUME NEW n \in Nat, n \in P
        PROVE  n + 1 \in P
    <2> SUFFICES ASSUME n + 1 <= N, NEW t \in f[n + 1]
                 PROVE  Tree(t) /\ t # Heap!Nil /\ t.size <= N - (n + 1)
      OBVIOUS
    <2>1. n <= N /\ n + 1 \in 0 .. N /\ n + 1 # 0 /\ n + 1 - 1 = n
      BY <1>1
    <2>2. t \in Children(f[n])
      BY <1>3, <2>1
    <2>3. PICK u \in f[n] : t \in {u.left, u.right} /\ t # Heap!Nil
      BY <2>2, Zenon DEF Children
    <2>4. Tree(u) /\ u # Heap!Nil /\ u.size <= N - n
      BY <1>5, <2>1
    <2>5. Tree(u.left) /\ Tree(u.right) /\ u.size = u.left.size + u.right.size + 1
          /\ u.left.size \in Nat /\ u.right.size \in Nat
      BY <2>4, Subtrees, Zenon
    <2> QED
      BY <1>1, <2>3, <2>4, <2>5
  <1>6. Nat \subseteq P
    BY <1>4, <1>5, SetInduction
  <1>7. \A n \in 0 .. N : \A t \in f[n] : Tree(t) /\ t # Heap!Nil /\ t.size <= N - n
    BY <1>1, <1>6
  <1>8. root # Heap!Nil => root \in Heap!Nodes(root)
    BY <1>1, <1>2, <1>3
  <1>9. \A t \in Heap!Nodes(root) : Tree(t) /\ t # Heap!Nil
    BY <1>2, <1>7
  <1>10. ASSUME NEW t \in Heap!Nodes(root), NEW c \in {t.left, t.right}, c # Heap!Nil
         PROVE  c \in Heap!Nodes(root)
    <2>1. PICK n \in 0 .. N : t \in f[n]
      BY <1>2
    <2>2. t.size <= N - n /\ t.size \in Nat /\ t.size # 0
      BY <1>7, <2>1, TreeSize
    <2>3. n + 1 \in 0 .. N /\ n + 1 # 0 /\ n + 1 - 1 = n
      BY <1>1, <2>2
    <2>4. c \in Children(f[n])
      BY <1>10, <2>1, Zenon DEF Children
    <2>5. c \in f[n + 1]
      BY <1>3, <2>3, <2>4
    <2> QED
      BY <1>2, <2>3, <2>5
  <1>11. Children(Heap!Nodes(root)) \subseteq Heap!Nodes(root)
    BY <1>10, Zenon DEF Children
  <1> QED
    BY <1>8, <1>9, <1>11

\* Any other set that has the tree and the children of its members has them all.
LEMMA NodesLeast ==
  ASSUME NEW root, Tree(root), NEW C, {root} \ {Heap!Nil} \subseteq C, Children(C) \subseteq C
  PROVE  Heap!Nodes(root) \subseteq C
  <1> DEFINE N == root.size
  <1>1. N \in Nat
    BY TreeSize
  <1>2. PICK f : LevelsTo(root, N, f) /\ Heap!Nodes(root) = UNION {f[n] : n \in 0 .. N}
    BY <1>1, NodesAreLevels, Zenon
  <1>3. \A n \in 0 .. N : f[n] = IF n = 0 THEN {root} \ {Heap!Nil} ELSE Children(f[n - 1])
    BY <1>2, Zenon DEF LevelsTo
  <1> DEFINE P == {n \in Nat : n <= N => f[n] \subseteq C}
  <1> HIDE DEF N
  <1>4. 0 \in P
    BY <1>1, <1>3
  <1>5. ASSUME NEW n \in Nat, n \in P
        PROVE  n + 1 \in P
    <2> SUFFICES ASSUME n + 1 <= N
                 PROVE  f[n + 1] \subseteq C
      OBVIOUS
    <2>1. n <= N /\ n + 1 \in 0 .. N /\ n + 1 # 0 /\ n + 1 - 1 = n
      BY <1>1
    <2>2. f[n + 1] = Children(f[n]) /\ f[n] \subseteq C
      BY <1>3, <1>5, <2>1
    <2> QED
      BY <2>2, Zenon DEF Children
  <1>6. Nat \subseteq P
    BY <1>4, <1>5, SetInduction
  <1> QED
    BY <1>1, <1>2, <1>6

\* The empty tree has no nodes.
LEMMA NodesOfNil == Heap!Nodes(Heap!Nil) = {}
  <1>1. Children({}) \subseteq {}
    BY Zenon DEF Children
  <1> QED
    BY <1>1, NilIsTree, NodesLeast

\* The nodes of a tree are its top and those of its subtrees.
LEMMA NodesOfTop ==
  ASSUME NEW t, Tree(t), t # Heap!Nil
  PROVE  Heap!Nodes(t) = {t} \union Heap!Nodes(t.left) \union Heap!Nodes(t.right)
  <1>1. Tree(t.left) /\ Tree(t.right)
    BY Subtrees, Zenon
  <1>2. t \in Heap!Nodes(t) /\ Children(Heap!Nodes(t)) \subseteq Heap!Nodes(t)
    BY NodesClosed, Zenon
  <1>3. {t.left} \ {Heap!Nil} \subseteq Heap!Nodes(t) /\ {t.right} \ {Heap!Nil} \subseteq Heap!Nodes(t)
    BY <1>2 DEF Children
  <1>4. Heap!Nodes(t.left) \subseteq Heap!Nodes(t) /\ Heap!Nodes(t.right) \subseteq Heap!Nodes(t)
    BY <1>1, <1>2, <1>3, NodesLeast
  <1> DEFINE C == {t} \union Heap!Nodes(t.left) \union Heap!Nodes(t.right)
  <1>5. Children(C) \subseteq C
    <2>1. /\ Children(Heap!Nodes(t.left)) \subseteq Heap!Nodes(t.left)
          /\ Children(Heap!Nodes(t.right)) \subseteq Heap!Nodes(t.right)
      BY <1>1, NodesClosed, Zenon
    <2>2. {t.left, t.right} \ {Heap!Nil} \subseteq C
      BY <1>1, NodesClosed, Zenon
    <2> QED
      BY <2>1, <2>2, Zenon DEF Children
  <1>6. Heap!Nodes(t) \subseteq C
    BY <1>5, NodesLeast
  <1> QED
    BY <1>2, <1>4, <1>6

\* So are its data.
LEMMA DataOfTop ==
  ASSUME NEW t, Tree(t), t # Heap!Nil
  PROVE  Heap!DataOf(t) = {t.data} \union Heap!DataOf(t.left) \union Heap!DataOf(t.right)
  <1> DEFINE l == t.left
             r == t.right
  <1>1. Heap!Nodes(t) = {t} \union Heap!Nodes(l) \union Heap!Nodes(r)
    BY NodesOfTop, Zenon
  <1> HIDE DEF l, r
  <1>2. Heap!DataOf(t) = {t.data} \union Heap!DataOf(l) \union Heap!DataOf(r)
    BY <1>1 DEF Heap!DataOf
  <1> QED
    BY <1>2 DEF l, r

\* The empty tree has no data.
LEMMA DataOfNil == Heap!DataOf(Heap!Nil) = {}
  BY NodesOfNil, Zenon DEF Heap!DataOf

\* A statement that t is such a node, and a name for it that hides its fields
Made(t, d, l, r) == t = Top(d, l, r)

\* What a tree is put together from: an object that may stand above two trees
Parts(d, l, r) ==
  /\ d \in HeapItems /\ Tree(l) /\ Tree(r)
  /\ Above(d, Heap!DataOf(l), Heap!DataOf(r))

\* The tree that is put together from it
Built(t, d, l, r) ==
  /\ Tree(t) /\ t # Heap!Nil /\ t.size = l.size + r.size + 1
  /\ Heap!DataOf(t) = {d} \union Heap!DataOf(l) \union Heap!DataOf(r)

\* It is a tree.
LEMMA TreeBuilt ==
  ASSUME NEW d, NEW l, NEW r, Parts(d, l, r), NEW t, Made(t, d, l, r)
  PROVE  Built(t, d, l, r)
  <1>0. /\ d \in HeapItems /\ Tree(l) /\ Tree(r)
        /\ Above(d, Heap!DataOf(l), Heap!DataOf(r))
    BY DEF Parts
  <1>1. PICK L : Trees(L) /\ l \in L
    BY <1>0, Zenon DEF Tree
  <1>2. PICK R : Trees(R) /\ r \in R
    BY <1>0, Zenon DEF Tree
  <1>3. /\ t.data = d /\ t.left = l /\ t.right = r /\ t.size = l.size + r.size + 1
    BY DEF Made, Top
  <1>4. t.size \in Nat \ {0}
    BY <1>0, <1>3, TreeSize
  <1>5. t = Top(t.data, t.left, t.right)
    BY <1>3, Zenon DEF Made
  <1>6. Trees(L \union R \union {t})
    BY <1>0, <1>1, <1>2, <1>3, <1>4, <1>5, Zenon DEF Trees
  <1>7. t # Heap!Nil
    BY <1>4 DEF Heap!Nil
  <1>8. Tree(t)
    <2>1. t \in L \union R \union {t}
      OBVIOUS
    <2> QED
      BY <1>6, <2>1, Zenon DEF Tree
  <1>9. Heap!DataOf(t) = {d} \union Heap!DataOf(l) \union Heap!DataOf(r)
    <2>1. Heap!DataOf(t) = {t.data} \union Heap!DataOf(t.left) \union Heap!DataOf(t.right)
      BY <1>7, <1>8, DataOfTop, Zenon
    <2> QED
      BY <1>3, <2>1, Zenon
  <1> QED
    BY <1>3, <1>7, <1>8, <1>9, Zenon DEF Built

\* Induction over the nodes of a tree, from the leaves
LEMMA NodeInduction ==
  ASSUME NEW root, Tree(root), NEW P,
         \A t \in Heap!Nodes(root) :
           (\A c \in {t.left, t.right} : c = Heap!Nil \/ c \in P) => t \in P
  PROVE  Heap!Nodes(root) \subseteq P
  <1> DEFINE Q == {n \in Nat : \A t \in Heap!Nodes(root) : t.size <= n => t \in P}
  <1>1. 0 \in Q
    <2> SUFFICES ASSUME NEW t \in Heap!Nodes(root)
                 PROVE  ~ (t.size <= 0)
      OBVIOUS
    <2>1. Tree(t) /\ t # Heap!Nil
      BY NodesClosed, Zenon
    <2> QED
      BY <2>1, TreeSize
  <1>2. ASSUME NEW n \in Nat, n \in Q
        PROVE  n + 1 \in Q
    <2> SUFFICES ASSUME NEW t \in Heap!Nodes(root), t.size <= n + 1
                 PROVE  t \in P
      OBVIOUS
    <2>1. Tree(t) /\ t # Heap!Nil
      BY NodesClosed, Zenon
    <2>2. t.left.size \in Nat /\ t.right.size \in Nat /\ t.size = t.left.size + t.right.size + 1
      BY <2>1, Subtrees, Zenon
    <2>3. \A c \in {t.left, t.right} : c.size <= n
      BY <2>2
    <2>4. \A c \in {t.left, t.right} : c = Heap!Nil \/ c \in Heap!Nodes(root)
      BY NodesClosed, Zenon DEF Children
    <2>5. \A c \in {t.left, t.right} : c = Heap!Nil \/ c \in P
      BY <1>2, <2>3, <2>4
    <2> QED
      BY <2>5, Zenon
  <1>3. Nat \subseteq Q
    BY <1>1, <1>2, SetInduction
  <1> SUFFICES ASSUME NEW t \in Heap!Nodes(root)
               PROVE  t \in P
    OBVIOUS
  <1>4. t.size \in Nat
    BY NodesClosed, TreeSize, Zenon
  <1> QED
    BY <1>3, <1>4

\* The nodes of a tree up to a size: each has its children among the smaller ones.
Sized(root, n) == {t \in Heap!Nodes(root) : t.size <= n}

\* The children of a node are smaller.
LEMMA SmallerChildren ==
  ASSUME NEW root, Tree(root), NEW n \in Nat, NEW t \in Sized(root, n + 1),
         NEW c \in {t.left, t.right}, c # Heap!Nil
  PROVE  c \in Sized(root, n)
  <1>1. t \in Heap!Nodes(root) /\ t.size <= n + 1
    BY DEF Sized
  <1>2. Tree(t) /\ t # Heap!Nil
    BY <1>1, NodesClosed, Zenon
  <1>3. t.left.size \in Nat /\ t.right.size \in Nat /\ t.size = t.left.size + t.right.size + 1
    BY <1>2, Subtrees, Zenon
  <1>4. c.size <= n
    BY <1>1, <1>3
  <1>5. c \in Heap!Nodes(root)
    BY <1>1, NodesClosed, Zenon DEF Children
  <1> QED
    BY <1>4, <1>5 DEF Sized

\* No node has size 0.
LEMMA NoneSized ==
  ASSUME NEW root, Tree(root)
  PROVE  Sized(root, 0) = {}
  <1> SUFFICES ASSUME NEW t \in Heap!Nodes(root)
               PROVE  ~ (t.size <= 0)
    BY DEF Sized
  <1>1. Tree(t) /\ t # Heap!Nil
    BY NodesClosed, Zenon
  <1> QED
    BY <1>1, TreeSize

\* No node is larger than the tree.
LEMMA AllSized ==
  ASSUME NEW root, Tree(root)
  PROVE  Sized(root, root.size) = Heap!Nodes(root)
  <1> DEFINE P == {t \in Heap!Nodes(root) : \A u \in Heap!Nodes(t) : u.size <= t.size}
  <1>1. ASSUME NEW t \in Heap!Nodes(root), \A c \in {t.left, t.right} : c = Heap!Nil \/ c \in P
        PROVE  t \in P
    <2> SUFFICES ASSUME NEW u \in Heap!Nodes(t)
                 PROVE  u.size <= t.size
      OBVIOUS
    <2>1. Tree(t) /\ t # Heap!Nil
      BY NodesClosed, Zenon
    <2>2. t.left.size \in Nat /\ t.right.size \in Nat /\ t.size = t.left.size + t.right.size + 1
      BY <2>1, Subtrees, Zenon
    <2>3. u = t \/ u \in Heap!Nodes(t.left) \/ u \in Heap!Nodes(t.right)
      BY <2>1, NodesOfTop, Zenon
    <2>4. \A c \in {t.left, t.right} : u \in Heap!Nodes(c) => u.size <= c.size
      BY <1>1, NodesOfNil, Zenon
    <2>5. u.size \in Nat
      BY <2>1, NodesClosed, TreeSize, Zenon
    <2> QED
      BY <2>2, <2>3, <2>4, <2>5
  <1>2. Heap!Nodes(root) \subseteq P
    <2> HIDE DEF P
    <2> QED
      BY <1>1, NodeInduction
  <1>3. CASE root = Heap!Nil
    BY <1>3, NodesOfNil, Zenon DEF Sized
  <1>4. CASE root # Heap!Nil
    <2>1. root \in P
      BY <1>2, <1>4, NodesClosed, Zenon
    <2> QED
      BY <2>1 DEF Sized
  <1> QED
    BY <1>3, <1>4

\* The top of a tree is one of its data and outranks the others, or has their rank.
LEMMA TopOutranks ==
  ASSUME NEW t, Tree(t), t # Heap!Nil
  PROVE  /\ t.data \in Heap!DataOf(t)
         /\ \A e \in Heap!DataOf(t) : e \in HeapItems /\ HeapRank[t.data] <= HeapRank[e]
  <1>1. \A u \in Heap!Nodes(t) : u.data \in HeapItems
    BY NodesClosed, Subtrees, Zenon
  <1>2. Heap!DataOf(t) \subseteq HeapItems
    BY <1>1 DEF Heap!DataOf
  <1>3. Heap!DataOf(t) = {t.data} \union Heap!DataOf(t.left) \union Heap!DataOf(t.right)
    BY DataOfTop, Zenon
  <1>4. \A e \in Heap!DataOf(t.left) \union Heap!DataOf(t.right) : HeapRank[t.data] <= HeapRank[e]
    BY Subtrees, Zenon DEF Above
  <1>5. HeapRank[t.data] \in Int /\ HeapRank[t.data] <= HeapRank[t.data]
    <2>1. t.data \in HeapItems
      BY Subtrees, Zenon
    <2> QED
      BY <2>1, RuntimeAssumption DEF RuntimeAssumption
  <1> QED
    BY <1>2, <1>3, <1>4, <1>5, Zenon

-----------------------------------------------------------------------------
(* pop *)

\* What PopNode makes of a node, with f for what it makes of the child that moves up
PopStep(f, t) ==
  IF t.left = Heap!Nil /\ t.right = Heap!Nil THEN Heap!Nil
  ELSE [t EXCEPT !.size = @ - 1, !.data = t[Heap!SubTop(t)].data,
                 ![Heap!SubTop(t)] = f[t[Heap!SubTop(t)]]]

\* PopNode's recursion is well-founded: there is a function as it says.
LEMMA PopDefined ==
  ASSUME NEW root, Tree(root)
  PROVE  \E f : f = [t \in Heap!Nodes(root) |-> PopStep(f, t)]
  <1> DEFINE P == {n \in Nat : \E f : f = [t \in Sized(root, n) |-> PopStep(f, t)]}
  <1>1. 0 \in P
    <2> DEFINE f == [t \in Sized(root, 0) |-> Heap!Nil]
    <2>1. f = [t \in Sized(root, 0) |-> PopStep(f, t)]
      BY NoneSized
    <2> QED
      BY <2>1
  <1>2. ASSUME NEW n \in Nat, n \in P
        PROVE  n + 1 \in P
    <2>1. PICK f : f = [t \in Sized(root, n) |-> PopStep(f, t)]
      BY <1>2
    <2> DEFINE g == [t \in Sized(root, n + 1) |-> PopStep(f, t)]
    <2>2. \A t \in Sized(root, n) : f[t] = PopStep(f, t)
      BY <2>1, Zenon
    <2>3. \A t \in Sized(root, n + 1) : g[t] = PopStep(f, t)
      BY Zenon
    <2>4. Sized(root, n) \subseteq Sized(root, n + 1)
      <3>1. \A t \in Heap!Nodes(root) : t.size \in Nat
        BY NodesClosed, TreeSize, Zenon
      <3> QED
        BY <3>1 DEF Sized
    <2>5. \A t \in Sized(root, n) : g[t] = f[t]
      BY <2>2, <2>3, <2>4, Zenon
    <2>6. ASSUME NEW t \in Sized(root, n + 1)
          PROVE  PopStep(g, t) = PopStep(f, t)
      <3>1. CASE t.left = Heap!Nil /\ t.right = Heap!Nil
        BY <3>1, Zenon DEF PopStep
      <3>2. CASE ~ (t.left = Heap!Nil /\ t.right = Heap!Nil)
        <4>1. t[Heap!SubTop(t)] \in {t.left, t.right} /\ t[Heap!SubTop(t)] # Heap!Nil
          BY <3>2, Zenon DEF Heap!SubTop
        <4>2. t[Heap!SubTop(t)] \in Sized(root, n)
          BY <4>1, SmallerChildren
        <4>3. g[t[Heap!SubTop(t)]] = f[t[Heap!SubTop(t)]]
          BY <2>5, <4>2, Zenon
        <4> HIDE DEF g
        <4> QED
          BY <4>3, Zenon DEF PopStep
      <3> QED
        BY <3>1, <3>2
    <2>7. \A t \in Sized(root, n + 1) : g[t] = PopStep(g, t)
      BY <2>3, <2>6, Zenon
    <2>8. g = [t \in Sized(root, n + 1) |-> PopStep(g, t)]
      BY <2>7, Zenon
    <2> HIDE DEF g
    <2>9. \E f1 : f1 = [t \in Sized(root, n + 1) |-> PopStep(f1, t)]
      BY <2>8, Zenon
    <2>10. n + 1 \in Nat
      OBVIOUS
    <2> QED
      BY <2>9, <2>10, Zenon
  <1>3. Nat \subseteq P
    BY <1>1, <1>2, SetInduction
  <1>4. root.size \in Nat
    BY TreeSize
  <1>5. \E f : f = [t \in Sized(root, root.size) |-> PopStep(f, t)]
    BY <1>3, <1>4
  <1> QED
    BY <1>5, AllSized, Zenon

\* PopNode returns what such a function returns for the tree.
LEMMA PopNodeIs ==
  ASSUME NEW root, Tree(root), root # Heap!Nil
  PROVE  \E f : /\ \A t \in Heap!Nodes(root) : f[t] = PopStep(f, t)
                /\ Heap!PopNode(root) = f[root]
  <1> DEFINE pop == CHOOSE f : f = [t \in Heap!Nodes(root) |-> PopStep(f, t)]
  <1>1. pop = [t \in Heap!Nodes(root) |-> PopStep(pop, t)]
    BY PopDefined, Zenon
  <1>2. Heap!PopNode(root) = pop[root]
    BY Zenon DEF Heap!PopNode, PopStep
  <1> HIDE DEF pop
  <1>3. \A t \in Heap!Nodes(root) : pop[t] = PopStep(pop, t)
    BY <1>1, Zenon
  <1> QED
    BY <1>2, <1>3

\* p is t without the data of its top.
Popped(p, t) ==
  /\ Tree(p) /\ p.size = t.size - 1
  /\ Heap!DataOf(p) = Heap!DataOf(t) \ {t.data}

\* The top of a subtree may take the place above what is left of it and the other subtree.
LEMMA AboveLifted ==
  ASSUME NEW c, Tree(c), c # Heap!Nil, NEW o, Tree(o),
         Heap!DataOf(c) \intersect Heap!DataOf(o) = {},
         o # Heap!Nil => HeapRank[c.data] <= HeapRank[o.data],
         NEW q, Popped(q, c)
  PROVE  /\ Above(c.data, Heap!DataOf(q), Heap!DataOf(o))
         /\ Above(c.data, Heap!DataOf(o), Heap!DataOf(q))
         /\ c.data \in HeapItems
  <1>1. /\ c.data \in Heap!DataOf(c)
        /\ \A e \in Heap!DataOf(c) : e \in HeapItems /\ HeapRank[c.data] <= HeapRank[e]
    BY TopOutranks, Zenon
  <1>2. ASSUME NEW e \in Heap!DataOf(o)
        PROVE  HeapRank[c.data] <= HeapRank[e]
    <2>1. o # Heap!Nil
      BY DataOfNil
    <2>2. /\ o.data \in Heap!DataOf(o)
          /\ \A d \in Heap!DataOf(o) : d \in HeapItems /\ HeapRank[o.data] <= HeapRank[d]
      BY <2>1, TopOutranks, Zenon
    <2>3. HeapRank[c.data] \in Int /\ HeapRank[o.data] \in Int /\ HeapRank[e] \in Int
      BY <1>1, <2>2, RuntimeAssumption DEF RuntimeAssumption
    <2>4. HeapRank[c.data] <= HeapRank[o.data] /\ HeapRank[o.data] <= HeapRank[e]
      BY <2>1, <2>2
    <2> QED
      BY <2>3, <2>4
  <1>3. Heap!DataOf(q) = Heap!DataOf(c) \ {c.data}
    BY Zenon DEF Popped
  <1> QED
    BY <1>1, <1>2, <1>3, Zenon DEF Above

\* The tree is left without its top's data and has one node less.
LEMMA PopNodeRight ==
  ASSUME NEW root, Tree(root), root # Heap!Nil
  PROVE  Popped(Heap!PopNode(root), root)
  <1>1. PICK f : /\ \A t \in Heap!Nodes(root) : f[t] = PopStep(f, t)
                 /\ Heap!PopNode(root) = f[root]
    BY PopNodeIs, Zenon
  <1> DEFINE P == {t \in Heap!Nodes(root) : Popped(f[t], t)}
  <1>2. ASSUME NEW t \in Heap!Nodes(root), \A c \in {t.left, t.right} : c = Heap!Nil \/ c \in P
        PROVE  t \in P
    <2>1. Tree(t) /\ t # Heap!Nil
      BY NodesClosed, Zenon
    <2>2. PICK d, l, r : d = t.data /\ l = t.left /\ r = t.right
      OBVIOUS
    <2>3. /\ t = Top(d, l, r) /\ d \in HeapItems /\ Tree(l) /\ Tree(r)
          /\ Above(d, Heap!DataOf(l), Heap!DataOf(r))
          /\ l.size \in Nat /\ r.size \in Nat /\ t.size = l.size + r.size + 1
      BY <2>1, <2>2, Subtrees, Zenon
    <2>4. Heap!DataOf(t) = {d} \union Heap!DataOf(l) \union Heap!DataOf(r)
      BY <2>1, <2>2, DataOfTop, Zenon
    <2>5. Heap!DataOf(t) \ {t.data} = Heap!DataOf(l) \union Heap!DataOf(r)
      BY <2>2, <2>3, <2>4 DEF Above
    <2>6. f[t] = PopStep(f, t)
      BY <1>1, Zenon
    <2>7. \A c \in {l, r} : c # Heap!Nil => Popped(f[c], c)
      BY <1>2, <2>2, Zenon
    <2>8. CASE l = Heap!Nil /\ r = Heap!Nil
      <3>1. f[t] = Heap!Nil
        BY <2>2, <2>6, <2>8, Zenon DEF PopStep
      <3>2. t.size = 1 /\ Heap!Nil.size = 0
        BY <2>3, <2>8 DEF Heap!Nil
      <3>3. Heap!DataOf(Heap!Nil) = Heap!DataOf(t) \ {t.data}
        BY <2>5, <2>8, DataOfNil
      <3> QED
        BY <3>1, <3>2, <3>3, NilIsTree DEF Popped
    <2>9. CASE Heap!SubTop(t) = "left" /\ l # Heap!Nil
      <3>1. PICK q : q = f[l]
        OBVIOUS
      <3>2. Popped(q, l)
        BY <2>7, <2>9, <3>1, Zenon
      <3>3. f[t] = [t EXCEPT !.size = @ - 1, !.data = l.data, !.left = q]
        BY <2>2, <2>6, <2>9, <3>1, Zenon DEF PopStep
      <3>4. q.size \in Nat /\ q.size = l.size - 1
        BY <3>2, TreeSize DEF Popped
      <3>5. f[t] = Top(l.data, q, r)
        <4>1. PICK n, e : n = t.size /\ e = l.data
          OBVIOUS
        <4>2. t = [data |-> d, size |-> n, left |-> l, right |-> r]
          BY <2>3, <4>1 DEF Top
        <4>3. f[t] = [t EXCEPT !.size = n - 1, !.data = e, !.left = q]
          BY <3>3, <4>1
        <4>4. f[t] = [data |-> e, size |-> n - 1, left |-> q, right |-> r]
          BY <4>2, <4>3
        <4>5. n - 1 = q.size + r.size + 1
          BY <2>3, <3>4, <4>1
        <4> QED
          BY <4>1, <4>4, <4>5 DEF Top
      <3>6. r # Heap!Nil => HeapRank[l.data] <= HeapRank[r.data]
        <4>1. r # Heap!Nil => Heap!outRanks(l.data, r.data)
          BY <2>2, <2>9 DEF Heap!SubTop
        <4>2. r # Heap!Nil => HeapRank[l.data] \in Int /\ HeapRank[r.data] \in Int
          BY <2>3, <2>9, TopOutranks, RuntimeAssumption DEF RuntimeAssumption
        <4> QED
          BY <4>1, <4>2 DEF Heap!outRanks, Heap!ranks
      <3>7. Above(l.data, Heap!DataOf(q), Heap!DataOf(r)) /\ l.data \in HeapItems
        BY <2>3, <2>9, <3>2, <3>6, AboveLifted DEF Above
      <3>8. PICK p : Made(p, l.data, q, r)
        BY Zenon DEF Made
      <3>9. Tree(q)
        BY <3>2 DEF Popped
      <3>10. Tree(q) /\ Tree(r)
        BY <2>3, <3>9
      <3>11. /\ Tree(p) /\ p # Heap!Nil /\ p.size = q.size + r.size + 1
             /\ Heap!DataOf(p) = {l.data} \union Heap!DataOf(q) \union Heap!DataOf(r)
        <4>1. Parts(l.data, q, r)
          BY <3>7, <3>10, Zenon DEF Parts
        <4>2. Built(p, l.data, q, r)
          BY <3>8, <4>1, TreeBuilt, Zenon
        <4> QED
          BY <4>2, Zenon DEF Built
      <3>12. Heap!DataOf(q) = Heap!DataOf(l) \ {l.data} /\ l.data \in Heap!DataOf(l)
        BY <2>3, <2>9, <3>2, TopOutranks, Zenon DEF Popped
      <3>13. Heap!DataOf(p) = Heap!DataOf(t) \ {t.data}
        BY <2>5, <3>11, <3>12
      <3>14. p.size = t.size - 1
        BY <2>3, <3>4, <3>11
      <3>15. f[t] = p
        BY <3>5, <3>8, Zenon DEF Made
      <3> QED
        BY <3>11, <3>13, <3>14, <3>15, Zenon DEF Popped
    <2>10. CASE Heap!SubTop(t) = "right" /\ r # Heap!Nil
      <3>1. PICK q : q = f[r]
        OBVIOUS
      <3>2. Popped(q, r)
        BY <2>7, <2>10, <3>1, Zenon
      <3>3. f[t] = [t EXCEPT !.size = @ - 1, !.data = r.data, !.right = q]
        BY <2>2, <2>6, <2>10, <3>1, Zenon DEF PopStep
      <3>4. q.size \in Nat /\ q.size = r.size - 1
        BY <3>2, TreeSize DEF Popped
      <3>5. f[t] = Top(r.data, l, q)
        <4>1. PICK n, e : n = t.size /\ e = r.data
          OBVIOUS
        <4>2. t = [data |-> d, size |-> n, left |-> l, right |-> r]
          BY <2>3, <4>1 DEF Top
        <4>3. f[t] = [t EXCEPT !.size = n - 1, !.data = e, !.right = q]
          BY <3>3, <4>1
        <4>4. f[t] = [data |-> e, size |-> n - 1, left |-> l, right |-> q]
          BY <4>2, <4>3
        <4>5. n - 1 = l.size + q.size + 1
          BY <2>3, <3>4, <4>1
        <4> QED
          BY <4>1, <4>4, <4>5 DEF Top
      <3>6. l # Heap!Nil => HeapRank[r.data] <= HeapRank[l.data]
        <4>1. l # Heap!Nil => ~ Heap!outRanks(l.data, r.data)
          BY <2>2, <2>10 DEF Heap!SubTop
        <4>2. l # Heap!Nil => HeapRank[l.data] \in Int /\ HeapRank[r.data] \in Int
          BY <2>3, <2>10, TopOutranks, RuntimeAssumption DEF RuntimeAssumption
        <4> QED
          BY <4>1, <4>2 DEF Heap!outRanks, Heap!ranks
      <3>7. Above(r.data, Heap!DataOf(l), Heap!DataOf(q)) /\ r.data \in HeapItems
        BY <2>3, <2>10, <3>2, <3>6, AboveLifted DEF Above
      <3>8. PICK p : Made(p, r.data, l, q)
        BY Zenon DEF Made
      <3>9. Tree(q)
        BY <3>2 DEF Popped
      <3>10. Tree(q) /\ Tree(l)
        BY <2>3, <3>9
      <3>11. /\ Tree(p) /\ p # Heap!Nil /\ p.size = l.size + q.size + 1
             /\ Heap!DataOf(p) = {r.data} \union Heap!DataOf(l) \union Heap!DataOf(q)
        <4>1. Parts(r.data, l, q)
          BY <3>7, <3>10, Zenon DEF Parts
        <4>2. Built(p, r.data, l, q)
          BY <3>8, <4>1, TreeBuilt, Zenon
        <4> QED
          BY <4>2, Zenon DEF Built
      <3>12. Heap!DataOf(q) = Heap!DataOf(r) \ {r.data} /\ r.data \in Heap!DataOf(r)
        BY <2>3, <2>10, <3>2, TopOutranks, Zenon DEF Popped
      <3>13. Heap!DataOf(p) = Heap!DataOf(t) \ {t.data}
        BY <2>5, <3>11, <3>12
      <3>14. p.size = t.size - 1
        BY <2>3, <3>4, <3>11
      <3>15. f[t] = p
        BY <3>5, <3>8, Zenon DEF Made
      <3> QED
        BY <3>11, <3>13, <3>14, <3>15, Zenon DEF Popped
    <2>11. \/ l = Heap!Nil /\ r = Heap!Nil
           \/ Heap!SubTop(t) = "left" /\ l # Heap!Nil
           \/ Heap!SubTop(t) = "right" /\ r # Heap!Nil
      BY <2>2 DEF Heap!SubTop
    <2> QED
      BY <2>8, <2>9, <2>10, <2>11
  <1>3. Heap!Nodes(root) \subseteq P
    <2> HIDE DEF P
    <2> QED
      BY <1>2, NodeInduction
  <1>4. root \in Heap!Nodes(root)
    BY NodesClosed, Zenon
  <1> QED
    BY <1>1, <1>3, <1>4, Zenon

-----------------------------------------------------------------------------
(* push *)

\* What PushNode keeps at a node, what it passes on, and the node it leaves
UpOf(t, d) == IF Heap!outRanks(d, t.data) THEN d ELSE t.data
DownOf(t, d) == IF Heap!outRanks(d, t.data) THEN t.data ELSE d
Grown(t, d) == [t EXCEPT !.data = UpOf(t, d), !.size = @ + 1]

\* What PushNode makes of a node and an object, with f for what it makes of its children
PushStep(f, t, d) ==
  IF t.left = Heap!Nil THEN [Grown(t, d) EXCEPT !.left = Heap!Node(DownOf(t, d))]
  ELSE IF t.right = Heap!Nil THEN [Grown(t, d) EXCEPT !.right = Heap!Node(DownOf(t, d))]
  ELSE IF t.left.size <= t.right.size THEN [Grown(t, d) EXCEPT !.left = f[t.left][DownOf(t, d)]]
  ELSE [Grown(t, d) EXCEPT !.right = f[t.right][DownOf(t, d)]]

\* PushNode's recursion is well-founded.
LEMMA PushDefined ==
  ASSUME NEW root, Tree(root)
  PROVE  \E f : f = [t \in Heap!Nodes(root) |-> [d \in HeapItems |-> PushStep(f, t, d)]]
  <1> DEFINE P == {n \in Nat : \E f : f = [t \in Sized(root, n) |-> [d \in HeapItems |-> PushStep(f, t, d)]]}
  <1>1. 0 \in P
    <2> DEFINE f == [t \in Sized(root, 0) |-> Heap!Nil]
    <2>1. f = [t \in Sized(root, 0) |-> [d \in HeapItems |-> PushStep(f, t, d)]]
      BY NoneSized
    <2> QED
      BY <2>1
  <1>2. ASSUME NEW n \in Nat, n \in P
        PROVE  n + 1 \in P
    <2>1. PICK f : f = [t \in Sized(root, n) |-> [d \in HeapItems |-> PushStep(f, t, d)]]
      BY <1>2
    <2> DEFINE g == [t \in Sized(root, n + 1) |-> [d \in HeapItems |-> PushStep(f, t, d)]]
    <2>2. \A t \in Sized(root, n) : f[t] = [d \in HeapItems |-> PushStep(f, t, d)]
      BY <2>1, Zenon
    <2>3. \A t \in Sized(root, n + 1) : g[t] = [d \in HeapItems |-> PushStep(f, t, d)]
      BY Zenon
    <2>4. Sized(root, n) \subseteq Sized(root, n + 1)
      <3>1. \A t \in Heap!Nodes(root) : t.size \in Nat
        BY NodesClosed, TreeSize, Zenon
      <3> QED
        BY <3>1 DEF Sized
    <2>5. \A t \in Sized(root, n) : g[t] = f[t]
      BY <2>2, <2>3, <2>4, Zenon
    <2> HIDE DEF g
    <2>6. ASSUME NEW t \in Sized(root, n + 1), NEW d
          PROVE  PushStep(g, t, d) = PushStep(f, t, d)
      <3>1. \A c \in {t.left, t.right} : c = Heap!Nil \/ g[c] = f[c]
        BY <2>5, SmallerChildren, Zenon
      <3>2. CASE t.left = Heap!Nil
        BY <3>2, Zenon DEF PushStep
      <3>3. CASE t.left # Heap!Nil /\ t.right = Heap!Nil
        BY <3>3, Zenon DEF PushStep
      <3>4. CASE t.left # Heap!Nil /\ t.right # Heap!Nil
        <4>1. g[t.left] = f[t.left] /\ g[t.right] = f[t.right]
          BY <3>1, <3>4, Zenon
        <4> QED
          BY <3>4, <4>1, Zenon DEF PushStep
      <3> QED
        BY <3>2, <3>3, <3>4
    <2>7. \A t \in Sized(root, n + 1) : g[t] = [d \in HeapItems |-> PushStep(g, t, d)]
      BY <2>3, <2>6, Zenon
    <2>8. g = [t \in Sized(root, n + 1) |-> [d \in HeapItems |-> PushStep(g, t, d)]]
      BY <2>7, Zenon DEF g
    <2>9. \E f1 : f1 = [t \in Sized(root, n + 1) |-> [d \in HeapItems |-> PushStep(f1, t, d)]]
      BY <2>8, Zenon
    <2>10. n + 1 \in Nat
      OBVIOUS
    <2> QED
      BY <2>9, <2>10, Zenon
  <1>3. Nat \subseteq P
    BY <1>1, <1>2, SetInduction
  <1>4. root.size \in Nat
    BY TreeSize
  <1>5. PICK f : f = [t \in Sized(root, root.size) |-> [d \in HeapItems |-> PushStep(f, t, d)]]
    BY <1>3, <1>4
  <1>6. f = [t \in Heap!Nodes(root) |-> [d \in HeapItems |-> PushStep(f, t, d)]]
    <2>1. Sized(root, root.size) = Heap!Nodes(root)
      BY AllSized, Zenon
    <2> QED
      BY <1>5, <2>1, Zenon
  <1> QED
    BY <1>6, Zenon

\* PushNode returns what such a function returns for the tree and the object.
LEMMA PushNodeIs ==
  ASSUME NEW root, Tree(root), NEW d \in HeapItems, root # Heap!Nil
  PROVE  \E f : /\ \A t \in Heap!Nodes(root) : \A e \in HeapItems : f[t][e] = PushStep(f, t, e)
                /\ Heap!PushNode(root, d) = f[root][d]
  <1> DEFINE push == CHOOSE f : f = [t \in Heap!Nodes(root) |-> [e \in HeapItems |-> PushStep(f, t, e)]]
  <1>1. push = [t \in Heap!Nodes(root) |-> [e \in HeapItems |-> PushStep(push, t, e)]]
    BY PushDefined, Zenon
  <1>2. Heap!PushNode(root, d) = push[root][d]
    BY Zenon DEF Heap!PushNode, PushStep, Grown, UpOf, DownOf
  <1> HIDE DEF push
  <1>3. \A t \in Heap!Nodes(root) : push[t] = [e \in HeapItems |-> PushStep(push, t, e)]
    BY <1>1, Zenon
  <1>4. \A t \in Heap!Nodes(root) : \A e \in HeapItems : push[t][e] = PushStep(push, t, e)
    BY <1>3, Zenon
  <1> QED
    BY <1>2, <1>4

\* p is t with the object d.
Pushed(p, t, d) ==
  /\ Tree(p) /\ p # Heap!Nil /\ p.size = t.size + 1
  /\ Heap!DataOf(p) = Heap!DataOf(t) \union {d}

\* A first node is a tree.
LEMMA LeafPushed ==
  ASSUME NEW d \in HeapItems
  PROVE  Pushed(Heap!Node(d), Heap!Nil, d)
  <1>1. Above(d, Heap!DataOf(Heap!Nil), Heap!DataOf(Heap!Nil))
    BY DataOfNil DEF Above
  <1>2. Heap!Node(d) = Top(d, Heap!Nil, Heap!Nil)
    BY DEF Heap!Node, Top, Heap!Nil
  <1>3. PICK p : Made(p, d, Heap!Nil, Heap!Nil)
    BY Zenon DEF Made
  <1>4. Parts(d, Heap!Nil, Heap!Nil)
    BY <1>1, NilIsTree, Zenon DEF Parts
  <1>5. Built(p, d, Heap!Nil, Heap!Nil)
    BY <1>3, <1>4, TreeBuilt, Zenon
  <1>6. /\ Tree(p) /\ p # Heap!Nil /\ p.size = Heap!Nil.size + Heap!Nil.size + 1
        /\ Heap!DataOf(p) = {d}
    BY <1>5, DataOfNil DEF Built
  <1>7. p.size = Heap!Nil.size + 1
    BY <1>6 DEF Heap!Nil
  <1>8. Heap!Node(d) = p
    BY <1>2, <1>3, Zenon DEF Made
  <1> QED
    BY <1>6, <1>7, <1>8, DataOfNil DEF Pushed

\* The object that stays at a node and the one that goes on below it
LEMMA UpAndDown ==
  ASSUME NEW t, Tree(t), t # Heap!Nil, NEW d \in HeapItems \ Heap!DataOf(t)
  PROVE  /\ UpOf(t, d) \in HeapItems /\ DownOf(t, d) \in HeapItems
         /\ {UpOf(t, d), DownOf(t, d)} = {t.data, d} /\ UpOf(t, d) # DownOf(t, d)
         /\ HeapRank[UpOf(t, d)] <= HeapRank[DownOf(t, d)]
         /\ \A e \in Heap!DataOf(t) : HeapRank[UpOf(t, d)] <= HeapRank[e]
  <1>1. /\ t.data \in Heap!DataOf(t)
        /\ \A e \in Heap!DataOf(t) : e \in HeapItems /\ HeapRank[t.data] <= HeapRank[e]
    BY TopOutranks, Zenon
  <1>2. \A e \in HeapItems : HeapRank[e] \in Int
    BY RuntimeAssumption DEF RuntimeAssumption
  <1>3. Heap!outRanks(d, t.data) <=> HeapRank[d] < HeapRank[t.data]
    BY <1>1, <1>2 DEF Heap!outRanks, Heap!ranks
  <1> QED
    BY <1>1, <1>2, <1>3 DEF UpOf, DownOf

\* The tree has one object and one node more.
LEMMA PushNodeRight ==
  ASSUME NEW root, Tree(root), root # Heap!Nil, NEW data \in HeapItems \ Heap!DataOf(root)
  PROVE  Pushed(Heap!PushNode(root, data), root, data)
  <1>1. PICK f : /\ \A t \in Heap!Nodes(root) : \A e \in HeapItems : f[t][e] = PushStep(f, t, e)
                 /\ Heap!PushNode(root, data) = f[root][data]
    BY PushNodeIs, Zenon
  <1> DEFINE P == {t \in Heap!Nodes(root) :
                     \A d \in HeapItems : d \notin Heap!DataOf(t) => Pushed(f[t][d], t, d)}
  <1>2. ASSUME NEW t \in Heap!Nodes(root), \A c \in {t.left, t.right} : c = Heap!Nil \/ c \in P
        PROVE  t \in P
    <2> SUFFICES ASSUME NEW d \in HeapItems, d \notin Heap!DataOf(t)
                 PROVE  Pushed(f[t][d], t, d)
      OBVIOUS
    <2>1. Tree(t) /\ t # Heap!Nil
      BY NodesClosed, Zenon
    <2>2. PICK b, l, r, u, w : b = t.data /\ l = t.left /\ r = t.right /\ u = UpOf(t, d) /\ w = DownOf(t, d)
      OBVIOUS
    <2>3. /\ t = Top(b, l, r) /\ b \in HeapItems /\ Tree(l) /\ Tree(r)
          /\ Above(b, Heap!DataOf(l), Heap!DataOf(r))
          /\ l.size \in Nat /\ r.size \in Nat /\ t.size = l.size + r.size + 1
      BY <2>1, <2>2, Subtrees, Zenon
    <2>4. Heap!DataOf(t) = {b} \union Heap!DataOf(l) \union Heap!DataOf(r)
      BY <2>1, <2>2, DataOfTop, Zenon
    <2>5. /\ u \in HeapItems /\ w \in HeapItems /\ {u, w} = {b, d} /\ u # w
          /\ HeapRank[u] <= HeapRank[w] /\ \A e \in Heap!DataOf(t) : HeapRank[u] <= HeapRank[e]
      BY <2>1, <2>2, UpAndDown
    <2>6. w \notin Heap!DataOf(l) \union Heap!DataOf(r) /\ u \notin Heap!DataOf(l) \union Heap!DataOf(r)
      <3>1. (u = b /\ w = d) \/ (u = d /\ w = b)
        BY <2>5
      <3>2. b \notin Heap!DataOf(l) \union Heap!DataOf(r)
        BY <2>3, Zenon DEF Above
      <3>3. d \notin Heap!DataOf(l) \union Heap!DataOf(r)
        BY <2>4
      <3> QED
        BY <3>1, <3>2, <3>3
    <2>7. u \in HeapItems
      BY <2>5
    <2>8. f[t][d] = PushStep(f, t, d)
      BY <1>1, Zenon
    <2>9. ASSUME NEW c \in {l, r}, c # Heap!Nil
          PROVE  Pushed(f[c][w], c, w)
      BY <1>2, <2>2, <2>5, <2>6, <2>9
    <2>10. PICK g : g = Grown(t, d)
      OBVIOUS
    <2>11. g = [data |-> u, size |-> t.size + 1, left |-> l, right |-> r]
      <3>1. PICK n : n = t.size
        OBVIOUS
      <3>2. t = [data |-> b, size |-> n, left |-> l, right |-> r]
        BY <2>3, <3>1 DEF Top
      <3>3. g = [t EXCEPT !.data = u, !.size = n + 1]
        BY <2>2, <2>10, <3>1 DEF Grown
      <3>4. g = [data |-> u, size |-> n + 1, left |-> l, right |-> r]
        BY <3>2, <3>3
      <3> QED
        BY <3>1, <3>4
    <2>12. ASSUME NEW q, Pushed(q, l, w), f[t][d] = [g EXCEPT !.left = q]
           PROVE  Pushed(f[t][d], t, d)
      <3>1. q.size = l.size + 1 /\ Tree(q) /\ Heap!DataOf(q) = Heap!DataOf(l) \union {w}
        BY <2>12 DEF Pushed
      <3>2. PICK n : n = t.size + 1
        OBVIOUS
      <3>3. f[t][d] = [data |-> u, size |-> n, left |-> q, right |-> r]
        BY <2>11, <2>12, <3>2
      <3>4. n = q.size + r.size + 1
        BY <2>3, <3>1, <3>2
      <3>5. Above(u, Heap!DataOf(q), Heap!DataOf(r))
        BY <2>3, <2>4, <2>5, <2>6, <3>1 DEF Above
      <3>6. PICK p : Made(p, u, q, r)
        BY Zenon DEF Made
      <3>7. f[t][d] = p
        BY <3>3, <3>4, <3>6 DEF Made, Top
      <3>8. Tree(q) /\ Tree(r)
        BY <2>3, <3>1
      <3>9. /\ Tree(p) /\ p # Heap!Nil /\ p.size = q.size + r.size + 1
            /\ Heap!DataOf(p) = {u} \union Heap!DataOf(q) \union Heap!DataOf(r)
        <4>1. Parts(u, q, r)
          BY <2>7, <3>5, <3>8, Zenon DEF Parts
        <4>2. Built(p, u, q, r)
          BY <3>6, <4>1, TreeBuilt, Zenon
        <4> QED
          BY <4>2, Zenon DEF Built
      <3>10. Heap!DataOf(p) = Heap!DataOf(t) \union {d}
        BY <2>4, <2>5, <3>1, <3>9
      <3> QED
        BY <3>2, <3>4, <3>7, <3>9, <3>10, Zenon DEF Pushed
    <2>13. ASSUME NEW q, Pushed(q, r, w), f[t][d] = [g EXCEPT !.right = q]
           PROVE  Pushed(f[t][d], t, d)
      <3>1. q.size = r.size + 1 /\ Tree(q) /\ Heap!DataOf(q) = Heap!DataOf(r) \union {w}
        BY <2>13 DEF Pushed
      <3>2. PICK n : n = t.size + 1
        OBVIOUS
      <3>3. f[t][d] = [data |-> u, size |-> n, left |-> l, right |-> q]
        BY <2>11, <2>13, <3>2
      <3>4. n = l.size + q.size + 1
        BY <2>3, <3>1, <3>2
      <3>5. Above(u, Heap!DataOf(l), Heap!DataOf(q))
        BY <2>3, <2>4, <2>5, <2>6, <3>1 DEF Above
      <3>6. PICK p : Made(p, u, l, q)
        BY Zenon DEF Made
      <3>7. f[t][d] = p
        BY <3>3, <3>4, <3>6 DEF Made, Top
      <3>8. Tree(q) /\ Tree(l)
        BY <2>3, <3>1
      <3>9. /\ Tree(p) /\ p # Heap!Nil /\ p.size = l.size + q.size + 1
            /\ Heap!DataOf(p) = {u} \union Heap!DataOf(l) \union Heap!DataOf(q)
        <4>1. Parts(u, l, q)
          BY <2>7, <3>5, <3>8, Zenon DEF Parts
        <4>2. Built(p, u, l, q)
          BY <3>6, <4>1, TreeBuilt, Zenon
        <4> QED
          BY <4>2, Zenon DEF Built
      <3>10. Heap!DataOf(p) = Heap!DataOf(t) \union {d}
        BY <2>4, <2>5, <3>1, <3>9
      <3> QED
        BY <3>2, <3>4, <3>7, <3>9, <3>10, Zenon DEF Pushed
    <2>14. CASE l = Heap!Nil
      <3>1. f[t][d] = [g EXCEPT !.left = Heap!Node(w)]
        BY <2>2, <2>8, <2>10, <2>14, Zenon DEF PushStep
      <3>2. w \in HeapItems
        BY <2>5
      <3>3. Pushed(Heap!Node(w), l, w)
        BY <2>14, <3>2, LeafPushed, Zenon
      <3> QED
        BY <2>12, <3>1, <3>3, Zenon
    <2>15. CASE l # Heap!Nil /\ r = Heap!Nil
      <3>1. f[t][d] = [g EXCEPT !.right = Heap!Node(w)]
        BY <2>2, <2>8, <2>10, <2>15, Zenon DEF PushStep
      <3>2. w \in HeapItems
        BY <2>5
      <3>3. Pushed(Heap!Node(w), r, w)
        BY <2>15, <3>2, LeafPushed, Zenon
      <3> QED
        BY <2>13, <3>1, <3>3, Zenon
    <2>16. CASE l # Heap!Nil /\ r # Heap!Nil /\ l.size <= r.size
      BY <2>2, <2>8, <2>9, <2>10, <2>12, <2>16, Zenon DEF PushStep
    <2>17. CASE l # Heap!Nil /\ r # Heap!Nil /\ ~ (l.size <= r.size)
      BY <2>2, <2>8, <2>9, <2>10, <2>13, <2>17, Zenon DEF PushStep
    <2> QED
      BY <2>14, <2>15, <2>16, <2>17
  <1>3. Heap!Nodes(root) \subseteq P
    <2> HIDE DEF P
    <2> QED
      BY <1>2, NodeInduction
  <1>4. root \in Heap!Nodes(root)
    BY NodesClosed, Zenon
  <1> QED
    BY <1>1, <1>3, <1>4, Zenon

-----------------------------------------------------------------------------
(* remove *)

\* A search that leaves the tree as it was
NotFound(t) == [tree |-> t, found |-> FALSE]

\* What RemoveNode makes of a node, with x and y for what it makes of the children
RemoveWith(x, y, t, d) ==
  IF t = Heap!Nil THEN NotFound(Heap!Nil)
  ELSE IF t.data = d THEN [tree |-> Heap!PopNode(t), found |-> TRUE]
  ELSE IF Heap!outRanks(d, t.data) THEN NotFound(t)
  ELSE IF x.found THEN [tree |-> [t EXCEPT !.left = x.tree, !.size = @ - 1], found |-> TRUE]
  ELSE IF y.found THEN [tree |-> [t EXCEPT !.right = y.tree, !.size = @ - 1], found |-> TRUE]
  ELSE NotFound(t)

\* The same, with f for what it makes of the children
RemoveStep(f, t, d) == RemoveWith(f[t.left], f[t.right], t, d)

\* f is the function RemoveNode defines.
Removal(f, root, d) == f = [t \in Heap!Nodes(root) \union {Heap!Nil} |-> RemoveStep(f, t, d)]

\* RemoveNode's recursion is well-founded.
LEMMA RemoveDefined ==
  ASSUME NEW root, Tree(root), NEW d
  PROVE  \E f : Removal(f, root, d)
  <1> DEFINE P == {n \in Nat : \E f : f = [t \in Sized(root, n) \union {Heap!Nil} |-> RemoveStep(f, t, d)]}
  <1>1. 0 \in P
    <2> DEFINE f == [t \in Sized(root, 0) \union {Heap!Nil} |-> NotFound(Heap!Nil)]
    <2>1. \A t \in Sized(root, 0) \union {Heap!Nil} : t = Heap!Nil
      BY NoneSized
    <2>2. \A t \in Sized(root, 0) \union {Heap!Nil} : \A h : RemoveStep(h, t, d) = NotFound(Heap!Nil)
      BY <2>1, Zenon DEF RemoveStep, RemoveWith
    <2>3. f = [t \in Sized(root, 0) \union {Heap!Nil} |-> RemoveStep(f, t, d)]
      BY <2>2, Zenon
    <2> HIDE DEF f
    <2> QED
      BY <2>3
  <1>2. ASSUME NEW n \in Nat, n \in P
        PROVE  n + 1 \in P
    <2>1. PICK f : f = [t \in Sized(root, n) \union {Heap!Nil} |-> RemoveStep(f, t, d)]
      BY <1>2
    <2> DEFINE D == Sized(root, n + 1) \union {Heap!Nil}
               g == [t \in D |-> RemoveStep(f, t, d)]
    <2>2. \A t \in Sized(root, n) \union {Heap!Nil} : f[t] = RemoveStep(f, t, d)
      BY <2>1, Zenon
    <2>3. \A t \in D : g[t] = RemoveStep(f, t, d)
      BY Zenon
    <2>4. Sized(root, n) \union {Heap!Nil} \subseteq D
      <3>1. \A t \in Heap!Nodes(root) : t.size \in Nat
        BY NodesClosed, TreeSize, Zenon
      <3> QED
        BY <3>1 DEF Sized
    <2> HIDE DEF g
    <2>5. \A t \in Sized(root, n) \union {Heap!Nil} : g[t] = f[t]
      BY <2>2, <2>3, <2>4, Zenon
    <2>6. ASSUME NEW t \in D
          PROVE  RemoveStep(g, t, d) = RemoveStep(f, t, d)
      <3>1. CASE t = Heap!Nil
        BY <3>1, Zenon DEF RemoveStep, RemoveWith
      <3>2. CASE t \in Sized(root, n + 1)
        <4>1. \A c \in {t.left, t.right} : c \in Sized(root, n) \union {Heap!Nil}
          BY <3>2, SmallerChildren
        <4>2. g[t.left] = f[t.left] /\ g[t.right] = f[t.right]
          BY <2>5, <4>1, Zenon
        <4> QED
          BY <4>2 DEF RemoveStep
      <3> QED
        BY <3>1, <3>2
    <2>7. \A t \in D : g[t] = RemoveStep(g, t, d)
      BY <2>3, <2>6, Zenon
    <2>8. g = [t \in D |-> RemoveStep(g, t, d)]
      BY <2>7, Zenon DEF g
    <2>9. \E f1 : f1 = [t \in D |-> RemoveStep(f1, t, d)]
      BY <2>8, Zenon
    <2>10. n + 1 \in Nat
      OBVIOUS
    <2> QED
      BY <2>9, <2>10, Zenon
  <1>3. Nat \subseteq P
    BY <1>1, <1>2, SetInduction
  <1>4. root.size \in Nat
    BY TreeSize
  <1>5. PICK f : f = [t \in Sized(root, root.size) \union {Heap!Nil} |-> RemoveStep(f, t, d)]
    BY <1>3, <1>4
  <1>6. f = [t \in Heap!Nodes(root) \union {Heap!Nil} |-> RemoveStep(f, t, d)]
    <2>1. Sized(root, root.size) = Heap!Nodes(root)
      BY AllSized, Zenon
    <2> QED
      BY <1>5, <2>1, Zenon
  <1> QED
    BY <1>6, Zenon DEF Removal

\* RemoveNode returns what such a function returns for the tree.
LEMMA RemoveNodeIs ==
  ASSUME NEW root, Tree(root), NEW d
  PROVE  \E f : /\ \A t \in Heap!Nodes(root) \union {Heap!Nil} : f[t] = RemoveStep(f, t, d)
                /\ Heap!RemoveNode(root, d) = f[root]
  <1> DEFINE removal == CHOOSE f : Removal(f, root, d)
  <1>1. Removal(removal, root, d)
    BY RemoveDefined, Zenon
  <1>2. Heap!RemoveNode(root, d) = removal[root]
    BY Zenon DEF Heap!RemoveNode, Removal, RemoveStep, RemoveWith, NotFound
  <1> HIDE DEF removal
  <1>3. \A t \in Heap!Nodes(root) \union {Heap!Nil} : removal[t] = RemoveStep(removal, t, d)
    BY <1>1, Zenon DEF Removal
  <1> QED
    BY <1>2, <1>3

\* x is the result of removing d from t: found if it is there.
Removed(x, t, d) ==
  IF d \in Heap!DataOf(t)
  THEN /\ x.found /\ Tree(x.tree) /\ x.tree.size = t.size - 1
       /\ Heap!DataOf(x.tree) = Heap!DataOf(t) \ {d}
  ELSE x = NotFound(t)

\* The search finds the object wherever it is, and leaves the tree without it.
LEMMA RemoveNodeRight ==
  ASSUME NEW root, Tree(root), NEW d \in HeapItems
  PROVE  Removed(Heap!RemoveNode(root, d), root, d)
  <1>1. PICK f : /\ \A t \in Heap!Nodes(root) \union {Heap!Nil} : f[t] = RemoveStep(f, t, d)
                 /\ Heap!RemoveNode(root, d) = f[root]
    BY RemoveNodeIs, Zenon
  <1> DEFINE P == {t \in Heap!Nodes(root) : Removed(f[t], t, d)}
  <1>2. Removed(f[Heap!Nil], Heap!Nil, d)
    <2>1. f[Heap!Nil] = NotFound(Heap!Nil)
      BY <1>1, Zenon DEF RemoveStep, RemoveWith
    <2> QED
      BY <2>1, DataOfNil DEF Removed
  <1>3. ASSUME NEW t \in Heap!Nodes(root), \A c \in {t.left, t.right} : c = Heap!Nil \/ c \in P
        PROVE  t \in P
    <2> SUFFICES Removed(f[t], t, d)
      OBVIOUS
    <2>1. Tree(t) /\ t # Heap!Nil
      BY NodesClosed, Zenon
    <2>2. PICK b, l, r, x, y : b = t.data /\ l = t.left /\ r = t.right /\ x = f[l] /\ y = f[r]
      OBVIOUS
    <2>3. /\ t = Top(b, l, r) /\ Tree(l) /\ Tree(r)
          /\ Above(b, Heap!DataOf(l), Heap!DataOf(r))
          /\ l.size \in Nat /\ r.size \in Nat /\ t.size = l.size + r.size + 1
      BY <2>1, <2>2, Subtrees, Zenon
    <2>4. b \in HeapItems
      BY <2>1, <2>2, Subtrees, Zenon
    <2>5. Heap!DataOf(t) = {b} \union Heap!DataOf(l) \union Heap!DataOf(r)
      BY <2>1, <2>2, DataOfTop, Zenon
    <2>6. Removed(x, l, d) /\ Removed(y, r, d)
      BY <1>2, <1>3, <2>2, Zenon
    <2>7. f[t] = RemoveWith(x, y, t, d)
      <3>1. f[t] = RemoveStep(f, t, d)
        BY <1>1, Zenon
      <3> QED
        BY <2>2, <3>1, Zenon DEF RemoveStep
    <2>8. CASE b = d
      <3>1. f[t] = [tree |-> Heap!PopNode(t), found |-> TRUE]
        BY <2>1, <2>2, <2>7, <2>8, Zenon DEF RemoveWith
      <3>2. Popped(Heap!PopNode(t), t)
        BY <2>1, PopNodeRight, Zenon
      <3>3. PICK p : p = Heap!PopNode(t)
        OBVIOUS
      <3>4. f[t].found /\ f[t].tree = p
        BY <3>1, <3>3
      <3>5. d \in Heap!DataOf(t)
        BY <2>5, <2>8
      <3> QED
        BY <2>2, <2>8, <3>2, <3>3, <3>4, <3>5, Zenon DEF Removed, Popped
    <2>9. CASE b # d /\ Heap!outRanks(d, b)
      <3>1. f[t] = NotFound(t)
        BY <2>1, <2>2, <2>7, <2>9, Zenon DEF RemoveWith
      <3>2. ASSUME d \in Heap!DataOf(t)
            PROVE  FALSE
        <4>1. HeapRank[b] <= HeapRank[d]
          BY <2>1, <2>2, <3>2, TopOutranks, Zenon
        <4>2. HeapRank[b] \in Int /\ HeapRank[d] \in Int
          BY <2>4, RuntimeAssumption DEF RuntimeAssumption
        <4> QED
          BY <2>9, <4>1, <4>2 DEF Heap!outRanks, Heap!ranks
      <3> QED
        BY <3>1, <3>2, Zenon DEF Removed
    <2>10. PICK n : n = t.size
      OBVIOUS
    <2>11. t = [data |-> b, size |-> n, left |-> l, right |-> r]
      BY <2>3, <2>10 DEF Top
    <2>12. CASE b # d /\ ~ Heap!outRanks(d, b) /\ d \in Heap!DataOf(l)
      <3>1. PICK q : q = x.tree
        OBVIOUS
      <3>2. x.found /\ Tree(q) /\ q.size = l.size - 1 /\ Heap!DataOf(q) = Heap!DataOf(l) \ {d}
        BY <2>6, <2>12, <3>1, Zenon DEF Removed
      <3>3. f[t] = [tree |-> [t EXCEPT !.left = q, !.size = @ - 1], found |-> TRUE]
        <4>1. t # Heap!Nil /\ t.data # d /\ ~ Heap!outRanks(d, t.data)
          BY <2>1, <2>2, <2>12, Zenon
        <4>2. x.found
          BY <3>2
        <4> QED
          BY <2>7, <3>1, <4>1, <4>2, Zenon DEF RemoveWith
      <3>4. f[t].found /\ f[t].tree = [t EXCEPT !.left = q, !.size = n - 1]
        BY <2>10, <3>3
      <3>5. f[t].tree = [data |-> b, size |-> n - 1, left |-> q, right |-> r]
        <4>1. PICK m, z : m = n - 1 /\ z = f[t].tree
          OBVIOUS
        <4>2. z = [t EXCEPT !.left = q, !.size = m]
          BY <3>4, <4>1
        <4>3. z = [data |-> b, size |-> m, left |-> q, right |-> r]
          BY <2>11, <4>2
        <4> QED
          BY <4>1, <4>3
      <3>6. n - 1 = q.size + r.size + 1
        BY <2>3, <2>10, <3>2, TreeSize
      <3>7. Above(b, Heap!DataOf(q), Heap!DataOf(r))
        BY <2>3, <3>2 DEF Above
      <3>8. PICK p : Made(p, b, q, r)
        BY Zenon DEF Made
      <3>9. f[t].tree = p
        BY <3>5, <3>6, <3>8 DEF Made, Top
      <3>10. Tree(q) /\ Tree(r)
        BY <2>3, <3>2
      <3>11. /\ Tree(p) /\ p # Heap!Nil /\ p.size = q.size + r.size + 1
             /\ Heap!DataOf(p) = {b} \union Heap!DataOf(q) \union Heap!DataOf(r)
        <4>1. Parts(b, q, r)
          BY <2>4, <3>7, <3>10, Zenon DEF Parts
        <4>2. Built(p, b, q, r)
          BY <3>8, <4>1, TreeBuilt, Zenon
        <4> QED
          BY <4>2, Zenon DEF Built
      <3>12. d \in Heap!DataOf(t) /\ Heap!DataOf(p) = Heap!DataOf(t) \ {d}
        <4>1. d \notin Heap!DataOf(r)
          BY <2>3, <2>12, Zenon DEF Above
        <4> QED
          BY <2>5, <2>12, <3>2, <3>11, <4>1
      <3> QED
        BY <2>10, <3>4, <3>6, <3>9, <3>11, <3>12, Zenon DEF Removed
    <2>13. CASE b # d /\ ~ Heap!outRanks(d, b) /\ d \notin Heap!DataOf(l) /\ d \in Heap!DataOf(r)
      <3>1. PICK q : q = y.tree
        OBVIOUS
      <3>2. y.found /\ Tree(q) /\ q.size = r.size - 1 /\ Heap!DataOf(q) = Heap!DataOf(r) \ {d}
        BY <2>6, <2>13, <3>1, Zenon DEF Removed
      <3>3. ~ x.found
        BY <2>6, <2>13 DEF Removed, NotFound
      <3>4. f[t] = [tree |-> [t EXCEPT !.right = q, !.size = @ - 1], found |-> TRUE]
        <4>1. t # Heap!Nil /\ t.data # d /\ ~ Heap!outRanks(d, t.data)
          BY <2>1, <2>2, <2>13, Zenon
        <4>2. y.found
          BY <3>2
        <4> QED
          BY <2>7, <3>1, <3>3, <4>1, <4>2, Zenon DEF RemoveWith
      <3>5. f[t].found /\ f[t].tree = [t EXCEPT !.right = q, !.size = n - 1]
        BY <2>10, <3>4
      <3>6. f[t].tree = [data |-> b, size |-> n - 1, left |-> l, right |-> q]
        <4>1. PICK m, z : m = n - 1 /\ z = f[t].tree
          OBVIOUS
        <4>2. z = [t EXCEPT !.right = q, !.size = m]
          BY <3>5, <4>1
        <4>3. z = [data |-> b, size |-> m, left |-> l, right |-> q]
          BY <2>11, <4>2
        <4> QED
          BY <4>1, <4>3
      <3>7. n - 1 = l.size + q.size + 1
        BY <2>3, <2>10, <3>2, TreeSize
      <3>8. Above(b, Heap!DataOf(l), Heap!DataOf(q))
        BY <2>3, <3>2 DEF Above
      <3>9. PICK p : Made(p, b, l, q)
        BY Zenon DEF Made
      <3>10. f[t].tree = p
        BY <3>6, <3>7, <3>9 DEF Made, Top
      <3>11. Tree(q) /\ Tree(l)
        BY <2>3, <3>2
      <3>12. /\ Tree(p) /\ p # Heap!Nil /\ p.size = l.size + q.size + 1
             /\ Heap!DataOf(p) = {b} \union Heap!DataOf(l) \union Heap!DataOf(q)
        <4>1. Parts(b, l, q)
          BY <2>4, <3>8, <3>11, Zenon DEF Parts
        <4>2. Built(p, b, l, q)
          BY <3>9, <4>1, TreeBuilt, Zenon
        <4> QED
          BY <4>2, Zenon DEF Built
      <3>13. d \in Heap!DataOf(t) /\ Heap!DataOf(p) = Heap!DataOf(t) \ {d}
        BY <2>5, <2>13, <3>2, <3>12
      <3> QED
        BY <2>10, <3>5, <3>7, <3>10, <3>12, <3>13, Zenon DEF Removed
    <2>14. CASE b # d /\ ~ Heap!outRanks(d, b) /\ d \notin Heap!DataOf(l) /\ d \notin Heap!DataOf(r)
      <3>1. ~ x.found /\ ~ y.found
        BY <2>6, <2>14 DEF Removed, NotFound
      <3>2. f[t] = NotFound(t)
        BY <2>1, <2>2, <2>7, <2>14, <3>1, Zenon DEF RemoveWith
      <3>3. d \notin Heap!DataOf(t)
        BY <2>5, <2>14
      <3> QED
        BY <3>2, <3>3, Zenon DEF Removed
    <2> QED
      BY <2>8, <2>9, <2>12, <2>13, <2>14, Zenon
  <1>4. Heap!Nodes(root) \subseteq P
    <2> HIDE DEF P
    <2> QED
      BY <1>3, NodeInduction
  <1>5. root = Heap!Nil \/ root \in Heap!Nodes(root)
    BY NodesClosed, Zenon
  <1> QED
    BY <1>1, <1>2, <1>4, <1>5, Zenon

-----------------------------------------------------------------------------
(* The heap is a priority set *)

\* push adds the object to the set.
LEMMA PushStepRight ==
  ASSUME Tree(tree), NEW d \in HeapItems, Heap!push(d)
  PROVE  Tree(tree') /\ Heap!Abstract!Push(d)
  <1>1. Pushed(tree', tree, d)
    <2>1. CASE tree = Heap!Nil
      <3>1. tree' = Heap!Node(d)
        BY <2>1, Zenon DEF Heap!push
      <3>2. Pushed(Heap!Node(d), Heap!Nil, d)
        BY LeafPushed, Zenon
      <3> QED
        BY <2>1, <3>1, <3>2, Zenon
    <2>2. CASE tree # Heap!Nil
      <3>1. tree' = Heap!PushNode(tree, d) /\ d \notin Heap!DataOf(tree)
        BY <2>2, Zenon DEF Heap!push
      <3>2. Pushed(Heap!PushNode(tree, d), tree, d)
        BY <2>2, <3>1, PushNodeRight
      <3> QED
        BY <3>1, <3>2, Zenon
    <2> QED
      BY <2>1, <2>2
  <1>2. Heap!DataOf(tree)' = Heap!DataOf(tree')
    OBVIOUS
  <1> QED
    BY <1>1, <1>2, Zenon DEF Pushed, Heap!push, Heap!Abstract!Push

\* pop takes an object of the highest rank out of the set.
LEMMA PopStepRight ==
  ASSUME Tree(tree), Heap!pop
  PROVE  Tree(tree') /\ Heap!Abstract!Pop
  <1>1. CASE tree = Heap!Nil
    <2>1. tree' = Heap!Nil /\ returned' = <<"pop", None>>
      BY <1>1, Zenon DEF Heap!pop
    <2>2. Heap!DataOf(tree) = {} /\ Heap!DataOf(tree') = Heap!DataOf(tree) /\ Tree(tree')
      BY <1>1, <2>1, DataOfNil, NilIsTree, Zenon
    <2> QED
      BY <2>1, <2>2, Zenon DEF Heap!Abstract!Pop
  <1>2. CASE tree # Heap!Nil
    <2>1. tree' = Heap!PopNode(tree) /\ returned' = <<"pop", tree.data>>
      BY <1>2, Zenon DEF Heap!pop
    <2>2. Popped(tree', tree)
      BY <1>2, <2>1, PopNodeRight, Zenon
    <2>3. /\ tree.data \in Heap!DataOf(tree)
          /\ \A e \in Heap!DataOf(tree) : e \in HeapItems /\ HeapRank[tree.data] <= HeapRank[e]
      BY <1>2, TopOutranks, Zenon
    <2>4. \A e \in HeapItems : HeapRank[e] \in Int
      BY RuntimeAssumption DEF RuntimeAssumption
    <2>5. tree.data \in Heap!Abstract!Highest
      BY <2>3, <2>4 DEF Heap!Abstract!Highest
    <2> QED
      BY <2>1, <2>2, <2>5, Zenon DEF Popped, Heap!Abstract!Pop
  <1> QED
    BY <1>1, <1>2

\* remove takes the object out of the set if it is there.
LEMMA RemoveStepRight ==
  ASSUME Tree(tree), NEW d \in HeapItems, Heap!remove(d)
  PROVE  Tree(tree') /\ Heap!Abstract!Remove(d)
  <1>1. PICK x : x = Heap!RemoveNode(tree, d)
    OBVIOUS
  <1>2. Removed(x, tree, d)
    BY <1>1, RemoveNodeRight, Zenon
  <1>3. tree' = x.tree /\ returned' = <<"remove", IF x.found THEN d ELSE None>>
    BY <1>1, Zenon DEF Heap!remove
  <1>4. CASE d \in Heap!DataOf(tree)
    BY <1>2, <1>3, <1>4, Zenon DEF Removed, Heap!Abstract!Remove
  <1>5. CASE d \notin Heap!DataOf(tree)
    <2>1. x.tree = tree /\ x.found = FALSE
      BY <1>2, <1>5 DEF Removed, NotFound
    <2>2. Heap!DataOf(tree') = Heap!DataOf(tree) \ {d}
      BY <1>3, <1>5, <2>1
    <2> QED
      BY <1>3, <1>5, <2>1, <2>2, Zenon DEF Heap!Abstract!Remove
  <1> QED
    BY <1>4, <1>5

\* A tree passes the check the code has for its unit test.
LEMMA TreesAreSound ==
  ASSUME NEW root, Tree(root)
  PROVE  Heap!checkNodes(root)
  <1> SUFFICES ASSUME NEW t \in Heap!Nodes(root)
               PROVE  /\ \A side \in {"left", "right"} :
                           t[side] # Heap!Nil => ~ Heap!outRanks(t[side].data, t.data)
                      /\ t.size - t.left.size - t.right.size = 1
    BY DEF Heap!checkNodes
  <1>1. Tree(t) /\ t # Heap!Nil
    BY NodesClosed, Zenon
  <1>2. /\ t.data \in HeapItems /\ Tree(t.left) /\ Tree(t.right)
        /\ Above(t.data, Heap!DataOf(t.left), Heap!DataOf(t.right))
        /\ t.left.size \in Nat /\ t.right.size \in Nat /\ t.size = t.left.size + t.right.size + 1
    BY <1>1, Subtrees, Zenon
  <1>3. ASSUME NEW c \in {t.left, t.right}, c # Heap!Nil
        PROVE  ~ Heap!outRanks(c.data, t.data)
    <2>1. Tree(c)
      BY <1>2, <1>3, Zenon
    <2>2. c.data \in Heap!DataOf(c) /\ c.data \in HeapItems
      BY <1>3, <2>1, TopOutranks, Zenon
    <2>3. HeapRank[t.data] <= HeapRank[c.data]
      BY <1>2, <1>3, <2>2, Zenon DEF Above
    <2>4. HeapRank[t.data] \in Int /\ HeapRank[c.data] \in Int
      BY <1>2, <2>2, RuntimeAssumption DEF RuntimeAssumption
    <2> QED
      BY <2>3, <2>4 DEF Heap!outRanks, Heap!ranks
  <1>4. t.size - t.left.size - t.right.size = 1
    BY <1>2
  <1> QED
    BY <1>3, <1>4

\* The tree is a priority set and passes the code's own check after every call, for any
\* objects and ranks: pop returns an object of the highest rank, remove finds the object
\* wherever pushes and pops have moved it, and nothing is lost or duplicated
\* (LocHeap.cpp 107-268).
THEOREM HeapIsPrioritySet == MCSpec => ImplementsPrioritySet
  <1>1. MCInit => Tree(tree) /\ Heap!Abstract!Init
    BY NilIsTree, DataOfNil DEF MCInit, Heap!Init, Heap!Abstract!Init
  <1>2. Tree(tree) /\ [MCNext]_mcvars =>
          Tree(tree)' /\ [Heap!Abstract!Next]_(Heap!Abstract!vars) /\ [Heap!checkNodes(tree')]_(Heap!vars)
    <2> SUFFICES ASSUME Tree(tree), [MCNext]_mcvars
                 PROVE  /\ Tree(tree') /\ [Heap!Abstract!Next]_(Heap!Abstract!vars)
                        /\ [Heap!checkNodes(tree')]_(Heap!vars)
      OBVIOUS
    <2>1. CASE Heap!Next
      <3>1. Tree(tree') /\ Heap!Abstract!Next
        BY <2>1, PushStepRight, PopStepRight, RemoveStepRight, Zenon DEF Heap!Next, Heap!Abstract!Next
      <3> QED
        BY <3>1, TreesAreSound, Zenon
    <2>2. CASE UNCHANGED treeVars
      BY <2>2 DEF treeVars, Heap!vars, Heap!Abstract!vars
    <2>3. Heap!Next \/ UNCHANGED treeVars
      BY DEF MCNext, Part, Rest, mcvars
    <2> QED
      BY <2>1, <2>2, <2>3
  <1> QED
    BY <1>1, <1>2, PTL DEF MCSpec, ImplementsPrioritySet, Heap!ImplementsPrioritySet, Heap!StaysSound,
       Heap!Abstract!Spec
=============================================================================
