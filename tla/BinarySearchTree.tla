-------------------------- MODULE BinarySearchTree --------------------------
(* DS_Algos/BST/unbalanced: a binary search tree with parent pointers.     *)
(* Nodes are 1, 2, ...; 0 is NULL.  An address is not used again after     *)
(* free(3), so a pointer to a freed node is recognised; following one is   *)
(* undefined and ends the model.  The queries change nothing: they are the *)
(* operators below, and the properties put them to every reachable tree.   *)
EXTENDS Naturals, Sequences, FiniteSets, SequencesExt

CONSTANTS
  BstKeys,   \* the keys the user types
  BstNodes   \* bound: the nodes ever allocated

ASSUME BstAssumption == BstKeys \subseteq Nat /\ BstNodes \in Nat

VARIABLES
  bstHeap,   \* the nodes allocated so far
  bstRoot,   \* root
  bstFreed,  \* the nodes given back with free(3)
  bstKeys,   \* the keys inserted and not removed, in increasing order
  bstUndef   \* was a freed node followed?

bstVars == <<bstHeap, bstRoot, bstFreed, bstKeys, bstUndef>>

BstInit ==
  /\ bstHeap = <<>>
  /\ bstRoot = 0
  /\ bstFreed = {}
  /\ bstKeys = <<>>
  /\ bstUndef = FALSE

\* tree_find(): the topmost node with the key, or NULL.
RECURSIVE BstTreeFind(_, _, _)
BstTreeFind(h, n, k) ==
  IF n = 0 \/ h[n].key = k THEN n
  ELSE BstTreeFind(h, IF k < h[n].key THEN h[n].left ELSE h[n].right, k)

RECURSIVE BstTreeMinimum(_, _), TreeMaximum(_, _)
BstTreeMinimum(h, n) == IF n = 0 \/ h[n].left = 0 THEN n ELSE BstTreeMinimum(h, h[n].left)
TreeMaximum(h, n) == IF n = 0 \/ h[n].right = 0 THEN n ELSE TreeMaximum(h, h[n].right)

\* The node below which tree_insert() hangs a key; equal keys go right.
RECURSIVE TreeLeaf(_, _, _, _)
TreeLeaf(h, prev, n, k) ==
  IF n = 0 THEN prev
  ELSE TreeLeaf(h, n, IF k < h[n].key THEN h[n].left ELSE h[n].right, k)

\* Climbing from n until it is not on the given side of its parent; Undef when
\* that follows a freed node.
Undef == BstNodes + 1
RECURSIVE BstClimb(_, _, _, _)
BstClimb(h, freed, n, side) ==
  LET p == h[n].parent IN
  IF p \in freed THEN Undef
  ELSE IF p = 0 \/ (IF side = "left" THEN h[p].left ELSE h[p].right) = n THEN p
  ELSE BstClimb(h, freed, p, side)

BstTreeSuccessor(h, freed, n) ==
  IF h[n].right # 0 THEN BstTreeMinimum(h, h[n].right) ELSE BstClimb(h, freed, n, "left")
TreePredecessor(h, freed, n) ==
  IF h[n].left # 0 THEN TreeMaximum(h, h[n].left) ELSE BstClimb(h, freed, n, "right")

\* transplant(): v takes the place of u below u's parent.
Transplant(h, u, v) ==
  LET p == h[u].parent
      h1 == IF p = 0 THEN h
            ELSE IF h[p].left = u THEN [h EXCEPT ![p].left = v]
            ELSE [h EXCEPT ![p].right = v]
  IN IF v = 0 THEN h1 ELSE [h1 EXCEPT ![v].parent = p]

\* tree_delete_internal() with two children: the successor moves up.  When it
\* is the right child, the left child's parent pointer is not updated.
MoveUpNoLeft(h, d) == Transplant(h, d, BstTreeMinimum(h, h[d].right))
MoveUp(h, d) ==
  LET s == BstTreeMinimum(h, h[d].right)
      l == h[d].left
      r == h[d].right
  IN IF s = r
     THEN Transplant([h EXCEPT ![s].left = l], d, s)
     ELSE LET h1 == Transplant(h, s, h[s].right)
              h2 == [h1 EXCEPT ![s].right = r, ![s].left = l]
              h3 == [h2 EXCEPT ![l].parent = s, ![r].parent = s]
          IN Transplant(h3, d, s)

\* tree_insert(), which leaves the tree alone when there is no memory.
BstInsert(k) ==
  /\ ~bstUndef
  /\ Len(bstHeap) < BstNodes
  /\ LET p == TreeLeaf(bstHeap, 0, bstRoot, k)
         n == Len(bstHeap) + 1
         h == Append(bstHeap, [key |-> k, left |-> 0, right |-> 0, parent |-> p])
     IN /\ bstHeap' = IF p = 0 THEN h
                      ELSE IF k < h[p].key THEN [h EXCEPT ![p].left = n]
                      ELSE [h EXCEPT ![p].right = n]
        /\ bstRoot' = IF p = 0 THEN n ELSE bstRoot
  /\ bstKeys' = SortSeq(Append(bstKeys, k), <)
  /\ UNCHANGED <<bstFreed, bstUndef>>

\* tree_delete(): find, unlink and free; a key that is not there is ignored.
BstDelete(k) ==
  /\ ~bstUndef
  /\ LET d == BstTreeFind(bstHeap, bstRoot, k) IN
       /\ d # 0
       /\ LET h == bstHeap
              only == IF h[d].left = 0 THEN h[d].right ELSE h[d].left
              two == h[d].left # 0 /\ h[d].right # 0
              top == IF two THEN BstTreeMinimum(h, h[d].right) ELSE only
          IN IF \/ h[d].parent \in bstFreed
                \/ two /\ h[top].parent \in bstFreed
             THEN bstUndef' = TRUE /\ UNCHANGED <<bstHeap, bstRoot, bstFreed, bstKeys>>
             ELSE /\ bstHeap' = IF two THEN MoveUp(h, d) ELSE Transplant(h, d, only)
                  /\ bstRoot' = IF h[d].parent = 0 THEN top ELSE bstRoot
                  /\ bstFreed' = bstFreed \cup {d}
                  /\ bstKeys' = RemoveFirst(bstKeys, k)
                  /\ UNCHANGED bstUndef

BstNext == \E k \in BstKeys : BstInsert(k) \/ BstDelete(k)

BstSpec == BstInit /\ [][BstNext]_bstVars
----------------------------------------------------------------------------
\* The nodes from n on in the order of their keys.
RECURSIVE BstInOrder(_, _)
BstInOrder(h, n) ==
  IF n = 0 THEN <<>> ELSE BstInOrder(h, h[n].left) \o <<n>> \o BstInOrder(h, h[n].right)

\* Until a freed node is followed, the tree holds exactly the keys inserted and
\* not removed, in order; no freed node is in it; and every successor() and
\* predecessor() that is defined is the neighbour in that order.
BstSound ==
  ~bstUndef =>
    LET w == BstInOrder(bstHeap, bstRoot) IN
      /\ [j \in DOMAIN w |-> bstHeap[w[j]].key] = bstKeys
      /\ \A j \in DOMAIN w :
           /\ w[j] \notin bstFreed
           /\ BstTreeFind(bstHeap, bstRoot, bstKeys[j]) # 0
           /\ BstTreeSuccessor(bstHeap, bstFreed, w[j])
                \in {Undef, IF j = Len(w) THEN 0 ELSE w[j + 1]}
           /\ TreePredecessor(bstHeap, bstFreed, w[j])
                \in {Undef, IF j = 1 THEN 0 ELSE w[j - 1]}

\* "Needed to support successor() and predecessor()": the parent pointers do
\* support them, in every tree the commands can build.
BstSupported ==
  LET w == BstInOrder(bstHeap, bstRoot) IN
    \A j \in DOMAIN w :
      /\ BstTreeSuccessor(bstHeap, bstFreed, w[j]) # Undef
      /\ TreePredecessor(bstHeap, bstFreed, w[j]) # Undef
=============================================================================
