---------------------------- MODULE TreesGraphs ----------------------------
(* The programs of trees_graphs, and flatten of linked_lists.  A tree lives  *)
(* in memory: nodes 1..n with links l and r and a key, the root being node   *)
(* 1; node 0 is NULL.  The numbers of the nodes are their places in          *)
(* pre-order, which the code cannot see.  Each program runs in one step on   *)
(* every small input its main() reads.                                       *)
EXTENDS Integers, Sequences, FiniteSets, SequencesExt

CONSTANTS
  TgNodes,   \* bound: the nodes of a tree
  TgBits,    \* the width of int
  TgKeyMax   \* the keys are -TgKeyMax..TgKeyMax

ASSUME TgAssumption ==
  /\ {TgNodes, TgBits, TgKeyMax} \subseteq Nat
  /\ TgBits > 0 /\ TgKeyMax < 2 ^ (TgBits - 1) - 1

TgMin == -(2 ^ (TgBits - 1))
TgMax == 2 ^ (TgBits - 1) - 1
TgKeys == -TgKeyMax..TgKeyMax

VARIABLES
  tgProg,  \* the program that runs
  tgIn,    \* the tree or the graph it reads
  tgArg,   \* what it reads besides, 0 if nothing
  tgOut,   \* what it prints, and the memory where it changes
  tgDone   \* it has printed

tgVars == <<tgProg, tgIn, tgArg, tgOut, tgDone>>

NoNode == 0
\* The node flatten_bst() keeps on its stack.
SENTINEL == -1
----------------------------------------------------------------------------
\* Every shape of n nodes, and the links of a shape from node b + 1 on.
RECURSIVE Shapes(_)
Shapes(n) ==
  IF n = 0 THEN {<<>>}
  ELSE UNION {{<<left, right>> : left \in Shapes(i), right \in Shapes(n - 1 - i)} : i \in 0..n - 1}

RECURSIVE SizeOf(_)
SizeOf(shape) == IF shape = <<>> THEN 0 ELSE 1 + SizeOf(shape[1]) + SizeOf(shape[2])

RECURSIVE Links(_, _)
Links(shape, b) ==
  IF shape = <<>> THEN <<>>
  ELSE LET mid == b + 1 + SizeOf(shape[1])
       IN  <<[l |-> IF shape[1] = <<>> THEN NoNode ELSE b + 2,
              r |-> IF shape[2] = <<>> THEN NoNode ELSE mid + 1]>>
             \o Links(shape[1], b + 1) \o Links(shape[2], mid)

Tree(shape, key) ==
  LET links == Links(shape, 0)
  IN  [l |-> [i \in DOMAIN links |-> links[i].l],
       r |-> [i \in DOMAIN links |-> links[i].r], key |-> key]

RootOf(t) == IF t.l = <<>> THEN NoNode ELSE 1

\* The walks the reference definitions are about.
RECURSIVE InOrder(_, _)
InOrder(t, node) ==
  IF node = NoNode THEN <<>> ELSE InOrder(t, t.l[node]) \o <<node>> \o InOrder(t, t.r[node])
RECURSIVE Below(_, _)
Below(t, node) ==
  IF node = NoNode THEN {} ELSE {node} \cup Below(t, t.l[node]) \cup Below(t, t.r[node])
KeysAt(t, nodes) == [i \in DOMAIN nodes |-> t.key[nodes[i]]]

\* A tree as a value, without its memory.
RECURSIVE Value(_, _)
Value(t, node) ==
  IF node = NoNode THEN <<>> ELSE <<t.key[node], Value(t, t.l[node]), Value(t, t.r[node])>>
RECURSIVE ValueHeight(_)
ValueHeight(v) ==
  IF v = <<>> THEN 0
  ELSE 1 + (IF ValueHeight(v[2]) >= ValueHeight(v[3]) THEN ValueHeight(v[2]) ELSE ValueHeight(v[3]))

ShapesUpTo(lo, hi) == UNION {Shapes(n) : n \in lo..hi}
KeyedTrees(lo, hi) ==
  UNION {{Tree(s, k) : k \in [1..SizeOf(s) -> TgKeys]} : s \in ShapesUpTo(lo, hi)}
\* Search trees hold 2, 4, 6, ...: between any two keys one is missing.
SearchTree(shape) ==
  LET t == Tree(shape, <<>>)
      order == InOrder(t, RootOf(t))
  IN  [t EXCEPT !.key = [i \in DOMAIN t.l |-> 2 * CHOOSE p \in DOMAIN order : order[p] = i]]
SearchTrees == {SearchTree(s) : s \in ShapesUpTo(0, TgNodes)}
----------------------------------------------------------------------------
\* is_bst(): every key between the bounds, which narrow on the way down.
RECURSIVE IsBstAux(_, _, _, _)
IsBstAux(t, root, min, max) ==
  \/ root = NoNode
  \/ /\ min < t.key[root] /\ t.key[root] < max
     /\ IsBstAux(t, t.l[root], min, t.key[root])
     /\ IsBstAux(t, t.r[root], t.key[root], max)

\* is_balanced_aux(): *res and the height, -1 above an unbalanced child.
RECURSIVE IsBalancedAux(_, _)
IsBalancedAux(t, node) ==
  IF node = NoNode THEN <<TRUE, 0>>
  ELSE LET left == IsBalancedAux(t, t.l[node])
           right == IsBalancedAux(t, t.r[node])
           diff == left[2] - right[2]
       IN  IF ~left[1] \/ ~right[1] THEN <<FALSE, -1>>
           ELSE <<diff \in -1..1, 1 + (IF diff > 0 THEN left[2] ELSE right[2])>>

\* build_optimal_tree(): the element in the middle of array[from..to-1] is the root.
RECURSIVE BuildOptimalTree(_, _, _)
BuildOptimalTree(array, from, to) ==
  IF from >= to THEN <<>>
  ELSE LET i == (from + to) \div 2
       IN  <<array[i + 1], BuildOptimalTree(array, from, i), BuildOptimalTree(array, i + 1, to)>>

\* rebuild_tree(): the first of the pre-order is looked for in the in-order.
RECURSIVE RebuildTree(_, _)
RebuildTree(inorder, preorder) ==
  IF inorder = <<>> THEN <<>>
  ELSE LET i == SelectInSeq(inorder, LAMBDA v : v = preorder[1])
       IN  <<preorder[1],
             RebuildTree(SubSeq(inorder, 1, i - 1), SubSeq(preorder, 2, i)),
             RebuildTree(SubSeq(inorder, i + 1, Len(inorder)),
                         SubSeq(preorder, i + 1, Len(preorder)))>>

\* find_inorder(): a binary search; the root is always there.
RECURSIVE FindInorder(_, _, _, _)
FindInorder(inorder, value, l, r) ==
  LET mid == l + (r - l) \div 2
  IN  IF inorder[mid + 1] = value THEN mid
      ELSE IF inorder[mid + 1] < value THEN FindInorder(inorder, value, mid + 1, r)
      ELSE FindInorder(inorder, value, l, mid - 1)

\* deserialize_internal(): of search trees.
RECURSIVE Deserialize(_, _)
Deserialize(preorder, inorder) ==
  IF inorder = <<>> THEN <<>>
  ELSE LET io == FindInorder(inorder, preorder[1], 0, Len(inorder) - 1)
       IN  <<preorder[1],
             Deserialize(SubSeq(preorder, 2, io + 1), SubSeq(inorder, 1, io)),
             Deserialize(SubSeq(preorder, io + 2, Len(preorder)),
                         SubSeq(inorder, io + 2, Len(inorder)))>>

\* serialize(): the pre-order.
RECURSIVE SerializePreorder(_)
SerializePreorder(v) ==
  IF v = <<>> THEN <<>> ELSE <<v[1]>> \o SerializePreorder(v[2]) \o SerializePreorder(v[3])
\* and the in-order.
RECURSIVE SerializeInorder(_)
SerializeInorder(v) ==
  IF v = <<>> THEN <<>> ELSE SerializeInorder(v[2]) \o <<v[1]>> \o SerializeInorder(v[3])

\* flatten_bst_aux(): each node becomes the right child of the one visited last.
RECURSIVE FlattenBstAux(_, _, _)
FlattenBstAux(t, node, last) ==
  IF node = NoNode THEN <<t, last>>
  ELSE LET left == FlattenBstAux(t, t.l[node], last)
           here == [left[1] EXCEPT !.r[left[2]] = node, !.l[node] = NoNode]
       IN  FlattenBstAux(here, here.r[node], node)

\* flatten_bst(): the memory and the new root; the sentinel on the stack is first.
FlattenBst(t) ==
  LET links(f) == [i \in {SENTINEL} \cup DOMAIN f |-> IF i = SENTINEL THEN NoNode ELSE f[i]]
      res == FlattenBstAux([t EXCEPT !.l = links(t.l), !.r = links(t.r)], RootOf(t), SENTINEL)
      ended == [res[1] EXCEPT !.l[res[2]] = NoNode, !.r[res[2]] = NoNode]
  IN  <<ended, ended.r[SENTINEL]>>

\* flatten_aux() of linked_lists, with l for child and r for next: the flattened
\* child list is spliced in after the node, and goes on from its last node.
RECURSIVE FlattenAux(_, _, _)
FlattenAux(t, node, prev) ==
  IF node = NoNode THEN <<t, prev>>
  ELSE IF t.l[node] = NoNode THEN FlattenAux(t, t.r[node], node)
  ELSE LET child == FlattenAux(t, t.l[node], NoNode)
           last == child[2]
           tied == [child[1] EXCEPT !.r[last] = child[1].r[node]]
           spliced == [tied EXCEPT !.r[node] = tied.l[node], !.l[node] = NoNode]
       IN  FlattenAux(spliced, spliced.r[last], last)
----------------------------------------------------------------------------
\* tree_insert(): equal keys go to the right; nodes are numbered as they come.
RECURSIVE Place(_, _, _, _)
Place(t, prev, curr, k) ==
  IF curr = NoNode THEN prev
  ELSE Place(t, curr, IF k < t.key[curr] THEN t.l[curr] ELSE t.r[curr], k)
TreeInsert(t, k) ==
  LET node == Len(t.l) + 1
      prev == Place(t, NoNode, RootOf(t), k)
      grown == [l |-> Append(t.l, NoNode), r |-> Append(t.r, NoNode),
                p |-> Append(t.p, prev), key |-> Append(t.key, k)]
  IN  IF prev = NoNode THEN grown
      ELSE IF k < t.key[prev] THEN [grown EXCEPT !.l[prev] = node]
      ELSE [grown EXCEPT !.r[prev] = node]
EmptyTree == [l |-> <<>>, r |-> <<>>, p |-> <<>>, key |-> <<>>]
Inserted(keys) == FoldLeft(TreeInsert, EmptyTree, keys)

\* tree_find().
RECURSIVE TreeFind(_, _, _)
TreeFind(t, root, k) ==
  IF root = NoNode \/ t.key[root] = k THEN root
  ELSE TreeFind(t, IF k < t.key[root] THEN t.l[root] ELSE t.r[root], k)

\* tree_minimum() and tree_successor().
RECURSIVE TreeMinimum(_, _)
TreeMinimum(t, node) == IF t.l[node] = NoNode THEN node ELSE TreeMinimum(t, t.l[node])
RECURSIVE Climb(_, _, _)
Climb(t, node, p) ==
  IF p = NoNode \/ node = t.l[p] THEN p ELSE Climb(t, p, t.p[p])
TreeSuccessor(t, node) ==
  IF t.r[node] # NoNode THEN TreeMinimum(t, t.r[node]) ELSE Climb(t, node, t.p[node])

\* largest_smaller_key() with tree_max().
RECURSIVE TreeMax(_, _)
TreeMax(t, node) == IF t.r[node] = NoNode THEN node ELSE TreeMax(t, t.r[node])
RECURSIVE LargestSmallerKey(_, _, _, _)
LargestSmallerKey(t, x, curr, lastR) ==
  IF curr = NoNode THEN lastR
  ELSE IF x = t.key[curr] THEN IF t.l[curr] # NoNode THEN TreeMax(t, t.l[curr]) ELSE lastR
  ELSE IF x < t.key[curr] THEN LargestSmallerKey(t, x, t.l[curr], lastR)
  ELSE LargestSmallerKey(t, x, t.r[curr], curr)

\* The end of the right spine below curr's left child, or the thread back to curr.
RECURSIVE Predecessor(_, _, _)
Predecessor(t, node, curr) ==
  IF t.r[node] # NoNode /\ t.r[node] # curr THEN Predecessor(t, t.r[node], curr) ELSE node

\* Both traversals with the threads left in the tree.
RECURSIVE MorrisThreaded(_, _, _, _)
MorrisThreaded(t, curr, preorder, out) ==
  IF curr = NoNode THEN <<t, out>>
  ELSE IF t.l[curr] = NoNode THEN MorrisThreaded(t, t.r[curr], preorder, Append(out, curr))
  ELSE LET pred == Predecessor(t, t.l[curr], curr)
           threaded == t.r[pred] # NoNode
           shown == IF threaded # preorder THEN Append(out, curr) ELSE out
       IN  IF threaded THEN MorrisThreaded(t, t.r[curr], preorder, shown)
           ELSE MorrisThreaded([t EXCEPT !.r[pred] = curr], t.l[curr], preorder, shown)

\* morris_pre_order() and morris_in_order(): what is printed, and the tree whose
\* right links serve as threads meanwhile.
RECURSIVE Morris(_, _, _, _)
Morris(t, curr, preorder, out) ==
  IF curr = NoNode THEN <<t, out>>
  ELSE IF t.l[curr] = NoNode THEN Morris(t, t.r[curr], preorder, Append(out, curr))
  ELSE LET pred == Predecessor(t, t.l[curr], curr)
           threaded == t.r[pred] # NoNode
           shown == IF threaded # preorder THEN Append(out, curr) ELSE out
       IN  IF threaded THEN Morris([t EXCEPT !.r[pred] = NoNode], t.r[curr], preorder, shown)
           ELSE Morris([t EXCEPT !.r[pred] = curr], t.l[curr], preorder, shown)

\* next_node() of parallel_inorder: the tree, the node and the iterator.
RECURSIVE NextNode(_, _)
NextNode(t, curr) ==
  IF curr = NoNode THEN <<t, NoNode, NoNode>>
  ELSE IF t.l[curr] = NoNode THEN <<t, curr, t.r[curr]>>
  ELSE LET pred == Predecessor(t, t.l[curr], curr)
       IN  IF t.r[pred] = NoNode THEN NextNode([t EXCEPT !.r[pred] = curr], t.l[curr])
           ELSE <<[t EXCEPT !.r[pred] = NoNode], curr, t.r[curr]>>

\* same_inorder(): the answer, and both trees as it leaves them.
RECURSIVE SameInorder(_, _)
SameInorder(one, two) ==
  IF one[2] # NoNode /\ two[2] # NoNode
  THEN IF one[1].key[one[2]] # two[1].key[two[2]] THEN <<FALSE, one[1], two[1]>>
       ELSE SameInorder(NextNode(one[1], one[3]), NextNode(two[1], two[3]))
  ELSE <<one[2] = NoNode /\ two[2] = NoNode, one[1], two[1]>>
----------------------------------------------------------------------------
\* The children of each node, of a binary tree and of an n-ary one (a shape whose
\* l is the first child and whose r is the next sibling).
Children(t) ==
  [i \in DOMAIN t.l |-> SelectSeq(<<t.l[i], t.r[i]>>, LAMBDA c : c # NoNode)]
RECURSIVE Siblings(_, _)
Siblings(t, node) == IF node = NoNode THEN <<>> ELSE <<node>> \o Siblings(t, t.r[node])
NaryChildren(t) == [i \in DOMAIN t.l |-> Siblings(t, t.l[i])]

\* make_lists(), largest_level(): curr_level nodes are taken off the queue, their
\* children put at its end and counted for the next level.
RECURSIVE MakeLists(_, _, _)
MakeLists(children, queue, currLevel) ==
  IF queue = <<>> THEN <<>>
  ELSE LET level == SubSeq(queue, 1, currLevel)
           next == FlattenSeq([i \in DOMAIN level |-> children[level[i]]])
       IN  <<level>> \o MakeLists(children, SubSeq(queue, currLevel + 1, Len(queue)) \o next, Len(next))

\* largest_level().
LargestLevel(children, root) ==
  IF root = NoNode THEN 0
  ELSE LET levels == MakeLists(children, <<root>>, 1)
       IN  FoldLeft(LAMBDA res, level : IF Len(level) > res THEN Len(level) ELSE res, 1, levels)

\* zig_zag_traversal(): a level is read from its end; which child goes first changes
\* with the level.
RECURSIVE ZigZag(_, _, _, _, _, _)
ZigZag(t, buff, offset, count, level, out) ==
  IF count = 0 THEN out
  ELSE LET popped == [i \in 1..count |-> buff[offset + count + 1 - i]]
           kids(n) == IF level = 1 THEN <<t.r[n], t.l[n]>> ELSE <<t.l[n], t.r[n]>>
           next == SelectSeq(FlattenSeq([i \in 1..count |-> kids(popped[i])]), LAMBDA c : c # NoNode)
       IN  ZigZag(t, buff \o next, offset + count, Len(next), (level + 1) % 2, out \o popped)

\* bottom_view(): breadth first, the nodes of the lowest level for each distance.
RECURSIVE BottomView(_, _, _)
BottomView(t, queue, view) ==
  IF queue = <<>> THEN view
  ELSE LET n == queue[1].node
           hd == queue[1].hd
           level == queue[1].level
           kids == (IF t.l[n] = NoNode THEN <<>> ELSE <<[node |-> t.l[n], hd |-> hd - 1, level |-> level + 1]>>)
                   \o (IF t.r[n] = NoNode THEN <<>> ELSE <<[node |-> t.r[n], hd |-> hd + 1, level |-> level + 1]>>)
           seen == view[hd]
           now == IF seen[1] < level THEN <<level, <<n>>>>
                  ELSE IF seen[1] = level THEN <<level, Append(seen[2], n)>> ELSE seen
       IN  BottomView(t, Tail(queue) \o kids, [view EXCEPT ![hd] = now])

\* print_bottom_view(): by distance.
PrintedView(view, n) == FlattenSeq([i \in 1..2 * n + 1 |-> view[i - n - 1][2]])

\* serialize() of serialize_ntree: the key of the root, then for each node in the
\* queue the number of its children and their keys.
RECURSIVE SerializeNary(_, _, _)
SerializeNary(children, key, queue) ==
  IF queue = <<>> THEN <<>>
  ELSE LET mine == children[queue[1]]
       IN  <<Len(mine)>> \o [i \in DOMAIN mine |-> key[mine[i]]]
             \o SerializeNary(children, key, Tail(queue) \o mine)

\* deserialize(): nodes numbered as they are read; next is the node to dequeue.
RECURSIVE DeserializeNary(_, _, _, _)
DeserializeNary(tokens, children, key, next) ==
  IF next > Len(key) THEN <<children, key>>
  ELSE LET count == tokens[1]
           read == SubSeq(tokens, 2, count + 1)
       IN  DeserializeNary(SubSeq(tokens, count + 2, Len(tokens)),
             Append(children, [i \in 1..count |-> Len(key) + i]), key \o read, next + 1)

RECURSIVE NaryValue(_, _, _)
NaryValue(children, key, node) ==
  <<key[node], [i \in DOMAIN children[node] |-> NaryValue(children, key, children[node][i])]>>
----------------------------------------------------------------------------
\* lca_aux(): how many of the two nodes are below, and the node to answer.
RECURSIVE LcaAux(_, _, _, _)
LcaAux(t, root, n1, n2) ==
  IF root = NoNode THEN <<0, NoNode>>
  ELSE IF root = n1 /\ root = n2 THEN <<2, root>>
  ELSE LET left == LcaAux(t, t.l[root], n1, n2)
           right == LcaAux(t, t.r[root], n1, n2)
           matched == left[1] + right[1]
       IN  IF left[1] = 2 THEN left
           ELSE IF right[1] = 2 THEN right
           ELSE IF matched = 2 THEN <<2, root>>
           ELSE IF root \in {n1, n2} THEN <<matched + 1, root>>
           ELSE IF right[1] = 1 THEN right ELSE left

\* tree_sum(): the tree with its new values, and the sum.
RECURSIVE TreeSum(_, _)
TreeSum(t, root) ==
  IF root = NoNode THEN <<t, 0>>
  ELSE LET left == TreeSum(t, t.l[root])
           mine == [left[1] EXCEPT !.key[root] = @ + left[2]]
           right == TreeSum(mine, t.r[root])
       IN  <<right[1], mine.key[root] + right[2]>>

\* paths_sum_aux(): the path from the root, then its ends without the first nodes.
RECURSIVE PathsSum(_, _, _, _, _)
PathsSum(t, node, path, currSum, sum) ==
  IF node = NoNode THEN <<>>
  ELSE LET now == Append(path, node)
           total == currSum + t.key[node]
           rest[i \in 0..Len(path)] == IF i = 0 THEN total ELSE rest[i - 1] - t.key[path[i]]
           printed == SelectSeq([i \in 1..Len(now) |-> i], LAMBDA i : rest[i - 1] = sum)
       IN  [k \in DOMAIN printed |-> SubSeq(now, printed[k], Len(now))]
             \o PathsSum(t, t.l[node], now, total, sum) \o PathsSum(t, t.r[node], now, total, sum)

\* subtree_equal() and is_subtree(): roots a and b of two trees.
RECURSIVE SubtreeEqual(_, _, _, _)
SubtreeEqual(t1, t2, a, b) ==
  \/ a = NoNode /\ b = NoNode
  \/ /\ a # NoNode /\ b # NoNode
     /\ t1.key[a] = t2.key[b]
     /\ SubtreeEqual(t1, t2, t1.l[a], t2.l[b])
     /\ SubtreeEqual(t1, t2, t1.r[a], t2.r[b])
RECURSIVE IsSubtree(_, _, _)
IsSubtree(big, small, a) ==
  IF a = NoNode THEN RootOf(small) = NoNode
  ELSE \/ SubtreeEqual(big, small, a, RootOf(small))
       \/ IsSubtree(big, small, big.l[a])
       \/ IsSubtree(big, small, big.r[a])

Total(f) == FoldLeft(LAMBDA sum, v : sum + v, 0, f)

\* possible_trees_aux().
RECURSIVE PossibleTrees(_, _)
PossibleTrees(begin, end) ==
  IF begin >= end THEN 1
  ELSE Total([k \in 1..end - begin |->
                LET i == begin + k - 1 IN PossibleTrees(begin, i) * PossibleTrees(i + 1, end)])

\* generate_trees_aux(): for each root every left with every right subtree.
RECURSIVE GenerateTrees(_, _, _)
GenerateTrees(inorder, begin, end) ==
  IF begin >= end THEN <<<<>>>>
  ELSE LET rooted(i) ==
             LET left == GenerateTrees(inorder, begin, i)
                 right == GenerateTrees(inorder, i + 1, end)
             IN  FlattenSeq([a \in DOMAIN left |->
                              [b \in DOMAIN right |-> <<inorder[i + 1], left[a], right[b]>>]])
       IN  FlattenSeq([k \in 1..end - begin |-> rooted(begin + k - 1)])

\* trees() and bsts().
RECURSIVE Trees(_)
Trees(n) ==
  IF n <= 1 THEN 1 ELSE Total([k \in 1..n |-> 2 * Trees(k - 1) * Trees(n - k)])
RECURSIVE Bsts(_)
Bsts(n) == IF n <= 1 THEN 1 ELSE Total([k \in 1..n |-> Bsts(k - 1) * Bsts(n - k)])

\* swap(), with the array as a sequence.
Swapped(a, i, j) == [a EXCEPT ![i] = a[j], ![j] = a[i]]

\* bst_sequences_aux(): the size candidates start at array[at]; each in turn is put
\* first, its children become candidates, and the swap is undone.  The result is
\* the array and what has been printed.
RECURSIVE BstSequences(_, _, _, _, _, _, _)
BstSequences(t, array, at, size, nodes, i, out) ==
  IF size = 0 THEN <<array, Append(out, SubSeq(array, at - nodes, at - 1))>>
  ELSE IF i = size THEN <<array, out>>
  ELSE LET chosen == Swapped(array, at + i, at)
           kids == Children(t)[chosen[at]]
           put == [j \in DOMAIN array |->
                     IF j - (at + size - 1) \in DOMAIN kids THEN kids[j - (at + size - 1)] ELSE chosen[j]]
           inner == BstSequences(t, put, at + 1, size - 1 + Len(kids), nodes + Len(kids), 0, out)
       IN  BstSequences(t, Swapped(inner[1], at + i, at), at, size, nodes, i + 1, inner[2])

\* random_node_aux(): the nodes rand() can make it choose, and how many were seen;
\* n >= (seen - 1) * block_sz holds of every n for the first node only.
RECURSIVE RandomNode(_, _, _, _)
RandomNode(t, root, choices, seen) ==
  IF root = NoNode THEN <<choices, seen>>
  ELSE LET mine == IF seen = 0 THEN {root} ELSE choices \cup {root}
           left == RandomNode(t, t.l[root], mine, seen + 1)
       IN  RandomNode(t, t.r[root], left[1], left[2])
----------------------------------------------------------------------------
\* Graphs: adj[n] lists the neighbors of n.  dfs() of route_exists.
RECURSIVE Dfs(_, _, _, _)
Dfs(adj, from, to, visited) ==
  IF from = to THEN <<TRUE, visited>>
  ELSE FoldLeft(LAMBDA s, n : IF s[1] \/ n \in s[2] THEN s ELSE Dfs(adj, n, to, s[2]),
                <<FALSE, visited \cup {from}>>, adj[from])

\* friends_by_level(): the friends of the source are not looked up in visited.
RECURSIVE FriendLevels(_, _, _, _)
FriendLevels(adj, queue, currLevel, visited) ==
  IF queue = <<>> THEN <<>>
  ELSE LET level == SubSeq(queue, 1, currLevel)
           offered == FlattenSeq([i \in 1..currLevel |-> adj[level[i]]])
           next == FoldLeft(LAMBDA q, n : IF n \in visited \cup Range(q) THEN q ELSE Append(q, n),
                            <<>>, offered)
       IN  <<level>> \o FriendLevels(adj, SubSeq(queue, currLevel + 1, Len(queue)) \o next,
                                     Len(next), visited \cup Range(next))

\* dfs_visit() of task_scheduler and of elephants: a node after what it points to.
RECURSIVE DfsVisit(_, _, _)
DfsVisit(adj, node, s) ==
  IF node \in s.visited THEN s
  ELSE LET below == FoldLeft(LAMBDA acc, n : DfsVisit(adj, n, acc),
                             [s EXCEPT !.visited = @ \cup {node}], adj[node])
       IN  [below EXCEPT !.out = Append(@, node)]
MakeSchedule(adj, nodes) ==
  FoldLeft(LAMBDA acc, n : DfsVisit(adj, n, acc), [visited |-> {}, out |-> <<>>], nodes).out

\* dfs_visit() of package_dependencies, cycle_detect() of sort_attempt: a node met
\* again while it is on the stack is a cycle, a node that is done is not.
RECURSIVE CycleDetect(_, _, _)
CycleDetect(adj, node, s) ==
  IF ~s.ok THEN s
  ELSE IF node \in s.stack THEN [s EXCEPT !.ok = FALSE]
  ELSE IF node \in s.visited THEN s
  ELSE LET below == FoldLeft(LAMBDA acc, n : CycleDetect(adj, n, acc),
                      [s EXCEPT !.visited = @ \cup {node}, !.stack = @ \cup {node}], adj[node])
       IN  IF ~below.ok THEN below
           ELSE [below EXCEPT !.out = Append(@, node), !.stack = @ \ {node}]
\* topological_sort() of package_dependencies, no_cycles() of sort_attempt.
TopologicalSort(adj, nodes) ==
  FoldLeft(LAMBDA acc, n : CycleDetect(adj, n, acc),
           [ok |-> TRUE, visited |-> {}, stack |-> {}, out |-> <<>>], nodes)

\* topsort_internal(): each node must point to the one that ended before it.
RECURSIVE TopsortInternal(_, _, _)
TopsortInternal(adj, node, s) ==
  IF ~s.ok \/ node \in s.visited THEN s
  ELSE LET below == FoldLeft(LAMBDA acc, n : TopsortInternal(adj, n, acc),
                             [s EXCEPT !.visited = @ \cup {node}], adj[node])
       IN  IF ~below.ok THEN below
           ELSE IF below.last # NoNode /\ below.last \notin Range(adj[node])
           THEN [below EXCEPT !.ok = FALSE]
           ELSE [below EXCEPT !.last = node]
\* is_sortable().
IsSortable(adj, nodes) ==
  /\ TopologicalSort(adj, nodes).ok
  /\ FoldLeft(LAMBDA acc, n : TopsortInternal(adj, n, acc),
              [ok |-> TRUE, visited |-> {}, last |-> NoNode], nodes).ok
----------------------------------------------------------------------------
\* DS_Algos/graphs/adj_list.  add_edge() puts a neighbor right behind the head of
\* the list: the last edge typed comes first.
Neighbors(edges, vertices) ==
  [v \in vertices |->
    LET from == SelectSeq(edges, LAMBDA e : e[1] = v)
    IN  [i \in DOMAIN from |-> from[Len(from) - i + 1][2]]]

\* dfs_aux() and dfs(): the vertices as they are entered and left.
RECURSIVE DfsAux(_, _, _)
DfsAux(adj, v, s) ==
  LET entered == [visited |-> s.visited \cup {v}, log |-> Append(s.log, <<"entered", v>>)]
      below == FoldLeft(LAMBDA acc, n : IF n \in acc.visited THEN acc ELSE DfsAux(adj, n, acc),
                        entered, adj[v])
  IN  [below EXCEPT !.log = Append(@, <<"exited", v>>)]
DfsLog(adj, vertices) ==
  FoldLeft(LAMBDA acc, v : IF v \in acc.visited THEN acc ELSE DfsAux(adj, v, acc),
           [visited |-> {}, log |-> <<>>], vertices).log

\* bfs_aux() and bfs(): a vertex is marked when it is put in the queue.
RECURSIVE BfsAux(_, _, _)
BfsAux(adj, queue, s) ==
  IF queue = <<>> THEN s
  ELSE LET offered == FoldLeft(LAMBDA new, n : IF n \in s.visited \cup Range(new) THEN new
                                               ELSE Append(new, n), <<>>, adj[Head(queue)])
       IN  BfsAux(adj, Tail(queue) \o offered,
                  [visited |-> s.visited \cup Range(offered), log |-> Append(s.log, Head(queue))])
BfsLog(adj, vertices) ==
  FoldLeft(LAMBDA acc, v : IF v \in acc.visited THEN acc
                           ELSE BfsAux(adj, <<v>>, [acc EXCEPT !.visited = @ \cup {v}]),
           [visited |-> {}, log |-> <<>>], vertices).log

\* DS_Algos/graphs/dijkstra.  adj[n] lists <<target, cost>>.  dfs() and dfs_visit().
Visits(adj, vertices) ==
  LET targets == [n \in DOMAIN adj |-> [i \in DOMAIN adj[n] |-> adj[n][i][1]]]
      entries == SelectSeq(DfsLog(targets, vertices), LAMBDA e : e[1] = "entered")
  IN  [i \in DOMAIN entries |-> entries[i][2]]

UINT_INFINITY == 2 ^ TgBits - 1
\* The queue is a std::set whose keys are the distances: a node is found, and
\* erased, under the distance it has now.
Queued(s, n) == <<s.distance[n], n>>
Nearer(a, b) == a[1] < b[1] \/ (a[1] = b[1] /\ a[2] < b[2])
Relax(s, n, edge) ==
  LET to == edge[1]
      through == (s.distance[n] + edge[2]) % 2 ^ TgBits
  IN  IF Queued(s, to) \in s.queue /\ s.distance[n] # UINT_INFINITY /\ through < s.distance[to]
      THEN [queue |-> (s.queue \ {Queued(s, to)}) \cup {<<through, to>>},
            distance |-> [s.distance EXCEPT ![to] = through],
            prev |-> [s.prev EXCEPT ![to] = n]]
      ELSE s
RECURSIVE DijkstraLoop(_, _)
DijkstraLoop(adj, s) ==
  IF s.queue = {} THEN s
  ELSE LET first == CHOOSE a \in s.queue : \A b \in s.queue : a = b \/ Nearer(a, b)
       IN  DijkstraLoop(adj, FoldLeft(LAMBDA acc, edge : Relax(acc, first[2], edge),
                                      [s EXCEPT !.queue = @ \ {first}], adj[first[2]]))
\* dijkstra(), with the nodes prev of print_shortest_paths() and print_path().
RECURSIVE PathTo(_, _, _)
PathTo(prev, src, curr) ==
  IF curr = src THEN <<src>> ELSE Append(PathTo(prev, src, prev[curr]), curr)
Dijkstra(adj, vertices, source) ==
  LET distance == [n \in DOMAIN adj |-> IF n = source THEN 0 ELSE UINT_INFINITY]
      s == DijkstraLoop(adj, [queue |-> {<<distance[n], n>> : n \in DOMAIN adj},
                              distance |-> distance, prev |-> [n \in DOMAIN adj |-> NoNode]])
      reached == SelectSeq(vertices, LAMBDA n : s.prev[n] # NoNode)
  IN  [i \in DOMAIN reached |-> PathTo(s.prev, source, reached[i])]

\* trees_graphs/tree_of_arrays: the tree main() has.
ArrayWords ==
  <<<<"hello">>, <<"a", "node">>, <<"hello", "world">>, <<"cat", "tac", "god">>, <<"dog", "cat">>,
    <<"cat", "dog">>, <<"nothing", "here">>, <<"my", "dog", "is", "cute">>,
    <<"cat", "other", "words">>, <<"leaf", "dog">>, <<"cat", "dog">>, <<"end", "of", "the", "line">>,
    <<"hello", "cat", "dog">>>>
ArrayChildren ==
  <<<<2, 3>>, <<4, 5>>, <<6, 7>>, <<8>>, <<9, 10>>, <<11>>, <<>>, <<>>, <<12>>, <<>>, <<13>>, <<>>, <<>>>>

\* nodes_with_word().
RECURSIVE NodesWithWord(_, _)
NodesWithWord(root, word) ==
  LET below == [i \in DOMAIN ArrayChildren[root] |-> NodesWithWord(ArrayChildren[root][i], word)]
  IN  (IF word \in Range(ArrayWords[root]) THEN <<root>> ELSE <<>>) \o FlattenSeq(below)

\* find_path_aux(): the node takes each of its words in turn off the list, and none.
RECURSIVE FindPathAux(_, _, _)
FindPathAux(root, path, words) ==
  LET here == Append(path, root)
      children == ArrayChildren[root]
      onChildren(left) == FlattenSeq([i \in DOMAIN children |-> FindPathAux(children[i], here, left)])
      taking(word) == IF word \notin words THEN <<>>
                      ELSE IF words = {word} THEN <<here>> ELSE onChildren(words \ {word})
  IN  FlattenSeq([i \in DOMAIN ArrayWords[root] |-> taking(ArrayWords[root][i])]) \o onChildren(words)
----------------------------------------------------------------------------
Plain(shape) == Tree(shape, [i \in 1..SizeOf(shape) |-> i])
PlainTrees(lo) == {Plain(s) : s \in ShapesUpTo(lo, TgNodes)}
\* Trees read as a number of children and the children: no only child is a right one.
LeftFirst(t) == \A i \in DOMAIN t.l : t.r[i] # NoNode => t.l[i] # NoNode
NaryTrees == {t \in PlainTrees(1) : t.r[1] = NoNode}
DistinctTrees ==
  UNION {{Tree(s, k) : k \in {f \in [1..SizeOf(s) -> 1..3] : IsInjective(f)}} : s \in ShapesUpTo(1, 3)}
KeySequences == UNION {[1..n -> TgKeys] : n \in 0..TgNodes}

GraphNodes == 1..3
Adjacencies == [GraphNodes -> {SetToSortSeq(ns, <) : ns \in SUBSET GraphNodes}]
Friends == {adj \in [GraphNodes -> UNION {SetToSeqs(ns) : ns \in SUBSET GraphNodes}] :
              \A n \in GraphNodes : n \notin Range(adj[n])}
RECURSIVE Ball(_, _, _)
Ball(adj, from, k) ==
  IF k = 0 THEN {from}
  ELSE LET near == Ball(adj, from, k - 1) IN near \cup UNION {Range(adj[n]) : n \in near}
Acyclic(adj) ==
  \A n \in DOMAIN adj : \A m \in Range(adj[n]) : n \notin Ball(adj, m, Cardinality(DOMAIN adj))

\* The edges typed for adj_list, and the costs typed for dijkstra, 9 for no edge.
TypedEdges == UNION {[1..n -> GraphNodes \X GraphNodes] : n \in 0..3}
\* Four nodes are the least with which a node can be taken from the queue too early.
CostLists ==
  LET row(c, n, k) == SelectSeq([m \in 1..k |-> <<m, IF <<n, m>> \in DOMAIN c THEN c[<<n, m>>] ELSE 9>>],
                                LAMBDA e : e[2] # 9)
      links(froms, tos) == {p \in froms \X tos : p[1] # p[2]}
  IN  {[n \in 1..3 |-> row(c, n, 3)] : c \in [links(1..3, 1..3) -> {0, 1, 9}]}
        \cup {[n \in 1..4 |-> row(c @@ d, n, 4)] :
                c \in [links({1}, 2..4) -> {1, 3, 9}], d \in [links(2..4, 2..4) -> {1, 9}]}

\* What the lines of elephants say: T taller, S smaller.
Facts == {f \in [op : {"T", "S"}, id1 : GraphNodes, id2 : GraphNodes] : f.id1 # f.id2}
\* The graph main() builds, of the elephants some line names.
Named(facts) == {facts[i].id1 : i \in DOMAIN facts} \cup {facts[i].id2 : i \in DOMAIN facts}
SmallerElephants(facts) ==
  [e \in Named(facts) |->
    LET about == SelectSeq(facts, LAMBDA f : e = IF f.op = "T" THEN f.id1 ELSE f.id2)
    IN  [i \in DOMAIN about |-> IF about[i].op = "T" THEN about[i].id2 ELSE about[i].id1]]
\* The lines that some heights agree with.
Before(seq, a, b) == \E i, j \in DOMAIN seq : i < j /\ seq[i] = a /\ seq[j] = b
ByHeight(order, facts) ==
  \A i \in DOMAIN facts :
    IF facts[i].op = "T" THEN Before(order, facts[i].id2, facts[i].id1)
    ELSE Before(order, facts[i].id1, facts[i].id2)
Stories == {facts \in UNION {[1..n -> Facts] : n \in 0..3} :
              \E order \in SetToSeqs(GraphNodes) : ByHeight(order, facts)}

\* Each program with the inputs it is made for.
TgInit ==
  /\ \/ tgProg = "is_bst" /\ tgIn \in {t \in KeyedTrees(1, TgNodes - 1) : LeftFirst(t)} /\ tgArg = 0
     \/ tgProg = "list_level_by_level" /\ tgIn \in {t \in PlainTrees(1) : LeftFirst(t)} /\ tgArg = 0
     \/ tgProg \in {"is_balanced", "rebuild_tree"} /\ tgIn \in PlainTrees(0) /\ tgArg = 0
     \/ tgProg \in {"flatten", "zig_zag", "bottom_view"} /\ tgIn \in PlainTrees(1) /\ tgArg = 0
     \/ tgProg \in {"serialize_tree", "flatten_bst", "bst_sequences"} /\ tgIn \in SearchTrees /\ tgArg = 0
     \/ tgProg = "random_node" /\ tgIn \in SearchTrees \ {SearchTree(<<>>)} /\ tgArg = 0
     \/ tgProg = "largest_smaller_key" /\ tgIn \in SearchTrees /\ tgArg \in 1..2 * TgNodes + 1
     \/ tgProg = "traversal_without_recursion" /\ tgIn \in KeySequences /\ tgArg = 0
     \/ tgProg = "bt_successor" /\ tgIn \in KeySequences /\ tgArg \in TgKeys
     \/ tgProg = "parallel_inorder" /\ tgIn \in DistinctTrees \X DistinctTrees /\ tgArg = 0
     \/ tgProg \in {"largest_level", "serialize_ntree"} /\ tgIn \in NaryTrees /\ tgArg = 0
     \/ tgProg = "lca" /\ tgIn \in PlainTrees(1) /\ tgArg \in (DOMAIN tgIn.l) \X (DOMAIN tgIn.l)
     \/ tgProg = "left_sum" /\ tgIn \in KeyedTrees(1, TgNodes - 1) /\ tgArg = 0
     \/ tgProg = "paths_sum" /\ tgIn \in KeyedTrees(0, TgNodes - 1) /\ tgArg \in 0..1
     \/ tgProg = "is_subtree" /\ tgIn \in KeyedTrees(0, 3) \X KeyedTrees(0, 2) /\ tgArg = 0
     \/ tgProg \in {"inorder_to_trees", "trees_count", "optimal_tree"} /\ tgIn \in 0..TgNodes + 1 /\ tgArg = 0
     \/ tgProg = "route_exists" /\ tgIn \in Adjacencies /\ tgArg \in GraphNodes \X GraphNodes
     \/ tgProg = "friends_by_level" /\ tgIn \in Friends /\ tgArg \in GraphNodes
     \/ tgProg \in {"package_dependencies", "sort_attempt"} /\ tgIn \in Adjacencies /\ tgArg = 0
     \/ tgProg = "task_scheduler" /\ tgIn \in {adj \in Adjacencies : Acyclic(adj)} /\ tgArg = 0
     \/ tgProg = "adj_list" /\ tgIn \in TypedEdges /\ tgArg = 0
     \/ tgProg = "dijkstra" /\ tgIn \in CostLists /\ tgArg \in {1, 2}
     \/ tgProg = "words_find" /\ tgIn \in {"hello", "cat", "dog", "tree"} /\ tgArg = 0
     \/ tgProg = "words_paths" /\ tgIn \in SUBSET {"hello", "cat", "dog", "a", "tree"} /\ tgArg = 0
     \/ tgProg = "elephants" /\ tgIn \in Stories /\ tgArg = 0
  /\ tgOut = <<>>
  /\ tgDone = FALSE

TgPrints(prog, out) ==
  /\ tgProg = prog /\ ~tgDone
  /\ tgDone' = TRUE /\ tgOut' = out
  /\ UNCHANGED <<tgProg, tgIn, tgArg>>

\* The tree that deserialize() builds in memory from the two orders main() reads.
RECURSIVE ShapeOf(_)
ShapeOf(v) == IF v = <<>> THEN <<>> ELSE <<ShapeOf(v[2]), ShapeOf(v[3])>>
TgInOrder(t) == InOrder(t, RootOf(t))
Deserialized(t) ==
  LET v == Deserialize(t.key, KeysAt(t, TgInOrder(t))) IN Tree(ShapeOf(v), SerializePreorder(v))
\* main() of each program: the input is read, the function called, the result
\* printed.
RunIsBst == TgPrints("is_bst", <<IsBstAux(tgIn, 1, TgMin, TgMax)>>)
RunIsBalanced == TgPrints("is_balanced", <<IsBalancedAux(tgIn, RootOf(tgIn))[1]>>)
RunOptimalTree ==
  TgPrints("optimal_tree", BuildOptimalTree([i \in 1..tgIn |-> i], 0, tgIn))
RunRebuildTree ==
  TgPrints("rebuild_tree", RebuildTree(KeysAt(tgIn, TgInOrder(tgIn)), tgIn.key))
RunSerializeTree ==
  LET v == Deserialize(tgIn.key, KeysAt(tgIn, TgInOrder(tgIn)))
  IN  TgPrints("serialize_tree", <<SerializePreorder(v), SerializeInorder(v)>>)
RunFlattenBst == TgPrints("flatten_bst", FlattenBst(Deserialized(tgIn)))
RunFlatten == TgPrints("flatten", FlattenAux(tgIn, 1, NoNode)[1])
\* The tree grown by I is dumped by D: in pre-order, then in in-order.
RunTraversals ==
  LET t == Inserted(tgIn)
      pre == Morris(t, RootOf(t), TRUE, <<>>)
      ino == Morris(pre[1], RootOf(t), FALSE, <<>>)
  IN  TgPrints("traversal_without_recursion", <<pre[2], ino[2], ino[1]>>)
RunSameInorder ==
  TgPrints("parallel_inorder", SameInorder(NextNode(tgIn[1], 1), NextNode(tgIn[2], 1)))
\* After the I commands: F and S for a key.
RunSuccessor ==
  LET t == Inserted(tgIn)
      n == TreeFind(t, RootOf(t), tgArg)
  IN  TgPrints("bt_successor", <<n, IF n = NoNode THEN NoNode ELSE TreeSuccessor(t, n), t>>)
RunLargestSmaller ==
  LET t == Deserialized(tgIn)
  IN  TgPrints("largest_smaller_key", <<LargestSmallerKey(t, tgArg, RootOf(t), NoNode)>>)
RunListLevels == TgPrints("list_level_by_level", MakeLists(Children(tgIn), <<1>>, 1))
RunLargestLevel == TgPrints("largest_level", <<LargestLevel(NaryChildren(tgIn), 1)>>)
RunZigZag == TgPrints("zig_zag", ZigZag(tgIn, <<1>>, 0, 1, 1, <<>>))
RunBottomView ==
  LET n == Len(tgIn.l)
      none == [hd \in -n..n |-> <<0, <<>>>>]
  IN  TgPrints("bottom_view",
        PrintedView(BottomView(tgIn, <<[node |-> 1, hd |-> 0, level |-> 1]>>, none), n))
\* The tree is read in its serialized form and serialized again.
RunSerializeNary ==
  LET tokens == SerializeNary(NaryChildren(tgIn), tgIn.key, <<1>>)
      read == DeserializeNary(tokens, <<>>, <<tgIn.key[1]>>, 1)
  IN  TgPrints("serialize_ntree",
        <<tokens, SerializeNary(read[1], read[2], <<1>>), NaryValue(read[1], read[2], 1)>>)
RunLca == TgPrints("lca", <<LcaAux(tgIn, 1, tgArg[1], tgArg[2])[2]>>)
RunLeftSum == TgPrints("left_sum", TreeSum(tgIn, 1))
RunPathsSum == TgPrints("paths_sum", PathsSum(tgIn, RootOf(tgIn), <<>>, 0, tgArg))
RunIsSubtree == TgPrints("is_subtree", <<IsSubtree(tgIn[1], tgIn[2], RootOf(tgIn[1]))>>)
\* Both programs of inorder_to_trees.
RunInorderToTrees ==
  TgPrints("inorder_to_trees",
    <<PossibleTrees(0, tgIn), GenerateTrees([i \in 1..tgIn |-> i], 0, tgIn)>>)
RunTreesCount == TgPrints("trees_count", <<Trees(tgIn), Bsts(tgIn)>>)
RunBstSequences ==
  LET t == Deserialized(tgIn)
      buff == [i \in 1..Len(t.l) + 1 |-> IF i = 1 THEN 1 ELSE NoNode]
  IN  TgPrints("bst_sequences",
        IF t.l = <<>> THEN <<>> ELSE BstSequences(t, buff, 1, 1, 1, 0, <<>>)[2])
RunRandomNode ==
  LET t == Deserialized(tgIn) IN TgPrints("random_node", <<RandomNode(t, 1, {NoNode}, 0)[1]>>)
RunRouteExists == TgPrints("route_exists", <<Dfs(tgIn, tgArg[1], tgArg[2], {})[1]>>)
RunFriends ==
  LET friends == tgIn[tgArg]
  IN  TgPrints("friends_by_level",
        FriendLevels(tgIn, friends, Len(friends), {tgArg} \cup Range(friends)))
RunPackages == TgPrints("package_dependencies", TopologicalSort(tgIn, <<1, 2, 3>>))
RunSortAttempt == TgPrints("sort_attempt", <<IsSortable(tgIn, <<1, 2, 3>>)>>)
RunTasks == TgPrints("task_scheduler", MakeSchedule(tgIn, <<1, 2, 3>>))
RunElephants ==
  TgPrints("elephants", MakeSchedule(SmallerElephants(tgIn), SetToSortSeq(Named(tgIn), <)))
RunAdjList ==
  LET adj == Neighbors(tgIn, GraphNodes)
  IN  TgPrints("adj_list", [dfs |-> DfsLog(adj, <<1, 2, 3>>), bfs |-> BfsLog(adj, <<1, 2, 3>>)])
RunDijkstra ==
  LET ids == [n \in DOMAIN tgIn |-> n]
  IN  TgPrints("dijkstra", [dfs |-> Visits(tgIn, ids), paths |-> Dijkstra(tgIn, ids, tgArg)])
RunWordsFind == TgPrints("words_find", NodesWithWord(1, tgIn))
RunWordsPaths == TgPrints("words_paths", FindPathAux(1, <<>>, tgIn))

TgNext ==
  \/ RunIsBst \/ RunIsBalanced \/ RunOptimalTree \/ RunRebuildTree \/ RunSerializeTree
  \/ RunFlattenBst \/ RunFlatten \/ RunTraversals \/ RunSameInorder \/ RunSuccessor
  \/ RunLargestSmaller \/ RunListLevels \/ RunLargestLevel \/ RunZigZag \/ RunBottomView
  \/ RunSerializeNary \/ RunLca \/ RunLeftSum \/ RunPathsSum \/ RunIsSubtree
  \/ RunInorderToTrees \/ RunTreesCount \/ RunBstSequences \/ RunRandomNode
  \/ RunRouteExists \/ RunFriends \/ RunPackages \/ RunSortAttempt \/ RunTasks \/ RunElephants
  \/ RunAdjList \/ RunDijkstra \/ RunWordsFind \/ RunWordsPaths

TgSpec == TgInit /\ [][TgNext]_tgVars
----------------------------------------------------------------------------
\* What the answers are measured by.
TgAll(t) == DOMAIN t.l
Path(t, n) ==
  LET above == {a \in TgAll(t) : n \in Below(t, a)} IN SetToSortSeq(above, <)
Depth(t, n) == Len(Path(t, n))
Side(t, n) == Cardinality({a \in TgAll(t) : t.r[a] # NoNode /\ n \in Below(t, t.r[a])})
              - Cardinality({a \in TgAll(t) : t.l[a] # NoNode /\ n \in Below(t, t.l[a])})
Height(t) == ValueHeight(Value(t, RootOf(t)))
Level(t, d) == SetToSortSeq({n \in TgAll(t) : Depth(t, n) = d}, <)
Once(seq, set) == Len(seq) = Cardinality(set) /\ Range(seq) = set
SumOver(t, nodes) == Total([i \in 1..Cardinality(nodes) |-> t.key[SetToSortSeq(nodes, <)[i]]])
Position(seq, n) == CHOOSE i \in DOMAIN seq : seq[i] = n

\* Predicates on a tree, and trees built from what is read of them.
TreesBuilt ==
  /\ tgProg = "is_bst" =>
       LET keys == KeysAt(tgIn, TgInOrder(tgIn))
       IN  tgOut[1] = \A i \in 1..Len(keys) - 1 : keys[i] < keys[i + 1]
  /\ tgProg = "is_balanced" =>
       LET height(n) == ValueHeight(Value(tgIn, n))
       IN  tgOut[1] = \A n \in TgAll(tgIn) : height(tgIn.l[n]) - height(tgIn.r[n]) \in -1..1
  /\ tgProg = "optimal_tree" =>
       /\ SerializeInorder(tgOut) = [i \in 1..tgIn |-> i]
       /\ tgIn < 2 ^ ValueHeight(tgOut) /\ 2 ^ ValueHeight(tgOut) <= 2 * tgIn + (IF tgIn = 0 THEN 1 ELSE 0)
  /\ tgProg = "rebuild_tree" => tgOut = Value(tgIn, RootOf(tgIn))
  /\ tgProg = "serialize_tree" => tgOut = <<tgIn.key, KeysAt(tgIn, TgInOrder(tgIn))>>
  /\ tgProg = "serialize_ntree" =>
       tgOut[1] = tgOut[2] /\ tgOut[3] = NaryValue(NaryChildren(tgIn), tgIn.key, 1)
  /\ tgProg = "inorder_to_trees" =>
       /\ Once(tgOut[2], Range(tgOut[2]))
       /\ tgOut[1] = Len(tgOut[2]) /\ tgOut[1] = Cardinality(Shapes(tgIn))
       /\ \A i \in DOMAIN tgOut[2] : SerializeInorder(tgOut[2][i]) = [k \in 1..tgIn |-> k]
  /\ tgProg = "trees_count" => tgOut[2] = Cardinality(Shapes(tgIn))
  /\ tgProg = "bst_sequences" =>
       Once(tgOut, {seq \in SetToSeqs(TgAll(tgIn)) \ {<<>>} :
         LET t == Inserted(KeysAt(tgIn, seq)) IN Value(t, 1) = Value(tgIn, 1)})

\* A tree of which nothing but threads is left: where a node had no right child it
\* may have the node that comes next in order.
OnlyThreads(t, was) ==
  LET order == TgInOrder(was)
  IN  /\ t.l = was.l /\ t.key = was.key
      /\ \A i \in DOMAIN order :
           \/ t.r[order[i]] = was.r[order[i]]
           \/ /\ was.r[order[i]] = NoNode
              /\ i < Len(order) /\ t.r[order[i]] = order[i + 1]

\* Walks, some of which rewire the tree and must leave it as it was.  The comparison of
\* parallel_inorder does where the trees agree; where it ends early it leaves its threads,
\* and nothing else.  Of bottom_view() only the order within one distance is claimed: the
\* distances come from left to right and not "level by level".
TreesWalked ==
  /\ tgProg = "flatten_bst" =>
       LET t == tgOut[1]
       IN  /\ \A n \in DOMAIN t.l : t.l[n] = NoNode
           /\ InOrder(t, tgOut[2]) = TgInOrder(tgIn)
  /\ tgProg = "flatten" =>
       /\ \A n \in TgAll(tgIn) : tgOut.l[n] = NoNode
       /\ InOrder(tgOut, 1) = [i \in 1..Len(tgIn.l) |-> i]
  /\ tgProg = "traversal_without_recursion" =>
       LET t == Inserted(tgIn)
       IN  /\ tgOut[3] = t
           /\ KeysAt(t, tgOut[1]) = SerializePreorder(Value(t, RootOf(t)))
           /\ tgOut[2] = TgInOrder(t)
  /\ tgProg = "parallel_inorder" =>
       /\ tgOut[1] = (KeysAt(tgIn[1], TgInOrder(tgIn[1])) = KeysAt(tgIn[2], TgInOrder(tgIn[2])))
       /\ IF tgOut[1] THEN <<tgOut[2], tgOut[3]>> = tgIn
          ELSE OnlyThreads(tgOut[2], tgIn[1]) /\ OnlyThreads(tgOut[3], tgIn[2])
  /\ tgProg = "bt_successor" =>
       LET t == tgOut[3]
           order == TgInOrder(t)
           n == tgOut[1]
           i == Position(order, n)
       IN  /\ n = NoNode <=> tgArg \notin Range(tgIn)
           /\ n # NoNode =>
                /\ t.key[n] = tgArg
                /\ tgOut[2] = IF i = Len(order) THEN NoNode ELSE order[i + 1]
  /\ tgProg = "largest_smaller_key" =>
       LET smaller == {n \in TgAll(tgIn) : tgIn.key[n] < tgArg}
       IN  IF smaller = {} THEN tgOut[1] = NoNode
           ELSE tgOut[1] \in smaller /\ \A n \in smaller : tgIn.key[n] <= tgIn.key[tgOut[1]]
  /\ tgProg = "list_level_by_level" => tgOut = [d \in 1..Height(tgIn) |-> Level(tgIn, d)]
  /\ tgProg = "largest_level" =>
       LET deep(n) == Cardinality({a \in TgAll(tgIn) : n \in {a} \cup Below(tgIn, tgIn.l[a])})
           wide(n) == Cardinality({m \in TgAll(tgIn) : deep(m) = deep(n)})
       IN  /\ \A n \in TgAll(tgIn) : wide(n) <= tgOut[1]
           /\ \E n \in TgAll(tgIn) : wide(n) = tgOut[1]
  /\ tgProg = "zig_zag" =>
       tgOut = FlattenSeq([d \in 1..Height(tgIn) |->
                 IF d % 2 = 0 THEN Level(tgIn, d) ELSE Reverse(Level(tgIn, d))])
  /\ tgProg = "bottom_view" =>
       /\ Once(tgOut, {n \in TgAll(tgIn) :
            \A m \in TgAll(tgIn) : Side(tgIn, m) = Side(tgIn, n) => Depth(tgIn, m) <= Depth(tgIn, n)})
       /\ \A i, j \in DOMAIN tgOut :
            i < j /\ Side(tgIn, tgOut[i]) = Side(tgIn, tgOut[j]) => tgOut[i] < tgOut[j]

\* Answers about the nodes of a tree.
TreesAnswered ==
  /\ tgProg = "lca" =>
       LET common(a) == {tgArg[1], tgArg[2]} \subseteq Below(tgIn, a)
       IN  common(tgOut[1]) /\ ~common(tgIn.l[tgOut[1]]) /\ ~common(tgIn.r[tgOut[1]])
  /\ tgProg = "left_sum" =>
       /\ tgOut[2] = SumOver(tgIn, TgAll(tgIn))
       /\ \A n \in TgAll(tgIn) :
            tgOut[1].key[n] = SumOver(tgIn, {n} \cup Below(tgIn, tgIn.l[n]))
  /\ tgProg = "paths_sum" =>
       LET down == UNION {{SubSeq(Path(tgIn, n), i, Depth(tgIn, n)) : i \in 1..Depth(tgIn, n)} : n \in TgAll(tgIn)}
       IN  Once(tgOut, {p \in down : Total(KeysAt(tgIn, p)) = tgArg})
  /\ tgProg = "is_subtree" =>
       tgOut[1] = (Value(tgIn[2], RootOf(tgIn[2])) \in
                    {Value(tgIn[1], n) : n \in {NoNode} \cup TgAll(tgIn[1])})
  /\ tgProg = "random_node" => tgOut[1] = TgAll(tgIn)

\* The depth-first log: every vertex once, what is entered inside a vertex is left
\* there, and no edge leads from a vertex that was left to one not yet entered.
DeepFirst(adj, log) ==
  LET at(what, v) == CHOOSE i \in DOMAIN log : log[i] = <<what, v>>
      span(v) == at("entered", v)..at("exited", v)
  IN  /\ Once(log, {"entered", "exited"} \X DOMAIN adj)
      /\ \A v, w \in DOMAIN adj :
           /\ span(v) \subseteq span(w) \/ span(w) \subseteq span(v) \/ span(v) \cap span(w) = {}
           /\ w \in Range(adj[v]) => at("entered", w) < at("exited", v)

\* The breadth-first log: from each vertex not reached before, by distance.
Distance(adj, from, to) == CHOOSE k \in 0..3 : to \in Ball(adj, from, k) /\ \A j \in 0..k - 1 : to \notin Ball(adj, from, j)
BroadFirst(adj, log) ==
  LET before(v) == UNION {Ball(adj, w, 3) : w \in {u \in DOMAIN adj : u < v}}
      roots == {v \in DOMAIN adj : v \notin before(v)}
      rootOf(x) == CHOOSE r \in roots : x \in Ball(adj, r, 3) \ before(r)
      key(x) == <<rootOf(x), Distance(adj, rootOf(x), x)>>
  IN  /\ Once(log, DOMAIN adj)
      /\ \A i, j \in DOMAIN log : i < j => ~Nearer(key(log[j]), key(log[i]))

\* What a walk along the edges costs, 100 if it leaves them.
WalkCost(adj, walk) ==
  Total([i \in 1..Len(walk) - 1 |->
    LET edge == SelectSeq(adj[walk[i]], LAMBDA e : e[1] = walk[i + 1])
    IN  IF edge = <<>> THEN 100 ELSE edge[1][2]])
CheapestWalks(adj, from, to) ==
  LET walks == {w \in UNION {SetToSeqs(S) : S \in SUBSET DOMAIN adj \ {{}}} :
                  w[1] = from /\ w[Len(w)] = to /\ WalkCost(adj, w) < 100}
  IN  {w \in walks : \A v \in walks : WalkCost(adj, w) <= WalkCost(adj, v)}

\* The ways in which each word has a node of its own on the path to n, the last
\* one n itself.
ArrayPath(n) ==
  LET below[m \in 1..13] == {m} \cup UNION {below[c] : c \in Range(ArrayChildren[m])}
  IN  SetToSortSeq({m \in 1..13 : n \in below[m]}, <)
Matchings(words, n) ==
  {f \in [words -> Range(ArrayPath(n))] :
     /\ IsInjective(f) /\ n \in {f[w] : w \in words}
     /\ \A w \in words : w \in Range(ArrayWords[f[w]])}

\* Answers about graphs.
GraphsAnswered ==
  /\ tgProg = "adj_list" =>
       LET adj == Neighbors(tgIn, GraphNodes)
       IN  DeepFirst(adj, tgOut.dfs) /\ BroadFirst(adj, tgOut.bfs)
  /\ tgProg = "dijkstra" =>
       LET best == [n \in DOMAIN tgIn |-> CheapestWalks(tgIn, tgArg, n)]
           reached == SetToSortSeq({n \in DOMAIN tgIn \ {tgArg} : best[n] # {}}, <)
       IN  /\ Once(tgOut.dfs, DOMAIN tgIn)
           /\ Len(tgOut.paths) = Len(reached)
           /\ \A i \in DOMAIN reached : tgOut.paths[i] \in best[reached[i]]
  /\ tgProg = "words_find" =>
       Once(tgOut, {n \in 1..13 : tgIn \in Range(ArrayWords[n])})
  /\ tgProg = "words_paths" =>
       /\ \A n \in 1..13 :
            Len(SelectSeq(tgOut, LAMBDA p : p = ArrayPath(n))) = Cardinality(Matchings(tgIn, n))
       /\ Range(tgOut) \subseteq {ArrayPath(n) : n \in 1..13}
  /\ tgProg = "route_exists" => tgOut[1] = (tgArg[2] \in Ball(tgIn, tgArg[1], 3))
  /\ tgProg = "friends_by_level" =>
       /\ UNION {Range(tgOut[k]) : k \in DOMAIN tgOut} = Ball(tgIn, tgArg, 3) \ {tgArg}
       /\ \A k \in DOMAIN tgOut :
            Once(tgOut[k], Ball(tgIn, tgArg, k) \ Ball(tgIn, tgArg, k - 1))
  /\ tgProg = "package_dependencies" =>
       /\ tgOut.ok = Acyclic(tgIn)
       /\ tgOut.ok => /\ Once(tgOut.out, GraphNodes)
                      /\ \A n \in GraphNodes : \A d \in Range(tgIn[n]) : Before(tgOut.out, d, n)
  /\ tgProg = "sort_attempt" =>
       tgOut[1] = (Cardinality({order \in SetToSeqs(GraphNodes) :
         \A n \in GraphNodes : \A m \in Range(tgIn[n]) : Before(order, n, m)}) = 1)
  /\ tgProg = "task_scheduler" =>
       /\ Once(tgOut, GraphNodes)
       /\ \A n \in GraphNodes : \A d \in Range(tgIn[n]) : Before(tgOut, d, n)
  /\ tgProg = "elephants" =>
       /\ Once(tgOut, Named(tgIn))
       /\ ByHeight(tgOut, tgIn)

\* Every program prints what its definition says: trees come back from their orders,
\* Morris threads are taken back by a walk that goes to its end, and one that ends early
\* leaves nothing but threads; spliced lists leave the tree flat with nothing lost, every
\* subtree, path and insertion order is found once, and an order of a graph is
\* printed exactly if there is one, in a depth-first, breadth-first or shortest walk.
TgRight == tgDone => TreesBuilt /\ TreesWalked /\ TreesAnswered /\ GraphsAnswered
=============================================================================
