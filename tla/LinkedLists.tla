---------------------------- MODULE LinkedLists ----------------------------
(* The programs of linked_lists.  A list lives in memory as the code lays it *)
(* out: node i of the n nodes holds val[i] and points to next[i], and the    *)
(* programs rewire next in the order of their assignments.  Each program     *)
(* runs in one step on every small input its main() reads.                   *)
EXTENDS Integers, Sequences, FiniteSets, SequencesExt

CONSTANTS
  LlMax,   \* bound: the longest list
  LlVals   \* the values in lists, digits of numbers

ASSUME LlAssumption == LlMax \in Nat /\ LlVals \subseteq 0..9

VARIABLES
  llProg,  \* the program that runs
  llIn,    \* the values it reads, or the shape of the list
  llArg,   \* the number it reads with it, 0 if none
  llOut,   \* what it prints
  llDone   \* it has printed

llVars == <<llProg, llIn, llArg, llOut, llDone>>

NULL == 0
\* The list heads on the stack of partition() and merge().
LOWER == -1
HIGHER == -2

\* The list main() links from what it reads: 1 -> 2 -> ... -> n.
Linked(n) == [i \in -2..n |-> IF i \in 1..n - 1 THEN i + 1 ELSE NULL]
HeadOf(s) == IF s = <<>> THEN NULL ELSE 1

\* What print_list() meets from a node, cut short if the list has become a loop.
RECURSIVE NodesFrom(_, _, _)
NodesFrom(next, node, limit) ==
  IF node = NULL \/ limit = 0 THEN <<>>
  ELSE <<node>> \o NodesFrom(next, next[node], limit - 1)
Nodes(next, head) == NodesFrom(next, head, Cardinality(DOMAIN next) + 1)
ValuesAt(nodes, val) == [i \in DOMAIN nodes |-> val[nodes[i]]]
----------------------------------------------------------------------------
\* find_middle(): fast goes two nodes for each of slow.
RECURSIVE Middle(_, _, _)
Middle(next, slow, fast) ==
  IF fast # NULL /\ next[fast] # NULL
  THEN Middle(next, next[slow], next[next[fast]]) ELSE slow

\* partition() of quicksort.c: the lower nodes, the pivot, the others.
RECURSIVE PartitionAround(_, _, _, _, _, _)
PartitionAround(next, val, head, pivot, lower, higher) ==
  IF head = NULL THEN
    LET ended == [[next EXCEPT ![lower] = pivot] EXCEPT ![higher] = NULL]
    IN  [ended EXCEPT ![pivot] = ended[HIGHER]]
  ELSE IF head = pivot THEN PartitionAround(next, val, next[head], pivot, lower, higher)
  ELSE IF val[head] < val[pivot]
  THEN PartitionAround([next EXCEPT ![lower] = head], val, next[head], pivot, head, higher)
  ELSE PartitionAround([next EXCEPT ![higher] = head], val, next[head], pivot, lower, head)

\* quicksort(): the two parts are sorted and joined; the result is the memory and
\* the head.
RECURSIVE ListQuicksort(_, _, _)
ListQuicksort(next, val, head) ==
  IF head = NULL \/ next[head] = NULL THEN <<next, head>>
  ELSE LET middle == Middle(next, head, next[head])
           parted == PartitionAround([next EXCEPT ![LOWER] = NULL, ![HIGHER] = NULL],
                                     val, head, middle, LOWER, HIGHER)
           after == ListQuicksort([parted EXCEPT ![middle] = NULL], val, parted[middle])
           before == ListQuicksort(after[1], val, parted[LOWER])
       IN  IF before[2] = NULL THEN <<before[1], after[2]>>
           ELSE <<[before[1] EXCEPT ![Last(Nodes(before[1], before[2]))] = after[2]], before[2]>>

\* merge() of mergesort.c, after the left cursor: nodes of the right list (after
\* HIGHER) that are smaller move into the left one (after LOWER).
RECURSIVE MergeInto(_, _, _)
MergeInto(next, val, cursor) ==
  LET node == next[HIGHER]
  IN  IF next[cursor] = NULL THEN [next EXCEPT ![cursor] = node]
      ELSE IF node = NULL THEN next
      ELSE IF val[next[cursor]] > val[node]
      THEN MergeInto([next EXCEPT ![HIGHER] = next[node], ![node] = next[cursor],
                                  ![cursor] = node], val, node)
      ELSE MergeInto(next, val, next[cursor])

\* mergesort().
RECURSIVE ListMergesort(_, _, _)
ListMergesort(next, val, head) ==
  IF head = NULL \/ next[head] = NULL THEN <<next, head>>
  ELSE LET middle == Middle(next, head, next[head])
           left == ListMergesort([next EXCEPT ![middle] = NULL], val, head)
           right == ListMergesort(left[1], val, next[middle])
           merged == MergeInto([right[1] EXCEPT ![LOWER] = left[2], ![HIGHER] = right[2]], val, LOWER)
       IN  <<merged, merged[LOWER]>>

\* print_and_reverse(): the memory and the new head.
RECURSIVE Reversed(_, _, _)
Reversed(next, prev, head) ==
  IF head = NULL THEN <<next, prev>>
  ELSE Reversed([next EXCEPT ![head] = prev], head, next[head])

\* kth_to_last(): behind follows k nodes after ahead.
RECURSIVE Ahead(_, _, _)
Ahead(next, node, k) ==
  IF k = 0 \/ node = NULL THEN <<node, k>> ELSE Ahead(next, next[node], k - 1)
RECURSIVE Behind(_, _, _)
Behind(next, behind, ahead) ==
  IF ahead = NULL THEN behind ELSE Behind(next, next[behind], next[ahead])
KthToLast(next, head, k) ==
  LET ahead == Ahead(next, head, k)
  IN  IF ahead[2] > 0 THEN NULL ELSE Behind(next, head, ahead[1])

\* partition_list(): append_to() ends the list it appends to.
RECURSIVE PartitionList(_, _, _, _, _, _)
PartitionList(next, val, cursor, v, lower, higher) ==
  IF cursor = NULL THEN [next EXCEPT ![lower] = next[HIGHER]]
  ELSE LET append(tail) == [[next EXCEPT ![tail] = cursor] EXCEPT ![cursor] = NULL]
       IN  IF val[cursor] < v
           THEN PartitionList(append(lower), val, next[cursor], v, cursor, higher)
           ELSE PartitionList(append(higher), val, next[cursor], v, lower, cursor)

\* palindromic_reorder_aux(): the second half is taken off on the way down and
\* woven in on the way back; the result is the memory and what is left of it.
RECURSIVE Reorder(_, _, _)
Reorder(next, slow, fast) ==
  IF next[fast] = NULL THEN <<[next EXCEPT ![slow] = NULL], next[slow]>>
  ELSE IF next[next[fast]] = NULL
  THEN <<[next EXCEPT ![next[slow]] = NULL], next[next[slow]]>>
  ELSE LET rest == Reorder(next, next[slow], next[next[fast]])
           mine == rest[2]
       IN  <<[rest[1] EXCEPT ![mine] = rest[1][slow], ![slow] = mine], rest[1][mine]>>

\* is_palindrome_aux(): whether the halves agree so far, and the node after.
RECURSIVE Palindrome(_, _, _, _)
Palindrome(next, val, slow, fast) ==
  IF fast = NULL THEN <<TRUE, slow>>
  ELSE IF next[fast] = NULL THEN <<TRUE, next[slow]>>
  ELSE LET rest == Palindrome(next, val, next[slow], next[next[fast]])
       IN  IF ~rest[1] THEN rest
           ELSE <<val[slow] = val[rest[2]], next[rest[2]]>>

\* remove_dups(): with the values seen.
RECURSIVE RemoveDups(_, _, _, _, _)
RemoveDups(next, val, prev, curr, seen) ==
  IF curr = NULL THEN next
  ELSE IF val[curr] \in seen
  THEN RemoveDups([next EXCEPT ![prev] = next[curr]], val, prev, next[curr], seen)
  ELSE RemoveDups(next, val, curr, next[curr], seen \cup {val[curr]})

\* remove_dups_no_buff(): for each node, the later ones like it.
RECURSIVE LookAhead(_, _, _, _, _)
LookAhead(next, val, cursor, prev, node) ==
  IF node = NULL THEN next
  ELSE IF val[node] = val[cursor]
  THEN LookAhead([next EXCEPT ![prev] = next[node]], val, cursor, prev, next[node])
  ELSE LookAhead(next, val, cursor, node, next[node])
RECURSIVE RemoveDupsNoBuff(_, _, _)
RemoveDupsNoBuff(next, val, cursor) ==
  IF cursor = NULL THEN next
  ELSE LET cleared == LookAhead(next, val, cursor, cursor, next[cursor])
       IN  RemoveDupsNoBuff(cleared, val, cleared[cursor])

\* Two cursors walk until they meet, the second one hop or two at a time.
RECURSIVE Meet(_, _, _, _)
Meet(next, slow, fast, hops) ==
  IF slow = fast THEN slow
  ELSE Meet(next, next[slow], IF hops = 2 THEN next[next[fast]] ELSE next[fast], hops)

\* find_loop_start(): they meet at two speeds, then at one.
FindLoopStart(next, head) ==
  LET met == Meet(next, next[head], next[next[head]], 2) IN Meet(next, head, met, 1)

\* find_merge_spot(): the first list is closed to a loop for a while.
FindMergeSpot(next, h1, h2) ==
  LET last == Last(Nodes(next, h1)) IN FindLoopStart([next EXCEPT ![last] = h1], h2)

\* remove_node(): the node takes the value of the next one, which is dropped.
RemoveNode(next, val, node) ==
  <<[next EXCEPT ![node] = next[next[node]]], [val EXCEPT ![node] = val[next[node]]]>>

\* bigint_reversed_sum(): both numbers, then what is missing of one, then the carry.
BigintReversedSum(a, b) ==
  LET digit(s, i) == IF i \in DOMAIN s THEN s[i] ELSE 0
      size == IF Len(a) >= Len(b) THEN Len(a) ELSE Len(b)
      sum[i \in 0..size] ==
        IF i = 0 THEN <<<<>>, 0>>
        ELSE LET value == digit(a, i) + digit(b, i) + sum[i - 1][2]
             IN  <<Append(sum[i - 1][1], value % 10), value \div 10>>
  IN  IF sum[size][2] # 0 THEN Append(sum[size][1], sum[size][2]) ELSE sum[size][1]

\* list_prepend_zeros() and bigint_sum_aux(): the carry and the digits of lists of
\* one length.
Padded(s, size) == [i \in 1..size - Len(s) |-> 0] \o s
RECURSIVE BigintSumAux(_, _)
BigintSumAux(a, b) ==
  IF a = <<>> THEN <<0, <<>>>>
  ELSE LET rest == BigintSumAux(Tail(a), Tail(b))
           value == Head(a) + Head(b) + rest[1]
       IN  <<value \div 10, <<value % 10>> \o rest[2]>>

\* bigint_sum().
BigintSum(a, b) ==
  LET size == IF Len(a) >= Len(b) THEN Len(a) ELSE Len(b)
      res == BigintSumAux(Padded(a, size), Padded(b, size))
  IN  IF res[1] # 0 THEN <<res[1]>> \o res[2] ELSE res[2]

\* print_intersections(): for each list the lists from it on that hold one of its
\* values; none for an empty list, not even itself.
Intersections(lists) ==
  LET listsWith(v) == {i \in DOMAIN lists : \E k \in DOMAIN lists[i] : lists[i][k] = v}
  IN  [i \in DOMAIN lists |->
         UNION {{j \in listsWith(lists[i][k]) : i <= j} : k \in DOMAIN lists[i]}]
----------------------------------------------------------------------------
Lists(n) == UNION {[1..k -> LlVals] : k \in 0..n}
Some(n) == Lists(n) \ {<<>>}

\* Each program with the inputs it is made for: those that read_list() asserts
\* have an element, the shapes of find_loop_start() and find_merge_spot() (hops
\* before the loop or the spot, and after), the node to remove, not the last.
LlInit ==
  /\ \/ llProg \in {"quicksort", "mergesort", "palindromic_reorder"}
        /\ llIn \in Lists(LlMax) /\ llArg = 0
     \/ llProg \in {"print_directions", "is_palindrome", "remove_duplicates"}
        /\ llIn \in Some(LlMax) /\ llArg = 0
     \/ llProg = "kth_to_last" /\ llIn \in Some(3) /\ llArg \in 0..4
     \/ llProg = "partition" /\ llIn \in Some(LlMax) /\ llArg \in LlVals
     \/ llProg = "delete_without_prev" /\ llIn \in Some(LlMax) /\ llArg \in 1..Len(llIn) - 1
     \/ llProg = "bigint_sum" /\ llIn \in Some(3) \X Some(3) /\ llArg = 0
     \/ llProg = "intersections" /\ llIn \in [1..3 -> Lists(2)] /\ llArg = 0
     \/ llProg = "loop" /\ llIn \in (0..2 * LlMax) \X (1..2 * LlMax) /\ llArg = 0
     \/ llProg = "find_merge_spot" /\ llIn \in (1..LlMax) \X (1..LlMax) \X (1..LlMax) /\ llArg = 0
  /\ llOut = <<>>
  /\ llDone = FALSE

Prints(prog, out) ==
  /\ llProg = prog /\ ~llDone
  /\ llDone' = TRUE /\ llOut' = out
  /\ UNCHANGED <<llProg, llIn, llArg>>

Memory == Linked(Len(llIn))
PrintedFrom(sorted) == ValuesAt(Nodes(sorted[1], sorted[2]), llIn)

\* main() of each program: the list is linked, the function called, the result
\* printed.
RunListQuicksort == Prints("quicksort", PrintedFrom(ListQuicksort(Memory, llIn, HeadOf(llIn))))
RunListMergesort == Prints("mergesort", PrintedFrom(ListMergesort(Memory, llIn, HeadOf(llIn))))

\* print_twice() and the list afterwards.
RunPrintDirections ==
  LET back == Reversed(Memory, NULL, HeadOf(llIn))
      forth == Reversed(back[1], NULL, back[2])
  IN  Prints("print_directions",
        <<ValuesAt(Nodes(Memory, 1), llIn), ValuesAt(Nodes(back[1], back[2]), llIn),
          ValuesAt(Nodes(forth[1], 1), llIn)>>)

RunKthToLast == Prints("kth_to_last", <<KthToLast(Memory, 1, llArg)>>)

RunPartition ==
  LET parted == PartitionList(Memory, llIn, 1, llArg, LOWER, HIGHER)
  IN  Prints("partition", ValuesAt(Nodes(parted, parted[LOWER]), llIn))

RunReorder ==
  LET woven == IF llIn = <<>> THEN Memory ELSE Reorder(Memory, 1, 1)[1]
  IN  Prints("palindromic_reorder", Nodes(woven, HeadOf(llIn)))

RunIsPalindrome == Prints("is_palindrome", <<Palindrome(Memory, llIn, 1, 1)[1]>>)

\* The list is read twice, for the version with a map and the one without.
RunRemoveDuplicates ==
  Prints("remove_duplicates",
    <<Nodes(RemoveDups(Memory, llIn, 1, Memory[1], {llIn[1]}), 1),
      Nodes(RemoveDupsNoBuff(Memory, llIn, 1), 1)>>)

RunRemoveNode ==
  LET removed == RemoveNode(Memory, llIn, llArg)
  IN  Prints("delete_without_prev", ValuesAt(Nodes(removed[1], 1), removed[2]))

\* Both programs of bigint_sum; the first one reads the digits in reverse.
RunBigintSum ==
  Prints("bigint_sum",
    <<BigintReversedSum(Reverse(llIn[1]), Reverse(llIn[2])), BigintSum(llIn[1], llIn[2])>>)

RunIntersections == Prints("intersections", Intersections(llIn))

\* llIn[1] nodes lead to a loop of llIn[2].
RunLoop ==
  LET n == llIn[1] + llIn[2]
  IN  Prints("loop", <<FindLoopStart([Linked(n) EXCEPT ![n] = llIn[1] + 1], 1)>>)

\* Two lists of llIn[1] and llIn[2] nodes before they share llIn[3].
RunMergeSpot ==
  LET shared == llIn[1] + llIn[3]
      second == shared + 1
      n == shared + llIn[2]
  IN  Prints("find_merge_spot",
        <<FindMergeSpot([Linked(n) EXCEPT ![shared] = NULL, ![n] = llIn[1] + 1], 1, second)>>)

LlNext ==
  \/ RunListQuicksort \/ RunListMergesort \/ RunPrintDirections \/ RunKthToLast
  \/ RunPartition \/ RunReorder \/ RunIsPalindrome \/ RunRemoveDuplicates
  \/ RunRemoveNode \/ RunBigintSum \/ RunIntersections \/ RunLoop \/ RunMergeSpot

LlSpec == LlInit /\ [][LlNext]_llVars
----------------------------------------------------------------------------
LlLen == Len(llIn)
LlTimes(s, v) == Cardinality({i \in DOMAIN s : s[i] = v})
Number(s) == FoldLeft(LAMBDA n, d : 10 * n + d, 0, s)
Firsts == SelectSeq([i \in 1..LlLen |-> i], LAMBDA i : \A j \in 1..i - 1 : llIn[j] # llIn[i])

\* Whatever the rewiring does in between, the list that is printed is the one the
\* program is for: sorted with nothing lost (the pointers of two lists are rewired
\* at once), reversed and back, split around the value with both parts in order,
\* woven from both ends, with the first of each value left by both ways of removing
\* duplicates, without the node that was given; the two sums agree with addition;
\* slow and fast meet at the start of the loop, and where the lists merge.
LlRight ==
  llDone =>
    /\ llProg \in {"quicksort", "mergesort"} =>
         /\ \A i \in 1..Len(llOut) - 1 : llOut[i] <= llOut[i + 1]
         /\ \A v \in LlVals : LlTimes(llOut, v) = LlTimes(llIn, v)
    /\ llProg = "print_directions" => llOut = <<llIn, Reverse(llIn), llIn>>
    /\ llProg = "kth_to_last" =>
         llOut[1] = IF llArg \in 1..LlLen THEN LlLen - llArg + 1 ELSE NULL
    /\ llProg = "partition" =>
         llOut = SelectSeq(llIn, LAMBDA v : v < llArg) \o SelectSeq(llIn, LAMBDA v : v >= llArg)
    /\ llProg = "palindromic_reorder" =>
         llOut = [i \in 1..LlLen |-> IF i % 2 = 1 THEN (i + 1) \div 2 ELSE LlLen + 1 - i \div 2]
    /\ llProg = "is_palindrome" => llOut[1] = (llIn = Reverse(llIn))
    /\ llProg = "remove_duplicates" => llOut = <<Firsts, Firsts>>
    /\ llProg = "delete_without_prev" => llOut = RemoveAt(llIn, llArg)
    /\ llProg = "bigint_sum" =>
         /\ Number(Reverse(llOut[1])) = Number(llIn[1]) + Number(llIn[2])
         /\ llOut[2] = Reverse(llOut[1])
    /\ llProg = "intersections" =>
         \A i, j \in DOMAIN llIn :
           j \in llOut[i] <=> i <= j /\ Range(llIn[i]) \cap Range(llIn[j]) # {}
    /\ llProg = "loop" => llOut = <<llIn[1] + 1>>
    /\ llProg = "find_merge_spot" => llOut = <<llIn[1] + 1>>
=============================================================================
