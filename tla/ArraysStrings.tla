----------------------------- MODULE ArraysStrings -----------------------------
(* The programs of arrays_strings.  Each runs in one step on an input it is    *)
(* made for.  An array or a string is a sequence, so index i of the code is    *)
(* i + 1 here unless a comment says otherwise; a character is a number, a      *)
(* matrix a function of its row and column, both from 0.  A function that      *)
(* works in place gets the array and gives it back, one write after the other, *)
(* wherever a later read may see an earlier write.                             *)
EXTENDS Integers, Sequences, FiniteSets, SequencesExt

CONSTANTS
  AsLen,   \* bound: the longest array or string
  AsVals,  \* the numbers in arrays
  AsChars, \* the characters of strings; 0 is the space
  AsWord   \* the number of values of an int

ASSUME AsAssumption ==
  /\ AsLen \in Nat /\ AsVals \subseteq Int /\ AsChars \subseteq Nat
  /\ AsWord \in Nat /\ AsWord > 100 /\ AsWord % 2 = 0

VARIABLES
  asProg,  \* the program that runs
  asIn,    \* its input
  asOut,   \* what it printed or returned
  asDone   \* the function has returned

asVars == <<asProg, asIn, asOut, asDone>>

Indices(a, b) == [k \in 1..(b - a + 1) |-> a + k - 1]
ExchangeAt(s, i, j) == [s EXCEPT ![i] = s[j], ![j] = s[i]]
FirstOf(S) == CHOOSE i \in S : \A j \in S : i <= j
LastOf(S) == CHOOSE i \in S : \A j \in S : j <= i
Greater(a, b) == IF a > b THEN a ELSE b
Lesser(a, b) == IF a < b THEN a ELSE b
CountOf(s, c) == Cardinality({i \in DOMAIN s : s[i] = c})
MatrixCells(rows, cols) == (0..rows - 1) \X (0..cols - 1)
----------------------------------------------------------------------------
(* Reversing and rotating.                                                   *)

\* reverse_str(), reverse(): the ends are exchanged until they meet.
RECURSIVE ReverseBetween(_, _, _)
ReverseBetween(s, l, r) ==
  IF l >= r THEN s ELSE ReverseBetween(ExchangeAt(s, l, r), l + 1, r - 1)

\* left_rotate().
RotateBy(s, from, to, amt) ==
  ReverseBetween(ReverseBetween(ReverseBetween(s, from, from + amt - 1), from + amt, to), from, to)
LeftRotate(str, amt) == RotateBy(str, 1, Len(str), amt % Len(str))

\* find_rotation_spot_aux(): the index from 0, or -1; both halves where neither
\* end tells in which one it is.
RECURSIVE RotationSpot(_, _, _)
RotationSpot(arr, l, r) ==
  IF l + 1 >= r
  THEN IF l + 1 > r \/ arr[l + 1] <= arr[l + 2] THEN -1 ELSE l
  ELSE LET m == l + (r - l) \div 2
       IN  IF arr[l + 1] < arr[m + 1] THEN RotationSpot(arr, m, r)
           ELSE IF arr[m + 1] < arr[r + 1] THEN RotationSpot(arr, l, m)
           ELSE LET left == RotationSpot(arr, l, m)
                IN  IF left # -1 THEN left ELSE RotationSpot(arr, m, r)

\* find_rotation_spot() and restore_array().
FindRotationSpot(arr) == IF arr = <<>> THEN -1 ELSE RotationSpot(arr, 0, Len(arr) - 1)
RestoreArray(arr, spot) == IF spot = -1 THEN arr ELSE RotateBy(arr, 1, Len(arr), spot + 1)

\* next_word_end(): how far the next space or the end of the string is.
SPACE == 0
NextWordEnd(str, curr) ==
  FirstOf({k \in 0..Len(str) : curr + k > Len(str) \/ str[curr + k] = SPACE})

\* reverse_words_aux(): the word is copied before the rest is moved to the front.
RECURSIVE ReverseWords1(_, _)
ReverseWords1(str, curr) ==
  LET end == NextWordEnd(str, curr)
  IN  IF curr + end > Len(str) THEN SubSeq(str, curr, Len(str))
      ELSE ReverseWords1(str, curr + end + 1) \o <<SPACE>> \o SubSeq(str, curr, curr + end - 1)

\* reverse_words_2(): every word, then the whole string.
RECURSIVE ReverseWords2(_, _)
ReverseWords2(str, curr) ==
  IF curr > Len(str) THEN ReverseBetween(str, 1, Len(str))
  ELSE LET end == NextWordEnd(str, curr)
       IN  ReverseWords2(ReverseBetween(str, curr, curr + end - 1), curr + end + 1)

\* next_word_forward() and next_word_backward(): where the word starts, from 0,
\* and how long it is.
Blank(str, i) == str[i + 1] = SPACE
NextWordForward(str, curr) ==
  LET start == FirstOf({k \in curr..Greater(curr, Len(str)) : k >= Len(str) \/ ~Blank(str, k)})
      len == FirstOf({k \in 1..Len(str) + 1 : start + k >= Len(str) \/ Blank(str, start + k)})
  IN  [start |-> start, len |-> len]
NextWordBackward(str, curr) ==
  LET last == LastOf({k \in 0..curr : k = 0 \/ ~Blank(str, k)})
      stop == LastOf({k \in 0..last : k = 0 \/ Blank(str, k)})
  IN  IF stop = 0 /\ ~Blank(str, 0) THEN [start |-> 0, len |-> last + 1]
      ELSE [start |-> stop + 1, len |-> last - stop]

\* swap_words(): three rotations.
SwapWords(str, w1, w2) ==
  LET span == w2.start + w2.len - w1.start
      at(s, len, amt) == RotateBy(s, w1.start + 1, w1.start + len, amt)
  IN  at(at(at(str, span, span - w2.len), w1.len + w2.len, w2.len), span, w1.len)

\* reverse_words_nomem(): the words are exchanged from both ends.
RECURSIVE ReverseWordsNomem(_, _, _)
ReverseWordsNomem(str, w1, w2) ==
  IF w1.start + w1.len - 1 >= w2.start THEN str
  ELSE LET s == SwapWords(str, w1, w2)
       IN  ReverseWordsNomem(s, NextWordForward(s, w1.start + w2.len),
                             NextWordBackward(s, w2.start + w2.len - w1.len - 1))

\* reverse_words_buffered(): at every word of the string the next one from the end.
RECURSIVE ReverseWordsBuffered(_, _, _)
ReverseWordsBuffered(str, i, next) ==
  IF i >= Len(str) THEN <<>>
  ELSE IF Blank(str, i) THEN <<SPACE>> \o ReverseWordsBuffered(str, i + 1, next)
  ELSE LET here == NextWordForward(str, i)
           word == NextWordBackward(str, next - 1)
       IN  SubSeq(str, word.start + 1, word.start + word.len)
             \o ReverseWordsBuffered(str, here.start + here.len, word.start)

\* rotate_layer(): three swaps bring four pixels to their places.
RotateLayer(matrix, l, width) ==
  LET turn(m, p) ==
        ExchangeAt(ExchangeAt(ExchangeAt(m,
          <<l, l + p>>, <<l + p, l + width - 1>>),
          <<l, l + p>>, <<l + width - 1, l + width - 1 - p>>),
          <<l, l + p>>, <<l + width - 1 - p, l>>)
  IN  FoldLeft(turn, matrix, Indices(0, width - 2))

RotateImage(matrix, n) ==
  FoldLeft(LAMBDA m, l : RotateLayer(m, l, n - 2 * l), matrix, Indices(0, n \div 2 - 1))

\* transpose().
Transposed(matrix, n) ==
  LET row(m, i) == FoldLeft(LAMBDA x, j : ExchangeAt(x, <<i, j>>, <<j, i>>), m, Indices(i + 1, n - 1))
  IN  FoldLeft(row, matrix, Indices(0, n - 2))
----------------------------------------------------------------------------
(* Orders and permutations.                                                  *)

\* partition() around the middle element: equal elements go left or right.
Parted(arr, orEqual) ==
  LET front == ExchangeAt(arr, 1, Len(arr) \div 2 + 1)
      step(st, j) ==
        IF st.arr[j] < st.arr[1] \/ (orEqual /\ st.arr[j] = st.arr[1])
        THEN [arr |-> ExchangeAt(st.arr, st.i + 1, j), i |-> st.i + 1] ELSE st
      st == FoldLeft(step, [arr |-> front, i |-> 1], Indices(2, Len(arr)))
  IN  [arr |-> ExchangeAt(st.arr, 1, st.i), i |-> st.i]

RECURSIVE QuicksortBy(_, _)
QuicksortBy(arr, orEqual) ==
  IF Len(arr) <= 1 THEN arr
  ELSE LET p == Parted(arr, orEqual)
       IN  QuicksortBy(SubSeq(p.arr, 1, p.i - 1), orEqual) \o <<p.arr[p.i]>>
             \o QuicksortBy(SubSeq(p.arr, p.i + 1, Len(arr)), orEqual)

\* sum_to_zero(): for each element the two cursors close in on each other.
RECURSIVE CloseIn(_, _, _, _)
CloseIn(arr, i, front, back) ==
  IF front >= back THEN <<>>
  ELSE LET sum == arr[i] + arr[front] + arr[back]
       IN  IF sum = 0 THEN <<i, front, back>>
           ELSE IF sum < 0 THEN CloseIn(arr, i, front + 1, back)
           ELSE CloseIn(arr, i, front, back - 1)
SumToZero(arr) ==
  LET sorted == QuicksortBy(arr, FALSE)
      at(i) == CloseIn(sorted, i, i + 1, Len(arr))
      hits == {i \in DOMAIN arr : at(i) # <<>>}
  IN  [arr |-> sorted, found |-> IF hits = {} THEN <<>> ELSE at(FirstOf(hits))]

\* matrix_mostly_sorted(): the whole matrix as one array, then the rows are
\* exchanged from both ends.
MatrixMostlySorted(matrix, rows, cols) ==
  LET cells == FoldLeft(LAMBDA out, k : Append(out, matrix[<<k \div cols, k % cols>>]), <<>>,
                        Indices(0, rows * cols - 1))
      flat == QuicksortBy(cells, TRUE)
      row(m, i) == [m EXCEPT ![i] = m[rows - i + 1], ![rows - i + 1] = m[i]]
      turned == FoldLeft(row, [i \in 1..rows |-> SubSeq(flat, (i - 1) * cols + 1, i * cols)],
                         Indices(1, rows \div 2))
  IN  [c \in MatrixCells(rows, cols) |-> turned[c[1] + 1][c[2] + 1]]

\* next_perm(), and next_smallest() with the order turned round: the last step up
\* (down), the last element beyond it, a swap and a reversal.
NextBy(arr, up) ==
  LET before(x, y) == IF up THEN x < y ELSE x > y
      steps == {i \in 1..Len(arr) - 1 : before(arr[i], arr[i + 1])}
      k == LastOf(steps)
      l == LastOf({j \in DOMAIN arr : before(arr[k], arr[j])})
  IN  IF steps = {} THEN [more |-> FALSE, arr |-> arr]
      ELSE [more |-> TRUE, arr |-> ReverseBetween(ExchangeAt(arr, k, l), k + 1, Len(arr))]
NextPerm(arr) == NextBy(arr, TRUE)
NextSmallest(arr) == NextBy(arr, FALSE)

\* sort_1swap(): at most two elements are out of place.
Sort1Swap(arr) ==
  LET sorted == SortSeq(arr, <) IN Cardinality({i \in DOMAIN arr : arr[i] # sorted[i]}) < 3

\* parity_rearrange(): odd is the first index from 0, 2, ... with an even number,
\* even the first one from 1, 3, ... with an odd number.
RECURSIVE ParityRearrange(_, _, _)
ParityRearrange(arr, odd, even) ==
  LET n == Len(arr)
      o == FirstOf({k \in odd..n + 2 : k % 2 = odd % 2 /\ (k >= n \/ arr[k + 1] % 2 = 0)})
      e == FirstOf({k \in even..n + 2 : k % 2 = even % 2 /\ (k >= n \/ arr[k + 1] % 2 = 1)})
  IN  IF o < n /\ e < n THEN ParityRearrange(ExchangeAt(arr, o + 1, e + 1), o, e) ELSE arr

\* permute_str_aux(): the last letter of the target is swapped to the end, then the
\* one before it; every string on the way is printed.
RECURSIVE PermuteStr(_, _, _)
PermuteStr(src, target, len) ==
  IF len = 0 THEN <<>>
  ELSE LET i == LastOf({k \in 1..len : src[k] = target[len]})
           swaps == FoldLeft(LAMBDA out, k : Append(out, ExchangeAt(Last(out), k, k + 1)),
                             <<src>>, Indices(i, len - 1))
       IN  Tail(swaps) \o PermuteStr(Last(swaps), target, len - 1)

\* rearrange(): the new value is kept in the quotient, the old one in the remainder.
Rearrange(arr) ==
  LET n == Len(arr)
      both == FoldLeft(LAMBDA a, i : [a EXCEPT ![i] = @ + (a[a[i] + 1] % n) * n], arr, Indices(1, n))
  IN  [i \in 1..n |-> both[i] \div n]

\* max_heap_insert(): from the end of the heap up.
RECURSIVE Risen(_, _)
Risen(heap, i) ==
  LET parent == (i + 1) \div 2 - 1
  IN  IF i # 0 /\ heap[i + 1].val > heap[parent + 1].val
      THEN Risen(ExchangeAt(heap, i + 1, parent + 1), parent) ELSE heap
MaxHeapInsert(heap, val, idx) == Risen(Append(heap, [val |-> val, i |-> idx]), Len(heap))

\* max_heap_extract(): the last node takes the place of the first and sinks.
RECURSIVE Sunk(_, _)
Sunk(heap, curr) ==
  LET kids == {k \in {curr * 2 + 1, curr * 2 + 2} : k < Len(heap) /\ heap[k + 1].val > heap[curr + 1].val}
      largest == CHOOSE k \in kids : \A j \in kids :
                   heap[k + 1].val > heap[j + 1].val \/ (heap[k + 1].val = heap[j + 1].val /\ k <= j)
  IN  IF kids = {} THEN heap ELSE Sunk(ExchangeAt(heap, curr + 1, largest + 1), largest)
MaxHeapExtract(heap) ==
  IF Len(heap) = 1 THEN <<>>
  ELSE Sunk(SubSeq(ExchangeAt(heap, 1, Len(heap)), 1, Len(heap) - 1), 0)

\* kth_largest(): the candidates for the next place are the children, in max_heap, of
\* those that have theirs.  <<>> if there is none.
RECURSIVE KthInHeap(_, _, _)
KthInHeap(maxHeap, k, aux) ==
  IF aux = <<>> THEN <<>>
  ELSE IF k = 1 THEN <<aux[1].val>>
  ELSE LET idx == aux[1].i
           kids == SelectSeq(<<idx * 2 + 1, idx * 2 + 2>>, LAMBDA c : c < Len(maxHeap))
       IN  KthInHeap(maxHeap, k - 1,
             FoldLeft(LAMBDA h, c : MaxHeapInsert(h, maxHeap[c + 1], c), MaxHeapExtract(aux), kids))

\* max_k(): by counting, from the top of the range.
MaxK(k, arr, range) ==
  LET all == FoldLeft(LAMBDA out, v : out \o [c \in 1..CountOf(arr, v) |-> v], <<>>,
                      Reverse(Indices(0, range - 1)))
  IN  SubSeq(all, 1, Lesser(k, Len(all)))

\* max_revenue(): the heap always sells at the dearest booth.
RECURSIVE MaxRevenue(_, _)
MaxRevenue(tickets, n) ==
  IF n = 0 THEN 0
  ELSE LET top == CHOOSE b \in DOMAIN tickets : \A c \in DOMAIN tickets : tickets[b] >= tickets[c]
       IN  tickets[top] + MaxRevenue([tickets EXCEPT ![top] = @ - 1], n - 1)

\* sort_matrix(): the rows that agree up to column col, by what they have there.
RECURSIVE SortMatrix(_, _)
SortMatrix(rows, col) ==
  IF col > Len(rows[1]) THEN IF Len(rows) = 1 THEN rows ELSE <<>>
  ELSE LET vals == SetToSortSeq({rows[r][col] : r \in DOMAIN rows}, <)
       IN  FoldLeft(LAMBDA out, v : out \o SortMatrix(SelectSeq(rows, LAMBDA r : r[col] = v), col + 1),
                    <<>>, vals)
----------------------------------------------------------------------------
(* Questions about arrays.                                                   *)

\* abs_distinct(): merges the numbers up to zero, from right to left, with those
\* above it; last is the absolute value taken before.
RECURSIVE AbsDistinctMerge(_, _, _, _)
AbsDistinctMerge(arr, pos, neg, last) ==
  IF neg < 1 /\ pos > Len(arr) THEN 0
  ELSE LET left == neg >= 1 /\ (pos > Len(arr) \/ -arr[neg] < arr[pos])
           next == IF left THEN -arr[neg] ELSE arr[pos]
       IN  (IF <<next>> # last THEN 1 ELSE 0)
             + AbsDistinctMerge(arr, IF left THEN pos ELSE pos + 1, IF left THEN neg - 1 ELSE neg, <<next>>)
AbsDistinct(arr) ==
  LET neg == LastOf({i \in 0..Len(arr) : i = 0 \/ arr[i] <= 0})
  IN  AbsDistinctMerge(arr, neg + 1, neg, <<>>)

\* k_sum(): from the right, with the sums of the pairs to the right of i.
KSum(arr, k) ==
  LET step(st, i) ==
        [found |-> st.found \/ -arr[i] \in st.values,
         values |-> st.values \cup {arr[i] + arr[j] - k : j \in i + 1..Len(arr)}]
  IN  FoldLeft(step, [found |-> FALSE, values |-> {}], Reverse(Indices(1, Len(arr)))).found

\* duplicates_within_k(): a window of k + 1 elements slides over the array.
DuplicatesWithinK(arr, k) ==
  LET step(st, i) ==
        LET window == IF i > k + 1 THEN st.window \ {arr[i - k - 1]} ELSE st.window
        IN  IF st.found THEN st
            ELSE [found |-> arr[i] \in window, window |-> window \cup {arr[i]}]
  IN  k + 1 <= Len(arr)
      /\ FoldLeft(step, [found |-> FALSE, window |-> {}], Indices(1, Len(arr))).found

\* magnitude_pole(): from index 1, up to the last but one, index from 0; -1 for end().
MagnitudePole(arr) ==
  LET maxs[i \in 1..Len(arr)] == IF i = 1 THEN -AsWord ELSE Greater(maxs[i - 1], arr[i - 1])
      mins[i \in 1..Len(arr)] == IF i = Len(arr) THEN AsWord ELSE Lesser(mins[i + 1], arr[i + 1])
      poles == {i \in 2..Len(arr) - 1 : maxs[i] <= arr[i] /\ mins[i] >= arr[i]}
  IN  IF poles = {} THEN -1 ELSE FirstOf(poles) - 1

\* max_drop(): the best drop that ends at i is the step to i, alone or after the
\* best one that ends before it.
MaxDrop(arr) ==
  LET best[i \in 2..Len(arr)] ==
        LET step == arr[i - 1] - arr[i]
        IN  IF i = 2 THEN step ELSE Greater(step, best[i - 1] + step)
  IN  LastOf({best[i] : i \in 2..Len(arr)})

\* max_subarray_sum(): the best sum so far and the best one that ends at i, each
\* with its start and length.
MaxSubarraySum(a) ==
  LET step(st, i) ==
        LET curr == IF st.curr.sum < 0 THEN [sum |-> a[i], start |-> i - 1, len |-> 1]
                    ELSE [st.curr EXCEPT !.sum = @ + a[i], !.len = @ + 1]
        IN  [curr |-> curr, max |-> IF curr.sum > st.max.sum THEN curr ELSE st.max]
      first == [sum |-> a[1], start |-> 0, len |-> 1]
  IN  FoldLeft(step, [curr |-> first, max |-> first], Indices(2, Len(a))).max

\* find_missing_int(): the buffer is cleared for as many bytes as it has elements, so
\* that some elements still hold what malloc(3) left there, which leaves to be 0 those
\* in zeros at least.  -1 if the assertion fails.
SIZE == 2 ^ 16   \* values of size_t: the same remainders, up to 6, as of 2^64
Cleared(n) == {i \in 0..n : 4 * (i + 1) <= n + 1}
FindMissingInt(arr, zeros) ==
  LET n == Len(arr)
      marked == {(arr[i] % SIZE) % (n + 1) : i \in 1..n}
      free == (zeros \cup Cleared(n)) \ marked
  IN  IF free = {} THEN -1 ELSE FirstOf(free)

\* bin_search_first(), bin_search_last() and occurrences().
RECURSIVE BisectAt(_, _, _, _, _)
BisectAt(arr, val, orEqual, l, r) ==
  IF l + 1 = r THEN <<l, r>>
  ELSE LET m == l + (r - l) \div 2
       IN  IF arr[m + 1] < val \/ (orEqual /\ arr[m + 1] = val) THEN BisectAt(arr, val, orEqual, m, r)
           ELSE BisectAt(arr, val, orEqual, l, m)
Occurrences(arr, val) ==
  LET n == Len(arr)
      first == BisectAt(arr, val, FALSE, -1, n)[2]
      last == BisectAt(arr, val, TRUE, -1, n)[1]
  IN  IF first >= n THEN -1 ELSE IF arr[first + 1] # val THEN -1 ELSE last - first + 1

\* find_elem(): as many elements are skipped as the value is away.
RECURSIVE FindByStep(_, _, _)
FindByStep(arr, val, i) ==
  IF i >= Len(arr) THEN -1
  ELSE LET away == val - arr[i + 1]
       IN  IF away = 0 THEN i ELSE FindByStep(arr, val, i + (IF away < 0 THEN -away ELSE away))

\* max_sliding_window(): maxs holds the indices of what may still become the
\* maximum, the largest first.
MaxSlidingWindow(stream, size) ==
  LET push(maxs, i) == Append(SelectSeq(maxs, LAMBDA j : stream[j] > stream[i]), i)
      first == FoldLeft(push, <<>>, Indices(1, Lesser(size, Len(stream))))
      slide(st, i) ==
        LET maxs == push(SelectSeq(st.maxs, LAMBDA j : j > i - size), i)
        IN  [maxs |-> maxs, res |-> Append(st.res, stream[maxs[1]])]
  IN  FoldLeft(slide, [maxs |-> first, res |-> <<stream[first[1]]>>], Indices(size + 1, Len(stream))).res

\* incr_array(): 0 if all digits were 9, which are then all 0.
IncrArray(arr) ==
  LET i == LastOf({k \in 0..Len(arr) : k = 0 \/ arr[k] # 9})
      zeros == [k \in DOMAIN arr |-> IF k > i THEN 0 ELSE arr[k]]
  IN  IF i = 0 THEN [ret |-> 0, arr |-> zeros] ELSE [ret |-> 1, arr |-> [zeros EXCEPT ![i] = @ + 1]]

\* clear_zero_rows_cols(): first the zeros are looked for, then rows and columns cleared.
ClearZeroRowsCols(matrix) ==
  LET rows == {c[1] : c \in {d \in DOMAIN matrix : matrix[d] = 0}}
      cols == {c[2] : c \in {d \in DOMAIN matrix : matrix[d] = 0}}
      byRow == [c \in DOMAIN matrix |-> IF c[1] \in rows THEN 0 ELSE matrix[c]]
  IN  [c \in DOMAIN matrix |-> IF c[2] \in cols THEN 0 ELSE byRow[c]]

\* all_submatrices(): by size, then by the upper left corner.
AllSubmatrices(rows, cols) ==
  FlattenSeq([h \in 1..rows |-> FlattenSeq([w \in 1..cols |->
    FlattenSeq([i \in 1..rows - h + 1 |-> [j \in 1..cols - w + 1 |-> <<i - 1, j - 1, h, w>>]])])])

\* cum_prod of flatten_index() and unflatten_index(), and the values of the index
\* expressions they print.
CumProd(dims) ==
  LET prod[i \in 1..Len(dims) + 1] == IF i > Len(dims) THEN 1 ELSE prod[i + 1] * dims[i] IN prod
FlattenIndex(dims, idx) ==
  FoldLeft(LAMBDA sum, i : sum + idx[i] * CumProd(dims)[i + 1], 0, Indices(1, Len(dims)))
UnflattenIndex(dims, offset) ==
  [i \in 1..Len(dims) |-> (offset % CumProd(dims)[i]) \div CumProd(dims)[i + 1]]

\* merge_stacks(): the two tops are linked through whichever link is free; the
\* assertions say that one is.
NOBODY == 0
MergeStacks(nodes, below, above) ==
  LET link(ns, from, to) ==
        IF ns[from].up = NOBODY THEN [ns EXCEPT ![from].up = to]
        ELSE [ns EXCEPT ![from].down = to, ![from].full = @ \/ ns[from].down # NOBODY]
  IN  link(link(nodes, below, above), above, below)

\* One pass of the loop of fold(): the pairs from both ends of what is folded.
FoldOnce(st, cmd) ==
  LET half == st.size \div 2
      pair(nodes, p) ==
        LET j == st.beg + p
            k == st.beg + st.size - 1 - p
        IN  IF cmd = "L" THEN [MergeStacks(nodes, nodes[k].top, nodes[j].top) EXCEPT ![k].top = j]
            ELSE [MergeStacks(nodes, nodes[j].top, nodes[k].top) EXCEPT ![j].top = k]
  IN  [nodes |-> FoldLeft(pair, st.nodes, Indices(0, half - 1)),
       size |-> half, beg |-> IF cmd = "L" THEN st.beg + half ELSE st.beg]

\* The walk from the top down: through the link that does not lead back.
RECURSIVE TopDown(_, _, _, _)
TopDown(nodes, curr, prev, n) ==
  IF n = 0 THEN <<>>
  ELSE LET next == IF nodes[curr].up \in {NOBODY, prev} THEN nodes[curr].down ELSE nodes[curr].up
       IN  <<curr>> \o TopDown(nodes, next, curr, n - 1)

FoldPaper(cmds) ==
  LET n == 2 ^ Len(cmds)
      flat == [i \in 1..n |-> [up |-> NOBODY, down |-> NOBODY, top |-> i, full |-> FALSE]]
      st == FoldLeft(FoldOnce, [nodes |-> flat, size |-> n, beg |-> 1], cmds)
  IN  [full |-> \E i \in 1..n : st.nodes[i].full, seen |-> TopDown(st.nodes, st.nodes[st.beg].top, NOBODY, n)]
----------------------------------------------------------------------------
(* Strings.                                                                  *)

\* anagrams(): as many as there are different sorted strings.
Anagrams(strings) == Cardinality({SortSeq(strings[i], <) : i \in DOMAIN strings})

\* count_and_say(): every run of equal digits as its length and the digit.
RECURSIVE CountRuns(_, _)
CountRuns(prev, i) ==
  IF i > Len(prev) THEN <<>>
  ELSE LET run == LastOf({k \in 1..Len(prev) - i + 1 : \A j \in i..i + k - 1 : prev[j] = prev[i]})
       IN  <<<<run, prev[i]>>>> \o CountRuns(prev, i + run)
RECURSIVE CountAndSay(_)
CountAndSay(n) == IF n = 1 THEN <<1>> ELSE FlattenSeq(CountRuns(CountAndSay(n - 1), 1))

\* compress_str(): a letter and the decimal digits of the length of its run, or the
\* string itself if that is not shorter.
Decimal(n) == IF n < 10 THEN <<n>> ELSE <<n \div 10, n % 10>>
CompressStr(str) ==
  LET runs == CountRuns(str, 1)
      buff == FlattenSeq([r \in DOMAIN runs |-> <<runs[r][2]>> \o Decimal(runs[r][1])])
  IN  IF Len(str) < 2 \/ Len(buff) >= Len(str) THEN str ELSE buff

\* first_non_repeating(): list holds where the letters stand that were seen once, entry
\* what is known of a letter.  -1 if there is none.
FirstNonRepeating(str) ==
  LET step(st, i) ==
        IF str[i] \in st.twice THEN st
        ELSE IF \E k \in DOMAIN st.list : str[st.list[k]] = str[i]
        THEN [list |-> SelectSeq(st.list, LAMBDA k : str[k] # str[i]), twice |-> st.twice \cup {str[i]}]
        ELSE [st EXCEPT !.list = Append(@, i)]
      list == FoldLeft(step, [list |-> <<>>, twice |-> {}], Indices(1, Len(str))).list
  IN  IF list = <<>> THEN -1 ELSE str[list[1]]

\* str_to_int() and int_to_str(): a minus sign and digits; int wraps round.
MINUSSIGN == 10
IntOf(x) == ((x + AsWord \div 2) % AsWord) - AsWord \div 2
StrToInt(str) ==
  LET sign == IF str[1] = MINUSSIGN THEN -1 ELSE 1
      digits == IF sign = -1 THEN Tail(str) ELSE str
  IN  IntOf(sign * FoldLeft(LAMBDA res, d : IntOf(res * 10 + d), 0, digits))
RECURSIVE DigitsFromRight(_)
DigitsFromRight(n) ==   \* division and remainder go towards zero
  LET size == IF n < 0 THEN -n ELSE n
  IN  IF n = 0 THEN <<>>
      ELSE <<size % 10>> \o DigitsFromRight(IF n < 0 THEN -(size \div 10) ELSE size \div 10)
IntToStr(n) ==
  LET signed == DigitsFromRight(n) \o (IF n < 0 THEN <<MINUSSIGN>> ELSE <<>>)
  IN  IF n = 0 THEN <<0>> ELSE ReverseBetween(signed, 1, Len(signed))

\* is_permutation(): counts up, then down until one falls below zero.
IsPermutation(str1, str2) ==
  LET down(st, c) ==
        IF st.ok THEN [counts |-> [st.counts EXCEPT ![c] = @ - 1], ok |-> st.counts[c] > 0] ELSE st
  IN  Len(str1) = Len(str2)
      /\ FoldLeft(down, [counts |-> [c \in AsChars |-> CountOf(str1, c)], ok |-> TRUE], str2).ok

\* is_rotation(): any part of s1 s1.
IsRotation(s1, s2) ==
  \E i \in 0..2 * Len(s1) - Len(s2) : SubSeq(s1 \o s1, i + 1, i + Len(s2)) = s2

\* insert_internal(): a node is the prefix that leads to it, entries how often each
\* was passed.  On the way back the deepest node that all strings passed sets lp.
TrieInsert(t, str) ==
  LET path == {SubSeq(str, 1, k) : k \in 0..Len(str)}
      entries == [p \in path \cup DOMAIN t.entries |->
                    (IF p \in DOMAIN t.entries THEN t.entries[p] ELSE 0) + (IF p \in path THEN 1 ELSE 0)]
      full == {k \in 0..Len(str) : entries[SubSeq(str, 1, k)] = t.total + 1}
  IN  [entries |-> entries, total |-> t.total + 1, lp |-> SubSeq(str, 1, LastOf(full))]
SentencesLcp(strings) ==
  FoldLeft(TrieInsert, [entries |-> <<>>, total |-> 0, lp |-> <<>>], strings).lp

\* match_permutations_aux(): matched counts the letters with the right frequency in
\* the window, total the letters in it.
Gain(st, c, freq) ==
  [freq |-> [st.freq EXCEPT ![c] = @ + 1],
   total |-> st.total + (IF st.freq[c] = 0 THEN 1 ELSE 0),
   matched |-> st.matched - (IF st.freq[c] = freq[c] /\ freq[c] # 0 THEN 1 ELSE 0)
                 + (IF st.freq[c] + 1 = freq[c] THEN 1 ELSE 0)]
Lose(st, c, freq) ==
  [freq |-> [st.freq EXCEPT ![c] = @ - 1],
   total |-> st.total - (IF st.freq[c] = 1 THEN 1 ELSE 0),
   matched |-> st.matched - (IF st.freq[c] = freq[c] THEN 1 ELSE 0)
                 + (IF st.freq[c] - 1 = freq[c] /\ freq[c] # 0 THEN 1 ELSE 0)]
MatchPermutations(a, b) ==
  LET big == IF Len(b) > Len(a) THEN b ELSE a
      short == IF Len(b) > Len(a) THEN a ELSE b
      freq == [c \in AsChars |-> CountOf(short, c)]
      nfreq == Cardinality(ToSet(short))
      hit(st) == st.matched = nfreq /\ st.total = nfreq
      first == FoldLeft(LAMBDA st, c : Gain(st, c, freq),
                        [freq |-> [c \in AsChars |-> 0], total |-> 0, matched |-> 0],
                        SubSeq(big, 1, Len(short)))
      slide(st, i) ==
        LET next == Gain(Lose(st.win, big[i - Len(short)], freq), big[i], freq)
        IN  [win |-> next, out |-> IF hit(next) THEN Append(st.out, i - Len(short)) ELSE st.out]
  IN  FoldLeft(slide, [win |-> first, out |-> IF hit(first) THEN <<0>> ELSE <<>>],
               Indices(Len(short) + 1, Len(big))).out

\* max_nest_depth(): -1 where an assertion fails.
OPENPAR == 1
CLOSEPAR == 2
MaxNestDepth(str) ==
  LET step(st, c) ==
        CASE c = OPENPAR -> [st EXCEPT !.opened = @ + 1, !.res = Greater(@, st.opened + 1)]
          [] c = CLOSEPAR -> [st EXCEPT !.opened = @ - 1, !.ok = @ /\ st.opened > 0]
          [] OTHER -> st
      end == FoldLeft(step, [opened |-> 0, res |-> 0, ok |-> TRUE], str)
  IN  IF end.ok /\ end.opened = 0 THEN end.res ELSE -1

\* normalize_path(): an entry of a path is a name and whether a slash follows it.
\* The stack has room for (path_len-1)/2+1 entries; "overrun" stands for a write
\* behind it.
NameLen(name) == CASE name = "" -> 0 [] name = ".." -> 2 [] OTHER -> 1
PathLen(path) == FoldLeft(LAMBDA n, e : n + NameLen(e.name) + (IF e.slash THEN 1 ELSE 0), 0, path)
NormalizePath(path) ==
  LET room == (PathLen(path) - 1) \div 2 + 1
      step(st, e) ==
        IF st.ret # "ok" \/ e.name = "." THEN st
        ELSE IF e.name = ".."
        THEN IF st.stack = <<>> THEN [st EXCEPT !.ret = "EINVAL"] ELSE [st EXCEPT !.stack = Front(@)]
        ELSE IF Len(st.stack) = room THEN [st EXCEPT !.ret = "overrun"]
        ELSE [st EXCEPT !.stack = Append(@, e)]
      end == FoldLeft(step, [stack |-> <<>>, ret |-> "ok"], path)
  IN  [ret |-> end.ret, path |-> IF end.ret = "ok" THEN end.stack ELSE path]

\* one_away(): how far the strings agree, then the rest of both.
CompareStrings(str1, str2) ==
  LastOf({k \in 0..Lesser(Len(str1), Len(str2)) : SubSeq(str1, 1, k) = SubSeq(str2, 1, k)})
OneAway(str1, str2) ==
  LET large == IF Len(str1) < Len(str2) THEN str2 ELSE str1
      small == IF Len(str1) < Len(str2) THEN str1 ELSE str2
      i == CompareStrings(large, small)
      rest(s, k) == SubSeq(s, k, Len(s))
      skip == IF Len(large) = Len(small) THEN i + 2 ELSE i + 1
  IN  /\ Len(large) <= Len(small) + 1
      /\ i = Len(large) \/ CompareStrings(rest(large, i + 2), rest(small, skip)) + i + 1 = Len(large)

\* palindrome_permutation(): the parity of each letter.
PalindromePermutation(str) == Cardinality({c \in AsChars : CountOf(str, c) % 2 = 1}) < 2

\* remove_chars(): what stays moves to the front, into the same string.
RemoveChars(str, remove) ==
  LET step(st, i) ==
        IF st.str[i] \in ToSet(remove) THEN st
        ELSE [str |-> [st.str EXCEPT ![st.j] = st.str[i]], j |-> st.j + 1]
      end == FoldLeft(step, [str |-> str, j |-> 1], Indices(1, Len(str)))
  IN  IF remove = <<>> \/ str = <<>> THEN str ELSE SubSeq(end.str, 1, end.j - 1)

\* escape_spaces(): from the back, in place; i reads and j writes.
PERCENT20 == <<7, 8, 9>>
EscapeSpaces(str) ==
  LET n == Len(str)
      new == n + 2 * CountOf(str, SPACE)
      step(st, i) ==
        IF st.buf[i] = SPACE
        THEN [buf |-> [st.buf EXCEPT ![st.j - 2] = PERCENT20[1], ![st.j - 1] = PERCENT20[2], ![st.j] = PERCENT20[3]],
              j |-> st.j - 3]
        ELSE [buf |-> [st.buf EXCEPT ![st.j] = st.buf[i]], j |-> st.j - 1]
  IN  IF new = n THEN str
      ELSE FoldLeft(step, [buf |-> [k \in 1..new |-> IF k <= n THEN str[k] ELSE SPACE], j |-> new],
                    Reverse(Indices(1, n))).buf

\* has_unique_chars() and has_unique_chars_no_buff().
HasUniqueChars(str) ==
  LET step(st, c) == [seen |-> st.seen \cup {c}, unique |-> st.unique /\ c \notin st.seen]
  IN  FoldLeft(step, [seen |-> {}, unique |-> TRUE], str).unique
HasUniqueCharsNoBuff(str) == ~\E i, j \in DOMAIN str : i < j /\ str[i] = str[j]
----------------------------------------------------------------------------
(* The inputs.                                                               *)

NumArrays == UNION {[1..k -> AsVals] : k \in 0..AsLen}
Texts(n) == UNION {[1..k -> AsChars] : k \in 0..n}
LongTexts == {[k \in 1..n |-> IF k <= j THEN 1 ELSE 2] : n \in 9..12, j \in 8..12}
Ascends(a) == \A i \in 1..Len(a) - 1 : a[i] <= a[i + 1]
Steady(a) == \A i \in 1..Len(a) - 1 : a[i + 1] - a[i] \in {-1, 1}
IsMaxHeap(h) == \A i \in 2..Len(h) : h[i \div 2] >= h[i]
Matrix(rows, cols, vals) == [MatrixCells(rows, cols) -> vals]
Numbered(n) == [c \in MatrixCells(n, n) |-> n * c[1] + c[2]]
Dims == UNION {[1..k -> 1..3] : k \in 1..3}
Coordinates(dims) == {i \in [1..Len(dims) -> 0..2] : \A k \in DOMAIN dims : i[k] < dims[k]}

\* Paths: every entry but the last ends in a slash, only the first may have no name.
Paths ==
  {p \in UNION {[1..k -> [name : {"", ".", "..", "a", "b"}, slash : BOOLEAN]] : k \in 1..AsLen} :
     \A i \in DOMAIN p : /\ i < Len(p) => p[i].slash
                         /\ p[i].name = "" => i = 1 /\ p[i].slash}

AsInputs(p) ==
  CASE p = "3sum" -> NumArrays
    [] p = "absdistinct" -> {a \in NumArrays : a # <<>> /\ Ascends(a)}
    [] p = "anagrams" -> UNION {[1..k -> Texts(2)] : k \in 0..3}
    [] p = "clear_rows" -> Matrix(2, 3, {0, 1, 2})
    [] p = "count_say" -> 1..8
    [] p = "drinks" -> NumArrays \X (0..3)
    [] p = "duplicates" -> NumArrays \X (0..AsLen)
    [] p = "first_nonrepeating" -> Texts(AsLen)
    [] p = "flatten" -> Dims
    [] p = "unflatten" -> Dims
    [] p = "fold_paper" -> UNION {[1..k -> {"L", "R"}] : k \in 0..AsLen}
    [] p = "image_rotation" -> 1..AsLen
    [] p = "transpose" -> 1..AsLen
    [] p = "increment_arr" -> UNION {[1..k -> {0, 4, 9}] : k \in 0..AsLen}
    [] p = "int_conversion" -> -(AsWord \div 2)..AsWord \div 2 - 1
    [] p = "is_permutation" -> Texts(3) \X Texts(3)
    [] p = "is_rotation" -> (Texts(3) \X Texts(3))
    [] p = "kth_largest" -> {h \in NumArrays : IsMaxHeap(h)} \X (1..AsLen + 1)
    [] p = "longest_prefix" -> UNION {[1..k -> Texts(2)] : k \in 1..3}
    [] p = "magnitude_pole" -> NumArrays
    [] p = "match_permutations" -> (Texts(AsLen) \ {<<>>}) \X (Texts(2) \ {<<>>})
    [] p = "mostly_sorted" -> Matrix(2, 2, AsVals) \cup Matrix(3, 2, {0, 1})
    [] p = "max_drop" -> {a \in NumArrays : Len(a) >= 2}
    [] p = "max_k" -> {a \in NumArrays : ToSet(a) \subseteq Nat} \X (0..AsLen + 1)
    [] p = "max_subarray" -> NumArrays \ {<<>>}
    [] p = "nested_parens" -> UNION {[1..k -> {SPACE, OPENPAR, CLOSEPAR}] : k \in 0..AsLen + 1}
    [] p = "next_permutation" -> NumArrays
    [] p = "next_smallest" -> NumArrays
    [] p = "normalize_path" -> Paths
    [] p = "occurrences" -> {a \in NumArrays : Ascends(a)} \X AsVals
    [] p = "one_away" -> Texts(3) \X Texts(3)
    [] p = "palindrome_perm" -> Texts(AsLen)
    [] p = "parity" -> {a \in NumArrays : 2 * Cardinality({i \in DOMAIN a : a[i] % 2 = 0}) = Len(a)}
    [] p = "permute_swaps" -> {io \in Texts(AsLen) \X Texts(AsLen) : SortSeq(io[1], <) = SortSeq(io[2], <)}
    [] p = "plus_minus_1" -> {a \in UNION {[1..k -> -1..3] : k \in 0..AsLen + 1} : Steady(a)} \X (-1..3)
    [] p = "rearrange_arr" -> UNION {[1..k -> 0..k - 1] : k \in 0..AsLen}
    [] p = "remove_chars" -> Texts(AsLen) \X Texts(2)
    [] p = "replace_spaces" -> Texts(AsLen)
    [] p = "restore_rotation" -> {RotateBy(io[1], 1, Len(io[1]), io[2] % Len(io[1])) :
                                  io \in {a \in NumArrays : a # <<>> /\ Ascends(a)} \X (0..AsLen - 1)}
    [] p = "reverse_str" -> Texts(AsLen)
    [] p = "reverse_words" -> Texts(AsLen + 1) \ {<<>>}
    [] p = "words_spaces" -> Texts(AsLen + 1) \ {<<>>}
    [] p = "rotate_left" -> (Texts(AsLen) \ {<<>>}) \X (0..AsLen + 2)
    [] p = "sliding_window" -> (NumArrays \ {<<>>}) \X (1..AsLen + 1)
    [] p = "sort_1swap" -> NumArrays
    [] p = "compression" -> Texts(AsLen + 1) \cup LongTexts
    [] p = "submatrices" -> (1..3) \X (1..3)
    [] p = "tickets" -> (UNION {[1..k -> 0..3] : k \in 1..3}) \X (0..4)
    [] p = "unique_chars" -> Texts(AsLen)
    [] p = "unique_rows" -> UNION {[1..k -> [1..2 -> {0, 1, 2}]] : k \in 1..3}
    [] p = "missing_int" -> {a \in NumArrays : \A i, j \in DOMAIN a : i # j => a[i] # a[j]}

AsPrograms ==
  {"3sum", "absdistinct", "anagrams", "clear_rows", "count_say", "drinks", "duplicates",
   "first_nonrepeating", "flatten", "unflatten", "fold_paper", "image_rotation",
   "transpose", "increment_arr", "int_conversion", "is_permutation", "is_rotation",
   "kth_largest", "longest_prefix", "magnitude_pole", "match_permutations",
   "mostly_sorted", "max_drop", "max_k", "max_subarray", "nested_parens",
   "next_permutation", "next_smallest", "normalize_path", "occurrences", "one_away",
   "palindrome_perm", "parity", "permute_swaps", "plus_minus_1", "rearrange_arr",
   "remove_chars", "replace_spaces", "restore_rotation", "reverse_str", "reverse_words",
   "words_spaces", "rotate_left", "sliding_window", "sort_1swap", "compression",
   "submatrices", "tickets", "unique_chars", "unique_rows", "missing_int"}

AsInit == asProg \in AsPrograms /\ asIn \in AsInputs(asProg) /\ asOut = <<>> /\ asDone = FALSE

\* The program p prints or returns out; a set holds the answers of the solutions
\* that a program has.
AsAnswers(p, out) ==
  /\ asProg = p /\ ~asDone
  /\ asOut' = out /\ asDone' = TRUE
  /\ UNCHANGED <<asProg, asIn>>

Run3Sum == AsAnswers("3sum", SumToZero(asIn))
RunAbsDistinct == AsAnswers("absdistinct", AbsDistinct(asIn))
RunAnagramSets == AsAnswers("anagrams", Anagrams(asIn))
RunClearRows == AsAnswers("clear_rows", ClearZeroRowsCols(asIn))
RunCountSay == AsAnswers("count_say", CountAndSay(asIn))
RunDrinks == AsAnswers("drinks", KSum(asIn[1], asIn[2]))
RunDuplicates == AsAnswers("duplicates", DuplicatesWithinK(asIn[1], asIn[2]))
RunFirstNonRepeating == AsAnswers("first_nonrepeating", FirstNonRepeating(asIn))
RunFlattenIndex == AsAnswers("flatten", [i \in Coordinates(asIn) |-> FlattenIndex(asIn, i)])
RunUnflatten ==
  AsAnswers("unflatten",
    [o \in 0..CumProd(asIn)[1] - 1 |-> UnflattenIndex(asIn, o)])
RunFoldPaper == AsAnswers("fold_paper", FoldPaper(asIn))
RunImageRotation == AsAnswers("image_rotation", RotateImage(Numbered(asIn), asIn))
RunTranspose == AsAnswers("transpose", Transposed(Numbered(asIn), asIn))
RunIncrementArr == AsAnswers("increment_arr", IncrArray(asIn))
RunIntConversion ==
  AsAnswers("int_conversion",
    [str |-> IntToStr(asIn), int |-> StrToInt(IntToStr(asIn))])
RunIsPermutation == AsAnswers("is_permutation", IsPermutation(asIn[1], asIn[2]))
RunIsRotation == AsAnswers("is_rotation", IsRotation(asIn[1], asIn[2]))
RunKthInHeap ==
  AsAnswers("kth_largest",
    IF asIn[1] = <<>> THEN <<>> ELSE KthInHeap(asIn[1], asIn[2], MaxHeapInsert(<<>>, asIn[1][1], 0)))
RunLongestPrefix == AsAnswers("longest_prefix", SentencesLcp(asIn))
RunMagnitudePole == AsAnswers("magnitude_pole", MagnitudePole(asIn))
RunMatchPermutations == AsAnswers("match_permutations", MatchPermutations(asIn[1], asIn[2]))
RunMostlySorted ==
  AsAnswers("mostly_sorted",
    MatrixMostlySorted(asIn, Cardinality({c[1] : c \in DOMAIN asIn}), 2))
RunMaxDrop == AsAnswers("max_drop", MaxDrop(asIn))
RunMaxK == AsAnswers("max_k", MaxK(asIn[2], asIn[1], 4))
RunMaxSubarray == AsAnswers("max_subarray", MaxSubarraySum(asIn))
RunNestedParens == AsAnswers("nested_parens", MaxNestDepth(asIn))
RunNextPermutation == AsAnswers("next_permutation", NextPerm(asIn))
RunNextSmallest == AsAnswers("next_smallest", NextSmallest(asIn))
RunNormalizePath == AsAnswers("normalize_path", NormalizePath(asIn))
RunOccurrences == AsAnswers("occurrences", Occurrences(asIn[1], asIn[2]))
RunOneAway == AsAnswers("one_away", OneAway(asIn[1], asIn[2]))
RunPalindromePerm == AsAnswers("palindrome_perm", PalindromePermutation(asIn))
RunParity == AsAnswers("parity", ParityRearrange(asIn, 0, 1))
RunPermuteSwaps ==
  AsAnswers("permute_swaps",
    <<asIn[1]>> \o PermuteStr(asIn[1], asIn[2], Len(asIn[1])))
RunPlusMinus1 == AsAnswers("plus_minus_1", FindByStep(asIn[1], asIn[2], 0))
RunRearrangeArr == AsAnswers("rearrange_arr", Rearrange(asIn))
RunRemoveChars == AsAnswers("remove_chars", RemoveChars(asIn[1], asIn[2]))
RunReplaceSpaces == AsAnswers("replace_spaces", EscapeSpaces(asIn))
RunRestoreRotation ==
  AsAnswers("restore_rotation",
    RestoreArray(asIn, FindRotationSpot(asIn)))
RunReverseStr == AsAnswers("reverse_str", ReverseBetween(asIn, 1, Len(asIn)))
RunReverseWords ==
  AsAnswers("reverse_words",
    {ReverseWords1(asIn, 1), ReverseWords2(asIn, 1)})
RunWordsSpaces ==
  AsAnswers("words_spaces",
    {ReverseWordsBuffered(asIn, 0, Len(asIn)),
      ReverseWordsNomem(asIn, NextWordForward(asIn, 0), NextWordBackward(asIn, Len(asIn) - 1))})
RunRotateLeft == AsAnswers("rotate_left", LeftRotate(asIn[1], asIn[2]))
RunSlidingWindow == AsAnswers("sliding_window", MaxSlidingWindow(asIn[1], asIn[2]))
RunSort1Swap == AsAnswers("sort_1swap", Sort1Swap(asIn))
RunCompression == AsAnswers("compression", CompressStr(asIn))
RunSubmatrices == AsAnswers("submatrices", AllSubmatrices(asIn[1], asIn[2]))
RunTickets == AsAnswers("tickets", MaxRevenue(asIn[1], asIn[2]))
RunUniqueChars ==
  AsAnswers("unique_chars",
    {HasUniqueChars(asIn), HasUniqueCharsNoBuff(asIn)})
RunUniqueRows == AsAnswers("unique_rows", SortMatrix(asIn, 1))
\* malloc(3) gives memory that holds anything.
RunMissingInt ==
  /\ asProg = "missing_int"
  /\ \E zeros \in SUBSET (0..Len(asIn)) : AsAnswers("missing_int", FindMissingInt(asIn, zeros))

AsNext ==
  \/ Run3Sum \/ RunAbsDistinct \/ RunAnagramSets \/ RunClearRows
  \/ RunCountSay \/ RunDrinks \/ RunDuplicates \/ RunFirstNonRepeating
  \/ RunFlattenIndex \/ RunUnflatten \/ RunFoldPaper \/ RunImageRotation
  \/ RunTranspose \/ RunIncrementArr \/ RunIntConversion \/ RunIsPermutation
  \/ RunIsRotation \/ RunKthInHeap \/ RunLongestPrefix \/ RunMagnitudePole
  \/ RunMatchPermutations \/ RunMostlySorted \/ RunMaxDrop \/ RunMaxK
  \/ RunMaxSubarray \/ RunNestedParens \/ RunNextPermutation \/ RunNextSmallest
  \/ RunNormalizePath \/ RunOccurrences \/ RunOneAway \/ RunPalindromePerm
  \/ RunParity \/ RunPermuteSwaps \/ RunPlusMinus1 \/ RunRearrangeArr
  \/ RunRemoveChars \/ RunReplaceSpaces \/ RunRestoreRotation \/ RunReverseStr
  \/ RunReverseWords \/ RunWordsSpaces \/ RunRotateLeft \/ RunSlidingWindow
  \/ RunSort1Swap \/ RunCompression \/ RunSubmatrices \/ RunTickets
  \/ RunUniqueChars \/ RunUniqueRows \/ RunMissingInt

AsSpec == AsInit /\ [][AsNext]_asVars
----------------------------------------------------------------------------
(* What the programs are asked for.                                          *)

SameContents(a, b) == Len(a) = Len(b) /\ \A x \in ToSet(a) \cup ToSet(b) : CountOf(a, x) = CountOf(b, x)
TotalOf(a) == FoldLeft(LAMBDA x, y : x + y, 0, a)
LexBefore(a, b) == \E k \in DOMAIN a : a[k] < b[k] /\ \A j \in 1..k - 1 : a[j] = b[j]
Orders == [n \in 0..AsLen |-> {p \in [1..n -> 1..n] : \A i, j \in 1..n : i # j => p[i] # p[j]}]
Rearrangements(a) == {[i \in DOMAIN a |-> a[p[i]]] : p \in Orders[Len(a)]}
RotationBy(a, k) == [i \in DOMAIN a |-> a[((i - 1 + k) % Len(a)) + 1]]

\* The pieces of s that start where Starts holds of an index.
Pieces(s, starts) ==
  LET at == SelectSeq(Indices(1, Len(s)), LAMBDA i : i \in starts) \o <<Len(s) + 1>>
  IN  [k \in 1..Len(at) - 1 |-> SubSeq(s, at[k], at[k + 1] - 1)]
RunsOf(s) == Pieces(s, {i \in DOMAIN s : i = 1 \/ s[i] # s[i - 1]})
Gaps(s) == Pieces(s, {i \in DOMAIN s : i = 1 \/ (s[i] = SPACE) # (s[i - 1] = SPACE)})
WordsOf(s) ==   \* one behind every space, which it begins with, and one at the front
  LET all == <<SPACE>> \o s IN Pieces(all, {i \in DOMAIN all : all[i] = SPACE})

\* The least string behind (above) or the greatest one before (below) arr that
\* has the same elements is out, and none is reported if there is none.
IsNext(arr, out, up) ==
  LET beyond == {r \in Rearrangements(arr) : IF up THEN LexBefore(arr, r) ELSE LexBefore(r, arr)}
  IN  /\ out.more = (beyond # {})
      /\ out.more => /\ out.arr \in beyond
                     /\ \A r \in beyond : r = out.arr \/ (IF up THEN LexBefore(out.arr, r) ELSE LexBefore(r, out.arr))
      /\ ~out.more => out.arr = arr

\* Folded as a strip of stacks, the top of each first.
FoldedStrip(strip, cmd) ==
  LET half == Len(strip) \div 2
  IN  [p \in 1..half |->
        IF cmd = "L" THEN Reverse(strip[half + 1 - p]) \o strip[half + p]
        ELSE Reverse(strip[Len(strip) + 1 - p]) \o strip[p]]

\* A name stays in a path if no later ".." takes it back.
Names(path, i, k) == Cardinality({j \in i..k : path[j].name \notin {".", ".."}})
Ups(path, i, k) == Cardinality({j \in i..k : path[j].name = ".."})
Kept(path) ==
  LET stays(i) == /\ path[i].name \notin {".", ".."}
                  /\ \A k \in i + 1..Len(path) : Ups(path, i + 1, k) <= Names(path, i + 1, k)
      at == SelectSeq(Indices(1, Len(path)), stays)
  IN  [k \in DOMAIN at |-> path[at[k]]]

\* The programs that move elements, in place wherever the code does: nothing is
\* lost and everything is where the order that was asked for puts it.
AsArranged ==
  asDone =>
    CASE asProg = "clear_rows" ->
           asOut = [c \in DOMAIN asIn |->
                      IF \E d \in DOMAIN asIn : asIn[d] = 0 /\ (d[1] = c[1] \/ d[2] = c[2]) THEN 0 ELSE asIn[c]]
      [] asProg = "fold_paper" ->
           /\ ~asOut.full
           /\ asOut.seen = FoldLeft(FoldedStrip, [i \in 1..2 ^ Len(asIn) |-> <<i>>], asIn)[1]
      [] asProg = "image_rotation" ->
           asOut = [c \in MatrixCells(asIn, asIn) |-> Numbered(asIn)[<<asIn - 1 - c[2], c[1]>>]]
      [] asProg = "transpose" -> asOut = [c \in MatrixCells(asIn, asIn) |-> Numbered(asIn)[<<c[2], c[1]>>]]
      [] asProg = "kth_largest" ->
           LET sorted == SortSeq(asIn[1], >)
           IN  asOut = (IF asIn[2] > Len(sorted) THEN <<>> ELSE <<sorted[asIn[2]]>>)
      [] asProg = "max_k" -> asOut = SubSeq(SortSeq(asIn[1], >), 1, Lesser(asIn[2], Len(asIn[1])))
      [] asProg = "mostly_sorted" ->
           /\ \A v \in AsVals : Cardinality({c \in DOMAIN asIn : asIn[c] = v})
                                  = Cardinality({c \in DOMAIN asOut : asOut[c] = v})
           /\ \A c, d \in DOMAIN asOut : /\ c[1] = d[1] /\ c[2] < d[2] => asOut[c] <= asOut[d]
                                         /\ c[2] = d[2] /\ c[1] < d[1] => asOut[c] >= asOut[d]
      [] asProg = "next_permutation" -> IsNext(asIn, asOut, TRUE)
      [] asProg = "next_smallest" -> IsNext(asIn, asOut, FALSE)
      [] asProg = "normalize_path" ->
           asOut.ret # "overrun" =>
             IF \E k \in DOMAIN asIn : Ups(asIn, 1, k) > Names(asIn, 1, k)
             THEN asOut = [ret |-> "EINVAL", path |-> asIn]
             ELSE asOut = [ret |-> "ok", path |-> Kept(asIn)]
      [] asProg = "parity" -> SameContents(asIn, asOut) /\ \A i \in DOMAIN asOut : asOut[i] % 2 = i % 2
      [] asProg = "permute_swaps" ->
           /\ Head(asOut) = asIn[1] /\ Last(asOut) = asIn[2]
           /\ \A k \in 1..Len(asOut) - 1 :
                \E i \in 1..Len(asIn[1]) - 1 : asOut[k + 1] = ExchangeAt(asOut[k], i, i + 1)
      [] asProg = "rearrange_arr" -> asOut = [i \in DOMAIN asIn |-> asIn[asIn[i] + 1]]
      [] asProg = "restore_rotation" -> SameContents(asIn, asOut) /\ Ascends(asOut)
      [] asProg = "reverse_str" -> asOut = Reverse(asIn)
      [] asProg = "reverse_words" -> \A out \in asOut : WordsOf(out) = Reverse(WordsOf(asIn))
      [] asProg = "words_spaces" ->
           \A out \in asOut :
             LET was == Gaps(asIn)
                 is == Gaps(out)
                 word(gap) == Head(gap) # SPACE
             IN  /\ Len(out) = Len(asIn) /\ Len(is) = Len(was)
                 /\ \A k \in DOMAIN was : word(was[k]) = word(is[k]) /\ (~word(was[k]) => is[k] = was[k])
                 /\ SelectSeq(is, word) = Reverse(SelectSeq(was, word))
      [] asProg = "rotate_left" -> asOut = RotationBy(asIn[1], asIn[2])
      [] asProg = "submatrices" ->
           /\ ToSet(asOut) = {m \in (0..2) \X (0..2) \X (1..3) \X (1..3) :
                                m[1] + m[3] <= asIn[1] /\ m[2] + m[4] <= asIn[2]}
           /\ Len(asOut) = Cardinality(ToSet(asOut))
      [] asProg = "unique_rows" ->
           /\ ToSet(asOut) = {r \in ToSet(asIn) : CountOf(asIn, r) = 1}
           /\ \A i \in 1..Len(asOut) - 1 : LexBefore(asOut[i], asOut[i + 1])
      [] OTHER -> TRUE

\* missing_int "finds and returns an integer that is not in A" (lines 1-2): its
\* assertion never fails, and what it returns is not in the array.
MissingIntFound ==
  (asProg = "missing_int" /\ asDone) => asOut >= 0 /\ asOut \notin ToSet(asIn)

\* The programs that ask something of an array answer as the definition of their
\* problem does, over all pairs, triples or windows at once.  Claimed of missing_int is
\* only that a number it returns is missing, not that it returns one (its assertion may
\* fail, see MissingIntFound); duplicates are looked for only in arrays of k + 1
\* elements at least, and a pole only between the ends, as the code does.
AsFound ==
  asDone =>
    CASE asProg = "3sum" ->
           /\ SameContents(asIn, asOut.arr) /\ Ascends(asOut.arr)
           /\ LET zero(a, i, j, k) == i < j /\ j < k /\ a[i] + a[j] + a[k] = 0
              IN  IF asOut.found # <<>> THEN zero(asOut.arr, asOut.found[1], asOut.found[2], asOut.found[3])
                  ELSE ~\E i, j, k \in DOMAIN asIn : zero(asIn, i, j, k)
      [] asProg = "absdistinct" -> asOut = Cardinality({IF x < 0 THEN -x ELSE x : x \in ToSet(asIn)})
      [] asProg = "drinks" ->
           asOut = \E i, j, k \in DOMAIN asIn[1] : i < j /\ j < k /\ asIn[1][i] + asIn[1][j] + asIn[1][k] = asIn[2]
      [] asProg = "duplicates" ->
           Len(asIn[1]) > asIn[2] =>
             asOut = \E i, j \in DOMAIN asIn[1] : i < j /\ j - i <= asIn[2] /\ asIn[1][i] = asIn[1][j]
      [] asProg = "flatten" ->
           \A i \in Coordinates(asIn) : asOut[i] = Cardinality({j \in Coordinates(asIn) : LexBefore(j, i)})
      [] asProg = "unflatten" ->
           /\ Cardinality(DOMAIN asOut) = Cardinality(Coordinates(asIn))
           /\ \A o \in DOMAIN asOut : /\ asOut[o] \in Coordinates(asIn)
                                      /\ Cardinality({j \in Coordinates(asIn) : LexBefore(j, asOut[o])}) = o
      [] asProg = "increment_arr" ->
           LET number(a) == FoldLeft(LAMBDA n, d : 10 * n + d, 0, a)
           IN  /\ \A i \in DOMAIN asOut.arr : asOut.arr[i] \in 0..9
               /\ number(asOut.arr) + (1 - asOut.ret) * 10 ^ Len(asIn) = number(asIn) + 1
      [] asProg = "int_conversion" -> asOut.int = asIn /\ (asOut.str[1] = 0 => asIn = 0)
      [] asProg = "magnitude_pole" ->
           LET pole(k) == /\ \A i \in 1..k - 1 : asIn[i] <= asIn[k]
                          /\ \A i \in k + 1..Len(asIn) : asIn[i] >= asIn[k]
           IN  IF asOut = -1 THEN ~\E k \in 2..Len(asIn) - 1 : pole(k) ELSE pole(asOut + 1)
      [] asProg = "max_drop" ->
           LET drops == {asIn[io[1]] - asIn[io[2]] : io \in {p \in (1..Len(asIn)) \X (1..Len(asIn)) : p[1] < p[2]}}
           IN  asOut \in drops /\ \A d \in drops : d <= asOut
      [] asProg = "max_subarray" ->
           LET sum(b, n) == TotalOf(SubSeq(asIn, b, b + n - 1))
           IN  /\ asOut.sum = sum(asOut.start + 1, asOut.len)
               /\ \A b \in DOMAIN asIn : \A n \in 1..Len(asIn) - b + 1 : sum(b, n) <= asOut.sum
      [] asProg = "missing_int" -> asOut # -1 => MissingIntFound
      [] asProg = "occurrences" ->
           asOut = (IF CountOf(asIn[1], asIn[2]) = 0 THEN -1 ELSE CountOf(asIn[1], asIn[2]))
      [] asProg = "plus_minus_1" ->
           IF asOut = -1 THEN asIn[2] \notin ToSet(asIn[1]) ELSE asIn[1][asOut + 1] = asIn[2]
      [] asProg = "sliding_window" ->
           LET size == Lesser(asIn[2], Len(asIn[1]))
           IN  asOut = [k \in 1..Len(asIn[1]) - size + 1 |-> LastOf(ToSet(SubSeq(asIn[1], k, k + size - 1)))]
      [] asProg = "sort_1swap" ->
           asOut = \/ Ascends(asIn)
                   \/ \E i, j \in DOMAIN asIn : Ascends(ExchangeAt(asIn, i, j))
      [] asProg = "tickets" ->
           LET booths == DOMAIN asIn[1]
               ways == {w \in [booths -> 0..asIn[2]] : TotalOf(w) = asIn[2]}
               earns(w) == TotalOf([b \in booths |-> TotalOf([i \in 1..w[b] |-> asIn[1][b] - i + 1])])
           IN  (\E w \in ways : asOut = earns(w)) /\ \A w \in ways : earns(w) <= asOut
      [] OTHER -> TRUE

\* The programs on strings: what they count and match is what all permutations, cuts
\* and edits of the string give, and what they write reads as the string did.  Any
\* part of the doubled string passes for a rotation: only strings of equal length are
\* told apart.
AsRead ==
  asDone =>
    CASE asProg = "anagrams" ->
           asOut = Cardinality({{j \in DOMAIN asIn : SameContents(asIn[i], asIn[j])} : i \in DOMAIN asIn})
      [] asProg = "count_say" ->
           asIn > 1 =>
             LET said == [k \in 1..Len(asOut) \div 2 |-> [c \in 1..asOut[2 * k - 1] |-> asOut[2 * k]]]
             IN  /\ FlattenSeq(said) = CountAndSay(asIn - 1)
                 /\ \A k \in 1..Len(said) - 1 : asOut[2 * k] # asOut[2 * k + 2]
      [] asProg = "compression" ->
           LET short == FlattenSeq([k \in DOMAIN RunsOf(asIn) |->
                          <<Head(RunsOf(asIn)[k])>> \o Decimal(Len(RunsOf(asIn)[k]))])
           IN  asOut = IF Len(short) < Len(asIn) THEN short ELSE asIn
      [] asProg = "first_nonrepeating" ->
           LET once == {i \in DOMAIN asIn : CountOf(asIn, asIn[i]) = 1}
           IN  asOut = IF once = {} THEN -1 ELSE asIn[FirstOf(once)]
      [] asProg = "is_permutation" -> asOut = SameContents(asIn[1], asIn[2])
      [] asProg = "is_rotation" ->
           Len(asIn[1]) = Len(asIn[2]) =>
             (asOut <=> \E k \in 0..Len(asIn[1]) : asIn[2] = RotationBy(asIn[1], k))
      [] asProg = "longest_prefix" ->
           LET common(n) == \A i \in DOMAIN asIn : n <= Len(asIn[i]) /\ SubSeq(asIn[i], 1, n) = SubSeq(asIn[1], 1, n)
           IN  /\ asOut = SubSeq(asIn[1], 1, Len(asOut)) /\ common(Len(asOut))
               /\ ~common(Len(asOut) + 1)
      [] asProg = "match_permutations" ->
           LET big == IF Len(asIn[2]) > Len(asIn[1]) THEN asIn[2] ELSE asIn[1]
               short == IF Len(asIn[2]) > Len(asIn[1]) THEN asIn[1] ELSE asIn[2]
               hit(i) == SameContents(SubSeq(big, i + 1, i + Len(short)), short)
           IN  asOut = SelectSeq(Indices(0, Len(big) - Len(short)), hit)
      [] asProg = "nested_parens" ->
           LET upTo(k) == SubSeq(asIn, 1, k)
               depth == [k \in 0..Len(asIn) |-> CountOf(upTo(k), OPENPAR) - CountOf(upTo(k), CLOSEPAR)]
               levels == {depth[k] : k \in 0..Len(asIn)}
           IN  asOut = IF depth[Len(asIn)] = 0 /\ levels \subseteq Nat THEN LastOf(levels) ELSE -1
      [] asProg = "one_away" ->
           LET cuts(s) == {RemoveAt(s, i) : i \in DOMAIN s}
           IN  asOut = \/ asIn[1] = asIn[2] \/ asIn[1] \in cuts(asIn[2]) \/ asIn[2] \in cuts(asIn[1])
                       \/ \E i \in DOMAIN asIn[1], c \in AsChars : asIn[2] = [asIn[1] EXCEPT ![i] = c]
      [] asProg = "palindrome_perm" -> asOut = \E s \in Rearrangements(asIn) : s = Reverse(s)
      [] asProg = "remove_chars" -> asOut = SelectSeq(asIn[1], LAMBDA c : c \notin ToSet(asIn[2]))
      [] asProg = "replace_spaces" ->
           asOut = FlattenSeq([i \in DOMAIN asIn |-> IF asIn[i] = SPACE THEN PERCENT20 ELSE <<asIn[i]>>])
      [] asProg = "unique_chars" -> asOut = {Cardinality(ToSet(asIn)) = Len(asIn)}
      [] OTHER -> TRUE

================================================================================
