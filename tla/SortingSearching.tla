-------------------------- MODULE SortingSearching ---------------------------
(* The sorting algorithms of DS_Algos/sorting and the programs of            *)
(* sorting_searching: those that rearrange an array and those that answer a  *)
(* question about an array, a matrix, intervals or tickets.  Each runs in    *)
(* one step on an input it is made for.  An array of n elements is a         *)
(* function on 0..n-1; a loop is a recursive function of what it changes.    *)
EXTENDS Integers, Sequences, FiniteSets, SequencesExt

CONSTANTS
  SoMax,   \* bound: the longest array
  SoVals   \* the elements

ASSUME SoAssumption == SoMax \in Nat /\ SoVals \subseteq Nat

VARIABLES
  soProg,  \* the program that runs
  soArr,   \* the array it is given
  soArg,   \* k of kth_largest, the size of A of merge_array, 0 for the others
  soOut,   \* the array it leaves
  soRet,   \* the index kth_largest() returns
  soDone   \* the function has returned

soVars == <<soProg, soArr, soArg, soOut, soRet, soDone>>

Array(n) == [0..n - 1 -> SoVals]
Size(a) == Cardinality(DOMAIN a)

\* swap(), in every file.
SwapCells(a, i, j) == IF i = j THEN a ELSE [a EXCEPT ![i] = a[j], ![j] = a[i]]

\* What for (i = lo; i < hi; i += step) body leaves of s.
For(lo, hi, step, s, Body(_, _)) ==
  LET n == IF lo < hi THEN (hi - lo + step - 1) \div step ELSE 0
      run[k \in 0..n] == IF k = 0 THEN s ELSE Body(run[k - 1], lo + (k - 1) * step)
  IN  run[n]
----------------------------------------------------------------------------
\* bubblesort(): passes until one of them swaps nothing.
BubblePass(a) ==
  For(1, Size(a), 1, a, LAMBDA b, i : IF b[i] < b[i - 1] THEN SwapCells(b, i, i - 1) ELSE b)

Bubblesort(a) ==
  LET passes[b \in Array(Size(a))] ==
        IF BubblePass(b) = b THEN b ELSE passes[BubblePass(b)]
  IN  passes[a]

\* countingsort(): sets a bit per number, then reads the bits back.  Numbers are
\* unique by the comment on the function.
Countingsort(a) ==
  LET bits == {a[i] : i \in DOMAIN a}
      out == SetToSortSeq(bits, LAMBDA x, y : x < y)
  IN  [i \in DOMAIN a |-> IF i < Len(out) THEN out[i + 1] ELSE a[i]]

\* max_heapify(): sifts the element at i down the heap of the first sz ones.
Largest(a, sz, i) ==
  LET l == IF 2 * i + 1 < sz /\ a[2 * i + 1] >= a[i] THEN 2 * i + 1 ELSE i
  IN  IF 2 * i + 2 < sz /\ a[2 * i + 2] >= a[l] THEN 2 * i + 2 ELSE l

MaxHeapify(a, sz, start) ==
  LET sift[b \in Array(Size(a)), i \in DOMAIN a] ==
        IF Largest(b, sz, i) = i THEN b
        ELSE sift[SwapCells(b, i, Largest(b, sz, i)), Largest(b, sz, i)]
  IN  sift[a, start]

\* build_max_heap(): from (arr_sz-1)/2 down to 0.
BuildMaxHeap(a) ==
  For(0, (Size(a) - 1) \div 2 + 1, 1, a,
      LAMBDA b, k : MaxHeapify(b, Size(a), (Size(a) - 1) \div 2 - k))

\* heapsort() that shrinks the heap only after sifting.
HeapsortLate(a) ==
  For(0, Size(a), 1, BuildMaxHeap(a),
      LAMBDA b, k : MaxHeapify(SwapCells(b, 0, Size(a) - 1 - k), Size(a) - k, 0))

\* heapsort(): asserts an element.
Heapsort(a) ==
  For(0, Size(a), 1, BuildMaxHeap(a),
      LAMBDA b, k : MaxHeapify(SwapCells(b, 0, Size(a) - 1 - k), Size(a) - 1 - k, 0))

\* insertionsort(): moves the elements larger than v = arr[i] one to the right.
Insertionsort(a) ==
  LET insert(b, i) ==
        LET shift[c \in Array(Size(a)), j \in DOMAIN a] ==
              IF j > 0 /\ b[i] < c[j - 1] THEN shift[[c EXCEPT ![j] = c[j - 1]], j - 1]
              ELSE [c EXCEPT ![j] = b[i]]
        IN  shift[b, i]
  IN  For(1, Size(a), 1, a, insert)

\* selectionsort(): the smallest of the rest goes to i.
Selectionsort(a) ==
  For(0, Size(a), 1, a,
      LAMBDA b, i :
        SwapCells(b, i, For(i, Size(a), 1, i, LAMBDA min, j : IF b[j] < b[min] THEN j ELSE min)))

\* mergesort_aux(): sorts both halves of low..high, copies them to helper, and
\* merges from there; the rest of the right half is in place already.
Mergesort(a) ==
  LET merge(h, low, middle, high) ==
        LET step[b \in Array(Size(a)), l \in 0..middle + 1, r \in 0..high + 1] ==
              IF l <= middle /\ r <= high
              THEN IF h[l] < h[r]
                   THEN step[[b EXCEPT ![l + r - middle - 1] = h[l]], l + 1, r]
                   ELSE step[[b EXCEPT ![l + r - middle - 1] = h[r]], l, r + 1]
              ELSE IF l <= middle
                   THEN step[[b EXCEPT ![l + r - middle - 1] = h[l]], l + 1, r]
                   ELSE b
        IN  step[h, low, middle + 1]
      aux[b \in Array(Size(a)), low \in Int, high \in Int] ==
        IF low >= high THEN b
        ELSE LET middle == (low + high) \div 2
             IN  merge(aux[aux[b, low, middle], middle + 1, high], low, middle, high)
  IN  aux[a, 0, Size(a) - 1]

\* partition(): the pivot goes to low, what is not larger follows it, and the
\* pivot is put between the two parts.  The result is the array and the cursor.
Partition(a, low, high, pivot) ==
  LET b == SwapCells(a, low, pivot)
      parted == For(low + 1, high, 1, <<b, low + 1>>,
                    LAMBDA s, i : IF s[1][i] <= s[1][low]
                                  THEN <<SwapCells(s[1], i, s[2]), s[2] + 1>> ELSE s)
  IN  <<SwapCells(parted[1], low, parted[2] - 1), parted[2] - 1>>

\* quicksort_aux().
Quicksort(a) ==
  LET aux[b \in Array(Size(a)), low \in Int, high \in Int] ==
        IF high < low \/ high - low <= 1 THEN b
        ELSE LET p == Partition(b, low, high, (low + high) \div 2)
             IN  aux[aux[p[1], low, p[2]], p[2] + 1, high]
  IN  aux[a, 0, Size(a)]

\* patience_sort(): each number goes on the leftmost pile whose top is larger,
\* and a heap of piles, ordered by their tops, gives the numbers back.  The heap
\* is a sequence of piles, its root first.
FindPile(piles, v) ==
  LET halve[l \in Int, r \in Int] ==
        LET m == l + (r - l) \div 2
        IN  IF l + 1 = r THEN r
            ELSE IF Last(piles[m + 1]) <= v THEN halve[m, r] ELSE halve[l, m]
  IN  halve[-1, Len(piles)]

Deal(a) ==
  For(0, Size(a), 1, <<>>,
      LAMBDA piles, i :
        LET p == FindPile(piles, a[i]) + 1
        IN  IF p > Len(piles) THEN Append(piles, <<a[i]>>)
            ELSE [piles EXCEPT ![p] = Append(@, a[i])])

SiftUp(heap, piles) ==
  LET sift[h \in Seq(Nat), c \in Nat] ==
        IF c = 1 THEN h
        ELSE IF Last(piles[h[c]]) < Last(piles[h[c \div 2]])
             THEN sift[SwapCells(h, c, c \div 2), c \div 2] ELSE h
  IN  sift[heap, Len(heap)]

SiftDown(heap, piles) ==
  LET less(h, i, j) == Last(piles[h[i]]) < Last(piles[h[j]])
      smallest(h, c) ==
        LET l == IF 2 * c <= Len(h) /\ less(h, 2 * c, c) THEN 2 * c ELSE c
        IN  IF 2 * c < Len(h) /\ less(h, 2 * c + 1, l) THEN 2 * c + 1 ELSE l
      sift[h \in Seq(Nat), c \in Nat] ==
        IF c > Len(h) \/ smallest(h, c) = c THEN h
        ELSE sift[SwapCells(h, c, smallest(h, c)), smallest(h, c)]
  IN  sift[heap, 1]

\* One round of the second loop: s is the array, the piles and the heap.
TakeSmallest(s, i) ==
  LET heap == s[3]
      p == heap[1]
      rest == SiftDown(Front(SwapCells(heap, 1, Len(heap))), s[2])
      piles == [s[2] EXCEPT ![p] = Front(@)]
  IN  <<[s[1] EXCEPT ![i] = Last(s[2][p])], piles,
        IF piles[p] = <<>> THEN rest ELSE SiftUp(Append(rest, p), piles)>>

PatienceSort(a) ==
  LET piles == Deal(a)
      heap == For(1, Len(piles) + 1, 1, <<>>, LAMBDA h, i : SiftUp(Append(h, i), piles))
  IN  For(0, Size(a), 1, <<a, piles, heap>>, TakeSmallest)[1]
----------------------------------------------------------------------------
\* merge() of merge_array: b into a, whose buffer is large enough, from the end.
MergeArray(a, b) ==
  LET step[c \in Seq(Int), i \in Int, j \in Int] ==
        IF j < 1 THEN c
        ELSE IF i >= 1 /\ c[i] > b[j]
             THEN step[[c EXCEPT ![i + j] = c[i]], i - 1, j]
             ELSE step[[c EXCEPT ![i + j] = b[j]], i, j - 1]
  IN  step[a \o [k \in DOMAIN b |-> 0], Len(a), Len(b)]

\* sort_modulo3(): multiples of 3 first, then those that leave 1.
Modulo3Pass(s, rest, n) ==
  For(s[2], n, 1, s,
      LAMBDA t, j : IF t[1][j] % 3 = rest THEN <<SwapCells(t[1], t[2], j), t[2] + 1>> ELSE t)

SortModulo3(a) == Modulo3Pass(Modulo3Pass(<<a, 0>>, 0, Size(a)), 1, Size(a))[1]

\* peaks_valleys(): every odd place gets the largest of itself and its two
\* neighbours.
PeaksValleys(a) ==
  For(1, Size(a), 2, a,
      LAMBDA b, i :
        LET l == IF b[i - 1] > b[i] THEN i - 1 ELSE i
            m == IF i + 1 < Size(a) /\ b[i + 1] > b[l] THEN i + 1 ELSE l
        IN  SwapCells(b, m, i))

\* kth_largest(): quickselect; the result is the array and the index, -1 for a k
\* that is too large.
KthLargest(a, k) ==
  LET sz == Size(a)
      select[b \in Array(sz), low \in Nat, high \in Nat] ==
        LET c == SwapCells(b, low, low + (high - low) \div 2)
            parted == For(low + 1, high, 1, <<c, low>>,
                          LAMBDA s, j : IF s[1][j] < s[1][low]
                                        THEN <<SwapCells(s[1], s[2] + 1, j), s[2] + 1>> ELSE s)
            i == parted[2]
            d == SwapCells(parted[1], low, i)
        IN  IF sz - i = k THEN <<d, i>>
            ELSE IF sz - i > k THEN select[d, i + 1, high] ELSE select[d, low, i]
  IN  IF k > sz THEN <<a, -1>> ELSE select[a, 0, sz]

\* stacks_queues/sort_stack.  The n topmost elements of a stack end on another one.
RECURSIVE Pour(_, _, _)
Pour(from, to, n) ==
  IF n = 0 THEN <<from, to>> ELSE Pour(Front(from), Append(to, Last(from)), n - 1)
\* The elements of stack that are greater than v wait on aux.
RECURSIVE LiftGreater(_, _, _)
LiftGreater(stack, aux, v) ==
  IF stack # <<>> /\ Last(stack) > v THEN LiftGreater(Front(stack), Append(aux, Last(stack)), v)
  ELSE <<stack, aux>>
\* The second loop of sort_stack(): each element of aux goes to its place.
RECURSIVE PutBack(_, _)
PutBack(stack, aux) ==
  IF aux = <<>> THEN stack
  ELSE LET lifted == LiftGreater(stack, Front(aux), Last(aux))
           popped == Len(lifted[2]) - (Len(aux) - 1)
           back == Pour(lifted[2], Append(lifted[1], Last(aux)), popped)
       IN  PutBack(back[2], back[1])
SortStack(stack) ==
  LET poured == Pour(stack, <<>>, Len(stack)) IN PutBack(poured[1], poured[2])
----------------------------------------------------------------------------
SoPrograms ==
  {"sort_stack", "bubblesort", "countingsort", "heapsort", "insertionsort", "selectionsort",
   "mergesort", "quicksort", "patiencesort", "merge_array", "sort_modulo3",
   "peaks_and_valleys", "kth_largest"}

Ascending(a) == \A i, j \in DOMAIN a : i <= j => a[i] <= a[j]

AsSeq(a, from, n) == [k \in 1..n |-> a[from + k - 1]]

\* heapsort() and mergesort() assert an element, countingsort() sorts "a set of
\* unique numbers", merge() "two sorted arrays".
SoInit ==
  /\ soProg \in SoPrograms
  /\ \E n \in 0..SoMax :
       /\ soArr \in Array(n)
       /\ soArg \in IF soProg = "kth_largest" THEN 0..n + 1
                    ELSE IF soProg = "merge_array" THEN 0..n ELSE {0}
       /\ soProg \in {"heapsort", "mergesort"} => n > 0
       /\ soProg = "countingsort" => \A i, j \in 0..n - 1 : soArr[i] = soArr[j] => i = j
       /\ soProg = "merge_array" =>
            Ascending(AsSeq(soArr, 0, soArg)) /\ Ascending(AsSeq(soArr, soArg, n - soArg))
  /\ soOut = soArr
  /\ soRet = -1
  /\ soDone = FALSE

\* A program that only leaves an array behind.
SoLeaves(prog, out) ==
  /\ soProg = prog /\ ~soDone
  /\ soDone' = TRUE /\ soOut' = out
  /\ UNCHANGED <<soProg, soArr, soArg, soRet>>

\* main() of each program: it reads an array and has it rearranged.
RunBubblesort == SoLeaves("bubblesort", Bubblesort(soArr))
RunCountingsort == SoLeaves("countingsort", Countingsort(soArr))
RunHeapsort == SoLeaves("heapsort", Heapsort(soArr))
RunInsertionsort == SoLeaves("insertionsort", Insertionsort(soArr))
RunSelectionsort == SoLeaves("selectionsort", Selectionsort(soArr))
RunMergesort == SoLeaves("mergesort", Mergesort(soArr))
RunQuicksort == SoLeaves("quicksort", Quicksort(soArr))
RunPatiencesort == SoLeaves("patiencesort", PatienceSort(soArr))
RunModulo3 == SoLeaves("sort_modulo3", SortModulo3(soArr))
RunPeaksValleys == SoLeaves("peaks_and_valleys", PeaksValleys(soArr))
RunMergeArray ==
  SoLeaves("merge_array",
    LET n == Size(soArr)
        c == MergeArray(AsSeq(soArr, 0, soArg), AsSeq(soArr, soArg, n - soArg))
    IN  [i \in 0..n - 1 |-> c[i + 1]])

\* SORT, after the PUSH commands: the array is the stack, its last element the top.
RunSortStack ==
  SoLeaves("sort_stack",
    LET n == Size(soArr)
        s == SortStack(AsSeq(soArr, 0, n))
    IN  [i \in 0..n - 1 |-> s[i + 1]])

\* main() of kth_largest.
RunKthLargest ==
  /\ soProg = "kth_largest" /\ ~soDone
  /\ soDone' = TRUE
  /\ \E r \in {KthLargest(soArr, soArg)} : soOut' = r[1] /\ soRet' = r[2]
  /\ UNCHANGED <<soProg, soArr, soArg>>

SoNext ==
  \/ RunBubblesort \/ RunCountingsort \/ RunHeapsort \/ RunInsertionsort
  \/ RunSelectionsort \/ RunMergesort \/ RunQuicksort \/ RunPatiencesort
  \/ RunModulo3 \/ RunPeaksValleys \/ RunMergeArray \/ RunSortStack \/ RunKthLargest

SoSpec == SoInit /\ [][SoNext]_soVars
----------------------------------------------------------------------------
\* How many indices of a hold a value that satisfies P.
HowMany(a, P(_)) == Cardinality({i \in DOMAIN a : P(a[i])})

\* No element is lost or doubled, whatever the algorithm.
SameElements(a, b) ==
  DOMAIN a = DOMAIN b /\ \A v \in SoVals : HowMany(a, LAMBDA x : x = v) = HowMany(b, LAMBDA x : x = v)

\* Every algorithm leaves the elements it was given, in the order it promises:
\* ascending; by remainder for sort_modulo3; "an alternating sequence of peaks and
\* valleys" for peaks_and_valleys; and kth_largest() points at the k-th largest
\* element of an array it has rearranged, for 1 <= k <= arr_sz, or says -1 for a
\* larger k (for k = 0 it returns arr_sz).
SoRight ==
  soDone =>
    /\ SameElements(soArr, soOut)
    /\ soProg \notin {"sort_modulo3", "peaks_and_valleys", "kth_largest"} => Ascending(soOut)
    /\ soProg = "sort_modulo3" => Ascending([i \in DOMAIN soOut |-> soOut[i] % 3])
    /\ soProg = "peaks_and_valleys" =>
         \A i \in DOMAIN soOut : i % 2 = 1 =>
           \A j \in {i - 1, i + 1} \cap DOMAIN soOut : soOut[i] >= soOut[j]
    /\ soProg = "kth_largest" /\ soArg > Size(soArr) => soRet = -1
    /\ soProg = "kth_largest" /\ soArg \in 1..Size(soArr) =>
         /\ soRet \in DOMAIN soOut
         /\ HowMany(soOut, LAMBDA x : x > soOut[soRet]) < soArg
         /\ HowMany(soOut, LAMBDA x : x >= soOut[soRet]) >= soArg
----------------------------------------------------------------------------
CONSTANTS
  SeMax,   \* bound: the longest array
  SeDim,   \* bound: rows and columns of a matrix
  SeVals   \* the values in arrays and queries

ASSUME SeAssumption == SeMax \in Nat /\ SeDim \in Nat /\ SeVals \subseteq Nat

VARIABLES
  seProg,  \* the program that runs
  seIn,    \* what it is asked about
  seVal,   \* the value it is asked for, 0 if none
  seOut,   \* its answer
  seDone   \* the function has returned

seVars == <<seProg, seIn, seVal, seOut, seDone>>

NotFound == <<-1, -1>>
Elements(a) == Cardinality(DOMAIN a)

\* The closed binary search all of these programs spell out: l <= r.
Bisect(a, from, to, v) ==
  LET probe[l \in Int, r \in Int] ==
        LET m == l + (r - l) \div 2
        IN  IF l > r THEN -1
            ELSE IF a[m] = v THEN m
            ELSE IF a[m] < v THEN probe[m + 1, r] ELSE probe[l, m - 1]
  IN  probe[from, to]
----------------------------------------------------------------------------
\* bin_search_diagonal(): how far down the diagonal of a submatrix the last
\* element not above val is.
Diagonal(mx, rl, rr, cl, cr, v) ==
  LET probe[xl \in Int, yl \in Int, xr \in Int, yr \in Int] ==
        LET x == xl + (xr - xl) \div 2
            y == yl + (yr - yl) \div 2
        IN  IF xl > xr \/ yl > yr
            THEN IF xr < rl THEN 0 ELSE IF xl > rr THEN rr - rl ELSE xr - rl
            ELSE IF mx[x][y] = v THEN x - rl
            ELSE IF mx[x][y] < v THEN probe[x + 1, y + 1, xr, yr]
            ELSE probe[xl, yl, x - 1, y - 1]
  IN  IF rl + cr - cl > rr THEN 0 ELSE probe[rl, cl, rl + cr - cl, cr]

\* bin_search_2d_aux(): one quadrant is searched for sure, the two beside the
\* diagonal when it had nothing.
DiagonalSearch(mx, v) ==
  LET aux[rl \in Int, rr \in Int, cl \in Int, cr \in Int] ==
        IF rl > rr \/ cl > cr THEN NotFound
        ELSE IF rl = rr /\ cl = cr THEN IF mx[rl][cl] = v THEN <<rl, cl>> ELSE NotFound
        ELSE
          LET d == Diagonal(mx, rl, rr, cl, cr, v)
              first == IF v < mx[rl + d][cl + d] THEN aux[rl, rl + d, cl, cl + d]
                       ELSE IF rl + d + 1 <= rr /\ cl + d + 1 <= cr
                       THEN IF v > mx[rl + d + 1][cl + d + 1]
                            THEN aux[rl + d + 1, rr, cl + d + 1, cr] ELSE NotFound
                       ELSE NotFound
              second == IF first # NotFound THEN first ELSE aux[rl, rl + d, cl + d + 1, cr]
          IN  IF mx[rl + d][cl + d] = v THEN <<rl + d, cl + d>>
              ELSE IF second # NotFound THEN second ELSE aux[rl + d + 1, rr, cl, cl + d]
  IN  aux[0, Elements(mx) - 1, 0, Elements(mx[0]) - 1]

\* search_matrix_aux() of solution2.c: the middle rules out a quarter.
CenterSearch(mx, v) ==
  LET aux[rl \in Int, rr \in Int, cl \in Int, cr \in Int] ==
        LET x == rl + (rr - rl) \div 2
            y == cl + (cr - cl) \div 2
            low == aux[x + 1, rr, cl, cr]
            high == aux[rl, x - 1, y, cr]
        IN  IF rl > rr \/ cl > cr THEN NotFound
            ELSE IF mx[x][y] = v THEN <<x, y>>
            ELSE IF mx[x][y] < v
                 THEN IF low # NotFound THEN low ELSE aux[rl, x, y + 1, cr]
                 ELSE IF high # NotFound THEN high ELSE aux[rl, rr, cl, y - 1]
  IN  aux[0, Elements(mx) - 1, 0, Elements(mx[0]) - 1]

\* find_on_rotated(): looks for the end of the first ascending part.
FindOnRotated(a, v) ==
  LET n == Elements(a)
      climb[i \in Nat] == IF i + 1 < n THEN IF a[i] <= a[i + 1] THEN climb[i + 1] ELSE i ELSE i
  IN  IF n = 0 THEN -1
      ELSE IF a[0] <= v /\ v <= a[climb[0]] THEN Bisect(a, 0, climb[0], v)
      ELSE Bisect(a, climb[0] + 1, n - 1, v)

\* find_rotation_amount(): the drop, on the side that must hold it, or on both
\* sides when arr[l] <= arr[r] says nothing.
FindRotationAmount(a) ==
  LET n == Elements(a)
      aux[l \in Int, r \in Int] ==
        LET m == l + (IF r >= l THEN (r - l) \div 2 ELSE -((l - r) \div 2))
            drop == m >= 0 /\ m < n - 1
            left == aux[l, m - 1]
        IN  IF drop /\ (drop => a[m] > a[m + 1]) THEN m + 1
            ELSE IF l >= r THEN -1
            ELSE IF a[l] > a[r]
                 THEN IF a[m] < a[l] THEN left ELSE aux[m + 1, r]
            ELSE IF left # -1 THEN left ELSE aux[m + 1, r]
  IN  aux[0, n - 1]

\* element_at() and find_element() of listy: doubles l until it is past val or
\* past the end, then searches between l/2 and l.
ElementAt(a, i) == IF i \in DOMAIN a THEN a[i] ELSE -1

FindElement(a, v) ==
  LET search[l \in Int, r \in Int] ==
        LET m == l + (r - l) \div 2
            e == ElementAt(a, m)
        IN  IF l > r THEN -1
            ELSE IF e = -1 THEN search[l, m - 1]
            ELSE IF e = v THEN m
            ELSE IF e < v THEN search[m + 1, r] ELSE search[l, m - 1]
      double[l \in Nat] ==
        LET e == ElementAt(a, l)
        IN  IF e # -1 /\ e <= v THEN IF e = v THEN l ELSE double[2 * l]
            ELSE search[l \div 2, l]
  IN  IF ElementAt(a, 0) = -1 THEN -1 ELSE double[1]

\* find_max() of wave_array; before is what lies before the array, which the
\* loop reads when it has come down to 0, and -2 an assertion that fails.
FindMax(a, before) ==
  LET n == Elements(a)
      at(i) == IF i = -1 THEN before ELSE a[i]
      loop[l \in Int, r \in Int] ==
        LET m == l + (r - l) \div 2
        IN  IF m >= n - 1 THEN m - 1
            ELSE IF at(m - 1) >= a[m] \/ a[m + 1] >= a[m]
            THEN IF m = 0 THEN -2
                 ELSE IF a[m - 1] > a[m] THEN loop[l, m] ELSE loop[m + 1, r]
            ELSE m
  IN  IF n <= 1 THEN 0 ELSE loop[0, n]

\* find_elem(): left of the maximum, then right of it, where the order is turned.
FindElem(a, before, v) ==
  LET max == FindMax(a, before)
      left == Bisect(a, 0, max, v)
  IN  IF max = -2 THEN -2
      ELSE IF left # -1 THEN left
      ELSE Bisect([i \in DOMAIN a |-> -a[i]], max, Elements(a) - 1, -v)

\* binsrch_gte() and count_sum() of sum_to_n: for each i, the pairs (i, j) with j
\* from the first element that reaches n - arr[i] on.
BinsrchGte(a, from, n, v) ==
  LET halve[l \in Int, r \in Int] ==
        LET m == l + (r - l) \div 2
        IN  IF l + 1 = r THEN l + 1
            ELSE IF a[from + m] < v THEN halve[m, r] ELSE halve[l, m]
  IN  IF halve[-1, n] = n THEN -1 ELSE halve[-1, n]

CountSum(a, v) ==
  LET n == Elements(a)
      pairs[i \in 0..n - 1] ==
        IF i = 0 THEN 0
        ELSE LET j == BinsrchGte(a, i, n - i, v - a[i - 1])
             IN  pairs[i - 1] + (IF j = -1 THEN 0 ELSE n - (j + i))
  IN  pairs[n - 1]

\* find_sum(): sorts, then looks for the rest of the sum behind each element.
FindSum(a, v) ==
  LET n == Elements(a)
      b == SortSeq([k \in 1..n |-> a[k - 1]], <)
  IN  \E i \in 1..n : Bisect(b, i + 1, n, v - b[i]) # -1

\* find_interval() and insert() of merge_intervals; intervals are <<start, end>>.
FindInterval(ivs, t) ==
  LET halve[l \in Int, r \in Int] ==
        LET m == l + (r - l) \div 2
        IN  IF l + 1 = r THEN l
            ELSE IF ivs[m + 1][1] <= t THEN halve[m, r] ELSE halve[l, m]
  IN  halve[-1, Len(ivs)]

InsertInterval(ivs, new) ==
  LET before == FindInterval(ivs, new[1]) + 1
      after == FindInterval(ivs, new[2]) + 1
      apart == before # 0 /\ (before # 0 => new[1] > ivs[before][2])
      start == IF apart \/ before = 0 THEN new[1] ELSE ivs[before][1]
      inside == after # 0 /\ (after # 0 => new[2] < ivs[after][2])
      end == IF inside THEN ivs[after][2] ELSE new[2]
  IN  SubSeq(ivs, 1, IF apart THEN before ELSE before - 1)
        \o <<<<start, end>>>> \o SubSeq(ivs, after + 1, Len(ivs))

\* get_itinerary(): starts at the source nobody flies to and follows the map.
\* Tickets are <<source, destination>>.
GetItinerary(tickets) ==
  LET sources == {tickets[i][1] : i \in DOMAIN tickets}
      destinations == {tickets[i][2] : i \in DOMAIN tickets}
      ticket(src) == tickets[CHOOSE i \in DOMAIN tickets :
                               /\ tickets[i][1] = src
                               /\ \A j \in i + 1..Len(tickets) : tickets[j][1] # src]
      follow[src \in Nat] ==
        IF src \in sources THEN <<ticket(src)>> \o follow[ticket(src)[2]] ELSE <<>>
      starts == SetToSortSeq(sources \ destinations, <)
  IN  IF starts = <<>> THEN <<>> ELSE follow[Head(starts)]

\* best_tower_aux(): tries everybody who fits as the next one, by swapping him
\* there and back.  People are <<height, weight>>.
BestTower(people) ==
  LET n == Len(people)
      above(below, p) == p[1] < below[1] /\ p[2] < below[2]
      aux[ps \in Seq(Nat \X Nat), k \in Nat] ==
        LET fits == {i \in k..n : k > 1 => above(ps[k - 1], ps[i])}
            best == {aux[[ps EXCEPT ![k] = ps[i], ![i] = ps[k]], k + 1] + 1 : i \in fits}
        IN  IF best = {} THEN 0 ELSE CHOOSE b \in best : \A c \in best : c <= b
  IN  aux[people, 1]

\* first_unique_word(): a word seen for the first time is appended to the list,
\* seen again it is taken out; its map entry stays, NULL.
FirstUniqueWord(words) ==
  LET read(s, w) ==
        IF w \notin s.seen THEN [seen |-> s.seen \cup {w}, list |-> Append(s.list, w)]
        ELSE [s EXCEPT !.list = SelectSeq(s.list, LAMBDA x : x # w)]
      end == FoldLeft(read, [seen |-> {}, list |-> <<>>], words)
  IN  IF end.list = <<>> THEN <<>> ELSE <<Head(end.list)>>

\* sort_by_anagrams(): groups the words by their sorted letters; the map is
\* walked in the order of its keys.
LexLess(v, w) ==
  \E k \in 1..Len(w) :
    /\ \A j \in 1..k - 1 : j <= Len(v) /\ v[j] = w[j]
    /\ k <= Len(v) => v[k] < w[k]

SortByAnagrams(words) ==
  LET key(w) == SortSeq(w, <)
      keys == SetToSortSeq({key(words[i]) : i \in DOMAIN words}, LexLess)
  IN  FlattenSeq([k \in DOMAIN keys |-> SelectSeq(words, LAMBDA w : key(w) = keys[k])])
----------------------------------------------------------------------------
Arrays == UNION {[0..n - 1 -> SeVals] : n \in 0..SeMax}
Rising(a) == \A i, j \in DOMAIN a : i <= j => a[i] <= a[j]

Matrices ==
  UNION {{mx \in [0..m - 1 -> [0..n - 1 -> SeVals]] :
            /\ \A x \in 0..m - 1 : Rising(mx[x])
            /\ \A y \in 0..n - 1 : Rising([x \in 0..m - 1 |-> mx[x][y]])} :
         m \in 1..SeDim, n \in 1..SeDim}

\* A sorted array, rotated.
Rotated(a) ==
  \E k \in DOMAIN a : Rising([i \in DOMAIN a |-> a[(i + k) % Elements(a)]])

\* "an increasing sequence of values up to an unknown index i, followed by a
\* decreasing sequence of values".
Peak(a, p) ==
  /\ \A i \in DOMAIN a : i < p => a[i] < a[i + 1]
  /\ \A i \in DOMAIN a : i > p => a[i - 1] > a[i]

Intervals ==
  {ivs \in UNION {[1..n -> SeVals \X SeVals] : n \in 0..2} :
     /\ \A i \in DOMAIN ivs : ivs[i][1] <= ivs[i][2]
     /\ \A i \in DOMAIN ivs : i > 1 => ivs[i - 1][2] < ivs[i][1]}

\* The tickets of a journey that comes to no airport twice, shuffled.
Tickets ==
  {t \in UNION {[1..n -> SeVals \X SeVals] : n \in 0..3} :
     \E way \in [1..Len(t) + 1 -> SeVals] :
       /\ \A i, j \in DOMAIN way : way[i] = way[j] => i = j
       /\ {t[i] : i \in DOMAIN t} = {<<way[i], way[i + 1]>> : i \in 1..Len(t)}}

Words == {<<>>} \cup {<<x>> : x \in {1, 2}} \cup ({1, 2} \X {1, 2})

\* Each program with the inputs it is made for.
SeInit ==
  /\ \/ seProg \in {"2d_binsearch", "2d_binsearch2"} /\ seIn \in Matrices
     \/ seProg = "rotated_array" /\ seIn \in {a \in Arrays : a = <<>> \/ Rotated(a)}
     \/ seProg = "rotation_amount" /\ seIn \in {a \in Arrays : Rotated(a)}
     \/ seProg = "listy" /\ seIn \in {a \in Arrays : Rising(a)}
     \/ seProg = "wave_array" /\ seIn \in {a \in Arrays : \E p \in DOMAIN a : Peak(a, p)}
     \/ seProg = "sum_to_n" /\ seIn \in {a \in Arrays : a # <<>> /\ Rising(a)}
     \/ seProg = "find_sum" /\ seIn \in Arrays
     \/ seProg = "merge_intervals" /\ seIn \in Intervals \X SeVals
     \/ seProg = "airline_itinerary" /\ seIn \in Tickets
     \/ /\ seProg = "circus_tower"
        /\ seIn \in UNION {[1..n -> SeVals \X SeVals] : n \in 0..3}
     \/ seProg = "first_unique_word" /\ seIn \in UNION {[1..n -> SeVals] : n \in 0..4}
     \/ seProg = "anagrams_together" /\ seIn \in UNION {[1..n -> Words] : n \in 0..3}
  /\ seVal \in {v \in SeVals : seProg = "merge_intervals" => v <= seIn[2]}
  /\ seOut = <<>>
  /\ seDone = FALSE

SeAnswers(prog, answers) ==
  /\ seProg = prog /\ ~seDone
  /\ seDone' = TRUE /\ seOut' \in answers
  /\ UNCHANGED <<seProg, seIn, seVal>>

\* main() of each program: it reads its input, asks, and prints the answer.
Run2dDiagonal == SeAnswers("2d_binsearch", {DiagonalSearch(seIn, seVal)})
Run2dCenter == SeAnswers("2d_binsearch2", {CenterSearch(seIn, seVal)})
RunRotatedArray == SeAnswers("rotated_array", {<<FindOnRotated(seIn, seVal)>>})
RunRotationAmount == SeAnswers("rotation_amount", {<<FindRotationAmount(seIn)>>})
RunListy == SeAnswers("listy", {<<FindElement(seIn, seVal)>>})
RunWaveArray ==
  SeAnswers("wave_array", {<<FindElem(seIn, before, seVal)>> : before \in SeVals})
RunSumToN == SeAnswers("sum_to_n", {<<CountSum(seIn, seVal)>>})
RunFindSum == SeAnswers("find_sum", {<<FindSum(seIn, seVal)>>})
RunMergeIntervals ==   \* inserts the interval from seVal to seIn[2] into seIn[1]
  SeAnswers("merge_intervals", {InsertInterval(seIn[1], <<seVal, seIn[2]>>)})
RunItinerary == SeAnswers("airline_itinerary", {GetItinerary(seIn)})
RunCircusTower == SeAnswers("circus_tower", {<<BestTower(seIn)>>})
RunUniqueWord == SeAnswers("first_unique_word", {FirstUniqueWord(seIn)})
RunAnagrams == SeAnswers("anagrams_together", {SortByAnagrams(seIn)})

SeNext ==
  \/ Run2dDiagonal \/ Run2dCenter \/ RunRotatedArray \/ RunRotationAmount
  \/ RunListy \/ RunWaveArray \/ RunSumToN \/ RunFindSum \/ RunMergeIntervals
  \/ RunItinerary \/ RunCircusTower \/ RunUniqueWord \/ RunAnagrams

SeSpec == SeInit /\ [][SeNext]_seVars
----------------------------------------------------------------------------
\* An index where the value is, or -1 when it is nowhere.
Locates(a, i, v) ==
  IF \E j \in DOMAIN a : a[j] = v THEN i \in DOMAIN a /\ (i \in DOMAIN a => a[i] = v) ELSE i = -1

Cells(mx) == {<<x, y>> \in (DOMAIN mx) \X (DOMAIN mx[0]) : mx[x][y] = seVal}

\* Every lookup finds the element if and only if it is there: in a matrix whose
\* rows and columns ascend (solution2.c; what solution.c finds is there), in a
\* rotated array, in a Listy of unknown size, and in a wave that rises and falls
\* (one that only rises or only falls is not searched right, and reads arr[-1]);
\* the rotation amount is where the array drops, -1 when it does not.
SeFinds ==
  seDone =>
    /\ seProg = "2d_binsearch2" =>
         IF Cells(seIn) = {} THEN seOut = NotFound ELSE seOut \in Cells(seIn)
    /\ seProg = "2d_binsearch" => seOut = NotFound \/ seOut \in Cells(seIn)
    /\ seProg \in {"rotated_array", "listy"} => Locates(seIn, seOut[1], seVal)
    /\ seProg = "wave_array" /\ (\E p \in 1..Elements(seIn) - 2 : Peak(seIn, p)) =>
         Locates(seIn, seOut[1], seVal)
    /\ seProg = "rotation_amount" =>
         IF Rising(seIn) THEN seOut = <<-1>>
         ELSE seOut[1] \in (DOMAIN seIn) \ {0} /\ seIn[seOut[1] - 1] > seIn[seOut[1]]

\* "Given an MxN matrix in which each row and each column is sorted in ascending
\* order, write a method to find an element" (2d_binsearch/solution.c:1): an
\* element that is there is found, whatever the shape of the matrix.
DiagonalFinds ==
  seDone /\ seProg = "2d_binsearch" /\ Cells(seIn) # {} => seOut \in Cells(seIn)

Covered(ivs) == UNION {ivs[i][1]..ivs[i][2] : i \in DOMAIN ivs}
Towers(people) ==
  {S \in SUBSET DOMAIN people :
     \A i, j \in S : i # j =>
       \/ people[i][1] < people[j][1] /\ people[i][2] < people[j][2]
       \/ people[j][1] < people[i][1] /\ people[j][2] < people[i][2]}
Times(w, words) == Cardinality({i \in DOMAIN words : words[i] = w})

\* Every answer is the one its definition gives: the pairs that reach the sum;
\* whether a pair sums to the value; intervals that stay sorted and apart and cover
\* exactly what they covered and the new one; all tickets, each from
\* where the one before ended; the most people in a tower; the first word that
\* occurs once; the same words, anagrams next to each other.
SeComputesRight ==
  seDone =>
    /\ seProg = "sum_to_n" =>
         seOut[1] = Cardinality({<<i, j>> \in (DOMAIN seIn) \X (DOMAIN seIn) :
                                   i < j /\ seIn[i] + seIn[j] >= seVal})
    /\ seProg = "find_sum" =>
         seOut[1] = \E i, j \in DOMAIN seIn : i # j /\ seIn[i] + seIn[j] = seVal
    /\ seProg = "merge_intervals" =>
         /\ \A i \in DOMAIN seOut : i > 1 => seOut[i - 1][2] < seOut[i][1]
         /\ Covered(seOut) = Covered(seIn[1]) \cup (seVal..seIn[2])
    /\ seProg = "airline_itinerary" =>
         /\ Len(seOut) = Len(seIn)
         /\ {seOut[i] : i \in DOMAIN seOut} = {seIn[i] : i \in DOMAIN seIn}
         /\ \A i \in DOMAIN seOut : i > 1 => seOut[i - 1][2] = seOut[i][1]
    /\ seProg = "circus_tower" =>
         /\ \E S \in Towers(seIn) : Cardinality(S) = seOut[1]
         /\ \A S \in Towers(seIn) : Cardinality(S) <= seOut[1]
    /\ seProg = "first_unique_word" =>
         LET once == {i \in DOMAIN seIn : Times(seIn[i], seIn) = 1}
         IN  IF once = {} THEN seOut = <<>>
             ELSE \E i \in once : seOut = <<seIn[i]>> /\ \A j \in once : i <= j
    /\ seProg = "anagrams_together" =>
         /\ Len(seOut) = Len(seIn) /\ \A w \in Words : Times(w, seIn) = Times(w, seOut)
         /\ \A i, j, k \in DOMAIN seOut :
              i < j /\ j < k /\ SortSeq(seOut[i], <) = SortSeq(seOut[k], <) =>
                SortSeq(seOut[i], <) = SortSeq(seOut[j], <)
=============================================================================
