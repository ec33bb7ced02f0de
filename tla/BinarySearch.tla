---------------------------- MODULE BinarySearch ----------------------------
(* The binary searches of the repository, one iteration of the loop a step: *)
(* the four of DS_Algos/bin_search/binary_search.c, zero_count() of          *)
(* count_zeros, binsrch_gte() of sum_to_n, find_interval() of               *)
(* merge_intervals, find_pile() of patiencesort and bin_search() of          *)
(* rotated_array.  bsArr holds the keys they compare: the elements, the      *)
(* starts of the intervals, the tops of the piles.  Keys are small enough    *)
(* for their differences not to overflow an int.                             *)
EXTENDS Integers

CONSTANTS
  BsMax,   \* bound: the longest array
  BsVals   \* the values in arrays and queries

ASSUME BsAssumption == BsMax \in Nat /\ BsVals \subseteq Int

VARIABLES
  bsKind,  \* which search runs
  bsSize,  \* arr_sz
  bsArr,   \* arr, a function on 0..arr_sz-1
  bsVal,   \* val
  bsL,     \* l
  bsR,     \* r
  bsPc,    \* "loop", "done"
  bsRet,   \* what the search returned
  bsPow    \* history: 2 to the number of iterations so far

bsVars == <<bsKind, bsSize, bsArr, bsVal, bsL, bsR, bsPc, bsRet, bsPow>>

\* The searches that keep l and r outside what is left to look at ...
BsOpen ==
  {"bin_search_first_occurrence", "bin_search_last_occurrence", "zero_count",
   "binsrch_gte", "find_interval", "find_pile"}

\* ... and those that keep them inside.
BsClosed == {"binary_search", "bin_search_closest"}

BsIndices == 0..bsSize - 1

BsSorted(n, a) == \A i, j \in 0..n - 1 : i <= j => a[i] <= a[j]

\* l and r as each function starts: -1 and arr_sz, or 0 and arr_sz-1.  The tops
\* of the piles are sorted because find_pile() is the one to choose the pile.
BsInit ==
  /\ bsKind \in BsOpen \cup BsClosed
  /\ bsSize \in 0..BsMax
  /\ bsArr \in [BsIndices -> BsVals]
  /\ BsSorted(bsSize, bsArr)
  /\ bsVal \in BsVals
  /\ bsL = IF bsKind \in BsOpen THEN -1 ELSE 0
  /\ bsR = IF bsKind \in BsOpen THEN bsSize ELSE bsSize - 1
  /\ bsPc = "loop"
  /\ bsRet = -1
  /\ bsPow = 1

BsMid == bsL + (bsR - bsL) \div 2

\* The test with which a search moves l up to m.
BsBelow(m) ==
  \/ bsKind \in {"bin_search_first_occurrence", "binsrch_gte"} /\ bsArr[m] < bsVal
  \/ bsKind = "bin_search_last_occurrence" /\ ~(bsVal < bsArr[m])
  \/ bsKind = "zero_count" /\ bsArr[m] <= 0
  \/ bsKind \in {"find_interval", "find_pile"} /\ bsArr[m] <= bsVal

\* The loop as one who thinks in inclusive bounds would write it.
BsHalveSkip ==
  /\ bsPc = "loop" /\ bsKind \in BsOpen /\ bsL + 1 < bsR
  /\ IF BsBelow(BsMid)
     THEN bsL' = BsMid /\ UNCHANGED bsR
     ELSE bsR' = BsMid - 1 /\ UNCHANGED bsL
  /\ bsPow' = 2 * bsPow
  /\ UNCHANGED <<bsKind, bsSize, bsArr, bsVal, bsPc, bsRet>>

\* while (l+1 != r): one iteration of an open search.
BsHalve ==
  /\ bsPc = "loop" /\ bsKind \in BsOpen /\ bsL + 1 # bsR
  /\ IF BsBelow(BsMid)
     THEN bsL' = BsMid /\ UNCHANGED bsR
     ELSE bsR' = BsMid /\ UNCHANGED bsL
  /\ bsPow' = 2 * bsPow
  /\ UNCHANGED <<bsKind, bsSize, bsArr, bsVal, bsPc, bsRet>>

\* bsArr[l] of bin_search_last_occurrence() may be arr[-1]; whatever is there,
\* the answer is -1.
BsAnswer ==
  CASE bsKind = "bin_search_first_occurrence" ->
         IF bsR = bsSize THEN -1 ELSE IF bsArr[bsR] # bsVal THEN -1 ELSE bsR
    [] bsKind = "bin_search_last_occurrence" ->
         IF bsL = -1 THEN -1 ELSE IF bsArr[bsL] # bsVal THEN -1 ELSE bsL
    [] bsKind \in {"zero_count", "find_pile"} -> bsR
    [] bsKind = "binsrch_gte" -> IF bsL + 1 = bsSize THEN -1 ELSE bsL + 1
    [] bsKind = "find_interval" ->
         IF bsL = -1 THEN -1 ELSE IF bsArr[bsL] > bsVal THEN -1 ELSE bsL

\* The loop of an open search ends.
BsStop ==
  /\ bsPc = "loop" /\ bsKind \in BsOpen /\ bsL + 1 = bsR
  /\ bsPc' = "done" /\ bsRet' = BsAnswer
  /\ UNCHANGED <<bsKind, bsSize, bsArr, bsVal, bsL, bsR, bsPow>>

\* The closed loop that keeps mid in the interval.
BsProbeStay ==
  /\ bsPc = "loop" /\ bsKind \in BsClosed /\ bsL <= bsR
  /\ \/ /\ bsArr[BsMid] = bsVal
        /\ bsPc' = "done" /\ bsRet' = BsMid /\ UNCHANGED <<bsL, bsR, bsPow>>
     \/ /\ bsArr[BsMid] < bsVal
        /\ bsL' = BsMid + 1 /\ bsPow' = 2 * bsPow /\ UNCHANGED <<bsR, bsPc, bsRet>>
     \/ /\ bsArr[BsMid] > bsVal
        /\ bsR' = BsMid /\ bsPow' = 2 * bsPow /\ UNCHANGED <<bsL, bsPc, bsRet>>
  /\ UNCHANGED <<bsKind, bsSize, bsArr, bsVal>>

\* while (l <= r): one iteration of a closed search, which returns when it has
\* met val.
BsProbe ==
  /\ bsPc = "loop" /\ bsKind \in BsClosed /\ bsL <= bsR
  /\ \/ /\ bsArr[BsMid] = bsVal
        /\ bsPc' = "done" /\ bsRet' = BsMid /\ UNCHANGED <<bsL, bsR, bsPow>>
     \/ /\ bsArr[BsMid] < bsVal
        /\ bsL' = BsMid + 1 /\ bsPow' = 2 * bsPow /\ UNCHANGED <<bsR, bsPc, bsRet>>
     \/ /\ bsArr[BsMid] > bsVal
        /\ bsR' = BsMid - 1 /\ bsPow' = 2 * bsPow /\ UNCHANGED <<bsL, bsPc, bsRet>>
  /\ UNCHANGED <<bsKind, bsSize, bsArr, bsVal>>

BsDiff(i) == IF bsVal - bsArr[i] >= 0 THEN bsVal - bsArr[i] ELSE -(bsVal - bsArr[i])

\* The loop of a closed search ends without val: -1, or the closer of the two
\* elements l and r ended at.
BsMiss ==
  /\ bsPc = "loop" /\ bsKind \in BsClosed /\ bsL > bsR
  /\ bsPc' = "done"
  /\ bsRet' = IF bsKind = "binary_search" THEN -1
              ELSE IF bsL < bsSize /\ bsR >= 0
                   THEN IF BsDiff(bsL) < BsDiff(bsR) THEN bsL ELSE bsR
                   ELSE IF bsL = bsSize THEN bsR ELSE bsL
  /\ UNCHANGED <<bsKind, bsSize, bsArr, bsVal, bsL, bsR, bsPow>>

BsStep == BsHalve \/ BsStop \/ BsProbe \/ BsMiss
BsNext == BsStep

BsSpec == BsInit /\ [][BsNext]_bsVars
----------------------------------------------------------------------------
\* i is the first, or the last, index that satisfies a test, and n stands for
\* none.
BsFirst(i, n, P(_)) ==
  \/ i = n /\ \A j \in BsIndices : ~P(j)
  \/ i \in BsIndices /\ P(i) /\ \A j \in BsIndices : P(j) => i <= j

BsLast(i, n, P(_)) ==
  \/ i = n /\ \A j \in BsIndices : ~P(j)
  \/ i \in BsIndices /\ P(i) /\ \A j \in BsIndices : P(j) => j <= i

\* Each search returns what its comment promises, for every sorted array,
\* duplicates and the empty one included ("if there are duplicates, returns the
\* first occurrence", "the closest match if the element isn't found", "first
\* index in arr[] s.t. arr[i] >= val", "the last interval I ... s.t. I.start <=
\* time"); bin_search_closest() needs an element to return.
BsRight ==
  bsPc = "done" =>
    /\ bsKind = "bin_search_first_occurrence" =>
         BsFirst(bsRet, -1, LAMBDA i : bsArr[i] = bsVal)
    /\ bsKind = "bin_search_last_occurrence" =>
         BsLast(bsRet, -1, LAMBDA i : bsArr[i] = bsVal)
    /\ bsKind = "zero_count" =>
         BsFirst(bsRet, bsSize, LAMBDA i : bsArr[i] > 0)
    /\ bsKind = "binsrch_gte" =>
         BsFirst(bsRet, -1, LAMBDA i : bsArr[i] >= bsVal)
    /\ bsKind = "find_interval" =>
         BsLast(bsRet, -1, LAMBDA i : bsArr[i] <= bsVal)
    /\ bsKind = "find_pile" =>
         BsFirst(bsRet, bsSize, LAMBDA i : bsArr[i] > bsVal)
    /\ bsKind = "binary_search" =>
         \/ bsRet = -1 /\ \A i \in BsIndices : bsArr[i] # bsVal
         \/ bsRet \in BsIndices /\ bsArr[bsRet] = bsVal
    /\ bsKind = "bin_search_closest" /\ bsSize > 0 =>
         /\ bsRet \in BsIndices
         /\ \A i \in BsIndices : BsDiff(bsRet) <= BsDiff(i)

\* The elements that are not ruled out yet.
BsLeft == IF bsKind \in BsOpen THEN bsR - bsL - 1 ELSE bsR - bsL + 1

\* "O(log(N))" (merge_intervals/solution.cpp:34): every iteration of every search
\* halves what is left, so that a search of n elements ends after at most
\* log2(n) + 1 of them, and l and r never pass each other.
BsLogarithmic == BsLeft >= 0 /\ bsPow * BsLeft <= bsSize

\* The inductive invariant: the types, "arr[l] < val <= arr[r]" in the terms of
\* each open search (arr[-1] and arr[arr_sz] being the conceptual ends), and for
\* the closed ones that everything outside l..r has been ruled out.
BsTypeOK ==
  /\ bsKind \in BsOpen \cup BsClosed
  /\ bsSize \in 0..BsMax
  /\ bsArr \in [BsIndices -> BsVals]
  /\ bsVal \in BsVals
  /\ bsL \in -1..bsSize /\ bsR \in -1..bsSize
  /\ bsPc \in {"loop", "done"}
  /\ bsRet \in -1..bsSize
  /\ bsPow \in Nat \ {0}

BsLoopInv ==
  /\ BsSorted(bsSize, bsArr)
  /\ bsKind \in BsOpen =>
       /\ bsL < bsR
       /\ \A i \in BsIndices : (i <= bsL => BsBelow(i)) /\ (bsR <= i => ~BsBelow(i))
  /\ bsKind \in BsClosed =>
       /\ bsL >= 0 /\ bsR < bsSize /\ bsL <= bsR + 1
       /\ \A i \in BsIndices :
            (i < bsL => bsArr[i] < bsVal) /\ (bsR < i => bsVal < bsArr[i])

BsInv == BsTypeOK /\ BsLoopInv /\ BsRight /\ BsLogarithmic
=============================================================================
