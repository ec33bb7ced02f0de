------------------------------ MODULE DataProofs ------------------------------
(* Every binary search returns what it promises, for arrays of every length  *)
(* and integer values, after at most log2(n) + 1 iterations; and the buffered *)
(* I/O library loses, repeats and reorders no character, whatever the files,  *)
(* the size of the buffer and the number of streams; and malloc() and free()  *)
(* hand out no unit of the heap twice as long as every block freed still tells *)
(* its size, whatever the size of the heap and of the blocks.                 *)
EXTENDS BinarySearch, Stdio, Malloc, SequenceTheorems, WellFoundedInduction, TLAPS

\* The middle of two indices at least two apart lies strictly between them, and
\* the middle of l <= r lies within them; the halves differ by at most one.
LEMMA BsMidBetween ==
  ASSUME NEW l \in Int, NEW r \in Int, l <= r
  PROVE  LET m == l + (r - l) \div 2
         IN  /\ m \in Int /\ l <= m /\ m <= r /\ (l + 1 < r => l < m /\ m < r)
             /\ 2 * (m - l) <= r - l /\ r - l <= 2 * (m - l) + 1
  OBVIOUS

\* Doubling the count of halvings pays for halving what is left.
LEMMA BsHalved ==
  ASSUME NEW p \in Nat, NEW x \in Nat, NEW y \in Nat, NEW n \in Nat,
         2 * x <= y, p * y <= n
  PROVE  (2 * p) * x <= n
<1>1. y - 2 * x \in Nat OBVIOUS
<1>2. p * (y - 2 * x) >= 0 BY <1>1
<1>3. p * (y - 2 * x) = p * y - (2 * p) * x OBVIOUS
<1>4. p * y \in Int /\ (2 * p) * x \in Int OBVIOUS
<1> QED BY <1>2, <1>3, <1>4

\* The test of an open search holds of everything below an element it holds of:
\* the array is sorted.
LEMMA BsBelowDown ==
  ASSUME BsTypeOK, BsSorted(bsSize, bsArr), bsKind \in BsOpen,
         NEW i \in BsIndices, NEW j \in BsIndices, i <= j, BsBelow(j)
  PROVE  BsBelow(i)
<1>1. bsArr[i] \in Int /\ bsArr[j] \in Int /\ bsVal \in Int /\ bsArr[i] <= bsArr[j]
  BY BsAssumption DEF BsTypeOK, BsSorted, BsIndices
<1>2. bsKind \in {"bin_search_first_occurrence", "bin_search_last_occurrence",
                  "zero_count", "binsrch_gte", "find_interval", "find_pile"}
  BY DEF BsOpen
<1> QED BY <1>1, <1>2 DEF BsBelow

LEMMA BsInitInv == BsInit => BsInv
<1> SUFFICES ASSUME BsInit PROVE BsInv OBVIOUS
<1>1. BsTypeOK
  BY BsAssumption DEF BsInit, BsTypeOK, BsIndices
<1>2. BsLoopInv
  BY BsAssumption DEF BsInit, BsLoopInv, BsIndices, BsOpen, BsClosed
<1>3. BsRight BY DEF BsInit, BsRight
<1>4. BsLogarithmic
  <2>1. bsSize \in Nat BY BsAssumption DEF BsInit
  <2>2. BsLeft = bsSize BY <2>1 DEF BsInit, BsLeft
  <2> QED BY <2>1, <2>2 DEF BsInit, BsLogarithmic
<1> QED BY <1>1, <1>2, <1>3, <1>4 DEF BsInv

\* One iteration of an open search keeps the invariant: it halves r - l - 1.
LEMMA BsHalveInv == BsInv /\ BsHalve => BsInv'
<1> SUFFICES ASSUME BsInv, BsHalve PROVE BsInv' OBVIOUS
<1> USE BsAssumption
<1> DEFINE m == BsMid
<1>0. BsTypeOK /\ BsLoopInv /\ bsKind \in BsOpen /\ bsKind \notin BsClosed /\ bsPc = "loop"
  BY DEF BsInv, BsHalve, BsOpen, BsClosed
<1>1. /\ bsL \in Int /\ bsR \in Int /\ bsSize \in Nat /\ bsL < bsR /\ bsL >= -1
      /\ bsR <= bsSize /\ bsL + 1 # bsR
  BY <1>0 DEF BsTypeOK, BsLoopInv, BsHalve
<1>2. /\ m \in Int /\ bsL < m /\ m < bsR
      /\ 2 * (m - bsL) <= bsR - bsL /\ bsR - bsL <= 2 * (m - bsL) + 1
  BY <1>1, BsMidBetween DEF BsMid
<1>3. m \in BsIndices
  BY <1>1, <1>2 DEF BsIndices
<1>4. bsL' \in {bsL, m} /\ bsR' \in {m, bsR} /\ bsL' < bsR'
  BY <1>1, <1>2 DEF BsHalve
<1>5. UNCHANGED <<bsKind, bsSize, bsArr, bsVal, bsPc, bsRet>> /\ bsPow' = 2 * bsPow
  BY DEF BsHalve
<1>6. BsTypeOK'
  BY <1>0, <1>1, <1>2, <1>4, <1>5 DEF BsTypeOK, BsIndices
<1>7. ASSUME NEW i \in BsIndices
      PROVE  (i <= bsL' => BsBelow(i)) /\ (bsR' <= i => ~BsBelow(i))
  <2>0. i \in Int BY <1>1 DEF BsIndices
  <2>1. CASE BsBelow(m)
    <3>1. bsL' = m /\ bsR' = bsR BY <2>1 DEF BsHalve
    <3>2. i <= m => BsBelow(i)
      BY <1>0, <1>3, <2>1, BsBelowDown DEF BsLoopInv
    <3> QED BY <1>0, <3>1, <3>2 DEF BsLoopInv
  <2>2. CASE ~BsBelow(m)
    <3>1. bsL' = bsL /\ bsR' = m BY <2>2 DEF BsHalve
    <3>2. m <= i => ~BsBelow(i)
      BY <1>0, <1>3, <2>2, BsBelowDown DEF BsLoopInv
    <3> QED BY <1>0, <3>1, <3>2 DEF BsLoopInv
  <2> QED BY <2>1, <2>2
<1>8. BsLoopInv'
  <2>1. BsSorted(bsSize, bsArr)' BY <1>0, <1>5 DEF BsLoopInv, BsSorted
  <2>2. \A i \in BsIndices' : BsBelow(i)' = BsBelow(i)
    BY <1>5 DEF BsBelow
  <2>3. BsIndices' = BsIndices BY <1>5 DEF BsIndices
  <2> QED BY <1>0, <1>4, <1>5, <1>7, <2>1, <2>2, <2>3 DEF BsLoopInv
<1>9. BsRight' BY <1>0, <1>5 DEF BsRight
<1>10. BsLogarithmic'
  <2> HIDE DEF m
  <2>1. (bsL' = m /\ bsR' = bsR) \/ (bsL' = bsL /\ bsR' = m) BY DEF BsHalve, m
  <2>2. BsLeft = bsR - bsL - 1 /\ BsLeft' = bsR' - bsL' - 1 BY <1>0, <1>5 DEF BsLeft
  <2>3. BsLeft \in Nat /\ BsLeft' \in Nat /\ 2 * BsLeft' <= BsLeft
    BY <1>1, <1>2, <2>1, <2>2
  <2>4. bsPow \in Nat /\ bsPow * BsLeft <= bsSize
    BY <1>0 DEF BsTypeOK, BsInv, BsLogarithmic
  <2>5. (2 * bsPow) * BsLeft' <= bsSize BY <1>1, <2>3, <2>4, BsHalved
  <2> QED BY <1>5, <2>3, <2>5 DEF BsLogarithmic
<1> QED BY <1>6, <1>8, <1>9, <1>10 DEF BsInv

\* An open search that ends answers right: everything up to l passes the test,
\* everything from r = l+1 on fails it.
LEMMA BsStopInv == BsInv /\ BsStop => BsInv'
<1> SUFFICES ASSUME BsInv, BsStop PROVE BsInv' OBVIOUS
<1> USE BsAssumption
<1>0. BsTypeOK /\ BsLoopInv /\ bsKind \in BsOpen /\ bsKind \notin BsClosed
  BY DEF BsInv, BsStop, BsOpen, BsClosed
<1>1. /\ bsL \in Int /\ bsR \in Int /\ bsSize \in Nat /\ bsR = bsL + 1 /\ bsL >= -1
      /\ bsR <= bsSize /\ bsVal \in Int
  BY <1>0 DEF BsTypeOK, BsLoopInv, BsStop
<1>2. \A i \in BsIndices : i \in Int /\ bsArr[i] \in Int
  <2> TAKE i \in BsIndices
  <2>1. i \in Int BY <1>1 DEF BsIndices
  <2>2. bsArr[i] \in BsVals BY <1>0 DEF BsTypeOK
  <2> QED BY <2>1, <2>2
<1>17. \A i, j \in BsIndices : i <= j => bsArr[i] <= bsArr[j]
  BY <1>0 DEF BsLoopInv, BsSorted, BsIndices
<1>12. \A i \in BsIndices : (i <= bsL => BsBelow(i)) /\ (bsR <= i => ~BsBelow(i))
  BY <1>0 DEF BsLoopInv
<1>3. UNCHANGED <<bsKind, bsSize, bsArr, bsVal, bsL, bsR, bsPow>>
      /\ bsPc' = "done" /\ bsRet' = BsAnswer
  BY DEF BsStop
<1>4. bsL # -1 => bsL \in BsIndices
  BY <1>1 DEF BsIndices
<1>5. bsR # bsSize => bsR \in BsIndices
  BY <1>1 DEF BsIndices
<1>6. ASSUME bsKind = "bin_search_first_occurrence"
      PROVE  BsAnswer \in -1..bsSize /\ BsFirst(BsAnswer, -1, LAMBDA i : bsArr[i] = bsVal)
  <2>1. BsAnswer = IF bsR = bsSize THEN -1 ELSE IF bsArr[bsR] # bsVal THEN -1 ELSE bsR BY <1>6 DEF BsAnswer
  <2>2. \A i \in BsIndices : BsBelow(i) <=> bsArr[i] < bsVal BY <1>6, <1>1, <1>2 DEF BsBelow
  <2> QED BY <2>1, <2>2, <1>1, <1>2, <1>12, <1>17, <1>4, <1>5 DEF BsFirst, BsIndices
<1>7. ASSUME bsKind = "binsrch_gte"
      PROVE  BsAnswer \in -1..bsSize /\ BsFirst(BsAnswer, -1, LAMBDA i : bsArr[i] >= bsVal)
  <2>1. BsAnswer = IF bsL + 1 = bsSize THEN -1 ELSE bsL + 1 BY <1>7 DEF BsAnswer
  <2>2. \A i \in BsIndices : BsBelow(i) <=> bsArr[i] < bsVal BY <1>7, <1>1, <1>2 DEF BsBelow
  <2> QED BY <2>1, <2>2, <1>1, <1>2, <1>12, <1>17, <1>4, <1>5 DEF BsFirst, BsIndices
<1>8. ASSUME bsKind = "zero_count"
      PROVE  BsAnswer \in -1..bsSize /\ BsFirst(BsAnswer, bsSize, LAMBDA i : bsArr[i] > 0)
  <2>1. BsAnswer = bsR BY <1>8 DEF BsAnswer
  <2>2. \A i \in BsIndices : BsBelow(i) <=> bsArr[i] <= 0 BY <1>8, <1>1, <1>2 DEF BsBelow
  <2> QED BY <2>1, <2>2, <1>1, <1>2, <1>12, <1>17, <1>4, <1>5 DEF BsFirst, BsIndices
<1>9. ASSUME bsKind = "find_pile"
      PROVE  BsAnswer \in -1..bsSize /\ BsFirst(BsAnswer, bsSize, LAMBDA i : bsArr[i] > bsVal)
  <2>1. BsAnswer = bsR BY <1>9 DEF BsAnswer
  <2>2. \A i \in BsIndices : BsBelow(i) <=> bsArr[i] <= bsVal BY <1>9, <1>1, <1>2 DEF BsBelow
  <2> QED BY <2>1, <2>2, <1>1, <1>2, <1>12, <1>17, <1>4, <1>5 DEF BsFirst, BsIndices
<1>10. ASSUME bsKind = "bin_search_last_occurrence"
      PROVE  BsAnswer \in -1..bsSize /\ BsLast(BsAnswer, -1, LAMBDA i : bsArr[i] = bsVal)
  <2>1. BsAnswer = IF bsL = -1 THEN -1 ELSE IF bsArr[bsL] # bsVal THEN -1 ELSE bsL BY <1>10 DEF BsAnswer
  <2>2. \A i \in BsIndices : BsBelow(i) <=> ~(bsVal < bsArr[i]) BY <1>10, <1>1, <1>2 DEF BsBelow
  <2> QED BY <2>1, <2>2, <1>1, <1>2, <1>12, <1>17, <1>4, <1>5 DEF BsLast, BsIndices
<1>11. ASSUME bsKind = "find_interval"
      PROVE  BsAnswer \in -1..bsSize /\ BsLast(BsAnswer, -1, LAMBDA i : bsArr[i] <= bsVal)
  <2>1. BsAnswer = IF bsL = -1 THEN -1 ELSE IF bsArr[bsL] > bsVal THEN -1 ELSE bsL BY <1>11 DEF BsAnswer
  <2>2. \A i \in BsIndices : BsBelow(i) <=> bsArr[i] <= bsVal BY <1>11, <1>1, <1>2 DEF BsBelow
  <2> QED BY <2>1, <2>2, <1>1, <1>2, <1>12, <1>17, <1>4, <1>5 DEF BsLast, BsIndices
<1>13. bsKind \in {"bin_search_first_occurrence", "bin_search_last_occurrence",
                   "zero_count", "binsrch_gte", "find_interval", "find_pile"}
  BY <1>0 DEF BsOpen
<1>14. BsTypeOK'
  <2>1. BsAnswer \in -1..bsSize BY <1>6, <1>7, <1>8, <1>9, <1>10, <1>11, <1>13
  <2> QED BY <2>1, <1>0, <1>3 DEF BsTypeOK, BsIndices
<1>15. BsLoopInv'
  <2>1. BsIndices' = BsIndices BY <1>3 DEF BsIndices
  <2>2. \A i \in BsIndices : BsBelow(i)' = BsBelow(i) BY <1>3 DEF BsBelow
  <2> QED BY <1>0, <1>3, <2>1, <2>2 DEF BsLoopInv, BsSorted
<1>16. BsRight'
  <2>1. BsIndices' = BsIndices BY <1>3 DEF BsIndices
  <2> QED BY <2>1, <1>3, <1>6, <1>7, <1>8, <1>9, <1>10, <1>11, <1>13
          DEF BsRight, BsFirst, BsLast
<1>18. BsLogarithmic' BY <1>3 DEF BsInv, BsLogarithmic, BsLeft
<1> QED BY <1>14, <1>15, <1>16, <1>18 DEF BsInv

\* One iteration of a closed search keeps the invariant: it halves r - l + 1, or
\* has met val.
LEMMA BsProbeInv == BsInv /\ BsProbe => BsInv'
<1> SUFFICES ASSUME BsInv, BsProbe PROVE BsInv' OBVIOUS
<1> USE BsAssumption
<1>0. BsTypeOK /\ BsLoopInv /\ bsKind \in BsClosed /\ bsKind \notin BsOpen
  BY DEF BsInv, BsProbe, BsOpen, BsClosed
<1>1. /\ bsL \in Int /\ bsR \in Int /\ bsSize \in Nat /\ bsL <= bsR /\ bsL >= 0
      /\ bsR < bsSize /\ bsVal \in Int
  <2>1. bsL \in Int /\ bsR \in Int /\ bsSize \in Nat /\ bsVal \in Int BY <1>0 DEF BsTypeOK
  <2>2. bsL >= 0 /\ bsR < bsSize BY <1>0 DEF BsLoopInv
  <2>3. bsL <= bsR BY DEF BsProbe
  <2> QED BY <2>1, <2>2, <2>3
<1> DEFINE m == BsMid
<1>2. /\ m \in Int /\ bsL <= m /\ m <= bsR
      /\ 2 * (m - bsL) <= bsR - bsL /\ bsR - bsL <= 2 * (m - bsL) + 1
  BY <1>1, BsMidBetween DEF BsMid
<1>3. m \in BsIndices
  BY <1>1, <1>2 DEF BsIndices
<1>4. \A i \in BsIndices : i \in Int /\ bsArr[i] \in Int
  <2> TAKE i \in BsIndices
  <2>1. i \in Int BY <1>1 DEF BsIndices
  <2>2. bsArr[i] \in BsVals BY <1>0 DEF BsTypeOK
  <2> QED BY <2>1, <2>2
<1>5. \A i, j \in BsIndices : i <= j => bsArr[i] <= bsArr[j]
  BY <1>0 DEF BsLoopInv, BsSorted, BsIndices
<1>6. \A i \in BsIndices : (i < bsL => bsArr[i] < bsVal) /\ (bsR < i => bsVal < bsArr[i])
  BY <1>0 DEF BsLoopInv
<1>7. UNCHANGED <<bsKind, bsSize, bsArr, bsVal>>
  BY DEF BsProbe
<1>8. BsIndices' = BsIndices /\ BsSorted(bsSize, bsArr)'
  BY <1>0, <1>7 DEF BsIndices, BsSorted, BsLoopInv
<1>12. BsLeft = bsR - bsL + 1 /\ BsLeft' = bsR' - bsL' + 1
  BY <1>0, <1>7 DEF BsLeft
<1>13. bsPow \in Nat \ {0} /\ bsPow * BsLeft <= bsSize
  BY <1>0 DEF BsTypeOK, BsInv, BsLogarithmic
<1> HIDE DEF m
<1>9. CASE bsArr[m] = bsVal /\ bsPc' = "done" /\ bsRet' = m /\ UNCHANGED <<bsL, bsR, bsPow>>
  <2>1. BsTypeOK' BY <1>0, <1>1, <1>2, <1>7, <1>9 DEF BsTypeOK, BsIndices
  <2>2. BsLoopInv' BY <1>0, <1>6, <1>7, <1>8, <1>9 DEF BsLoopInv
  <2>3. BsDiff(m) = 0 /\ \A i \in BsIndices : 0 <= BsDiff(i)
    BY <1>1, <1>3, <1>4, <1>9 DEF BsDiff
  <2>4. \A i \in BsIndices : BsDiff(i)' = BsDiff(i) BY <1>7 DEF BsDiff
  <2>5. BsDiff(bsRet)' = BsDiff(m) BY <1>7, <1>9 DEF BsDiff
  <2>6. BsRight'
    <3>1. bsKind \in {"binary_search", "bin_search_closest"} BY <1>0 DEF BsClosed
    <3> QED BY <3>1, <2>3, <2>4, <2>5, <1>3, <1>7, <1>8, <1>9 DEF BsRight
  <2>7. BsLogarithmic' BY <1>7, <1>9 DEF BsInv, BsLogarithmic, BsLeft
  <2> QED BY <2>1, <2>2, <2>6, <2>7 DEF BsInv
<1>10. CASE bsArr[m] < bsVal /\ bsL' = m + 1 /\ bsPow' = 2 * bsPow /\ UNCHANGED <<bsR, bsPc, bsRet>>
  <2>1. BsTypeOK' BY <1>0, <1>1, <1>2, <1>7, <1>10 DEF BsTypeOK, BsIndices
  <2>2. \A i \in BsIndices : i < m + 1 => bsArr[i] < bsVal
    BY <1>1, <1>2, <1>3, <1>4, <1>5, <1>10
  <2>3. BsLoopInv' BY <1>0, <1>1, <1>2, <1>6, <1>7, <1>8, <1>10, <2>2 DEF BsLoopInv
  <2>4. BsRight' BY <1>7, <1>10 DEF BsRight, BsProbe
  <2>5. BsLeft \in Nat /\ BsLeft' \in Nat /\ 2 * BsLeft' <= BsLeft
    BY <1>1, <1>2, <1>10, <1>12
  <2>6. (2 * bsPow) * BsLeft' <= bsSize BY <1>1, <1>13, <2>5, BsHalved
  <2>7. BsLogarithmic' BY <1>7, <1>10, <2>5, <2>6 DEF BsLogarithmic
  <2> QED BY <2>1, <2>3, <2>4, <2>7 DEF BsInv
<1>11. CASE bsArr[m] > bsVal /\ bsR' = m - 1 /\ bsPow' = 2 * bsPow /\ UNCHANGED <<bsL, bsPc, bsRet>>
  <2>1. BsTypeOK' BY <1>0, <1>1, <1>2, <1>7, <1>11 DEF BsTypeOK, BsIndices
  <2>2. \A i \in BsIndices : m - 1 < i => bsVal < bsArr[i]
    BY <1>1, <1>2, <1>3, <1>4, <1>5, <1>11
  <2>3. BsLoopInv' BY <1>0, <1>1, <1>2, <1>6, <1>7, <1>8, <1>11, <2>2 DEF BsLoopInv
  <2>4. BsRight' BY <1>7, <1>11 DEF BsRight, BsProbe
  <2>5. BsLeft \in Nat /\ BsLeft' \in Nat /\ 2 * BsLeft' <= BsLeft
    BY <1>1, <1>2, <1>11, <1>12
  <2>6. (2 * bsPow) * BsLeft' <= bsSize BY <1>1, <1>13, <2>5, BsHalved
  <2>7. BsLogarithmic' BY <1>7, <1>11, <2>5, <2>6 DEF BsLogarithmic
  <2> QED BY <2>1, <2>3, <2>4, <2>7 DEF BsInv
<1> QED BY <1>9, <1>10, <1>11 DEF BsProbe, m

\* A closed search that ends without val has ruled out every element, and the
\* closest one is beside the place where l and r met.
LEMMA BsMissInv == BsInv /\ BsMiss => BsInv'
<1> SUFFICES ASSUME BsInv, BsMiss PROVE BsInv' OBVIOUS
<1> USE BsAssumption
<1>0. BsTypeOK /\ BsLoopInv /\ bsKind \in BsClosed /\ bsKind \notin BsOpen
  BY DEF BsInv, BsMiss, BsOpen, BsClosed
<1>1. /\ bsL \in Int /\ bsR \in Int /\ bsSize \in Nat /\ bsL = bsR + 1 /\ bsL >= 0
      /\ bsR < bsSize /\ bsVal \in Int
  BY <1>0 DEF BsTypeOK, BsLoopInv, BsMiss
<1>2. \A i \in BsIndices : i \in Int /\ bsArr[i] \in Int
  <2> TAKE i \in BsIndices
  <2>1. i \in Int BY <1>1 DEF BsIndices
  <2>2. bsArr[i] \in BsVals BY <1>0 DEF BsTypeOK
  <2> QED BY <2>1, <2>2
<1>3. \A i, j \in BsIndices : i <= j => bsArr[i] <= bsArr[j]
  BY <1>0 DEF BsLoopInv, BsSorted, BsIndices
<1>4. \A i \in BsIndices : (i < bsL => bsArr[i] < bsVal) /\ (bsR < i => bsVal < bsArr[i])
  BY <1>0 DEF BsLoopInv
<1>5. UNCHANGED <<bsKind, bsSize, bsArr, bsVal, bsL, bsR, bsPow>> /\ bsPc' = "done"
  BY DEF BsMiss
<1>6. BsIndices' = BsIndices /\ BsSorted(bsSize, bsArr)'
  BY <1>0, <1>5 DEF BsIndices, BsSorted, BsLoopInv
<1>7. bsRet' \in -1..bsSize
  BY <1>1 DEF BsMiss
<1>8. bsKind = "binary_search" => bsRet' = -1 /\ \A i \in BsIndices : bsArr[i] # bsVal
  <2>1. \A i \in BsIndices : i < bsL \/ bsR < i BY <1>1, <1>2
  <2> QED BY <2>1, <1>1, <1>2, <1>4 DEF BsMiss
<1>9. ASSUME bsKind = "bin_search_closest", bsSize > 0
      PROVE  bsRet' \in BsIndices /\ \A i \in BsIndices : BsDiff(bsRet') <= BsDiff(i)
  <2>1. bsRet' = IF bsL < bsSize /\ bsR >= 0
                 THEN IF BsDiff(bsL) < BsDiff(bsR) THEN bsL ELSE bsR
                 ELSE IF bsL = bsSize THEN bsR ELSE bsL
    BY <1>9 DEF BsMiss
  <2>2. bsRet' \in BsIndices
    BY <2>1, <1>1, <1>9 DEF BsIndices
  <2>3. \A i \in BsIndices : BsDiff(i) \in Int
    BY <1>1, <1>2 DEF BsDiff
  <2>4. \A i \in BsIndices : i < bsL => bsR \in BsIndices /\ BsDiff(bsR) <= BsDiff(i)
    <3> TAKE i \in BsIndices
    <3> HAVE i < bsL
    <3>1. bsR \in BsIndices /\ i <= bsR BY <1>1, <1>2 DEF BsIndices
    <3>2. bsArr[i] <= bsArr[bsR] /\ bsArr[bsR] < bsVal BY <3>1, <1>1, <1>3, <1>4
    <3> QED BY <3>1, <3>2, <1>1, <1>2 DEF BsDiff
  <2>5. \A i \in BsIndices : bsR < i => bsL \in BsIndices /\ BsDiff(bsL) <= BsDiff(i)
    <3> TAKE i \in BsIndices
    <3> HAVE bsR < i
    <3>1. bsL \in BsIndices /\ bsL <= i BY <1>1, <1>2 DEF BsIndices
    <3>2. bsArr[bsL] <= bsArr[i] /\ bsVal < bsArr[bsL] BY <3>1, <1>1, <1>3, <1>4
    <3> QED BY <3>1, <3>2, <1>1, <1>2 DEF BsDiff
  <2>6. ASSUME NEW i \in BsIndices PROVE BsDiff(bsRet') <= BsDiff(i)
    <3>1. i < bsL \/ bsR < i BY <1>1, <1>2
    <3>2. BsDiff(i) \in Int /\ i \in 0..bsSize - 1 BY <2>3 DEF BsIndices
    <3>3. CASE bsL < bsSize /\ bsR >= 0
      <4>1. bsL \in BsIndices /\ bsR \in BsIndices BY <3>3, <1>1 DEF BsIndices
      <4>2. BsDiff(bsL) \in Int /\ BsDiff(bsR) \in Int BY <4>1, <2>3
      <4>3. BsDiff(bsL) <= BsDiff(i) \/ BsDiff(bsR) <= BsDiff(i) BY <3>1, <2>4, <2>5
      <4> QED BY <4>2, <4>3, <3>2, <3>3, <2>1
    <3>4. CASE bsL = bsSize
      <4>1. i < bsL BY <3>2, <3>4, <1>1
      <4>2. bsRet' = bsR BY <2>1, <3>4, <1>1
      <4> QED BY <4>1, <4>2, <2>4
    <3>5. CASE bsR < 0
      <4>1. bsR < i BY <3>2, <3>5, <1>1
      <4>2. bsRet' = bsL BY <2>1, <3>5, <1>1, <1>9
      <4> QED BY <4>1, <4>2, <2>5
    <3> QED BY <3>3, <3>4, <3>5, <1>1
  <2> QED BY <2>2, <2>6
<1>10. BsTypeOK' BY <1>0, <1>5, <1>7 DEF BsTypeOK, BsIndices
<1>11. BsLoopInv' BY <1>0, <1>5, <1>6 DEF BsLoopInv
<1>12. BsRight'
  <2>1. bsKind \in {"binary_search", "bin_search_closest"} BY <1>0 DEF BsClosed
  <2>2. \A i \in BsIndices : BsDiff(i)' = BsDiff(i) BY <1>5 DEF BsDiff
  <2>3. BsDiff(bsRet)' = BsDiff(bsRet') BY <1>5 DEF BsDiff
  <2> QED BY <2>1, <2>2, <2>3, <1>5, <1>6, <1>8, <1>9 DEF BsRight
<1>13. BsLogarithmic' BY <1>5 DEF BsInv, BsLogarithmic, BsLeft
<1> QED BY <1>10, <1>11, <1>12, <1>13 DEF BsInv
----------------------------------------------------------------------------
\* Every step keeps the invariant.
LEMMA BsStepInv == BsInv /\ [BsNext]_bsVars => BsInv'
<1>1. BsInv /\ UNCHANGED bsVars => BsInv'
  BY DEF BsInv, BsTypeOK, BsLoopInv, BsRight, BsSorted, BsIndices, BsBelow, BsDiff,
         BsFirst, BsLast, BsLogarithmic, BsLeft, bsVars
<1> QED BY <1>1, BsHalveInv, BsStopInv, BsProbeInv, BsMissInv DEF BsNext, BsStep

\* Every binary search of the repository returns what its comment promises, for
\* sorted arrays of every length.
THEOREM BsCorrect == BsSpec => []BsRight
<1>1. BsSpec => []BsInv BY BsInitInv, BsStepInv, PTL DEF BsSpec
<1>2. BsInv => BsRight BY DEF BsInv
<1> QED BY <1>1, <1>2, PTL

\* Every search of n elements ends after at most log2(n) + 1 iterations, and its
\* bounds never pass each other, for arrays of every length.
THEOREM BsEndsEarly == BsSpec => []BsLogarithmic
<1>1. BsSpec => []BsInv BY BsInitInv, BsStepInv, PTL DEF BsSpec
<1>2. BsInv => BsLogarithmic BY DEF BsInv
<1> QED BY <1>1, <1>2, PTL

----------------------------------------------------------------------------
(* The buffered I/O library.                                               *)

\* A set of naturals has a least member.
LEMMA NatLeast ==
  ASSUME NEW T, T \subseteq Nat, T # {}
  PROVE  \E x \in T : \A y \in T : x <= y
<1> DEFINE R == OpToRel(<, Nat)
<1>1. IsWellFoundedOn(R, Nat)
  BY NatLessThanWellFounded, Zenon
<1>2. \A y, x \in Nat : <<y, x>> \in R <=> y < x
  BY Zenon DEF OpToRel
<1> HIDE DEF R
<1>3. PICK x \in T : \A y \in T : ~ (<<y, x>> \in R)
  BY <1>1, WFMin
<1>4. \A y \in T : x <= y
  <2> TAKE y \in T
  <2>1. y \in Nat /\ x \in Nat /\ ~(y < x)
    BY <1>2, <1>3
  <2> QED
    BY <2>1
<1> QED
  BY <1>4

\* What a slot of iob[] and the rest of the state look like at any time.
IoFlags == {"READ", "WRITE", "UNBUF", "EOF", "ERR"}
IoStream ==
  [flags : SUBSET IoFlags, buff_cnt : Int, next : Nat, buff : Seq(Nat),
   last_op : {"none", "READ", "WRITE"}]
IoType ==
  /\ iob \in [1..OPEN_MAX -> IoStream] /\ ioFile \in [1..OPEN_MAX -> Seq(Nat)]
  /\ ioPc \in {"getc", "putc", "flush", "fopen", "closed", "failed", "crashed"}
  /\ \E r, w \in 1..OPEN_MAX : r # w /\ ioPair = <<r, w>>
  /\ ioRead \in Seq(Nat) /\ ioChar \in Nat \cup {EOF} /\ (ioPc = "putc" => ioChar \in Nat)
  /\ ioFault \in BOOLEAN

\* What getc() left in a buffer ends where the read() that filled it ended; of a
\* stream being written, next is the number of characters that wait; and while
\* nothing failed such a stream only knows WRITE, has a full buffer's room less
\* what waits (or no buffer yet), and flushes what waits because its last
\* operation was a putc(). The invariant: the two streams of the running copy are
\* such streams, and what was read is what was written, what waits and the
\* character in hand.
IoReads(f) == f.buff_cnt > 0 => f.next + f.buff_cnt = Len(f.buff)
IoHolds(f) == Len(f.buff) = f.next
IoWrites(f) ==
  /\ f.flags = {"WRITE"}
  /\ (f.next = 0 /\ f.buff_cnt = 0) \/ (f.next + f.buff_cnt = BUFF_SIZE /\ f.buff_cnt >= 0)
  /\ f.next > 0 => f.last_op = "WRITE"
  /\ ioPc \in {"fopen", "closed", "failed"} => f.next = 0
IoInv ==
  /\ IoType /\ IoReads(iob[ioPair[1]]) /\ IoHolds(iob[ioPair[2]])
  /\ ~ioFault =>
       LET w == ioPair[2] IN
       /\ IoWrites(iob[w])
       /\ ioRead = ioFile[w] \o iob[w].buff \o (IF ioPc = "putc" THEN <<ioChar>> ELSE <<>>)

\* While nothing failed, room in the stream being written means a buffer.
IoNull ==
  ~ioFault =>
    /\ ioPc # "crashed"
    /\ LET w == ioPair[2] IN iob[w].next > 0 \/ iob[w].buff_cnt > 0 => w \in ioBuffers

\* The fields of a stream that was read from or written to.
LEMMA IoGot ==
  ASSUME NEW f \in IoStream
  PROVE  /\ Getc(f).flags = f.flags /\ Getc(f).buff = f.buff
         /\ Getc(f).next = f.next + 1 /\ Getc(f).buff_cnt = f.buff_cnt - 1
         /\ Getc(f) \in IoStream
<1>1. f.buff_cnt - 1 \in Int /\ f.next + 1 \in Nat
  BY DEF IoStream
<1>2. Getc(f) \in IoStream
  BY <1>1, Zenon DEF Getc, IoStream
<1> QED
  BY <1>2 DEF IoStream, Getc

LEMMA IoFill ==
  ASSUME NEW f \in IoStream, NEW g \in Seq(Nat)
  PROVE  /\ Filled(f, g).flags = f.flags /\ Filled(f, g).buff = g
         /\ Filled(f, g).next = 0 /\ Filled(f, g).buff_cnt = Len(g)
         /\ Filled(f, g) \in IoStream
<1>1. Len(g) \in Int /\ 0 \in Nat
  OBVIOUS
<1>2. Filled(f, g) \in IoStream
  BY <1>1, Zenon DEF Filled, IoStream
<1> QED
  BY <1>2 DEF IoStream, Filled

LEMMA IoPut ==
  ASSUME NEW f \in IoStream, NEW c \in Nat
  PROVE  /\ Put(f, c).flags = f.flags /\ Put(f, c).buff = Append(f.buff, c)
         /\ Put(f, c).next = f.next + 1 /\ Put(f, c).buff_cnt = f.buff_cnt - 1
         /\ Put(f, c).last_op = "WRITE" /\ Put(f, c) \in IoStream
<1>1. f.buff_cnt - 1 \in Int /\ f.next + 1 \in Nat /\ Append(f.buff, c) \in Seq(Nat)
  BY DEF IoStream
<1>2. Put(f, c) \in IoStream
  BY <1>1, Zenon DEF Put, IoStream
<1> QED
  BY <1>2 DEF IoStream, Put

LEMMA IoEmptied ==
  ASSUME NEW f \in IoStream
  PROVE  /\ Emptied(f).flags = f.flags /\ Emptied(f).buff = << >> /\ Emptied(f).next = 0
         /\ Emptied(f).buff_cnt = BUFF_SIZE /\ Emptied(f).last_op = "WRITE"
         /\ Emptied(f) \in IoStream
<1>1. BUFF_SIZE \in Int /\ 0 \in Nat /\ << >> \in Seq(Nat)
  BY StdioAssumption
<1>2. Emptied(f) \in IoStream
  BY <1>1, Zenon DEF Emptied, IoStream
<1> QED
  BY <1>2 DEF IoStream, Emptied

\* A stream never opened, or just opened.
LEMMA IoNone == NoStream \in IoStream
  BY DEF NoStream, IoStream, IoFlags

LEMMA IoOpened ==
  ASSUME NEW fl \in SUBSET IoFlags
  PROVE  /\ Opened(fl) \in IoStream /\ Opened(fl).flags = fl /\ Opened(fl).buff_cnt = 0
         /\ Opened(fl).next = 0 /\ Opened(fl).buff = << >>
<1>1. Opened(fl) \in IoStream
  BY IoNone, Zenon DEF Opened, IoStream
<1> QED
  BY <1>1, IoNone DEF Opened, NoStream, IoStream

\* A character passes from the hand into the buffer, and the buffer into the file.
LEMMA IoMoves ==
  ASSUME NEW a \in Seq(Nat), NEW b \in Seq(Nat), NEW c \in Nat
  PROVE  /\ Append(a \o b \o << >>, c) = a \o b \o <<c>>
         /\ a \o Append(b, c) \o << >> = a \o b \o <<c>>
         /\ (a \o b) \o <<c>> \o << >> = a \o b \o <<c>>
         /\ (a \o b) \o << >> \o << >> = a \o b \o << >>
         /\ a \o b \in Seq(Nat) /\ a \o b \o << >> = a \o b
<1>1. <<c>> \in Seq(Nat) /\ << >> \in Seq(Nat)
  OBVIOUS
<1>2. \A u \in Seq(Nat) : u \o << >> = u /\ Append(u, c) = u \o <<c>>
  BY AppendIsConcat, ConcatEmptySeq
<1>3. a \o b \in Seq(Nat) /\ b \o <<c>> \in Seq(Nat) /\ a \o (b \o <<c>>) = (a \o b) \o <<c>>
      /\ (a \o b) \o <<c>> \in Seq(Nat)
  BY <1>1, ConcatProperties, ConcatAssociative
<1> HIDE <1>1
<1> QED
  BY <1>2, <1>3

LEMMA IoInitInv == IoInit => IoInv
<1> SUFFICES ASSUME IoInit PROVE IoInv
  OBVIOUS
<1>a. OPEN_MAX \in Nat /\ OPEN_MAX >= 3 /\ IoInput \in Seq(Nat) /\ EOF = -1
  BY StdioAssumption DEF EOF
<1>2. /\ {"READ"} \in SUBSET IoFlags /\ {"WRITE"} \in SUBSET IoFlags
      /\ {"WRITE", "UNBUF"} \in SUBSET IoFlags
  BY DEF IoFlags
<1>1. /\ Opened({"READ"}) \in IoStream /\ Opened({"WRITE"}) \in IoStream
      /\ Opened({"WRITE", "UNBUF"}) \in IoStream /\ NoStream \in IoStream
      /\ Opened({"READ"}).buff_cnt = 0 /\ Opened({"WRITE"}).flags = {"WRITE"}
      /\ Opened({"WRITE"}).buff_cnt = 0 /\ Opened({"WRITE"}).next = 0
      /\ Opened({"WRITE"}).buff = << >>
  BY <1>2, IoOpened, IoNone
<1>3. iob \in [1..OPEN_MAX -> IoStream] /\ iob[1] = Opened({"READ"}) /\ iob[2] = Opened({"WRITE"})
  BY <1>1, <1>a DEF IoInit
<1>4. ioFile \in [1..OPEN_MAX -> Seq(Nat)] /\ ioFile[2] = << >>
  BY <1>a DEF IoInit
<1>5. IoType
  <2>1. 1 \in 1..OPEN_MAX /\ 2 \in 1..OPEN_MAX
    BY <1>a
  <2>2. \E r, w \in 1..OPEN_MAX : r # w /\ ioPair = <<r, w>>
    BY <2>1 DEF IoInit
  <2> QED
    BY <1>3, <1>4, <2>2, <1>a DEF IoInit, IoType
<1>6. ioPair[1] = 1 /\ ioPair[2] = 2 /\ ioPc = "getc" /\ ioRead = << >>
  BY DEF IoInit
<1>7. IoReads(iob[ioPair[1]]) /\ IoWrites(iob[ioPair[2]]) /\ IoHolds(iob[ioPair[2]])
  BY <1>1, <1>3, <1>6 DEF IoReads, IoWrites, IoHolds
<1>8. ioRead = ioFile[2] \o iob[2].buff \o << >>
  <2>1. iob[2].buff = << >>
    BY <1>1, <1>3
  <2>2. << >> \o << >> \o << >> = << >>
    OBVIOUS
  <2> QED
    BY <1>4, <1>6, <2>1, <2>2
<1> QED
  BY <1>5, <1>6, <1>7, <1>8 DEF IoInv

\* The two streams of the copy loop.
LEMMA IoParts ==
  ASSUME IoInv
  PROVE  \E r, w \in 1..OPEN_MAX :
           /\ r # w /\ ioPair = <<r, w>> /\ ioPair[1] = r /\ ioPair[2] = w
           /\ iob[r] \in IoStream /\ iob[w] \in IoStream
           /\ ioFile[r] \in Seq(Nat) /\ ioFile[w] \in Seq(Nat)
           /\ IoReads(iob[r]) /\ Len(iob[w].buff) = iob[w].next
           /\ ~ioFault => /\ IoWrites(iob[w])
                          /\ ioRead = ioFile[w] \o iob[w].buff \o
                                      (IF ioPc = "putc" THEN <<ioChar>> ELSE << >>)
<1>1. PICK r, w \in 1..OPEN_MAX : r # w /\ ioPair = <<r, w>>
  BY DEF IoInv, IoType
<1>2. ioPair[1] = r /\ ioPair[2] = w
  BY <1>1
<1>3. /\ iob[r] \in IoStream /\ iob[w] \in IoStream
      /\ ioFile[r] \in Seq(Nat) /\ ioFile[w] \in Seq(Nat)
  BY DEF IoInv, IoType
<1>4. /\ IoReads(iob[r]) /\ Len(iob[w].buff) = iob[w].next
      /\ ~ioFault => /\ IoWrites(iob[w])
                     /\ ioRead = ioFile[w] \o iob[w].buff \o
                                 (IF ioPc = "putc" THEN <<ioChar>> ELSE << >>)
  BY <1>2 DEF IoInv, IoHolds
<1> QED
  BY <1>1, <1>2, <1>3, <1>4

\* What the invariant asks of a step, for the two streams after it.
LEMMA IoAfter ==
  ASSUME NEW r \in 1..OPEN_MAX, NEW w \in 1..OPEN_MAX, r # w, ioPair' = <<r, w>>,
         iob' \in [1..OPEN_MAX -> IoStream], ioFile' \in [1..OPEN_MAX -> Seq(Nat)],
         ioPc' \in {"getc", "putc", "flush", "fopen", "closed", "failed"},
         ioRead' \in Seq(Nat), ioChar' \in Nat \cup {EOF}, ioPc' = "putc" => ioChar' \in Nat,
         ioFault' \in BOOLEAN,
         iob'[r].buff_cnt > 0 => iob'[r].next + iob'[r].buff_cnt = Len(iob'[r].buff),
         Len(iob'[w].buff) = iob'[w].next,
         ~ioFault' =>
           /\ iob'[w].flags = {"WRITE"}
           /\ \/ iob'[w].next = 0 /\ iob'[w].buff_cnt = 0
              \/ iob'[w].next + iob'[w].buff_cnt = BUFF_SIZE /\ iob'[w].buff_cnt >= 0
           /\ iob'[w].next > 0 => iob'[w].last_op = "WRITE"
           /\ ioPc' \in {"fopen", "closed", "failed"} => iob'[w].next = 0
           /\ ioRead' = ioFile'[w] \o iob'[w].buff \o
                        (IF ioPc' = "putc" THEN <<ioChar'>> ELSE << >>)
  PROVE  IoInv'
<1>1. ioPair'[1] = r /\ ioPair'[2] = w
  OBVIOUS
<1>2. IoType'
  BY DEF IoType
<1>3. IoReads(iob[ioPair[1]])' /\ IoHolds(iob[ioPair[2]])'
  BY <1>1 DEF IoReads, IoHolds
<1>4. ASSUME ~ioFault' PROVE IoWrites(iob[ioPair[2]])'
  BY <1>1, <1>4 DEF IoWrites
<1> QED
  BY <1>1, <1>2, <1>3, <1>4 DEF IoInv

\* getc() that returns a character.
LEMMA IoGetcInv ==
  ASSUME IoInv, GetcBuffered \/ GetcFill
  PROVE  IoInv'
<1>t. /\ iob \in [1..OPEN_MAX -> IoStream] /\ ioFile \in [1..OPEN_MAX -> Seq(Nat)]
      /\ ioRead \in Seq(Nat) /\ ioFault \in BOOLEAN
  BY DEF IoInv, IoType
<1>1. PICK r, w \in 1..OPEN_MAX :
           /\ r # w /\ ioPair = <<r, w>> /\ ioPair[1] = r /\ ioPair[2] = w
           /\ iob[r] \in IoStream /\ iob[w] \in IoStream
           /\ ioFile[r] \in Seq(Nat) /\ ioFile[w] \in Seq(Nat)
           /\ IoReads(iob[r]) /\ Len(iob[w].buff) = iob[w].next
           /\ ~ioFault => /\ IoWrites(iob[w])
                          /\ ioRead = ioFile[w] \o iob[w].buff \o
                                      (IF ioPc = "putc" THEN <<ioChar>> ELSE << >>)
  BY IoParts
<1>2. /\ UNCHANGED <<ioPair, ioFault>> /\ ioPc = "getc" /\ ioPc' = "putc"
      /\ ioRead' = Append(ioRead, ioChar')
  BY DEF GetcBuffered, GetcFill
\* Either way the stream read is one character on.
<1>3. \E g \in IoStream, files \in [1..OPEN_MAX -> Seq(Nat)] :
        /\ iob' = [iob EXCEPT ![r] = Getc(g)] /\ g.buff_cnt > 0
        /\ g.next + g.buff_cnt = Len(g.buff) /\ ioChar' \in Nat
        /\ ioFile' = files /\ files[w] = ioFile[w]
  <2>1. CASE GetcBuffered
    <3>1. /\ iob' = [iob EXCEPT ![r] = Getc(iob[r])] /\ iob[r].buff_cnt > 0
          /\ ioChar' = iob[r].buff[iob[r].next + 1] /\ ioFile' = ioFile
      BY <1>1, <2>1 DEF GetcBuffered
    <3>2. iob[r].next + iob[r].buff_cnt = Len(iob[r].buff)
      BY <1>1, <3>1 DEF IoReads
    <3>3. /\ iob[r].buff \in Seq(Nat) /\ iob[r].next \in Nat /\ iob[r].buff_cnt \in Int
      BY <1>1 DEF IoStream
    <3>4. iob[r].next + 1 \in 1..Len(iob[r].buff)
      <4>1. \A a \in Nat, b \in Int : b > 0 => a + 1 \in 1..(a + b)
        OBVIOUS
      <4> QED
        BY <4>1, <3>1, <3>2, <3>3
    <3>5. ioChar' \in Nat
      BY <3>1, <3>3, <3>4, SMTT(60)
    <3>6. iob[r] \in IoStream /\ ioFile \in [1..OPEN_MAX -> Seq(Nat)]
      BY <1>1, <1>t DEF IoType
    <3> QED
      BY <3>1, <3>2, <3>5, <3>6, Zenon
  <2>2. CASE GetcFill
    <3>1. PICK n \in 1..BUFF_SIZE :
            /\ n <= Len(ioFile[r])
            /\ iob' = [iob EXCEPT ![r] = Getc(Filled(iob[r], SubSeq(ioFile[r], 1, n)))]
            /\ ioFile' = [ioFile EXCEPT ![r] = SubSeq(@, n + 1, Len(@))]
            /\ ioChar' = ioFile[r][1]
      BY <1>1, <2>2 DEF GetcFill
    <3>n. BUFF_SIZE \in Nat /\ n \in Nat /\ n >= 1
      BY StdioAssumption
    <3> DEFINE got == SubSeq(ioFile[r], 1, n)
               left == SubSeq(ioFile[r], n + 1, Len(ioFile[r]))
    <3>2. got \in Seq(Nat) /\ Len(got) = n /\ left \in Seq(Nat)
      <4>1. ASSUME NEW u \in Seq(Nat), n <= Len(u)
            PROVE  /\ SubSeq(u, 1, n) \in Seq(Nat) /\ Len(SubSeq(u, 1, n)) = n
                   /\ SubSeq(u, n + 1, Len(u)) \in Seq(Nat)
        BY <3>n, <4>1, SMTT(30)
      <4> QED
        BY <4>1, <1>1, <3>1, SMTT(30)
    <3>3. ioFile' = [ioFile EXCEPT ![r] = left]
      BY <3>1
    <3>4. ioChar' \in Nat
      <4>1. 1 \in 1..Len(ioFile[r])
        BY <3>1, <3>n, <1>1, SMTT(60)
      <4> QED
        BY <4>1, <3>1, <1>1, SMTT(60)
    <3> HIDE DEF got, left
    <3> DEFINE g == Filled(iob[r], got)
    <3>5. g \in IoStream /\ g.buff = got /\ g.next = 0 /\ g.buff_cnt = Len(got)
      BY <1>1, <3>2, IoFill
    <3>6. iob' = [iob EXCEPT ![r] = Getc(g)]
      BY <3>1 DEF got
    <3>7. [ioFile EXCEPT ![r] = left] \in [1..OPEN_MAX -> Seq(Nat)]
          /\ [ioFile EXCEPT ![r] = left][w] = ioFile[w]
      BY <1>1, <1>t, <3>2
    <3> HIDE DEF g
    <3>8. g.buff_cnt > 0 /\ g.next + g.buff_cnt = Len(g.buff)
      BY <3>5, <3>2, <3>n
    <3> QED
      BY <3>3, <3>4, <3>5, <3>6, <3>7, <3>8
  <2> QED
    BY <2>1, <2>2
<1>4. PICK g \in IoStream, files \in [1..OPEN_MAX -> Seq(Nat)] :
        /\ iob' = [iob EXCEPT ![r] = Getc(g)] /\ g.buff_cnt > 0
        /\ g.next + g.buff_cnt = Len(g.buff) /\ ioChar' \in Nat
        /\ ioFile' = files /\ files[w] = ioFile[w]
  BY <1>3
<1>5. /\ Getc(g).buff = g.buff /\ Getc(g).next = g.next + 1
      /\ Getc(g).buff_cnt = g.buff_cnt - 1 /\ Getc(g) \in IoStream
  BY IoGot
<1>6. iob' \in [1..OPEN_MAX -> IoStream] /\ iob'[r] = Getc(g) /\ iob'[w] = iob[w]
  BY <1>1, <1>4, <1>5, <1>t
<1>7. g.next \in Nat /\ g.buff_cnt \in Int
  BY DEF IoStream
<1>8. iob'[r].buff_cnt > 0 => iob'[r].next + iob'[r].buff_cnt = Len(iob'[r].buff)
  <2>1. (g.next + 1) + (g.buff_cnt - 1) = g.next + g.buff_cnt
    <3>1. \A a \in Nat, b \in Int : (a + 1) + (b - 1) = a + b
      OBVIOUS
    <3> QED
      BY <1>7, <3>1
  <2> QED
    BY <2>1, <1>4, <1>5, <1>6
<1>9. ASSUME ~ioFault'
      PROVE  /\ IoWrites(iob[w])
             /\ ioRead' = ioFile'[w] \o iob'[w].buff \o <<ioChar'>>
  <2>1. IoWrites(iob[w]) /\ ioRead = ioFile[w] \o iob[w].buff \o << >>
    BY <1>1, <1>2, <1>9
  <2>2. iob[w].buff \in Seq(Nat)
    BY <1>1 DEF IoStream
  <2>3. Append(ioFile[w] \o iob[w].buff \o << >>, ioChar') = ioFile[w] \o iob[w].buff \o <<ioChar'>>
    BY <1>1, <1>4, <2>2, IoMoves
  <2> QED
    BY <2>1, <2>3, <1>2, <1>4, <1>6
<1>10. ioRead' \in Seq(Nat) /\ ioFile' \in [1..OPEN_MAX -> Seq(Nat)] /\ ioPair' = <<r, w>>
  BY <1>1, <1>2, <1>4, <1>t
<1>11. ASSUME ~ioFault'
       PROVE  /\ iob'[w].flags = {"WRITE"}
              /\ \/ iob'[w].next = 0 /\ iob'[w].buff_cnt = 0
                 \/ iob'[w].next + iob'[w].buff_cnt = BUFF_SIZE /\ iob'[w].buff_cnt >= 0
              /\ iob'[w].next > 0 => iob'[w].last_op = "WRITE"
  BY <1>6, <1>9, <1>11 DEF IoWrites
<1>12. Len(iob'[w].buff) = iob'[w].next
  BY <1>1, <1>6
<1> QED
  BY <1>1, <1>2, <1>4, <1>6, <1>8, <1>9, <1>10, <1>11, <1>12, <1>t, IoAfter

\* getc() at the end of the file, or after an error.
LEMMA IoEndInv ==
  ASSUME IoInv, GetcEnd
  PROVE  IoInv'
<1>t. /\ iob \in [1..OPEN_MAX -> IoStream] /\ ioFile \in [1..OPEN_MAX -> Seq(Nat)]
      /\ ioRead \in Seq(Nat) /\ ioFault \in BOOLEAN
  BY DEF IoInv, IoType
<1>1. PICK r, w \in 1..OPEN_MAX :
           /\ r # w /\ ioPair = <<r, w>> /\ ioPair[1] = r /\ ioPair[2] = w
           /\ iob[r] \in IoStream /\ iob[w] \in IoStream
           /\ ioFile[r] \in Seq(Nat) /\ ioFile[w] \in Seq(Nat)
           /\ IoReads(iob[r]) /\ Len(iob[w].buff) = iob[w].next
           /\ ~ioFault => /\ IoWrites(iob[w])
                          /\ ioRead = ioFile[w] \o iob[w].buff \o
                                      (IF ioPc = "putc" THEN <<ioChar>> ELSE << >>)
  BY IoParts
<1>2. /\ UNCHANGED <<ioPair, ioFile, ioRead>> /\ ioPc = "getc" /\ ioPc' = "flush"
      /\ ioChar' = EOF /\ ioFault' \in BOOLEAN /\ (~ioFault' => ~ioFault) /\ iob[r].buff_cnt <= 0
  BY <1>1, <1>t DEF GetcEnd
<1>e. EOF = -1
  BY DEF EOF
<1>3. \E g \in IoStream : g.buff_cnt <= 0 /\ iob' = [iob EXCEPT ![r] = g]
  <2>f. iob[r].flags \in SUBSET IoFlags /\ iob[r].buff_cnt \in Int
    BY <1>1 DEF IoStream
  <2>e. << >> \in Seq(Nat) /\ Len(<< >>) = 0
    OBVIOUS
  <2> DEFINE h == Filled(iob[r], << >>)
  <2>h. h \in IoStream /\ h.flags = iob[r].flags /\ h.buff_cnt = 0
    BY <1>1, <2>e, IoFill
  <2>1. CASE iob' = [iob EXCEPT ![r].last_op = "READ"]
    <3> DEFINE g == [iob[r] EXCEPT !.last_op = "READ"]
    <3>1. g \in IoStream
      BY <1>1, Zenon DEF IoStream
    <3>2. g.buff_cnt = iob[r].buff_cnt
      BY <1>1 DEF IoStream
    <3>3. iob' = [iob EXCEPT ![r] = g]
      BY <2>1
    <3> QED
      BY <3>1, <3>2, <3>3, <1>2
  <2>2. CASE iob' = [iob EXCEPT ![r] = [h EXCEPT !.flags = @ \cup {"EOF"}]]
    <3> DEFINE g == [h EXCEPT !.flags = @ \cup {"EOF"}]
    <3> HIDE DEF h
    <3>1. h.flags \cup {"EOF"} \in SUBSET IoFlags
      BY <2>f, <2>h DEF IoFlags
    <3>2. g \in IoStream
      BY <2>h, <3>1, Zenon DEF IoStream
    <3>a. g.buff_cnt = 0
      BY <2>h DEF IoStream
    <3>3. g.buff_cnt <= 0
      BY <3>a
    <3>4. iob' = [iob EXCEPT ![r] = g]
      BY <2>2
    <3> HIDE DEF g
    <3> QED
      BY <3>2, <3>3, <3>4
  <2>3. CASE iob' = [iob EXCEPT ![r] = [h EXCEPT !.flags = @ \cup {"ERR"}, !.buff_cnt = -1]]
    <3> DEFINE g == [h EXCEPT !.flags = @ \cup {"ERR"}, !.buff_cnt = -1]
    <3> HIDE DEF h
    <3>1. h.flags \cup {"ERR"} \in SUBSET IoFlags /\ -1 \in Int
      BY <2>f, <2>h DEF IoFlags
    <3>2. g \in IoStream
      BY <2>h, <3>1, Zenon DEF IoStream
    <3>a. g.buff_cnt = -1
      BY <2>h DEF IoStream
    <3>3. g.buff_cnt <= 0
      BY <3>a
    <3>4. iob' = [iob EXCEPT ![r] = g]
      BY <2>3
    <3> HIDE DEF g
    <3> QED
      BY <3>2, <3>3, <3>4
  <2> QED
    BY <1>1, <2>1, <2>2, <2>3 DEF GetcEnd
<1>4. PICK g \in IoStream : g.buff_cnt <= 0 /\ iob' = [iob EXCEPT ![r] = g]
  BY <1>3
<1>5. iob' \in [1..OPEN_MAX -> IoStream] /\ iob'[r] = g /\ iob'[w] = iob[w]
  BY <1>1, <1>4, <1>t
<1>6. iob'[r].buff_cnt > 0 => iob'[r].next + iob'[r].buff_cnt = Len(iob'[r].buff)
  BY <1>4, <1>5 DEF IoStream
<1>7. ASSUME ~ioFault'
      PROVE  /\ iob'[w].flags = {"WRITE"}
             /\ \/ iob'[w].next = 0 /\ iob'[w].buff_cnt = 0
                \/ iob'[w].next + iob'[w].buff_cnt = BUFF_SIZE /\ iob'[w].buff_cnt >= 0
             /\ iob'[w].next > 0 => iob'[w].last_op = "WRITE"
             /\ ioRead' = ioFile'[w] \o iob'[w].buff \o << >>
  BY <1>1, <1>2, <1>5, <1>7 DEF IoWrites
<1>8. Len(iob'[w].buff) = iob'[w].next
  BY <1>1, <1>5
<1> QED
  BY <1>1, <1>2, <1>e, <1>5, <1>6, <1>7, <1>8, <1>t, IoAfter

\* putc() into the buffer.
LEMMA IoPutcInv ==
  ASSUME IoInv, PutcBuffered
  PROVE  IoInv'
<1>t. /\ iob \in [1..OPEN_MAX -> IoStream] /\ ioFile \in [1..OPEN_MAX -> Seq(Nat)]
      /\ ioRead \in Seq(Nat) /\ ioFault \in BOOLEAN /\ ioChar \in Nat \cup {EOF}
      /\ ioPc = "putc" => ioChar \in Nat
  BY DEF IoInv, IoType
<1>1. PICK r, w \in 1..OPEN_MAX :
           /\ r # w /\ ioPair = <<r, w>> /\ ioPair[1] = r /\ ioPair[2] = w
           /\ iob[r] \in IoStream /\ iob[w] \in IoStream
           /\ ioFile[r] \in Seq(Nat) /\ ioFile[w] \in Seq(Nat)
           /\ IoReads(iob[r]) /\ Len(iob[w].buff) = iob[w].next
           /\ ~ioFault => /\ IoWrites(iob[w])
                          /\ ioRead = ioFile[w] \o iob[w].buff \o
                                      (IF ioPc = "putc" THEN <<ioChar>> ELSE << >>)
  BY IoParts
<1>2. /\ UNCHANGED <<ioFile, ioPair, ioRead, ioChar, ioFault>> /\ ioPc = "putc" /\ ioPc' = "getc"
      /\ iob[w].buff_cnt > 0 /\ iob' = [iob EXCEPT ![w] = Put(iob[w], ioChar)] /\ ioChar \in Nat
  BY <1>1, <1>t DEF PutcBuffered
<1> DEFINE g == Put(iob[w], ioChar)
<1>3. /\ g.flags = iob[w].flags /\ g.buff = Append(iob[w].buff, ioChar)
      /\ g.next = iob[w].next + 1 /\ g.buff_cnt = iob[w].buff_cnt - 1
      /\ g.last_op = "WRITE" /\ g \in IoStream
  BY <1>1, <1>2, IoPut
<1>4. iob' \in [1..OPEN_MAX -> IoStream] /\ iob'[r] = iob[r] /\ iob'[w] = g
  BY <1>1, <1>2, <1>3, <1>t
<1>5. /\ iob[w].next \in Nat /\ iob[w].buff_cnt \in Int /\ iob[w].buff \in Seq(Nat)
      /\ Len(iob[w].buff) \in Nat /\ BUFF_SIZE \in Nat
  BY <1>1, StdioAssumption DEF IoStream
<1>6. Len(Append(iob[w].buff, ioChar)) = Len(iob[w].buff) + 1
  BY <1>2, <1>5
<1> HIDE DEF g
<1>7. iob'[r].buff_cnt > 0 => iob'[r].next + iob'[r].buff_cnt = Len(iob'[r].buff)
  BY <1>1, <1>4 DEF IoReads
<1>8. ASSUME ~ioFault' PROVE ioRead' = ioFile'[w] \o iob'[w].buff \o << >>
  <2>1. ioRead = ioFile[w] \o iob[w].buff \o <<ioChar>>
    BY <1>1, <1>2, <1>8
  <2>2. ioFile[w] \o Append(iob[w].buff, ioChar) \o << >> = ioFile[w] \o iob[w].buff \o <<ioChar>>
    BY <1>1, <1>2, <1>5, IoMoves
  <2> QED
    BY <2>1, <2>2, <1>2, <1>3, <1>4
<1>9. ASSUME ~ioFault'
      PROVE  /\ iob'[w].flags = {"WRITE"}
             /\ \/ iob'[w].next = 0 /\ iob'[w].buff_cnt = 0
                \/ iob'[w].next + iob'[w].buff_cnt = BUFF_SIZE /\ iob'[w].buff_cnt >= 0
             /\ iob'[w].next > 0 => iob'[w].last_op = "WRITE"
  <2>1. /\ iob[w].flags = {"WRITE"} /\ Len(iob[w].buff) = iob[w].next
        /\ \/ iob[w].next = 0 /\ iob[w].buff_cnt = 0
           \/ iob[w].next + iob[w].buff_cnt = BUFF_SIZE /\ iob[w].buff_cnt >= 0
    BY <1>1, <1>2, <1>9 DEF IoWrites
  <2>2. iob[w].next + iob[w].buff_cnt = BUFF_SIZE /\ iob[w].buff_cnt > 0
    BY <2>1, <1>2, <1>5
  <2>3. \A a \in Nat, b \in Int : b > 0 => (a + 1) + (b - 1) = a + b /\ b - 1 >= 0
    OBVIOUS
  <2>4. (iob[w].next + 1) + (iob[w].buff_cnt - 1) = BUFF_SIZE /\ iob[w].buff_cnt - 1 >= 0
    BY <2>2, <2>3, <1>5
  <2> QED
    BY <2>1, <2>4, <1>3, <1>4, <1>6
<1>10. Len(iob'[w].buff) = iob'[w].next
  BY <1>1, <1>3, <1>4, <1>6
<1> QED
  BY <1>1, <1>2, <1>4, <1>7, <1>8, <1>9, <1>10, <1>t, IoAfter

\* putc() with the buffer full or not there, and what write() makes of it.
LEMMA IoFlushInv ==
  ASSUME IoInv, PutcFlush
  PROVE  IoInv'
<1>t. /\ iob \in [1..OPEN_MAX -> IoStream] /\ ioFile \in [1..OPEN_MAX -> Seq(Nat)]
      /\ ioRead \in Seq(Nat) /\ ioFault \in BOOLEAN /\ ioChar \in Nat \cup {EOF}
      /\ ioPc = "putc" => ioChar \in Nat
  BY DEF IoInv, IoType
<1>1. PICK r, w \in 1..OPEN_MAX :
           /\ r # w /\ ioPair = <<r, w>> /\ ioPair[1] = r /\ ioPair[2] = w
           /\ iob[r] \in IoStream /\ iob[w] \in IoStream
           /\ ioFile[r] \in Seq(Nat) /\ ioFile[w] \in Seq(Nat)
           /\ IoReads(iob[r]) /\ Len(iob[w].buff) = iob[w].next
           /\ ~ioFault => /\ IoWrites(iob[w])
                          /\ ioRead = ioFile[w] \o iob[w].buff \o
                                      (IF ioPc = "putc" THEN <<ioChar>> ELSE << >>)
  BY IoParts
<1>2. /\ UNCHANGED <<ioPair, ioRead, ioChar>> /\ ioPc = "putc" /\ ioPc' = "getc"
      /\ iob[w].buff_cnt <= 0 /\ ioChar \in Nat
  BY <1>1, <1>t DEF PutcFlush
<1>5. /\ iob[w].next \in Nat /\ iob[w].buff_cnt \in Int /\ iob[w].buff \in Seq(Nat)
      /\ Len(iob[w].buff) \in Nat /\ BUFF_SIZE \in Nat \ {0}
  BY <1>1, StdioAssumption DEF IoStream
<1>6. CASE ~CanFlush(iob[w]) /\ iob' = [iob EXCEPT ![w].last_op = "WRITE"] /\ UNCHANGED <<ioFile, ioFault>>
  <2> DEFINE g == [iob[w] EXCEPT !.last_op = "WRITE"]
  <2>1. g \in IoStream
    BY <1>1, Zenon DEF IoStream
  <2>2. iob' = [iob EXCEPT ![w] = g]
    BY <1>6
  <2> HIDE DEF g
  <2>3. iob' \in [1..OPEN_MAX -> IoStream] /\ iob'[r] = iob[r] /\ iob'[w] = g
    BY <2>1, <2>2, <1>1, <1>t
  <2>6. Len(iob'[w].buff) = iob'[w].next
    BY <2>3, <1>1 DEF g, IoStream
  <2>4. ioFault'
    <3> SUFFICES ASSUME ~ioFault PROVE FALSE
      BY <1>6, <1>t
    <3>1. iob[w].flags = {"WRITE"}
      BY <1>1 DEF IoWrites
    <3>2. {"WRITE"} \cap {"WRITE", "EOF", "ERR"} = {"WRITE"}
      OBVIOUS
    <3> QED
      BY <1>6, <3>1, <3>2 DEF CanFlush
  <2>5. iob'[r].buff_cnt > 0 => iob'[r].next + iob'[r].buff_cnt = Len(iob'[r].buff)
    BY <1>1, <2>3 DEF IoReads
  <2> QED
    BY <1>1, <1>2, <1>6, <2>3, <2>4, <2>5, <2>6, <1>t, IoAfter
<1>7. CASE ioFile' = Writes(w, iob[w].next) /\ UNCHANGED ioFault
           /\ iob' = [iob EXCEPT ![w] = Put(Emptied(iob[w]), ioChar)]
  <2> DEFINE e == Emptied(iob[w])
             g == Put(e, ioChar)
  <2>1. /\ e.flags = iob[w].flags /\ e.buff = << >> /\ e.next = 0
        /\ e.buff_cnt = BUFF_SIZE /\ e.last_op = "WRITE" /\ e \in IoStream
    BY <1>1, IoEmptied
  <2>2. iob' = [iob EXCEPT ![w] = g]
    BY <1>7
  <2> HIDE DEF e
  <2>3. /\ g.flags = e.flags /\ g.buff = Append(e.buff, ioChar)
        /\ g.next = e.next + 1 /\ g.buff_cnt = e.buff_cnt - 1
        /\ g.last_op = "WRITE" /\ g \in IoStream
    BY <2>1, <1>2, IoPut
  <2> HIDE DEF g
  <2>4. iob' \in [1..OPEN_MAX -> IoStream] /\ iob'[r] = iob[r] /\ iob'[w] = g
    BY <2>2, <2>3, <1>1, <1>t
  <2> DEFINE out == SubSeq(iob[w].buff, 1, iob[w].next)
  <2>5. ioFile' = [ioFile EXCEPT ![w] = ioFile[w] \o out]
    BY <1>7 DEF Writes
  <2>6. Append(<< >>, ioChar) = <<ioChar>> /\ Len(<<ioChar>>) = 1
    OBVIOUS
  <2>7. iob'[r].buff_cnt > 0 => iob'[r].next + iob'[r].buff_cnt = Len(iob'[r].buff)
    BY <1>1, <2>4 DEF IoReads
  <2>8. ASSUME ~ioFault'
        PROVE  /\ iob[w].flags = {"WRITE"} /\ ioRead = ioFile[w] \o iob[w].buff \o <<ioChar>>
               /\ out = iob[w].buff
    <3>1. /\ iob[w].flags = {"WRITE"} /\ Len(iob[w].buff) = iob[w].next
          /\ ioRead = ioFile[w] \o iob[w].buff \o <<ioChar>>
      BY <1>1, <1>2, <1>7, <2>8 DEF IoWrites
    <3>2. \A u \in Seq(Nat) : SubSeq(u, 1, Len(u)) = u
      OBVIOUS
    <3> QED
      BY <3>1, <3>2, <1>5
  <2>9. ioFile[w] \o out \in Seq(Nat)
    <3>1. ASSUME NEW u \in Seq(Nat), NEW n \in Nat, n <= Len(u) PROVE SubSeq(u, 1, n) \in Seq(Nat)
      BY <3>1
    <3>2. iob[w].next <= Len(iob[w].buff)
      BY <1>1, <1>5
    <3> QED
      BY <3>1, <3>2, <1>1, <1>5
  <2> HIDE DEF out
  <2>10. ioFile' \in [1..OPEN_MAX -> Seq(Nat)] /\ ioFile'[w] = ioFile[w] \o out
    BY <2>5, <2>9, <1>1, <1>t
  <2>11. ASSUME ~ioFault'
         PROVE  /\ iob'[w].flags = {"WRITE"}
                /\ iob'[w].next + iob'[w].buff_cnt = BUFF_SIZE /\ iob'[w].buff_cnt >= 0
                /\ iob'[w].last_op = "WRITE"
    <3>1. 0 + 1 = 1 /\ 1 + (BUFF_SIZE - 1) = BUFF_SIZE /\ BUFF_SIZE - 1 >= 0
      BY <1>5
    <3> QED
      BY <2>1, <2>3, <2>4, <2>6, <2>8, <2>11, <3>1
  <2>12. ASSUME ~ioFault' PROVE ioRead' = ioFile'[w] \o iob'[w].buff \o << >>
    <3>1. (ioFile[w] \o iob[w].buff) \o <<ioChar>> \o << >> = ioFile[w] \o iob[w].buff \o <<ioChar>>
      BY <1>1, <1>2, <1>5, IoMoves
    <3>2. iob'[w].buff = <<ioChar>>
      BY <2>1, <2>3, <2>4, <2>6
    <3> QED
      BY <3>1, <3>2, <2>8, <2>10, <2>12, <1>2
  <2>13. Len(iob'[w].buff) = iob'[w].next
    <3>1. 0 + 1 = 1
      OBVIOUS
    <3> QED
      BY <2>1, <2>3, <2>4, <2>6, <3>1
  <2> QED
    BY <1>1, <1>2, <2>13, <2>4, <2>7, <2>10, <2>11, <2>12, <1>7, <1>t, IoAfter
<1>8. CASE /\ iob[w].next > 0 /\ ioFault' = TRUE
           /\ \E n \in 0..(iob[w].next - 1) : ioFile' = Writes(w, n)
           /\ iob' = [iob EXCEPT ![w].flags = @ \cup {"ERR"}, ![w].last_op = "WRITE"]
  <2> DEFINE g == [iob[w] EXCEPT !.flags = @ \cup {"ERR"}, !.last_op = "WRITE"]
  <2>1. iob[w].flags \cup {"ERR"} \in SUBSET IoFlags
    BY <1>1 DEF IoStream, IoFlags
  <2>2. g \in IoStream
    BY <2>1, <1>1, Zenon DEF IoStream
  <2>3. iob'[r] = iob[r] /\ iob' \in [1..OPEN_MAX -> IoStream]
    <3>1. iob' = [iob EXCEPT ![w] = g]
      BY <1>8
    <3> HIDE DEF g
    <3> QED
      BY <3>1, <2>2, <1>1, <1>t
  <2>6. Len(iob'[w].buff) = iob'[w].next
    <3>1. iob'[w] = g
      BY <1>8, <1>1, <1>t
    <3>2. g.buff = iob[w].buff /\ g.next = iob[w].next
      BY <1>1 DEF IoStream
    <3> HIDE DEF g
    <3> QED
      BY <3>1, <3>2, <1>1
  <2>4. ioFile' \in [1..OPEN_MAX -> Seq(Nat)]
    <3>1. PICK n \in 0..(iob[w].next - 1) : ioFile' = Writes(w, n)
      BY <1>8
    <3> DEFINE out == SubSeq(iob[w].buff, 1, n)
    <3>2. ioFile' = [ioFile EXCEPT ![w] = ioFile[w] \o out]
      BY <3>1 DEF Writes
    <3>3. n \in Nat /\ n <= Len(iob[w].buff)
      BY <1>1, <1>5
    <3>4. out \in Seq(Nat)
      <4>1. ASSUME NEW u \in Seq(Nat), n <= Len(u) PROVE SubSeq(u, 1, n) \in Seq(Nat)
        BY <3>3, <4>1
      <4> QED
        BY <4>1, <3>3, <1>5
    <3> HIDE DEF out
    <3>5. ioFile[w] \o out \in Seq(Nat)
      BY <3>4, <1>1
    <3> QED
      BY <3>2, <3>5, <1>1, <1>t
  <2>5. iob'[r].buff_cnt > 0 => iob'[r].next + iob'[r].buff_cnt = Len(iob'[r].buff)
    BY <1>1, <2>3 DEF IoReads
  <2> QED
    BY <1>1, <1>2, <1>8, <2>3, <2>4, <2>5, <2>6, <1>t, IoAfter
<1>9. CASE ioFault' = TRUE /\ UNCHANGED ioFile /\ iob' = [iob EXCEPT ![w] = NoMemory(iob[w])]
  <2> DEFINE g == [iob[w] EXCEPT !.buff_cnt = BUFF_SIZE, !.last_op = "WRITE"]
  <2>a. BUFF_SIZE \in Int
    BY <1>5
  <2>b. g \in IoStream
    BY <2>a, <1>1, Zenon DEF IoStream
  <2>c. g.buff = iob[w].buff /\ g.next = iob[w].next
    BY <1>1 DEF IoStream
  <2>2. iob' = [iob EXCEPT ![w] = g]
    BY <1>9 DEF NoMemory
  <2> HIDE DEF g
  <2>3. iob' \in [1..OPEN_MAX -> IoStream] /\ iob'[r] = iob[r] /\ iob'[w] = g
    BY <2>b, <2>2, <1>1, <1>t
  <2>4. Len(iob'[w].buff) = iob'[w].next
    BY <2>c, <2>3, <1>1
  <2>5. iob'[r].buff_cnt > 0 => iob'[r].next + iob'[r].buff_cnt = Len(iob'[r].buff)
    BY <1>1, <2>3 DEF IoReads
  <2> QED
    BY <1>1, <1>2, <1>9, <2>3, <2>4, <2>5, <1>t, IoAfter
<1> QED
  BY <1>1, <1>6, <1>7, <1>8, <1>9 DEF PutcFlush

\* fflush() of the stream written, at the end of the copy.
LEMMA IoFflushInv ==
  ASSUME IoInv, ioPc = "flush", Fflush(ioPair[2]), ioPc' \in {"fopen", "closed"},
         UNCHANGED <<ioPair, ioRead, ioChar>>
  PROVE  IoInv'
<1>t. /\ iob \in [1..OPEN_MAX -> IoStream] /\ ioFile \in [1..OPEN_MAX -> Seq(Nat)]
      /\ ioRead \in Seq(Nat) /\ ioFault \in BOOLEAN /\ ioChar \in Nat \cup {EOF}
      /\ ioPc = "putc" => ioChar \in Nat
  BY DEF IoInv, IoType
<1>1. PICK r, w \in 1..OPEN_MAX :
           /\ r # w /\ ioPair = <<r, w>> /\ ioPair[1] = r /\ ioPair[2] = w
           /\ iob[r] \in IoStream /\ iob[w] \in IoStream
           /\ ioFile[r] \in Seq(Nat) /\ ioFile[w] \in Seq(Nat)
           /\ IoReads(iob[r]) /\ Len(iob[w].buff) = iob[w].next
           /\ ~ioFault => /\ IoWrites(iob[w])
                          /\ ioRead = ioFile[w] \o iob[w].buff \o
                                      (IF ioPc = "putc" THEN <<ioChar>> ELSE << >>)
  BY IoParts
<1>5. /\ iob[w].next \in Nat /\ iob[w].buff_cnt \in Int /\ iob[w].buff \in Seq(Nat)
      /\ Len(iob[w].buff) \in Nat /\ BUFF_SIZE \in Nat \ {0}
  BY <1>1, StdioAssumption DEF IoStream
<1> DEFINE flushed == /\ "WRITE" \in iob[w].flags /\ "UNBUF" \notin iob[w].flags
                      /\ iob[w].next > 0 /\ iob[w].last_op = "WRITE"
<1>6. CASE flushed
  <2>1. PICK n \in 0..iob[w].next :
          /\ ioFile' = Writes(w, n) /\ iob' = [iob EXCEPT ![w] = Emptied(iob[w])]
          /\ ioFault' = (ioFault \/ n < iob[w].next)
    BY <1>1, <1>6 DEF Fflush
  <2> HIDE DEF flushed
  <2> DEFINE out == SubSeq(iob[w].buff, 1, n)
             g == Emptied(iob[w])
  <2>2. /\ g.flags = iob[w].flags /\ g.buff = << >> /\ g.next = 0
        /\ g.buff_cnt = BUFF_SIZE /\ g.last_op = "WRITE" /\ g \in IoStream
    BY <1>1, IoEmptied
  <2>3. iob' = [iob EXCEPT ![w] = g]
    BY <2>1
  <2> HIDE DEF g
  <2>4. iob' \in [1..OPEN_MAX -> IoStream] /\ iob'[r] = iob[r] /\ iob'[w] = g
    BY <2>2, <2>3, <1>1, <1>t
  <2>5. n \in Nat /\ n <= Len(iob[w].buff)
    BY <1>1, <1>5
  <2>6. out \in Seq(Nat) /\ (n = Len(iob[w].buff) => out = iob[w].buff)
    <3>1. ASSUME NEW u \in Seq(Nat), n <= Len(u)
          PROVE  SubSeq(u, 1, n) \in Seq(Nat)
      BY <2>5, <3>1
    <3>2. \A u \in Seq(Nat) : SubSeq(u, 1, Len(u)) = u
      OBVIOUS
    <3> QED
      BY <3>1, <3>2, <2>5, <1>5
  <2>7. ioFile' = [ioFile EXCEPT ![w] = ioFile[w] \o out]
    BY <2>1 DEF Writes
  <2> HIDE DEF out
  <2>8. ioFile' \in [1..OPEN_MAX -> Seq(Nat)] /\ ioFile'[w] = ioFile[w] \o out
    <3>1. ioFile[w] \o out \in Seq(Nat)
      BY <2>6, <1>1
    <3> QED
      BY <2>7, <3>1, <1>1, <1>t
  <2>9. iob'[r].buff_cnt > 0 => iob'[r].next + iob'[r].buff_cnt = Len(iob'[r].buff)
    BY <1>1, <2>4 DEF IoReads
  <2>10. Len(iob'[w].buff) = iob'[w].next
    BY <2>2, <2>4
  <2>11. ioFault' \in BOOLEAN
    BY <2>1
  <2>12. ASSUME ~ioFault'
         PROVE  /\ iob'[w].flags = {"WRITE"} /\ iob'[w].next = 0
                /\ iob'[w].next + iob'[w].buff_cnt = BUFF_SIZE /\ iob'[w].buff_cnt >= 0
                /\ iob'[w].last_op = "WRITE"
                /\ ioRead' = ioFile'[w] \o iob'[w].buff \o << >>
    <3>1. ~ioFault /\ ~(n < iob[w].next)
      BY <2>1, <2>12
    <3>2. n = Len(iob[w].buff)
      BY <3>1, <2>5, <1>1, <1>5
    <3>3. ioRead = ioFile[w] \o iob[w].buff \o << >> /\ iob[w].flags = {"WRITE"}
      BY <3>1, <1>1 DEF IoWrites
    <3>4. (ioFile[w] \o iob[w].buff) \o << >> \o << >> = ioFile[w] \o iob[w].buff \o << >>
      <4>1. 0 \in Nat
        OBVIOUS
      <4> QED
        BY <4>1, <1>1, <1>5, IoMoves
    <3>5. 0 + BUFF_SIZE = BUFF_SIZE /\ BUFF_SIZE >= 0
      BY <1>5
    <3>6. ioRead' = ioRead
      OBVIOUS
    <3>7. ioFile'[w] = ioFile[w] \o iob[w].buff /\ iob'[w].buff = << >>
      BY <2>2, <2>4, <2>6, <2>8, <3>2
    <3>8. ioRead' = ioFile'[w] \o iob'[w].buff \o << >>
      BY <3>3, <3>4, <3>6, <3>7
    <3> QED
      BY <3>3, <3>5, <3>8, <2>2, <2>4
  <2> QED
    BY <1>1, <2>4, <2>8, <2>9, <2>10, <2>11, <2>12, <1>t, IoAfter
<1>7. CASE ~flushed
  <2>1. UNCHANGED <<iob, ioFile, ioFault>>
    BY <1>1, <1>7 DEF Fflush
  <2>2. ASSUME ~ioFault
        PROVE  /\ iob[w].flags = {"WRITE"} /\ iob[w].next = 0
               /\ \/ iob[w].next = 0 /\ iob[w].buff_cnt = 0
                  \/ iob[w].next + iob[w].buff_cnt = BUFF_SIZE /\ iob[w].buff_cnt >= 0
               /\ ioRead = ioFile[w] \o iob[w].buff \o << >>
    <3>1. /\ iob[w].flags = {"WRITE"} /\ (iob[w].next > 0 => iob[w].last_op = "WRITE")
          /\ \/ iob[w].next = 0 /\ iob[w].buff_cnt = 0
             \/ iob[w].next + iob[w].buff_cnt = BUFF_SIZE /\ iob[w].buff_cnt >= 0
          /\ ioRead = ioFile[w] \o iob[w].buff \o << >>
      BY <1>1, <2>2 DEF IoWrites
    <3>2. ~(iob[w].next > 0)
      BY <1>7, <3>1
    <3> QED
      BY <3>1, <3>2, <1>5
  <2> HIDE DEF flushed
  <2>3. iob'[r].buff_cnt > 0 => iob'[r].next + iob'[r].buff_cnt = Len(iob'[r].buff)
    BY <1>1, <2>1 DEF IoReads
  <2>4. ASSUME ~ioFault' PROVE iob'[w].next > 0 => iob'[w].last_op = "WRITE"
    BY <2>1, <2>2, <2>4
  <2> QED
    BY <1>1, <2>1, <2>2, <2>3, <2>4, <1>t, IoAfter
<1> QED
  BY <1>6, <1>7

\* fopen() takes a slot of iob[] that has no flags.
LEMMA IoFreeSlot ==
  ASSUME NEW io \in [1..OPEN_MAX -> IoStream], FreeSlot(io) # 0
  PROVE  FreeSlot(io) \in 1..OPEN_MAX /\ io[FreeSlot(io)].flags = {}
<1> DEFINE I == {i \in 1..Len(io) : io[i].flags = {}}
<1>a. OPEN_MAX \in Nat
  BY StdioAssumption
<1>1. Len(io) = OPEN_MAX
  BY <1>a
<1>2. FreeSlot(io) = IF I # {} THEN Min(I) ELSE 0
  BY DEF FreeSlot, SelectInSeq
<1>3. I # {} /\ FreeSlot(io) = Min(I)
  BY <1>2
<1>4. \E x \in I : \A y \in I : x <= y
  <2>1. I \subseteq Nat
    BY <1>a, <1>1
  <2> HIDE DEF I
  <2> QED
    BY <1>3, <2>1, NatLeast
<1>5. Min(I) \in I
  <2> HIDE DEF I
  <2> QED
    BY <1>4 DEF Min
<1> QED
  BY <1>1, <1>3, <1>5

\* fopen() of both files: the second copy begins with nothing in its buffers.
LEMMA IoFopenInv ==
  ASSUME IoInv, Fopen
  PROVE  IoInv'
<1>t. /\ iob \in [1..OPEN_MAX -> IoStream] /\ ioFile \in [1..OPEN_MAX -> Seq(Nat)]
      /\ ioChar \in Nat \cup {EOF} /\ IoInput \in Seq(Nat) /\ BUFF_SIZE \in Nat
  BY StdioAssumption DEF IoInv, IoType
<1> DEFINE src == FreeSlot(iob)
           io1 == [iob EXCEPT ![src] = Opened({"READ"})]
           dst == FreeSlot(io1)
<1>1. /\ src # 0 /\ dst # 0 /\ iob' = [io1 EXCEPT ![dst] = Opened({"WRITE"})]
      /\ ioFile' = [ioFile EXCEPT ![src] = IoInput, ![dst] = << >>]
      /\ ioPair' = <<src, dst>> /\ ioPc' = "getc" /\ ioRead' = << >> /\ ioFault' = FALSE
      /\ UNCHANGED ioChar
  BY DEF Fopen
<1>2. {"READ"} \in SUBSET IoFlags /\ {"WRITE"} \in SUBSET IoFlags
  BY DEF IoFlags
<1> DEFINE rd == Opened({"READ"})
           wr == Opened({"WRITE"})
<1>3. rd \in IoStream /\ rd.flags = {"READ"} /\ rd.buff_cnt = 0
  BY <1>2, IoOpened
<1>4. wr \in IoStream /\ wr.flags = {"WRITE"} /\ wr.buff_cnt = 0 /\ wr.next = 0 /\ wr.buff = << >>
  BY <1>2, IoOpened
<1>5. src \in 1..OPEN_MAX
  BY <1>1, <1>t, IoFreeSlot
<1> HIDE DEF src
<1>6. io1 \in [1..OPEN_MAX -> IoStream] /\ io1[src] = rd
  BY <1>3, <1>5, <1>t
<1>7. dst \in 1..OPEN_MAX /\ io1[dst].flags = {}
  <2> HIDE DEF io1
  <2> QED
    BY <1>1, <1>6, IoFreeSlot
<1>8. dst # src
  BY <1>3, <1>6, <1>7
<1>9. iob' = [io1 EXCEPT ![dst] = wr]
  BY <1>1
<1> HIDE DEF io1, dst, rd, wr
<1>10. iob' \in [1..OPEN_MAX -> IoStream] /\ iob'[src] = rd /\ iob'[dst] = wr
  BY <1>4, <1>5, <1>6, <1>7, <1>8, <1>9
<1>11. ioFile' \in [1..OPEN_MAX -> Seq(Nat)] /\ ioFile'[dst] = << >>
  BY <1>1, <1>5, <1>7, <1>8, <1>t
<1>12. << >> \in Seq(Nat) /\ << >> \o << >> \o << >> = << >> /\ Len(<< >>) = 0
  OBVIOUS
<1>13. ioRead' = ioFile'[dst] \o iob'[dst].buff \o << >>
  BY <1>1, <1>4, <1>10, <1>11, <1>12
<1>14. /\ iob'[dst].flags = {"WRITE"} /\ Len(iob'[dst].buff) = iob'[dst].next
       /\ iob'[dst].next = 0 /\ iob'[dst].buff_cnt = 0 /\ iob'[src].buff_cnt = 0
  BY <1>3, <1>4, <1>10, <1>12
<1> QED
  <2>1. /\ ~(iob'[src].buff_cnt > 0) /\ ~(iob'[dst].next > 0)
        /\ ~(ioPc' \in {"fopen", "closed", "failed"}) /\ ioPc' # "putc"
        /\ ioPc' \in {"getc", "putc", "flush", "fopen", "closed", "failed"}
    BY <1>1, <1>14
  <2>2. ioRead' \in Seq(Nat) /\ ioChar' \in Nat \cup {EOF} /\ ioFault' \in BOOLEAN
        /\ ioPair' = <<src, dst>>
    BY <1>1, <1>12, <1>t DEF dst
  <2> QED
    BY <2>1, <2>2, <1>5, <1>7, <1>8, <1>10, <1>11, <1>13, <1>14, IoAfter

LEMMA IoNextInv ==
  ASSUME IoInv, IoNull, [IoNext]_ioVars
  PROVE  IoInv'
<1>1. CASE UNCHANGED ioVars
  BY <1>1 DEF ioVars, IoInv, IoType, IoReads, IoHolds, IoWrites
<1>2. CASE FlushStdout \/ Fclose
  <2>1. ioPair[2] = 2 \/ ioPair # <<1, 2>>
    OBVIOUS
  <2> QED
    BY <1>2, <2>1, IoFflushInv DEF FlushStdout, Fclose
<1>3. CASE FopenFails
  <2>1. /\ UNCHANGED <<iob, ioFile, ioPair, ioRead, ioChar, ioFault>>
        /\ ioPc = "fopen" /\ ioPc' = "failed"
    BY <1>3 DEF FopenFails
  <2> QED
    BY <2>1 DEF IoInv, IoType, IoReads, IoHolds, IoWrites
<1>4. CASE PutcCrashes
  <2>1. /\ UNCHANGED <<iob, ioFile, ioPair, ioRead, ioChar, ioFault>> /\ ioPc' = "crashed"
        /\ iob[ioPair[2]].buff_cnt > 0 /\ ioPair[2] \notin ioBuffers
    BY <1>4 DEF PutcCrashes
  <2>2. ioFault
    BY <2>1 DEF IoNull
  <2> QED
    BY <2>1, <2>2 DEF IoInv, IoType, IoReads, IoHolds
<1> QED
  BY <1>1, <1>2, <1>3, <1>4, IoGetcInv, IoEndInv, IoPutcInv, IoFlushInv, IoFopenInv DEF IoNext

\* What malloc() gave a stream it keeps, and putc() asks for it before it writes.
LEMMA IoNullNext ==
  ASSUME IoInv, IoNull, [IoNext]_ioVars
  PROVE  IoNull'
<1> SUFFICES ASSUME ~ioFault'
             PROVE  /\ ioPc' # "crashed"
                    /\ iob'[ioPair'[2]].next > 0 \/ iob'[ioPair'[2]].buff_cnt > 0
                         => ioPair'[2] \in ioBuffers'
  BY DEF IoNull
<1>t. iob \in [1..OPEN_MAX -> IoStream] /\ ioFault \in BOOLEAN
  BY DEF IoInv, IoType
<1>p. PICK r, w \in 1..OPEN_MAX :
        r # w /\ ioPair = <<r, w>> /\ ioPair[1] = r /\ ioPair[2] = w
  BY IoParts
<1>1. CASE UNCHANGED ioVars
  BY <1>1 DEF ioVars, IoNull
<1>2. CASE GetcBuffered \/ GetcFill \/ GetcEnd
  <2>1. /\ UNCHANGED ioPair /\ ioBuffers \subseteq ioBuffers' /\ ~ioFault
        /\ ioPc' \in {"putc", "flush"}
    BY <1>2, <1>t DEF GetcBuffered, GetcFill, GetcEnd
  <2>2. iob'[w] = iob[w]
    BY <1>2, <1>p, <1>t DEF GetcBuffered, GetcFill, GetcEnd
  <2> QED
    BY <2>1, <2>2, <1>p DEF IoNull
<1>3. CASE PutcBuffered
  BY <1>3, <1>p DEF PutcBuffered
<1>4. CASE PutcCrashes
  BY <1>4 DEF PutcCrashes, IoNull
<1>5. CASE PutcFlush
  <2>1. UNCHANGED ioPair /\ ioPc' = "getc" /\ ~ioFault
    BY <1>5, <1>t DEF PutcFlush
  <2>2. CASE w \in ioBuffers'
    BY <2>1, <2>2, <1>p
  <2>3. CASE iob' = [iob EXCEPT ![w].last_op = "WRITE"] /\ UNCHANGED ioBuffers
    <3>1. iob'[w].next = iob[w].next /\ iob'[w].buff_cnt = iob[w].buff_cnt
      BY <2>3, <1>p, <1>t DEF IoStream
    <3> QED
      BY <2>1, <2>3, <3>1, <1>p DEF IoNull
  <2> QED
    BY <2>2, <2>3, <1>5, <1>p DEF PutcFlush
<1>6. CASE FlushStdout \/ Fclose
  <2>1. /\ UNCHANGED <<ioPair, ioBuffers>> /\ ioPc' \in {"fopen", "closed"} /\ Fflush(w)
    BY <1>6, <1>p DEF FlushStdout, Fclose
  <2>2. ~ioFault /\ (iob[w].next > 0 \/ UNCHANGED iob)
    BY <2>1, <1>t DEF Fflush
  <2> QED
    BY <2>1, <2>2, <1>p DEF IoNull
<1>7. CASE Fopen
  <2> DEFINE src == FreeSlot(iob)
             io1 == [iob EXCEPT ![src] = Opened({"READ"})]
             dst == FreeSlot(io1)
             rd == Opened({"READ"})
             wr == Opened({"WRITE"})
  <2>1. /\ src # 0 /\ dst # 0 /\ iob' = [io1 EXCEPT ![dst] = wr]
        /\ ioPair' = <<src, dst>> /\ ioPc' = "getc"
    BY <1>7 DEF Fopen
  <2>2. rd \in IoStream /\ wr \in IoStream /\ wr.next = 0 /\ wr.buff_cnt = 0
    BY IoOpened DEF IoFlags
  <2>3. src \in 1..OPEN_MAX
    BY <2>1, <1>t, IoFreeSlot
  <2> HIDE DEF src, rd, wr
  <2>4. io1 \in [1..OPEN_MAX -> IoStream]
    BY <2>2, <2>3, <1>t DEF rd
  <2>5. dst \in 1..OPEN_MAX
    <3> HIDE DEF io1
    <3> QED
      BY <2>1, <2>4, IoFreeSlot
  <2> HIDE DEF io1, dst
  <2>6. iob'[dst] = wr /\ ioPair'[2] = dst
    BY <2>1, <2>4, <2>5
  <2> QED
    BY <2>1, <2>2, <2>6
<1>8. CASE FopenFails
  BY <1>8 DEF FopenFails, IoNull
<1> QED
  BY <1>1, <1>2, <1>3, <1>4, <1>5, <1>6, <1>7, <1>8 DEF IoNext

\* As long as every read() and write() of a copy did its work and malloc() gave the
\* stream written to its buffer, nothing is lost, repeated or reordered on the way
\* through the two buffers and no character goes through a null pointer, whatever the
\* sizes of the buffer, the file and the pieces read() returns.
THEOREM StdioIsFaithful == IoSpec => []StdioFaithful
<1>1. IoInv /\ IoNull /\ [IoNext]_ioVars => (IoInv /\ IoNull)'
  BY IoNextInv, IoNullNext
<1>i. IoInit => IoInv /\ IoNull
  BY IoInitInv, StdioAssumption DEF IoInit, IoNull, Opened, NoStream
<1>2. ASSUME IoInv, IoNull PROVE StdioFaithful
  <2> SUFFICES ASSUME ~ioFault
               PROVE  LET s == ioPair[2]
                          inHand == IF ioPc = "putc" THEN <<ioChar>> ELSE << >>
                      IN /\ ioRead = ioFile[s] \o SubSeq(iob[s].buff, 1, iob[s].next) \o inHand
                         /\ iob[s].next <= BUFF_SIZE
                         /\ ioPc \in {"fopen", "closed"} => ioFile[s] = ioRead
                         /\ ioPc # "crashed"
    BY DEF StdioFaithful
  <2>1. PICK r, w \in 1..OPEN_MAX :
           /\ r # w /\ ioPair = <<r, w>> /\ ioPair[1] = r /\ ioPair[2] = w
           /\ iob[r] \in IoStream /\ iob[w] \in IoStream
           /\ ioFile[r] \in Seq(Nat) /\ ioFile[w] \in Seq(Nat)
           /\ IoReads(iob[r]) /\ Len(iob[w].buff) = iob[w].next
           /\ ~ioFault => /\ IoWrites(iob[w])
                          /\ ioRead = ioFile[w] \o iob[w].buff \o
                                      (IF ioPc = "putc" THEN <<ioChar>> ELSE << >>)
    BY <1>2, IoParts
  <2>2. /\ iob[w].next \in Nat /\ iob[w].buff_cnt \in Int /\ iob[w].buff \in Seq(Nat)
        /\ BUFF_SIZE \in Nat
    BY <2>1, StdioAssumption DEF IoStream
  <2>3. SubSeq(iob[w].buff, 1, iob[w].next) = iob[w].buff
    <3>1. \A u \in Seq(Nat) : SubSeq(u, 1, Len(u)) = u
      OBVIOUS
    <3> QED
      BY <3>1, <2>1, <2>2
  <2>4. iob[w].next <= BUFF_SIZE
    BY <2>1, <2>2 DEF IoWrites
  <2>5. ASSUME ioPc \in {"fopen", "closed"} PROVE ioFile[w] = ioRead
    <3>1. iob[w].next = 0 /\ ioRead = ioFile[w] \o iob[w].buff \o << >>
      BY <2>1, <2>5 DEF IoWrites
    <3>2. iob[w].buff = << >>
      BY <3>1, <2>1, <2>2
    <3>3. \A u \in Seq(Nat) : u \o << >> \o << >> = u
      BY ConcatEmptySeq
    <3> QED
      BY <3>1, <3>2, <3>3, <2>1
  <2> QED
    BY <1>2, <2>1, <2>3, <2>4, <2>5 DEF IoNull
<1> QED
  BY <1>1, <1>i, <1>2, PTL DEF IoSpec
----------------------------------------------------------------------------
(* malloc() and free().                                                    *)

MaHeaders == [next : MaAddresses, prev : MaAddresses, size : Nat]

\* The list holds the blocks of F in the order of their addresses, around the sentinel.
MaLinked(m, F) ==
  \A a \in F \cup {0} :
    /\ m[a].next \in F \cup {0} /\ m[a].prev \in F \cup {0}
    /\ m[m[a].next].prev = a /\ m[m[a].prev].next = a
    /\ m[a].next = 0 \/ a < m[a].next
    /\ \A b \in F : a < b => m[a].next # 0 /\ m[a].next <= b

\* The block at address a, in use or not.
MaSize(m, used, a) == IF used[a] # 0 THEN used[a] ELSE m[a].size
MaHeld(used) == {a \in 1..MaHeap : used[a] # 0}

\* The blocks of B, those in use and those that are not, lie below the break and apart.
MaApart(m, used, brk, B) ==
  /\ \A a \in B : MaSize(m, used, a) > 0 /\ a + MaSize(m, used, a) <= brk
  /\ \A a, b \in B : a < b => a + MaSize(m, used, a) <= b

\* No two blocks of F touch.
MaMerged(m, F) == \A a, b \in F : a + m[a].size # b

\* The block that free() puts back, which is not in use any more.
MaGiven == IF maPc = "free" THEN {maFreed} ELSE {}

\* F is the set of the free blocks.  malloc() has passed those that are too small,
\* free() those below the block it puts back.
MaFree(F) ==
  /\ F \subseteq 1..MaHeap /\ MaGiven \subseteq 1..MaHeap
  /\ F \cap MaHeld(maUsed) = {} /\ MaGiven \cap (F \cup MaHeld(maUsed)) = {}
  /\ MaLinked(maMem, F)
  /\ MaApart(maMem, maUsed, maBreak, F \cup MaHeld(maUsed) \cup MaGiven)
  /\ MaMerged(maMem, F)
  /\ maPc # "client" => maBlock \in F \cup {0}
  /\ maPc = "malloc" => \A b \in F : maBlock = 0 \/ b < maBlock => maMem[b].size < maAsked
  /\ maPc = "free" => \A b \in F : maBlock = 0 \/ b < maBlock => b < maFreed

MaType ==
  /\ maPc \in {"client", "malloc", "free"} /\ maAsked \in Nat /\ maLost \in BOOLEAN
  /\ maPc = "malloc" => maAsked > 0
  /\ maBlock \in MaAddresses
  /\ maMem \in [MaAddresses -> MaHeaders] /\ maMem[0].size = 0
  /\ maBreak \in 1..(MaHeap + 1) /\ maUsed \in [1..MaHeap -> Nat]

MaInv == MaType /\ (~maLost => \E F \in SUBSET (1..MaHeap) : MaFree(F))

\* A block out of the list, its neighbours linked.
MaOut(m, m2, F, b) ==
  \A x \in (F \ {b}) \cup {0} :
    /\ m2[x].next = IF x = m[b].prev THEN m[b].next ELSE m[x].next
    /\ m2[x].prev = IF x = m[b].next THEN m[b].prev ELSE m[x].prev

LEMMA MaUnlinks ==
  ASSUME NEW F, F \subseteq 1..MaHeap, NEW m, NEW m2, MaLinked(m, F), NEW b \in F,
         MaOut(m, m2, F, b)
  PROVE  MaLinked(m2, F \ {b})
<1> USE DEF MaOut
<1>1. MaHeap \in Nat /\ b \in 1..MaHeap /\ b # 0 /\ 0 \notin F
  BY MallocAssumption
<1>2. m[b].next \in (F \ {b}) \cup {0} /\ m[b].prev \in (F \ {b}) \cup {0}
  BY <1>1 DEF MaLinked
<1> DEFINE G == (F \ {b}) \cup {0}
<1>n. \A x \in F \cup {0} : x \in Nat
  BY <1>1
<1>l. \A x \in F \cup {0} :
        /\ m[x].next \in F \cup {0} /\ m[x].prev \in F \cup {0}
        /\ m[m[x].next].prev = x /\ m[m[x].prev].next = x
  BY DEF MaLinked
<1>o. \A x \in F \cup {0} : /\ m[x].next = 0 \/ x < m[x].next
                          /\ \A c \in F : x < c => m[x].next # 0 /\ m[x].next <= c
  BY DEF MaLinked
<1>g. \A x \in G : /\ m2[x].next = IF x = m[b].prev THEN m[b].next ELSE m[x].next
                  /\ m2[x].prev = IF x = m[b].next THEN m[b].prev ELSE m[x].prev
  OBVIOUS
<1>3. ASSUME NEW a \in G
      PROVE  /\ m2[a].next \in G /\ m2[a].prev \in G
             /\ m2[m2[a].next].prev = a /\ m2[m2[a].prev].next = a
  <2>1. /\ m2[a].next = IF a = m[b].prev THEN m[b].next ELSE m[a].next
        /\ m2[a].prev = IF a = m[b].next THEN m[b].prev ELSE m[a].prev
    OBVIOUS
  <2>2. a # m[b].prev => m[a].next # b
    BY <1>l
  <2>3. a # m[b].next => m[a].prev # b
    BY <1>l
  <2>4. m2[a].next \in G /\ m2[a].prev \in G
    BY <1>2, <1>l, <2>1, <2>2, <2>3
  <2>5. m2[m2[a].next].prev = a
    <3>1. CASE a = m[b].prev
      BY <1>2, <2>1, <3>1
    <3>2. CASE a # m[b].prev
      <4>1. m2[a].next = m[a].next /\ m[a].next # m[b].next
        BY <1>l, <2>1, <3>2
      <4>2. m[a].next \in G
        BY <2>4, <4>1
      <4>3. m2[m[a].next].prev = m[m[a].next].prev
        BY <1>g, <4>1, <4>2
      <4>4. m[m[a].next].prev = a
        BY <1>l
      <4> QED
        BY <4>1, <4>3, <4>4
    <3> QED
      BY <3>1, <3>2
  <2>6. m2[m2[a].prev].next = a
    <3>1. CASE a = m[b].next
      BY <1>2, <2>1, <3>1
    <3>2. CASE a # m[b].next
      <4>1. m2[a].prev = m[a].prev /\ m[a].prev # m[b].prev
        BY <1>l, <2>1, <3>2
      <4>2. m[a].prev \in G
        BY <2>4, <4>1
      <4>3. m2[m[a].prev].next = m[m[a].prev].next
        BY <1>g, <4>1, <4>2
      <4>4. m[m[a].prev].next = a
        BY <1>l
      <4> QED
        BY <4>1, <4>3, <4>4
    <3> QED
      BY <3>1, <3>2
  <2> QED
    BY <2>4, <2>5, <2>6
<1>4. ASSUME NEW a \in G
      PROVE  /\ m2[a].next = 0 \/ a < m2[a].next
             /\ \A c \in F \ {b} : a < c => m2[a].next # 0 /\ m2[a].next <= c
  <2>1. CASE a = m[b].prev
    <3>1. m2[a].next = m[b].next /\ m[a].next = b
      BY <1>1, <1>2, <2>1 DEF MaLinked
    <3>2. \A c \in F \ {b} : a < c => b < c
      BY <1>1, <1>2, <1>4, <3>1 DEF MaLinked
    <3>3. a < b
      BY <1>1, <1>4, <3>1 DEF MaLinked
    <3>4. m[b].next = 0 \/ a < m[b].next
      <4>1. m[b].next \in Nat /\ (m[b].next = 0 \/ b < m[b].next)
        BY <1>2, <1>n, <1>o
      <4>2. a \in Nat /\ b \in Nat
        BY <1>n
      <4> QED
        BY <3>3, <4>1, <4>2
    <3>5. \A c \in F \ {b} : a < c => m[b].next # 0 /\ m[b].next <= c
      BY <1>o, <3>2
    <3> QED
      BY <3>1, <3>4, <3>5
  <2>2. CASE a # m[b].prev
    BY <1>1, <1>4, <2>2 DEF MaLinked
  <2> QED
    BY <2>1, <2>2
<1> QED
  BY <1>3, <1>4 DEF MaLinked

\* A block into the list, before block r and above all that lie below r.
MaPlace(F, a, r) ==
  /\ a \in 1..MaHeap /\ a \notin F /\ r \in F \cup {0} /\ (r = 0 \/ a < r)
  /\ \A b \in F : r = 0 \/ b < r => b < a
MaInto(m, m2, F, a, r) ==
  /\ \A x \in F \cup {0} :
       /\ m2[x].next = IF x = m[r].prev THEN a ELSE m[x].next
       /\ m2[x].prev = IF x = r THEN a ELSE m[x].prev
  /\ m2[a].next = r /\ m2[a].prev = m[r].prev

LEMMA MaLinksIn ==
  ASSUME NEW F, F \subseteq 1..MaHeap, NEW m, NEW m2, MaLinked(m, F),
         NEW a, NEW r, MaPlace(F, a, r), MaInto(m, m2, F, a, r)
  PROVE  MaLinked(m2, F \cup {a})
<1> USE DEF MaPlace, MaInto
<1>1. MaHeap \in Nat /\ a # 0 /\ 0 \notin F
  BY MallocAssumption
<1> DEFINE p == m[r].prev
<1>2. p \in F \cup {0} /\ m[p].next = r
  <2>1. r \in F \cup {0}
    BY Zenon
  <2>2. \A x \in F \cup {0} : m[x].prev \in F \cup {0} /\ m[m[x].prev].next = x
    BY DEF MaLinked
  <2> QED
    BY <2>1, <2>2
<1>n. p \in Nat /\ r \in Nat /\ a \in Nat /\ \A x \in F \cup {0} : x \in Nat
  <2>1. \A x \in F \cup {0} : x \in Nat
    <3>1. 0 \in Nat /\ 1..MaHeap \subseteq Nat
      BY <1>1
    <3> QED
      BY <3>1, Zenon
  <2>2. a \in Nat
    BY <1>1
  <2> HIDE DEF p
  <2> QED
    BY <1>2, <2>1, <2>2, Zenon
<1>o. \A x \in F \cup {0} : /\ m[x].next = 0 \/ x < m[x].next
                          /\ \A c \in F : x < c => m[x].next # 0 /\ m[x].next <= c
  BY DEF MaLinked
<1>3. p < a
  <2>1. p = 0 \/ r = 0 \/ p < r
    BY <1>2 DEF MaLinked
  <2>2. p # 0 => p \in F
    BY <1>2
  <2>3. p # 0 /\ r = 0 => p < a
    BY <2>2
  <2>4. p # 0 /\ r # 0 => p < a
    BY <2>1, <2>2
  <2> QED
    BY <1>n, <1>1, <2>3, <2>4
<1> HIDE DEF p
<1>l. \A x \in F \cup {0} :
        /\ m2[x].next = (IF x = p THEN a ELSE m[x].next)
        /\ m2[x].prev = (IF x = r THEN a ELSE m[x].prev)
  BY DEF p
<1>m. m2[a].next = r /\ m2[a].prev = p
  BY DEF p
<1>4. ASSUME NEW x \in F \cup {0, a}
      PROVE  /\ m2[x].next \in F \cup {0, a} /\ m2[x].prev \in F \cup {0, a}
             /\ m2[m2[x].next].prev = x /\ m2[m2[x].prev].next = x
  <2>1. CASE x = a
    BY <1>2, <1>l, <1>m, <2>1
  <2>2. CASE x # a
    <3>1. /\ m2[x].next = (IF x = p THEN a ELSE m[x].next)
          /\ m2[x].prev = (IF x = r THEN a ELSE m[x].prev)
      BY <1>4, <1>l, <2>2
    <3>2. m[x].next \in F \cup {0} /\ m[x].prev \in F \cup {0} /\ m[m[x].next].prev = x
          /\ m[m[x].prev].next = x
      BY <1>4, <2>2 DEF MaLinked
    <3>3. m2[m2[x].next].prev = x
      <4>1. CASE x = p
        BY <1>m, <3>1, <4>1
      <4>2. CASE x # p
        <5>1. m[x].next # r
          BY <3>2, <4>2 DEF p
        <5>2. m2[x].next = m[x].next
          BY <3>1, <4>2
        <5>3. m2[m[x].next].prev = m[m[x].next].prev
          BY <1>l, <3>2, <5>1
        <5> QED
          BY <3>2, <5>2, <5>3
      <4> QED
        BY <4>1, <4>2
    <3>4. m2[m2[x].prev].next = x
      <4>1. CASE x = r
        BY <1>m, <3>1, <4>1
      <4>2. CASE x # r
        <5>1. m[x].prev # p
          BY <1>2, <3>2, <4>2
        <5>2. m2[x].prev = m[x].prev
          BY <3>1, <4>2
        <5>3. m2[m[x].prev].next = m[m[x].prev].next
          BY <1>l, <3>2, <5>1
        <5> QED
          BY <3>2, <5>2, <5>3
      <4> QED
        BY <4>1, <4>2
    <3> QED
      BY <3>1, <3>2, <3>3, <3>4
  <2> QED
    BY <2>1, <2>2
<1>5. ASSUME NEW x \in F \cup {0, a}
      PROVE  /\ m2[x].next = 0 \/ x < m2[x].next
             /\ \A c \in F \cup {a} : x < c => m2[x].next # 0 /\ m2[x].next <= c
  <2>1. CASE x = a
    <3>1. \A c \in F : a < c => r # 0 /\ r <= c
      BY <1>1
    <3> QED
      BY <1>1, <2>1, <3>1
  <2>2. CASE x = p
    <3>1. m2[x].next = a
      BY <1>2, <2>2 DEF p
    <3>2. \A c \in F : p < c => a <= c
      <4>1. \A c \in F : p < c => r # 0 /\ r <= c
        BY <1>2, <1>o
      <4>2. r # 0 => a < r
        OBVIOUS
      <4>3. ASSUME NEW c \in F, p < c PROVE a <= c
        <5>1. r # 0 /\ r <= c /\ a < r
          BY <4>1, <4>2, <4>3
        <5>2. c \in Nat
          BY <1>n
        <5> QED
          BY <1>n, <5>1, <5>2
      <4> QED
        BY <4>3
    <3> QED
      BY <1>1, <1>3, <2>2, <3>1, <3>2
  <2>3. CASE x # a /\ x # p
    <3>1. x \in F \cup {0} /\ m2[x].next = m[x].next
      BY <1>5, <2>3 DEF p
    <3>2. x < a => m[x].next # 0 /\ m[x].next <= a
      <4>1. CASE x < p
        <5>1. p \in F
          <6>1. x \in Nat
            BY <1>n, <3>1
          <6>2. p # 0
            BY <1>n, <4>1, <6>1
          <6> QED
            BY <1>2, <6>2
        <5>2. m[x].next # 0 /\ m[x].next <= p
          BY <1>o, <3>1, <4>1, <5>1
        <5>3. m[x].next \in Nat
          BY <1>n, <3>1 DEF MaLinked
        <5> QED
          BY <1>3, <1>n, <5>2, <5>3
      <4>2. CASE ~(x < p) /\ x < a
        <5>1. p < x
          <6>1. x \in Nat
            BY <1>n, <3>1
          <6> QED
            BY <1>n, <2>3, <4>2, <6>1
        <5>2. x \in F
          BY <1>n, <3>1, <5>1
        <5>3. r # 0 /\ r <= x
          BY <1>2, <1>o, <5>1, <5>2
        <5> QED
          <6>1. x \in Nat
            BY <1>n, <3>1
          <6>2. r = 0 \/ a < r
            OBVIOUS
          <6> QED
            BY <1>n, <4>2, <5>3, <6>1, <6>2
      <4> QED
        BY <1>1, <1>2, <3>1, <4>1, <4>2
    <3> QED
      BY <1>1, <3>1, <3>2 DEF MaLinked
  <2> QED
    BY <2>1, <2>2, <2>3
<1> QED
  BY <1>4, <1>5 DEF MaLinked

\* A block in the place of another, above it and below the next.
MaInstead(m, m2, F, b, t) ==
  /\ \A x \in (F \ {b}) \cup {0} :
       /\ m2[x].next = IF x = m[b].prev THEN t ELSE m[x].next
       /\ m2[x].prev = IF x = m[b].next THEN t ELSE m[x].prev
  /\ m2[t].next = m[b].next /\ m2[t].prev = m[b].prev

LEMMA MaReplaces ==
  ASSUME NEW F, F \subseteq 1..MaHeap, NEW m, NEW m2, MaLinked(m, F), NEW b \in F,
         NEW t \in 1..MaHeap, t \notin F, b < t, m[b].next = 0 \/ t < m[b].next,
         MaInstead(m, m2, F, b, t)
  PROVE  MaLinked(m2, (F \ {b}) \cup {t})
<1> USE DEF MaInstead
<1>1. MaHeap \in Nat /\ b \in 1..MaHeap /\ b # 0 /\ 0 \notin F /\ t # 0
  <2>1. MaHeap \in Nat /\ 0 \notin 1..MaHeap
    BY MallocAssumption
  <2> QED
    BY <2>1
<1>n. t \in Nat /\ b \in Nat /\ \A x \in F \cup {0} : x \in Nat
  BY <1>1
<1>l. \A x \in F \cup {0} :
        /\ m[x].next \in F \cup {0} /\ m[x].prev \in F \cup {0}
        /\ m[m[x].next].prev = x /\ m[m[x].prev].next = x
  BY DEF MaLinked
<1>o. \A x \in F \cup {0} : /\ m[x].next = 0 \/ x < m[x].next
                          /\ \A c \in F : x < c => m[x].next # 0 /\ m[x].next <= c
  BY DEF MaLinked
<1>2. m[b].next \in (F \ {b}) \cup {0} /\ m[b].prev \in (F \ {b}) \cup {0}
  BY <1>1 DEF MaLinked
<1> DEFINE G == (F \ {b}) \cup {0}
<1>g. \A x \in G : /\ m2[x].next = IF x = m[b].prev THEN t ELSE m[x].next
                  /\ m2[x].prev = IF x = m[b].next THEN t ELSE m[x].prev
  OBVIOUS
<1>3. ASSUME NEW a \in G
      PROVE  /\ m2[a].next \in G \cup {t} /\ m2[a].prev \in G \cup {t}
             /\ m2[m2[a].next].prev = a /\ m2[m2[a].prev].next = a
  <2>1. /\ m2[a].next = IF a = m[b].prev THEN t ELSE m[a].next
        /\ m2[a].prev = IF a = m[b].next THEN t ELSE m[a].prev
    OBVIOUS
  <2>2. a # m[b].prev => m[a].next # b /\ m[a].next # m[b].next
    BY <1>l, <1>3
  <2>3. a # m[b].next => m[a].prev # b /\ m[a].prev # m[b].prev
    BY <1>l, <1>3
  <2>4. m2[a].next \in G \cup {t} /\ m2[a].prev \in G \cup {t}
    BY <1>l, <2>1, <2>2, <2>3
  <2>5. m2[m2[a].next].prev = a
    <3>1. CASE a = m[b].prev
      BY <2>1, <3>1
    <3>2. CASE a # m[b].prev
      <4>1. m2[a].next = m[a].next /\ m[a].next \in G /\ m[a].next # m[b].next
        BY <1>l, <2>1, <2>2, <3>2
      <4>2. m2[m[a].next].prev = m[m[a].next].prev
        BY <1>g, <4>1
      <4>3. m[m[a].next].prev = a
        BY <1>l
      <4> QED
        BY <4>1, <4>2, <4>3
    <3> QED
      BY <3>1, <3>2
  <2>6. m2[m2[a].prev].next = a
    <3>1. CASE a = m[b].next
      BY <2>1, <3>1
    <3>2. CASE a # m[b].next
      <4>1. m2[a].prev = m[a].prev /\ m[a].prev \in G /\ m[a].prev # m[b].prev
        BY <1>l, <2>1, <2>3, <3>2
      <4>2. m2[m[a].prev].next = m[m[a].prev].next
        BY <1>g, <4>1
      <4>3. m[m[a].prev].next = a
        BY <1>l
      <4> QED
        BY <4>1, <4>2, <4>3
    <3> QED
      BY <3>1, <3>2
  <2> QED
    BY <2>4, <2>5, <2>6
<1>4. /\ m2[t].next \in G /\ m2[t].prev \in G
      /\ m2[m2[t].next].prev = t /\ m2[m2[t].prev].next = t
  BY <1>1, <1>2
<1>5. \A c \in F : b < c => t < c
  <2>1. ASSUME NEW c \in F, b < c PROVE t < c
    <3>1. m[b].next # 0 /\ m[b].next <= c /\ m[b].next \in Nat
      BY <1>l, <1>n, <1>o, <2>1
    <3> QED
      BY <1>n, <3>1
  <2> QED
    BY <2>1
<1>6. ASSUME NEW a \in G
      PROVE  /\ m2[a].next = 0 \/ a < m2[a].next
             /\ \A c \in F \ {b} : a < c => m2[a].next # 0 /\ m2[a].next <= c
             /\ a < t => m2[a].next # 0 /\ m2[a].next <= t
  <2>1. CASE a = m[b].prev
    <3>1. m2[a].next = t /\ m[a].next = b
      BY <1>1, <1>2, <2>1 DEF MaLinked
    <3>2. \A c \in F \ {b} : a < c => b < c
      BY <1>1, <1>2, <1>6, <3>1 DEF MaLinked
    <3>3. a < b
      BY <1>1, <1>6, <3>1 DEF MaLinked
    <3>4. a \in Nat /\ a < t
      <4>1. a \in Nat
        BY <1>n
      <4> QED
        BY <1>n, <3>3, <4>1
    <3>5. \A c \in F \ {b} : a < c => t <= c
      <4>1. \A c \in F : c \in Nat
        BY <1>n
      <4> QED
        BY <1>5, <1>n, <3>2, <4>1
    <3> QED
      BY <1>1, <1>n, <3>1, <3>4, <3>5
  <2>2. CASE a # m[b].prev
    <3>1. m2[a].next = m[a].next /\ a \in F \cup {0}
      BY <1>6, <2>2
    <3>2. a < t => a < b
      BY <1>1, <1>5, <1>6
    <3>3. m[a].next # b
      BY <1>1, <1>6, <2>2 DEF MaLinked
    <3>4. a < b => m[a].next # 0 /\ m[a].next < t
      <4>1. ASSUME a < b PROVE m[a].next # 0 /\ m[a].next <= b /\ m[a].next \in Nat
        BY <1>l, <1>n, <1>o, <3>1, <4>1
      <4> QED
        BY <1>n, <4>1
    <3>5. m[a].next = 0 \/ a < m[a].next
      BY <3>1 DEF MaLinked
    <3>6. \A c \in F : a < c => m[a].next # 0 /\ m[a].next <= c
      BY <3>1 DEF MaLinked
    <3>7. m[a].next \in F \cup {0}
      BY <3>1 DEF MaLinked
    <3>8. m[a].next \in Nat
      BY <1>n, <3>7
    <3>9. a < t => m[a].next # 0 /\ m[a].next <= t
      BY <1>n, <3>2, <3>4, <3>8
    <3> QED
      BY <3>1, <3>5, <3>6, <3>9
  <2> QED
    BY <2>1, <2>2
<1>7. /\ m2[t].next = 0 \/ t < m2[t].next
      /\ \A c \in F \ {b} : t < c => m2[t].next # 0 /\ m2[t].next <= c
  BY <1>1 DEF MaLinked
<1> QED
  BY <1>3, <1>4, <1>6, <1>7 DEF MaLinked

MaMemories == [MaAddresses -> MaHeaders]

\* One field of one header is written.
MaSetNext(m, a, v) == [m EXCEPT ![a].next = v]
MaSetPrev(m, a, v) == [m EXCEPT ![a].prev = v]
MaSetSize(m, a, v) == [m EXCEPT ![a].size = v]
MaNextSet(m, n, a, v) ==
  /\ n \in MaMemories /\ n[a].next = v
  /\ \A x \in MaAddresses : x # a => n[x].next = m[x].next
  /\ \A x \in MaAddresses : n[x].prev = m[x].prev /\ n[x].size = m[x].size
MaPrevSet(m, n, a, v) ==
  /\ n \in MaMemories /\ n[a].prev = v
  /\ \A x \in MaAddresses : x # a => n[x].prev = m[x].prev
  /\ \A x \in MaAddresses : n[x].next = m[x].next /\ n[x].size = m[x].size
MaSizeSet(m, n, a, v) ==
  /\ n \in MaMemories /\ n[a].size = v
  /\ \A x \in MaAddresses : x # a => n[x].size = m[x].size
  /\ \A x \in MaAddresses : n[x].next = m[x].next /\ n[x].prev = m[x].prev

LEMMA MaWritesNext ==
  ASSUME NEW m \in MaMemories, NEW a \in MaAddresses, NEW v \in MaAddresses
  PROVE  MaNextSet(m, MaSetNext(m, a, v), a, v)
<1> DEFINE n == MaSetNext(m, a, v)
           h == m[a]
           g == [h EXCEPT !.next = v]
<1>1. h \in MaHeaders /\ \A x \in MaAddresses : m[x] \in MaHeaders
  BY DEF MaMemories
<1>2. n = [x \in MaAddresses |-> IF x = a THEN g ELSE m[x]]
  BY DEF MaMemories, MaSetNext
<1> HIDE DEF h, n
<1>3. g \in MaHeaders /\ g.next = v /\ g.prev = h.prev /\ g.size = h.size
  BY <1>1 DEF MaHeaders
<1> HIDE DEF g
<1>4. \A x \in MaAddresses : n[x] \in MaHeaders
  <2>1. \A x \in MaAddresses : (IF x = a THEN g ELSE m[x]) \in MaHeaders
    BY <1>1, <1>3, Zenon
  <2> QED
    BY <1>2, <2>1, Zenon
<1>5. n[a] = g /\ \A x \in MaAddresses : x # a => n[x] = m[x]
  BY <1>2, Zenon
<1>6. n \in MaMemories
  BY <1>2, <1>4, Zenon DEF MaMemories
<1>7. n[a].next = v /\ n[a].prev = m[a].prev /\ n[a].size = m[a].size
  BY <1>3, <1>5, Zenon DEF h
<1>8. \A x \in MaAddresses : n[x].prev = m[x].prev /\ n[x].size = m[x].size
  BY <1>5, <1>7, Zenon
<1>9. MaNextSet(m, n, a, v)
  BY <1>5, <1>6, <1>7, <1>8, Zenon DEF MaNextSet
<1> QED
  BY <1>9, Zenon DEF n

LEMMA MaWritesPrev ==
  ASSUME NEW m \in MaMemories, NEW a \in MaAddresses, NEW v \in MaAddresses
  PROVE  MaPrevSet(m, MaSetPrev(m, a, v), a, v)
<1> DEFINE n == MaSetPrev(m, a, v)
           h == m[a]
           g == [h EXCEPT !.prev = v]
<1>1. h \in MaHeaders /\ \A x \in MaAddresses : m[x] \in MaHeaders
  BY DEF MaMemories
<1>2. n = [x \in MaAddresses |-> IF x = a THEN g ELSE m[x]]
  BY DEF MaMemories, MaSetPrev
<1> HIDE DEF h, n
<1>3. g \in MaHeaders /\ g.prev = v /\ g.next = h.next /\ g.size = h.size
  BY <1>1 DEF MaHeaders
<1> HIDE DEF g
<1>4. \A x \in MaAddresses : n[x] \in MaHeaders
  <2>1. \A x \in MaAddresses : (IF x = a THEN g ELSE m[x]) \in MaHeaders
    BY <1>1, <1>3, Zenon
  <2> QED
    BY <1>2, <2>1, Zenon
<1>5. n[a] = g /\ \A x \in MaAddresses : x # a => n[x] = m[x]
  BY <1>2, Zenon
<1>6. n \in MaMemories
  BY <1>2, <1>4, Zenon DEF MaMemories
<1>7. n[a].prev = v /\ n[a].next = m[a].next /\ n[a].size = m[a].size
  BY <1>3, <1>5, Zenon DEF h
<1>8. \A x \in MaAddresses : n[x].next = m[x].next /\ n[x].size = m[x].size
  BY <1>5, <1>7, Zenon
<1>9. MaPrevSet(m, n, a, v)
  BY <1>5, <1>6, <1>7, <1>8, Zenon DEF MaPrevSet
<1> QED
  BY <1>9, Zenon DEF n

LEMMA MaWritesSize ==
  ASSUME NEW m \in MaMemories, NEW a \in MaAddresses, NEW v \in Nat
  PROVE  MaSizeSet(m, MaSetSize(m, a, v), a, v)
<1> DEFINE n == MaSetSize(m, a, v)
           h == m[a]
           g == [h EXCEPT !.size = v]
<1>1. h \in MaHeaders /\ \A x \in MaAddresses : m[x] \in MaHeaders
  BY DEF MaMemories
<1>2. n = [x \in MaAddresses |-> IF x = a THEN g ELSE m[x]]
  BY DEF MaMemories, MaSetSize
<1> HIDE DEF h, n
<1>3. g \in MaHeaders /\ g.size = v /\ g.next = h.next /\ g.prev = h.prev
  BY <1>1 DEF MaHeaders
<1> HIDE DEF g
<1>4. \A x \in MaAddresses : n[x] \in MaHeaders
  <2>1. \A x \in MaAddresses : (IF x = a THEN g ELSE m[x]) \in MaHeaders
    BY <1>1, <1>3, Zenon
  <2> QED
    BY <1>2, <2>1, Zenon
<1>5. n[a] = g /\ \A x \in MaAddresses : x # a => n[x] = m[x]
  BY <1>2, Zenon
<1>6. n \in MaMemories
  BY <1>2, <1>4, Zenon DEF MaMemories
<1>7. n[a].size = v /\ n[a].next = m[a].next /\ n[a].prev = m[a].prev
  BY <1>3, <1>5, Zenon DEF h
<1>8. \A x \in MaAddresses : n[x].next = m[x].next /\ n[x].prev = m[x].prev
  BY <1>5, <1>7, Zenon
<1>9. MaSizeSet(m, n, a, v)
  BY <1>5, <1>6, <1>7, <1>8, Zenon DEF MaSizeSet
<1> QED
  BY <1>9, Zenon DEF n

MaPut(m, n, F, a, r) ==
  /\ n \in MaMemories /\ MaLinked(n, F \cup {a})
  /\ n[a].next = r /\ \A x \in MaAddresses : n[x].size = m[x].size

\* free() links the block in; its size and the others' stay.
LEMMA MaPuts ==
  ASSUME NEW m \in MaMemories, NEW F, F \subseteq 1..MaHeap, MaLinked(m, F),
         NEW a, NEW r, MaPlace(F, a, r)
  PROVE  MaPut(m, LinkedIn(m, a, r), F, a, r)
<1> DEFINE n == LinkedIn(m, a, r)
<1>1. /\ a \in MaAddresses /\ r \in MaAddresses /\ r # a /\ a # 0
      /\ \A x \in F \cup {0} : x \in MaAddresses /\ x # a
  BY MallocAssumption DEF MaAddresses, MaPlace
<1> DEFINE m1 == MaSetNext(m, a, r)
           p == m1[r].prev
           m2 == MaSetPrev(m1, a, p)
           m3 == MaSetPrev(m2, r, a)
           q == m3[a].prev
           m4 == MaSetNext(m3, q, a)
<1>2. n = m4
  BY DEF LinkedIn, MaSetNext, MaSetPrev
<1> HIDE DEF n
<1>3. MaNextSet(m, m1, a, r)
  BY <1>1, MaWritesNext, Zenon
<1> HIDE DEF m1
<1>4. p = m[r].prev /\ p \in F \cup {0}
  <2>1. m[r].prev \in F \cup {0}
    BY DEF MaLinked, MaPlace
  <2>2. p = m[r].prev
    BY <1>1, <1>3, Zenon DEF MaNextSet
  <2> QED
    BY <2>1, <2>2, Zenon
<1> HIDE DEF p
<1>p. p \in MaAddresses /\ p # a
  BY <1>1, <1>4, Zenon
<1>5. MaPrevSet(m1, m2, a, p)
  BY <1>1, <1>3, <1>p, MaWritesPrev, Zenon DEF MaNextSet
<1> HIDE DEF m2
<1>6. MaPrevSet(m2, m3, r, a)
  <2>1. m2 \in MaMemories
    BY <1>5, Zenon DEF MaPrevSet
  <2> QED
    BY <1>1, <2>1, MaWritesPrev, Zenon
<1> HIDE DEF m3
<1>7. q = p
  BY <1>1, <1>5, <1>6, Zenon DEF q, MaPrevSet
<1> HIDE DEF q
<1>8. MaNextSet(m3, m4, p, a)
  <2>1. MaNextSet(m3, MaSetNext(m3, p, a), p, a)
    BY <1>1, <1>p, <1>6, MaWritesNext, Zenon DEF MaPrevSet
  <2> QED
    BY <1>7, <2>1, Zenon
<1> HIDE DEF m4
<1>10. /\ n \in MaMemories /\ n[p].next = a /\ n[r].prev = a
       /\ \A x \in MaAddresses : x # p /\ x # a => n[x].next = m[x].next
       /\ \A x \in MaAddresses : x # r /\ x # a => n[x].prev = m[x].prev
       /\ \A x \in MaAddresses : n[x].size = m[x].size
  BY <1>1, <1>p, <1>2, <1>3, <1>5, <1>6, <1>8 DEF MaNextSet, MaPrevSet
<1>11. \A x \in F \cup {0} :
         /\ n[x].next = IF x = m[r].prev THEN a ELSE m[x].next
         /\ n[x].prev = IF x = r THEN a ELSE m[x].prev
  BY <1>1, <1>4, <1>10
<1>12. n[a].next = r /\ n[a].prev = m[r].prev
  <2>1. n[a].next = m1[a].next
    BY <1>1, <1>p, <1>2, <1>5, <1>6, <1>8 DEF MaNextSet, MaPrevSet
  <2>2. n[a].prev = m2[a].prev
    BY <1>1, <1>2, <1>6, <1>8, Zenon DEF MaNextSet, MaPrevSet
  <2> QED
    BY <1>3, <1>4, <1>5, <2>1, <2>2, Zenon DEF MaNextSet, MaPrevSet
<1>13. MaLinked(n, F \cup {a})
  <2>1. MaInto(m, n, F, a, r)
    BY <1>11, <1>12, Zenon DEF MaInto
  <2> QED
    BY <2>1, MaLinksIn, Zenon
<1>14. MaPut(m, n, F, a, r)
  BY <1>10, <1>12, <1>13, Zenon DEF MaPut
<1> QED
  BY <1>14, Zenon DEF n

\* Block a has taken in block b.
MaGrown(m, n, a, b) ==
  n[a].size = m[a].size + m[b].size /\ \A x \in MaAddresses : x # a => n[x].size = m[x].size
MaJoined(m, n, F, a, b) == MaLinked(n, F \ {b}) /\ n \in MaMemories /\ MaGrown(m, n, a, b)

\* The block takes in the free one it touches on the right.
LEMMA MaMergesRight ==
  ASSUME NEW m \in MaMemories, NEW F, F \subseteq 1..MaHeap, MaLinked(m, F), NEW a \in F,
         NEW r \in F, r = m[a].next, a + m[a].size = r
  PROVE  MaJoined(m, MergeRight(m, a, r), F, a, r)
<1> DEFINE n == MergeRight(m, a, r)
<1>1. a \in MaAddresses /\ r \in MaAddresses /\ \A x \in F \cup {0} : x \in MaAddresses
  BY MallocAssumption DEF MaAddresses
<1>2. m[r].prev = a /\ m[r].next \in F \cup {0} /\ m[a].size \in Nat /\ m[r].size \in Nat
  <2>1. m[a] \in MaHeaders /\ m[r] \in MaHeaders
    BY <1>1 DEF MaMemories
  <2> QED
    BY <2>1 DEF MaLinked, MaHeaders
<1>3. r # a
  <2>1. r \in Nat \ {0}
    <3>1. 1..MaHeap \subseteq Nat \ {0}
      BY MallocAssumption
    <3> QED
      BY <3>1, Zenon
  <2>2. m[r].next = 0 \/ r < m[r].next
    BY DEF MaLinked
  <2>3. m[a].next = 0 \/ a < m[a].next
    BY DEF MaLinked
  <2> QED
    BY <2>1, <2>2, <2>3
<1> DEFINE s == m[a].size + m[r].size
           m1 == MaSetSize(m, a, s)
           t == m1[r].next
           m2 == MaSetPrev(m1, t, a)
           u == m2[r].next
           m3 == MaSetNext(m2, a, u)
<1>4. n = m3
  BY DEF MergeRight, MaSetNext, MaSetPrev, MaSetSize
<1> HIDE DEF n
<1>5. s \in Nat
  BY <1>2
<1>e. s = m[a].size + m[r].size
  OBVIOUS
<1> HIDE DEF s
<1>6. MaSizeSet(m, m1, a, s)
  BY <1>1, <1>5, MaWritesSize, Zenon
<1> HIDE DEF m1
<1>7. t = m[r].next
  BY <1>1, <1>6, Zenon DEF MaSizeSet
<1> HIDE DEF t
<1>t. t \in MaAddresses
  BY <1>1, <1>2, <1>7, Zenon
<1>8. MaPrevSet(m1, m2, t, a)
  <2>1. m1 \in MaMemories
    BY <1>6, Zenon DEF MaSizeSet
  <2> QED
    BY <1>1, <1>t, <2>1, MaWritesPrev, Zenon
<1> HIDE DEF m2
<1>9. u = t
  BY <1>1, <1>6, <1>7, <1>8, Zenon DEF MaSizeSet, MaPrevSet
<1> HIDE DEF u
<1>10. MaNextSet(m2, m3, a, t)
  <2>1. m2 \in MaMemories
    BY <1>8, Zenon DEF MaPrevSet
  <2>2. MaNextSet(m2, MaSetNext(m2, a, t), a, t)
    BY <1>1, <1>t, <2>1, MaWritesNext, Zenon
  <2> QED
    BY <1>9, <2>2, Zenon
<1> HIDE DEF m3
<1>11. /\ n \in MaMemories /\ n[a].next = t /\ n[t].prev = a /\ n[a].size = s
       /\ \A x \in MaAddresses : x # a => n[x].next = m[x].next /\ n[x].size = m[x].size
       /\ \A x \in MaAddresses : x # t => n[x].prev = m[x].prev
  BY <1>1, <1>t, <1>4, <1>6, <1>8, <1>10 DEF MaSizeSet, MaPrevSet, MaNextSet
<1>12. MaOut(m, n, F, r)
  BY <1>1, <1>2, <1>7, <1>11 DEF MaOut
<1>13. MaLinked(n, F \ {r})
  BY <1>12, MaUnlinks, Zenon
<1>14. MaJoined(m, n, F, a, r)
  BY <1>11, <1>13, <1>e DEF MaJoined, MaGrown
<1> QED
  BY <1>14, Zenon DEF n

\* The free block that the block touches on the left takes it in.
LEMMA MaMergesLeft ==
  ASSUME NEW m \in MaMemories, NEW F, F \subseteq 1..MaHeap, MaLinked(m, F), NEW a \in F,
         NEW p \in F, p = m[a].prev, p + m[p].size = a
  PROVE  MaJoined(m, MergeLeft(m, a), F, p, a)
<1> DEFINE n == MergeLeft(m, a)
<1>1. a \in MaAddresses /\ p \in MaAddresses /\ \A x \in F \cup {0} : x \in MaAddresses
  BY MallocAssumption DEF MaAddresses
<1>2. m[p].next = a /\ m[a].next \in F \cup {0} /\ m[a].size \in Nat /\ m[p].size \in Nat
  <2>1. m[a] \in MaHeaders /\ m[p] \in MaHeaders
    BY <1>1 DEF MaMemories
  <2> QED
    BY <2>1 DEF MaLinked, MaHeaders
<1>3. p # a
  <2>1. a \in Nat \ {0}
    BY MallocAssumption
  <2>2. m[p].next = 0 \/ p < m[p].next
    BY DEF MaLinked
  <2> QED
    BY <1>2, <2>1, <2>2
<1> DEFINE s == m[p].size + m[a].size
           m1 == MaSetSize(m, p, s)
           t == m1[a].next
           m2 == MaSetNext(m1, p, t)
           u == m2[a].next
           m3 == MaSetPrev(m2, u, p)
<1>4. n = m3
  BY DEF MergeLeft, MaSetNext, MaSetPrev, MaSetSize
<1> HIDE DEF n
<1>5. s \in Nat
  BY <1>2
<1>e. s = m[p].size + m[a].size
  OBVIOUS
<1> HIDE DEF s
<1>6. MaSizeSet(m, m1, p, s)
  BY <1>1, <1>5, MaWritesSize, Zenon
<1> HIDE DEF m1
<1>7. t = m[a].next
  BY <1>1, <1>6, Zenon DEF MaSizeSet
<1> HIDE DEF t
<1>t. t \in MaAddresses
  BY <1>1, <1>2, <1>7, Zenon
<1>8. MaNextSet(m1, m2, p, t)
  <2>1. m1 \in MaMemories
    BY <1>6, Zenon DEF MaSizeSet
  <2> QED
    BY <1>1, <1>t, <2>1, MaWritesNext, Zenon
<1> HIDE DEF m2
<1>9. u = t
  BY <1>1, <1>3, <1>6, <1>7, <1>8, Zenon DEF MaSizeSet, MaNextSet
<1> HIDE DEF u
<1>10. MaPrevSet(m2, m3, t, p)
  <2>1. m2 \in MaMemories
    BY <1>8, Zenon DEF MaNextSet
  <2>2. MaPrevSet(m2, MaSetPrev(m2, t, p), t, p)
    BY <1>1, <1>t, <2>1, MaWritesPrev, Zenon
  <2> QED
    BY <1>9, <2>2, Zenon
<1> HIDE DEF m3
<1>11. /\ n \in MaMemories /\ n[p].next = t /\ n[t].prev = p /\ n[p].size = s
       /\ \A x \in MaAddresses : x # p => n[x].next = m[x].next /\ n[x].size = m[x].size
       /\ \A x \in MaAddresses : x # t => n[x].prev = m[x].prev
  BY <1>1, <1>t, <1>4, <1>6, <1>8, <1>10 DEF MaSizeSet, MaPrevSet, MaNextSet
<1>12. MaOut(m, n, F, a)
  BY <1>1, <1>2, <1>7, <1>11 DEF MaOut
<1>13. MaLinked(n, F \ {a})
  BY <1>12, MaUnlinks, Zenon
<1>14. MaJoined(m, n, F, p, a)
  BY <1>11, <1>13, <1>e DEF MaJoined, MaGrown
<1> QED
  BY <1>14, Zenon DEF n

\* malloc() takes the whole block.
MaWhole(m, n, F, b) ==
  MaLinked(n, F \ {b}) /\ n \in MaMemories /\ \A x \in MaAddresses : n[x].size = m[x].size

LEMMA MaTakesWhole ==
  ASSUME NEW m \in MaMemories, NEW F, F \subseteq 1..MaHeap, MaLinked(m, F), NEW b \in F
  PROVE  MaWhole(m, TakeWhole(m, b), F, b)
<1> DEFINE n == TakeWhole(m, b)
<1>1. b \in MaAddresses /\ \A x \in F \cup {0} : x \in MaAddresses
  BY MallocAssumption DEF MaAddresses
<1> DEFINE p == m[b].prev
           t == m[b].next
           m1 == MaSetNext(m, p, t)
           u == m1[b].next
           v == m1[b].prev
           m2 == MaSetPrev(m1, u, v)
<1>2. p \in F \cup {0} /\ t \in F \cup {0} /\ m[p].next = b
  BY DEF MaLinked
<1>3. p # b
  <2>1. b \in Nat \ {0}
    BY MallocAssumption
  <2>2. m[b].next = 0 \/ b < m[b].next
    BY DEF MaLinked
  <2> QED
    BY <1>2, <2>1, <2>2
<1>4. n = m2
  BY DEF TakeWhole, MaSetNext, MaSetPrev
<1> HIDE DEF n
<1>5. p = m[b].prev /\ t = m[b].next
  OBVIOUS
<1> HIDE DEF p, t
<1>6. MaNextSet(m, m1, p, t)
  BY <1>1, <1>2, MaWritesNext, Zenon
<1> HIDE DEF m1
<1>7. u = t /\ v = p
  BY <1>1, <1>3, <1>5, <1>6, Zenon DEF MaNextSet
<1> HIDE DEF u, v
<1>8. MaPrevSet(m1, m2, t, p)
  <2>1. m1 \in MaMemories
    BY <1>6, Zenon DEF MaNextSet
  <2>2. MaPrevSet(m1, MaSetPrev(m1, t, p), t, p)
    BY <1>1, <1>2, <2>1, MaWritesPrev, Zenon
  <2> QED
    BY <1>7, <2>2, Zenon
<1> HIDE DEF m2
<1>9. /\ n \in MaMemories /\ n[p].next = t /\ n[t].prev = p
      /\ \A x \in MaAddresses : n[x].size = m[x].size
      /\ \A x \in MaAddresses : x # p => n[x].next = m[x].next
      /\ \A x \in MaAddresses : x # t => n[x].prev = m[x].prev
  BY <1>1, <1>2, <1>4, <1>6, <1>8 DEF MaPrevSet, MaNextSet
<1>10. MaOut(m, n, F, b)
  BY <1>1, <1>5, <1>9 DEF MaOut
<1>11. MaLinked(n, F \ {b})
  BY <1>10, MaUnlinks, Zenon
<1>12. MaWhole(m, n, F, b)
  BY <1>9, <1>11, Zenon DEF MaWhole
<1> QED
  BY <1>12, Zenon DEF n

\* The header of the tail: a whole header is written.
MaSetHeader(m, a, h) == [m EXCEPT ![a] = h]
MaHeaderSet(m, n, a, h) ==
  n \in MaMemories /\ n[a] = h /\ \A x \in MaAddresses : x # a => n[x] = m[x]

LEMMA MaWritesHeader ==
  ASSUME NEW m \in MaMemories, NEW a \in MaAddresses, NEW h \in MaHeaders
  PROVE  MaHeaderSet(m, MaSetHeader(m, a, h), a, h)
BY DEF MaMemories, MaSetHeader, MaHeaderSet

\* malloc() takes the front of a block that is too large; its tail stays in the list.
MaTail(m, F, b, units, t) ==
  /\ units \in Nat /\ 0 < units /\ units < m[b].size
  /\ t = b + units /\ t \in 1..MaHeap /\ t \notin F /\ (m[b].next = 0 \/ t < m[b].next)
MaCut(m, n, b, units, t) ==
  n[t].size = m[b].size - units /\ \A x \in MaAddresses : x # t => n[x].size = m[x].size
MaSplit(m, n, F, b, units, t) ==
  MaLinked(n, (F \ {b}) \cup {t}) /\ n \in MaMemories /\ MaCut(m, n, b, units, t)

LEMMA MaSplits ==
  ASSUME NEW m \in MaMemories, NEW F, F \subseteq 1..MaHeap, MaLinked(m, F), NEW b \in F,
         NEW units, NEW t, MaTail(m, F, b, units, t)
  PROVE  MaSplit(m, SplitTail(m, b, units), F, b, units, t)
<1> USE DEF MaTail
<1> DEFINE n == SplitTail(m, b, units)
<1>1. /\ b \in MaAddresses /\ t \in MaAddresses /\ \A x \in F \cup {0} : x \in MaAddresses /\ x # t
      /\ b # t /\ b < t
  <2>1. /\ b \in Nat \ {0} /\ b \in MaAddresses /\ t \in MaAddresses /\ t # 0
        /\ \A x \in F \cup {0} : x \in MaAddresses
    <3>1. 1..MaHeap \subseteq Nat \ {0} /\ 1..MaHeap \subseteq MaAddresses /\ 0 \in MaAddresses
      BY MallocAssumption DEF MaAddresses
    <3> QED
      BY <3>1, Zenon
  <2>2. b < t
    BY <2>1
  <2> QED
    BY <2>1, <2>2
<1> DEFINE h == [size |-> m[b].size - units, prev |-> m[b].prev, next |-> m[b].next]
           m1 == MaSetHeader(m, t, h)
           p == m1[b].prev
           m2 == MaSetNext(m1, p, t)
           q == m2[b].next
           m3 == MaSetPrev(m2, q, t)
<1>2. m[b].prev \in F \cup {0} /\ m[b].next \in F \cup {0} /\ m[m[b].prev].next = b
  BY DEF MaLinked
<1>3. m[b].prev # b
  <2>1. b \in Nat \ {0}
    BY MallocAssumption
  <2>2. m[b].next = 0 \/ b < m[b].next
    BY DEF MaLinked
  <2> QED
    BY <1>2, <2>1, <2>2
<1>4. n = m3
  BY DEF SplitTail, MaSetHeader, MaSetNext, MaSetPrev
<1> HIDE DEF n
<1>5. h \in MaHeaders
  <2>1. m[b] \in MaHeaders
    BY <1>1 DEF MaMemories
  <2>2. m[b].size \in Nat /\ m[b].next \in MaAddresses /\ m[b].prev \in MaAddresses
    BY <2>1 DEF MaHeaders
  <2>3. m[b].size - units \in Nat
    BY <2>2
  <2> QED
    BY <2>2, <2>3 DEF MaHeaders
<1>6. h.size = m[b].size - units /\ h.prev = m[b].prev /\ h.next = m[b].next
  OBVIOUS
<1> HIDE DEF h
<1>7. m1 \in MaMemories /\ m1[t] = h /\ \A x \in MaAddresses : x # t => m1[x] = m[x]
  <2>1. MaHeaderSet(m, m1, t, h)
    BY <1>1, <1>5, MaWritesHeader, Zenon
  <2> QED
    BY <2>1, Zenon DEF MaHeaderSet
<1> HIDE DEF m1
<1>8. p = m[b].prev
  BY <1>1, <1>7, Zenon
<1> HIDE DEF p
<1>9. p \in MaAddresses /\ p # b /\ p # t
  BY <1>1, <1>2, <1>3, <1>8, Zenon
<1>10. MaNextSet(m1, m2, p, t)
  BY <1>1, <1>7, <1>9, MaWritesNext, Zenon
<1> HIDE DEF m2
<1>11. q = m[b].next
  <2>1. q = m1[b].next
    BY <1>1, <1>9, <1>10, Zenon DEF MaNextSet
  <2> QED
    BY <1>1, <1>7, <2>1, Zenon
<1> HIDE DEF q
<1>12. q \in MaAddresses /\ q # t
  BY <1>1, <1>2, <1>11, Zenon
<1>13. MaPrevSet(m2, m3, q, t)
  <2>1. m2 \in MaMemories
    BY <1>10, Zenon DEF MaNextSet
  <2> QED
    BY <1>1, <1>12, <2>1, MaWritesPrev, Zenon
<1> HIDE DEF m3
<1>14. /\ n \in MaMemories /\ n[p].next = t /\ n[q].prev = t
       /\ \A x \in MaAddresses : n[x].size = m1[x].size
       /\ \A x \in MaAddresses : x # p => n[x].next = m1[x].next
       /\ \A x \in MaAddresses : x # q => n[x].prev = m1[x].prev
  BY <1>1, <1>9, <1>12, <1>4, <1>10, <1>13 DEF MaPrevSet, MaNextSet
<1>15. /\ \A x \in MaAddresses : x # t => n[x].size = m[x].size
       /\ \A x \in MaAddresses : x # p /\ x # t => n[x].next = m[x].next
       /\ \A x \in MaAddresses : x # q /\ x # t => n[x].prev = m[x].prev
  BY <1>7, <1>14, Zenon
<1>16. n[t].size = m[b].size - units /\ n[t].next = m[b].next /\ n[t].prev = m[b].prev
  BY <1>1, <1>6, <1>7, <1>9, <1>12, <1>14, Zenon
<1>17. MaInstead(m, n, F, b, t)
  BY <1>1, <1>8, <1>11, <1>14, <1>15, <1>16 DEF MaInstead
<1>18. MaLinked(n, (F \ {b}) \cup {t})
  BY <1>1, <1>17, MaReplaces, Zenon
<1>19. MaSplit(m, n, F, b, units, t)
  BY <1>14, <1>15, <1>16, <1>18, Zenon DEF MaSplit, MaCut
<1> QED
  BY <1>19, Zenon DEF n

\* Two touching blocks are one: the blocks stay apart and inside the heap.
LEMMA MaApartMerged ==
  ASSUME NEW m \in MaMemories, NEW n \in MaMemories, NEW used \in [1..MaHeap -> Nat], NEW brk \in Nat,
         NEW B, B \subseteq 1..MaHeap, MaApart(m, used, brk, B),
         NEW a \in B, NEW r \in B, used[a] = 0, used[r] = 0, a + m[a].size = r,
         MaGrown(m, n, a, r)
  PROVE  MaApart(n, used, brk, B \ {r})
<1> USE DEF MaGrown
<1>1. 1..MaHeap \subseteq MaAddresses /\ 1..MaHeap \subseteq Nat
  BY MallocAssumption DEF MaAddresses
<1>2. \A x \in B : MaSize(m, used, x) \in Nat
  <2>1. ASSUME NEW x \in B PROVE MaSize(m, used, x) \in Nat
    <3>1. m[x] \in MaHeaders /\ x \in 1..MaHeap
      BY <1>1 DEF MaMemories
    <3>2. used[x] \in Nat /\ m[x].size \in Nat
      BY <3>1 DEF MaHeaders
    <3> QED
      BY <3>2 DEF MaSize
  <2> QED
    BY <2>1
<1>3. MaSize(m, used, a) = m[a].size /\ MaSize(m, used, r) = m[r].size
  BY DEF MaSize
<1>4. MaSize(n, used, a) = MaSize(m, used, a) + MaSize(m, used, r)
  BY <1>3 DEF MaSize
<1>5. \A x \in B : x # a => MaSize(n, used, x) = MaSize(m, used, x)
  BY <1>1 DEF MaSize
<1>6. /\ \A x \in B : MaSize(m, used, x) > 0 /\ x + MaSize(m, used, x) <= brk
      /\ \A x, y \in B : x < y => x + MaSize(m, used, x) <= y
      /\ a + MaSize(m, used, a) = r
  BY <1>3 DEF MaApart
<1>n. \A x \in B : x \in Nat
  BY <1>1
<1>7. ASSUME NEW x \in B \ {r}
      PROVE  /\ MaSize(n, used, x) > 0 /\ x + MaSize(n, used, x) <= brk
             /\ \A y \in B \ {r} : x < y => x + MaSize(n, used, x) <= y
  <2>1. CASE x # a
    BY <1>5, <1>6, <2>1
  <2>2. CASE x = a
    <3> DEFINE sa == MaSize(m, used, a)
               sr == MaSize(m, used, r)
    <3>1. sa \in Nat /\ sr \in Nat /\ a \in Nat /\ r \in Nat /\ sa > 0 /\ sr > 0
      BY <1>2, <1>6, <1>n
    <3>2. MaSize(n, used, x) = sa + sr /\ a + sa = r /\ r + sr <= brk
      BY <1>4, <1>6, <2>2
    <3>3. \A y \in B : r < y => r + sr <= y
      BY <1>6
    <3>4. \A y \in B : a < y => r <= y
      BY <1>6
    <3> HIDE DEF sa, sr
    <3>5. MaSize(n, used, x) > 0 /\ x + MaSize(n, used, x) <= brk
      BY <2>2, <3>1, <3>2
    <3>6. ASSUME NEW y \in B \ {r}, x < y PROVE x + MaSize(n, used, x) <= y
      <4>1. y \in Nat /\ r < y
        BY <1>n, <2>2, <3>1, <3>4, <3>6
      <4>2. r + sr <= y
        BY <3>3, <4>1
      <4> QED
        BY <2>2, <3>1, <3>2, <4>1, <4>2
    <3> QED
      BY <3>5, <3>6
  <2> QED
    BY <2>1, <2>2
<1> QED
  BY <1>7 DEF MaApart

\* What is left to merge is the block with the one on its left.
MaAfter(m, used, brk, F, a) ==
  /\ a \in F /\ MaLinked(m, F) /\ MaApart(m, used, brk, F \cup MaHeld(used))
  /\ \A x, y \in F : x + m[x].size = y => y = a
MaDone(m, used, brk, F) ==
  MaLinked(m, F) /\ MaApart(m, used, brk, F \cup MaHeld(used)) /\ MaMerged(m, F)

\* free() merges the block with the one on its right, if they touch.
LEMMA MaRight ==
  ASSUME NEW m \in MaMemories, NEW used \in [1..MaHeap -> Nat], NEW brk \in Nat,
         NEW F, F \subseteq 1..MaHeap, MaLinked(m, F), F \cap MaHeld(used) = {},
         MaApart(m, used, brk, F \cup MaHeld(used)),
         NEW a \in F, \A x, y \in F : x + m[x].size = y => x = a \/ y = a,
         m[0].size = 0
  PROVE  /\ MergeRight(m, a, m[a].next) \in MaMemories /\ MergeRight(m, a, m[a].next)[0].size = 0
         /\ \E G \in SUBSET F : MaAfter(MergeRight(m, a, m[a].next), used, brk, G, a)
<1> DEFINE n == MergeRight(m, a, m[a].next)
<1>0. n = MergeRight(m, a, m[a].next)
  OBVIOUS
<1> HIDE DEF n
<1> DEFINE r == m[a].next
<1>1. 1..MaHeap \subseteq MaAddresses /\ 1..MaHeap \subseteq Nat \ {0} /\ 0 \in MaAddresses
  BY MallocAssumption DEF MaAddresses
<1>2. \A x \in F : x \in Nat \ {0} /\ x \in MaAddresses /\ used[x] = 0
  BY <1>1 DEF MaHeld
<1>3. \A x \in F : m[x].size \in Nat /\ MaSize(m, used, x) = m[x].size
  <2>1. \A x \in F : m[x] \in MaHeaders
    BY <1>2 DEF MaMemories
  <2> QED
    BY <1>2, <2>1 DEF MaHeaders, MaSize
<1>4. /\ \A x \in F : m[x].size > 0
      /\ \A x, y \in F : x < y => x + m[x].size <= y
  BY <1>3 DEF MaApart
<1>5. r \in F \cup {0} /\ (r = 0 \/ a < r) /\ \A b \in F : a < b => r # 0 /\ r <= b
  BY DEF MaLinked
<1>r. r = m[a].next
  OBVIOUS
<1> HIDE DEF r
<1>6. CASE a + m[a].size = r
  <2>1. r \in F /\ r # a /\ r \in Nat /\ a \in Nat /\ a < r
    <3>1. a \in Nat /\ m[a].size \in Nat /\ m[a].size > 0
      BY <1>2, <1>3, <1>4
    <3>2. r # 0 /\ a < r
      BY <1>6, <3>1
    <3>3. r \in F /\ r \in Nat
      BY <1>2, <1>5, <3>2
    <3> QED
      BY <3>1, <3>2, <3>3
  <2>2. /\ MaLinked(n, F \ {r}) /\ n \in MaMemories /\ n[a].size = m[a].size + m[r].size
        /\ \A x \in MaAddresses : x # a => n[x].size = m[x].size
    <3>1. MaJoined(m, n, F, a, r)
      BY <1>0, <1>6, <1>r, <2>1, MaMergesRight, Zenon
    <3> QED
      BY <3>1 DEF MaJoined, MaGrown
  <2>3. n[0].size = 0
    BY <1>1, <1>2, <2>2
  <2>4. MaApart(n, used, brk, (F \ {r}) \cup MaHeld(used))
    <3> DEFINE B == F \cup MaHeld(used)
    <3>1. B \subseteq 1..MaHeap /\ a \in B /\ r \in B
      BY <2>1 DEF MaHeld
    <3>2. used[a] = 0 /\ used[r] = 0
      BY <1>2, <2>1
    <3>3. MaApart(m, used, brk, B)
      OBVIOUS
    <3>4. B \ {r} = (F \ {r}) \cup MaHeld(used)
      BY <2>1
    <3> HIDE DEF B
    <3>5. MaApart(n, used, brk, B \ {r})
      <4>1. MaGrown(m, n, a, r)
        BY <2>2, Zenon DEF MaGrown
      <4> QED
        BY <1>6, <2>2, <3>1, <3>2, <3>3, <4>1, MaApartMerged, Zenon
    <3> QED
      BY <3>4, <3>5
  <2>5. ASSUME NEW x \in F \ {r}, NEW y \in F \ {r}, x + n[x].size = y PROVE y = a
    <3>1. CASE x = a
      <4>1. r + m[r].size = y
        <5>1. a \in Nat /\ m[a].size \in Nat /\ m[r].size \in Nat
          BY <1>2, <1>3, <2>1
        <5>2. a + (m[a].size + m[r].size) = y
          BY <2>2, <2>5, <3>1
        <5> QED
          BY <1>6, <5>1, <5>2
      <4> QED
        BY <2>1, <4>1
    <3>2. CASE x # a
      <4>1. n[x].size = m[x].size
        BY <1>2, <2>2, <3>2
      <4> QED
        BY <2>5, <3>2, <4>1
    <3> QED
      BY <3>1, <3>2
  <2>6. F \ {r} \in SUBSET F /\ a \in F \ {r}
    BY <2>1
  <2> QED
    <3>1. MaAfter(n, used, brk, F \ {r}, a)
      BY <2>2, <2>4, <2>5, <2>6, Zenon DEF MaAfter
    <3> QED
      BY <1>0, <2>2, <2>3, <2>6, <3>1, Zenon
<1>7. CASE a + m[a].size # r
  <2>1. n = m
    BY <1>0, <1>7, <1>r DEF MergeRight
  <2>2. ASSUME NEW x \in F, NEW y \in F, x + m[x].size = y PROVE y = a
    <3>1. CASE x = a
      <4>1. /\ a \in Nat /\ y \in Nat /\ m[a].size \in Nat /\ m[a].size > 0 /\ a + m[a].size = y
            /\ r \in Nat
        BY <1>2, <1>3, <1>4, <1>5, <2>2, <3>1
      <4>2. r # 0 /\ r <= y /\ a < r
        BY <1>5, <4>1
      <4>3. r < y /\ r \in F
        BY <1>5, <1>7, <4>1, <4>2
      <4>4. a + m[a].size <= r
        BY <1>4, <4>2, <4>3
      <4> QED
        BY <4>1, <4>3, <4>4
    <3> QED
      BY <2>2, <3>1
  <2> QED
    <3>1. MaAfter(n, used, brk, F, a)
      BY <2>1, <2>2, Zenon DEF MaAfter
    <3> QED
      BY <1>0, <2>1, <3>1, Zenon
<1> QED
  BY <1>6, <1>7

\* free() merges the block with the one on its left, if they touch.
LEMMA MaLeft ==
  ASSUME NEW m \in MaMemories, NEW used \in [1..MaHeap -> Nat], NEW brk \in Nat,
         NEW F, F \subseteq 1..MaHeap, F \cap MaHeld(used) = {},
         m[0].size = 0, NEW a \in F, MaAfter(m, used, brk, F, a)
  PROVE  /\ MergeLeft(m, a) \in MaMemories /\ MergeLeft(m, a)[0].size = 0
         /\ \E G \in SUBSET F : MaDone(MergeLeft(m, a), used, brk, G)
<1> USE DEF MaAfter
<1> DEFINE n == MergeLeft(m, a)
<1>0. n = MergeLeft(m, a)
  OBVIOUS
<1> HIDE DEF n
<1> DEFINE p == m[a].prev
<1>1. 1..MaHeap \subseteq MaAddresses /\ 1..MaHeap \subseteq Nat \ {0} /\ 0 \in MaAddresses
  BY MallocAssumption DEF MaAddresses
<1>2. \A x \in F : x \in Nat \ {0} /\ x \in MaAddresses /\ used[x] = 0
  BY <1>1 DEF MaHeld
<1>3. \A x \in F : m[x].size \in Nat /\ MaSize(m, used, x) = m[x].size
  <2>1. \A x \in F : m[x] \in MaHeaders
    BY <1>2 DEF MaMemories
  <2> QED
    BY <1>2, <2>1 DEF MaHeaders, MaSize
<1>4. /\ \A x \in F : m[x].size > 0
      /\ \A x, y \in F : x < y => x + m[x].size <= y
  BY <1>3 DEF MaApart
<1>5. p \in F \cup {0}
  BY DEF MaLinked
<1>r. p = m[a].prev
  OBVIOUS
<1> HIDE DEF p
<1>6. CASE p + m[p].size = a
  <2>1. p \in F /\ p # a /\ p \in Nat /\ a \in Nat
    <3>1. p # 0
      BY <1>2, <1>6
    <3>2. p \in F /\ p \in Nat /\ m[p].size \in Nat /\ m[p].size > 0
      BY <1>2, <1>3, <1>4, <1>5, <3>1
    <3> QED
      BY <1>2, <1>6, <3>2
  <2>2. /\ MaLinked(n, F \ {a}) /\ n \in MaMemories /\ n[p].size = m[p].size + m[a].size
        /\ \A x \in MaAddresses : x # p => n[x].size = m[x].size
    <3>1. MaJoined(m, n, F, p, a)
      BY <1>0, <1>6, <1>r, <2>1, MaMergesLeft, Zenon
    <3> QED
      BY <3>1 DEF MaJoined, MaGrown
  <2>3. n[0].size = 0
    BY <1>1, <1>2, <2>1, <2>2
  <2>4. MaApart(n, used, brk, (F \ {a}) \cup MaHeld(used))
    <3> DEFINE B == F \cup MaHeld(used)
    <3>1. B \subseteq 1..MaHeap /\ a \in B /\ p \in B
      BY <2>1 DEF MaHeld
    <3>2. used[a] = 0 /\ used[p] = 0
      BY <1>2, <2>1
    <3>3. MaApart(m, used, brk, B)
      OBVIOUS
    <3>4. B \ {a} = (F \ {a}) \cup MaHeld(used)
      BY <2>1
    <3> HIDE DEF B
    <3>5. MaApart(n, used, brk, B \ {a})
      <4>1. MaGrown(m, n, p, a)
        BY <2>2, Zenon DEF MaGrown
      <4> QED
        BY <1>6, <2>2, <3>1, <3>2, <3>3, <4>1, MaApartMerged, Zenon
    <3> QED
      BY <3>4, <3>5
  <2>5. ASSUME NEW x \in F \ {a}, NEW y \in F \ {a} PROVE x + n[x].size # y
    <3>1. CASE x = p
      <4>1. p \in Nat /\ m[p].size \in Nat /\ m[a].size \in Nat
        BY <1>2, <1>3, <2>1
      <4>2. x + n[x].size = a + m[a].size
        <5>1. n[p].size = m[p].size + m[a].size
          BY <2>2
        <5> QED
          BY <1>6, <3>1, <4>1, <5>1
      <4> QED
        BY <4>2
    <3>2. CASE x # p
      <4>1. n[x].size = m[x].size
        BY <1>2, <2>2, <3>2
      <4> QED
        BY <4>1
    <3> QED
      BY <3>1, <3>2
  <2>6. MaMerged(n, F \ {a}) /\ F \ {a} \in SUBSET F
    BY <2>5 DEF MaMerged
  <2> QED
    <3>1. MaDone(n, used, brk, F \ {a})
      BY <2>2, <2>4, <2>6, Zenon DEF MaDone
    <3> QED
      BY <1>0, <2>2, <2>3, <2>6, <3>1, Zenon
<1>7. CASE p + m[p].size # a
  <2>1. n = m
    BY <1>0, <1>7, <1>r DEF MergeLeft
  <2>2. ASSUME NEW x \in F, x + m[x].size = a PROVE FALSE
    <3>1. /\ a \in Nat /\ x \in Nat /\ m[x].size \in Nat /\ m[x].size > 0
      BY <1>2, <1>3, <1>4
    <3>2. x < a
      BY <2>2, <3>1
    <3>3. m[x].next \in F /\ m[x].next <= a /\ x < m[x].next
      BY <3>2 DEF MaLinked
    <3>4. m[x].next # a
      <4>1. m[x].next = a => p = x
        BY <1>r DEF MaLinked
      <4> QED
        BY <1>7, <2>2, <4>1
    <3>5. x + m[x].size <= m[x].next /\ m[x].next \in Nat
      BY <1>2, <1>4, <3>3
    <3> QED
      BY <2>2, <3>1, <3>3, <3>4, <3>5
  <2>3. MaMerged(m, F)
    BY <2>2 DEF MaMerged
  <2> QED
    <3>1. MaDone(n, used, brk, F)
      BY <2>1, <2>3, Zenon DEF MaDone
    <3> QED
      BY <1>0, <2>1, <3>1, Zenon
<1> QED
  BY <1>6, <1>7

\* free() puts the block back.
MaReady(m, used, brk, F, a, r) ==
  /\ m \in MaMemories /\ used \in [1..MaHeap -> Nat] /\ brk \in Nat /\ F \subseteq 1..MaHeap
  /\ MaLinked(m, F) /\ MaMerged(m, F) /\ m[0].size = 0 /\ MaPlace(F, a, r)
  /\ (F \cup {a}) \cap MaHeld(used) = {}
  /\ MaApart(m, used, brk, (F \cup {a}) \cup MaHeld(used))
MaBack(n, used, brk, S) ==
  n \in MaMemories /\ n[0].size = 0 /\ \E G \in SUBSET S : MaDone(n, used, brk, G)

LEMMA MaReleases ==
  ASSUME NEW m, NEW used, NEW brk, NEW F, NEW a, NEW r, MaReady(m, used, brk, F, a, r)
  PROVE  MaBack(Released(m, a, r), used, brk, F \cup {a})
<1>0. /\ m \in MaMemories /\ used \in [1..MaHeap -> Nat] /\ brk \in Nat /\ F \subseteq 1..MaHeap
      /\ MaLinked(m, F) /\ MaMerged(m, F) /\ m[0].size = 0 /\ MaPlace(F, a, r)
      /\ (F \cup {a}) \cap MaHeld(used) = {}
      /\ MaApart(m, used, brk, (F \cup {a}) \cup MaHeld(used))
  BY DEF MaReady
<1> USE <1>0
<1> DEFINE m1 == LinkedIn(m, a, r)
           m2 == MergeRight(m1, a, r)
           m3 == MergeLeft(m2, a)
<1>1. Released(m, a, r) = m3
  BY DEF Released
<1>2. MaPut(m, m1, F, a, r)
  BY MaPuts, Zenon
<1> HIDE DEF m1
<1>3. a \in 1..MaHeap /\ a \notin F /\ F \cup {a} \subseteq 1..MaHeap
  BY DEF MaPlace
<1>4. m1 \in MaMemories /\ m1[a].next = r /\ MaLinked(m1, F \cup {a}) /\ m1[0].size = 0
      /\ \A x \in 1..MaHeap : m1[x].size = m[x].size
  <2>1. 0 \in MaAddresses /\ 1..MaHeap \subseteq MaAddresses
    BY MallocAssumption DEF MaAddresses
  <2> QED
    BY <1>2, <2>1, Zenon DEF MaPut
<1>5. MaApart(m1, used, brk, (F \cup {a}) \cup MaHeld(used))
  <2>1. (F \cup {a}) \cup MaHeld(used) \subseteq 1..MaHeap
    BY <1>3 DEF MaHeld
  <2> DEFINE B == (F \cup {a}) \cup MaHeld(used)
  <2> HIDE DEF B
  <2>2. \A x \in B : MaSize(m1, used, x) = MaSize(m, used, x)
    BY <1>4, <2>1, Zenon DEF B, MaSize
  <2>3. MaApart(m, used, brk, B)
    BY DEF B
  <2>4. MaApart(m1, used, brk, B)
    BY <2>2, <2>3, Zenon DEF MaApart
  <2> QED
    BY <2>4, Zenon DEF B
<1>6. \A x, y \in F \cup {a} : x + m1[x].size = y => x = a \/ y = a
  <2>1. \A x, y \in F : x + m1[x].size # y
    BY <1>3, <1>4, Zenon DEF MaMerged
  <2> QED
    BY <2>1, Zenon
<1>7. /\ m2 \in MaMemories /\ m2[0].size = 0
      /\ \E G \in SUBSET (F \cup {a}) : MaAfter(m2, used, brk, G, a)
  <2> DEFINE E == F \cup {a}
  <2> HIDE DEF E
  <2>1. E \subseteq 1..MaHeap /\ MaLinked(m1, E) /\ E \cap MaHeld(used) = {} /\ a \in E
        /\ MaApart(m1, used, brk, E \cup MaHeld(used))
    BY <1>3, <1>4, <1>5, Zenon DEF E
  <2>2. \A x, y \in E : x + m1[x].size = y => x = a \/ y = a
    BY <1>6, Zenon DEF E
  <2>3. /\ MergeRight(m1, a, m1[a].next) \in MaMemories /\ MergeRight(m1, a, m1[a].next)[0].size = 0
        /\ \E G \in SUBSET E : MaAfter(MergeRight(m1, a, m1[a].next), used, brk, G, a)
    BY <1>4, <2>1, <2>2, MaRight, Zenon
  <2> QED
    BY <1>4, <2>3, Zenon DEF E
<1> HIDE DEF m2
<1>8. PICK G \in SUBSET (F \cup {a}) : MaAfter(m2, used, brk, G, a)
  BY <1>7, Zenon
<1>9. G \subseteq 1..MaHeap /\ G \cap MaHeld(used) = {} /\ a \in G
  BY <1>3, <1>8 DEF MaAfter
<1>10. /\ m3 \in MaMemories /\ m3[0].size = 0
       /\ \E H \in SUBSET G : MaDone(m3, used, brk, H)
  BY <1>7, <1>8, <1>9, MaLeft, Zenon
<1> HIDE DEF m3
<1>11. PICK H \in SUBSET G : MaDone(m3, used, brk, H)
  BY <1>10, Zenon
<1>12. H \in SUBSET (F \cup {a})
  BY <1>11
<1> QED
  BY <1>1, <1>10, <1>11, <1>12, Zenon DEF MaBack

\* The front of a block in use and its tail free: the blocks stay apart.
MaGivenOut(used, used2, b, units) ==
  used2[b] = units /\ \A x \in 1..MaHeap : x # b => used2[x] = used[x]

LEMMA MaApartSplit ==
  ASSUME NEW m \in MaMemories, NEW n \in MaMemories, NEW brk \in Nat,
         NEW used \in [1..MaHeap -> Nat], NEW used2 \in [1..MaHeap -> Nat],
         NEW B, B \subseteq 1..MaHeap, MaApart(m, used, brk, B),
         NEW b \in B, used[b] = 0, NEW units, NEW t, MaTail(m, B, b, units, t), used[t] = 0,
         MaCut(m, n, b, units, t), MaGivenOut(used, used2, b, units)
  PROVE  MaApart(n, used2, brk, B \cup {t})
<1> USE DEF MaTail, MaCut, MaGivenOut
<1>1. 1..MaHeap \subseteq MaAddresses /\ 1..MaHeap \subseteq Nat
  BY MallocAssumption DEF MaAddresses
<1>n. t \in Nat /\ b \in Nat /\ t # b /\ \A x \in B : x \in Nat
  BY <1>1
<1>2. \A x \in B : MaSize(m, used, x) \in Nat
  <2>1. ASSUME NEW x \in B PROVE MaSize(m, used, x) \in Nat
    <3>1. m[x] \in MaHeaders /\ x \in 1..MaHeap
      BY <1>1 DEF MaMemories
    <3>2. used[x] \in Nat /\ m[x].size \in Nat
      BY <3>1 DEF MaHeaders
    <3> QED
      BY <3>2 DEF MaSize
  <2> QED
    BY <2>1
<1>3. MaSize(m, used, b) = m[b].size
  BY DEF MaSize
<1>4. MaSize(n, used2, b) = units
  BY <1>n DEF MaSize
<1>5. MaSize(n, used2, t) = m[b].size - units
  BY <1>n DEF MaSize
<1>6. \A x \in B : x # b => MaSize(n, used2, x) = MaSize(m, used, x)
  <2>1. ASSUME NEW x \in B, x # b PROVE MaSize(n, used2, x) = MaSize(m, used, x)
    <3>1. x \in MaAddresses /\ x \in 1..MaHeap /\ x # t
      BY <1>1
    <3>2. n[x].size = m[x].size /\ used2[x] = used[x]
      BY <2>1, <3>1
    <3> QED
      BY <3>2, Zenon DEF MaSize
  <2> QED
    BY <2>1
<1> DEFINE z == m[b].size
<1>7. /\ \A x \in B : MaSize(m, used, x) > 0 /\ x + MaSize(m, used, x) <= brk
      /\ \A x, y \in B : x < y => x + MaSize(m, used, x) <= y
      /\ b + z <= brk /\ \A y \in B : b < y => b + z <= y
  BY <1>3 DEF MaApart
<1>z. z \in Nat /\ units < z
  BY <1>2, <1>3
<1> HIDE DEF z
<1>8. MaSize(n, used2, t) = z - units
  BY <1>5 DEF z
<1>9. \A y \in B : t < y => t + (z - units) <= y
  <2>1. ASSUME NEW y \in B, t < y PROVE t + (z - units) <= y
    <3>1. y \in Nat /\ b < y
      BY <1>n, <2>1
    <3>2. b + z <= y
      BY <1>7, <3>1
    <3> QED
      BY <1>n, <1>z, <3>1, <3>2
  <2> QED
    BY <2>1
<1>10. \A y \in B : y < t => y <= b
  <2>1. ASSUME NEW y \in B, y < t PROVE y <= b
    <3>1. y \in Nat
      BY <1>n
    <3>2. b < y => b + z <= y
      BY <1>7
    <3> QED
      BY <1>n, <1>z, <2>1, <3>1, <3>2
  <2> QED
    BY <2>1
<1>11. ASSUME NEW x \in B \cup {t}
       PROVE  /\ MaSize(n, used2, x) > 0 /\ x + MaSize(n, used2, x) <= brk
              /\ \A y \in B \cup {t} : x < y => x + MaSize(n, used2, x) <= y
  <2>1. CASE x = b
    <3>1. b + units <= brk
      BY <1>7, <1>n, <1>z
    <3>2. ASSUME NEW y \in B \cup {t}, b < y PROVE b + units <= y
      <4>1. CASE y = t
        BY <1>n, <4>1
      <4>2. CASE y \in B
        BY <1>7, <1>n, <1>z, <3>2, <4>2
      <4> QED
        BY <4>1, <4>2
    <3> QED
      BY <1>4, <2>1, <3>1, <3>2
  <2>2. CASE x = t
    <3>1. t + (z - units) <= brk /\ z - units > 0
      BY <1>7, <1>n, <1>z
    <3>2. ASSUME NEW y \in B \cup {t}, t < y PROVE t + (z - units) <= y
      BY <1>9, <1>n, <3>2
    <3> QED
      BY <1>8, <2>2, <3>1, <3>2
  <2>3. CASE x # b /\ x # t
    <3>1. x \in B /\ x \in Nat /\ MaSize(m, used, x) \in Nat
      BY <1>2, <1>n, <2>3
    <3>2. MaSize(n, used2, x) = MaSize(m, used, x)
      BY <1>6, <2>3, <3>1
    <3>3. x < t => x + MaSize(m, used, x) <= t
      <4>1. x < t => x < b
        BY <1>10, <1>n, <2>3, <3>1
      <4>2. x < b => x + MaSize(m, used, x) <= b
        BY <1>7, <3>1
      <4> QED
        BY <1>n, <3>1, <4>1, <4>2
    <3> QED
      BY <1>7, <3>1, <3>2, <3>3
  <2> QED
    BY <2>1, <2>2, <2>3
<1> QED
  BY <1>11 DEF MaApart

\* malloc() takes a block of the list that is large enough.
MaTaken(n, used, brk, G) == G \cap MaHeld(used) = {} /\ MaDone(n, used, brk, G)

LEMMA MaTakes ==
  ASSUME NEW m \in MaMemories, NEW used \in [1..MaHeap -> Nat], NEW brk \in 1..(MaHeap + 1),
         NEW F, F \subseteq 1..MaHeap, F \cap MaHeld(used) = {}, MaDone(m, used, brk, F),
         m[0].size = 0, NEW b \in F, NEW units \in Nat \ {0}, m[b].size >= units
  PROVE  /\ Taken(m, b, units) \in MaMemories /\ Taken(m, b, units)[0].size = 0
         /\ \E G \in SUBSET (1..MaHeap) :
              MaTaken(Taken(m, b, units), [used EXCEPT ![b] = units], brk, G)
<1> DEFINE n == Taken(m, b, units)
           used2 == [used EXCEPT ![b] = units]
           B == F \cup MaHeld(used)
<1>1. /\ 1..MaHeap \subseteq MaAddresses /\ 1..MaHeap \subseteq Nat \ {0} /\ 0 \in MaAddresses
      /\ MaHeap \in Nat
  BY MallocAssumption DEF MaAddresses
<1>2. n = (IF m[b].size = units THEN TakeWhole(m, b) ELSE SplitTail(m, b, units))
  BY DEF Taken
<1>3. used2 \in [1..MaHeap -> Nat] /\ used2[b] = units /\ \A x \in 1..MaHeap : x # b => used2[x] = used[x]
  OBVIOUS
<1>4. MaHeld(used2) = MaHeld(used) \cup {b}
  BY <1>3 DEF MaHeld
<1> HIDE DEF n, used2
<1>5. B \subseteq 1..MaHeap /\ b \in B /\ used[b] = 0 /\ b \in 1..MaHeap /\ brk \in Nat
  <2>1. B \subseteq 1..MaHeap
    BY DEF MaHeld
  <2>2. used[b] = 0
    BY DEF MaHeld
  <2> QED
    BY <1>1, <2>1, <2>2
<1>6. MaLinked(m, F) /\ MaApart(m, used, brk, B) /\ MaMerged(m, F)
  BY Zenon DEF MaDone
<1> HIDE DEF B
<1>7. \A x \in F : m[x].size \in Nat /\ MaSize(m, used, x) = m[x].size
  <2>1. \A x \in F : m[x] \in MaHeaders /\ used[x] = 0
    BY <1>1 DEF MaMemories, MaHeld
  <2> QED
    BY <2>1 DEF MaHeaders, MaSize
<1>8. b + m[b].size <= brk /\ \A y \in B : b < y => b + m[b].size <= y
  BY <1>5, <1>6, <1>7 DEF MaApart
<1>n. b \in Nat /\ m[b].size \in Nat /\ units \in Nat /\ units > 0
  BY <1>1, <1>5, <1>7
<1>9. CASE m[b].size = units
  <2>1. MaLinked(n, F \ {b}) /\ n \in MaMemories /\ \A x \in MaAddresses : n[x].size = m[x].size
    <3>1. n = TakeWhole(m, b)
      BY <1>2, <1>9
    <3> QED
      <4>1. MaWhole(m, n, F, b)
        BY <1>6, <3>1, MaTakesWhole, Zenon
      <4> QED
        BY <4>1, Zenon DEF MaWhole
  <2>2. \A x \in B : MaSize(n, used2, x) = MaSize(m, used, x)
    <3>1. ASSUME NEW x \in B PROVE MaSize(n, used2, x) = MaSize(m, used, x)
      <4>1. n[x].size = m[x].size
        BY <1>1, <1>5, <2>1
      <4>2. CASE x = b
        BY <1>3, <1>5, <1>9, <1>n, <4>1, <4>2 DEF MaSize
      <4>3. CASE x # b
        <5>1. used2[x] = used[x]
          BY <1>3, <1>5, <4>3
        <5> QED
          BY <4>1, <5>1, Zenon DEF MaSize
      <4> QED
        BY <4>2, <4>3
    <3> QED
      BY <3>1
  <2>3. MaApart(n, used2, brk, B)
    BY <1>6, <2>2, Zenon DEF MaApart
  <2>4. MaMerged(n, F \ {b})
    <3>1. \A x \in F \ {b} : n[x].size = m[x].size
      BY <1>1, <2>1
    <3> QED
      BY <1>6, <3>1 DEF MaMerged
  <2>5. (F \ {b}) \cup MaHeld(used2) = B
    BY <1>4 DEF B
  <2>6. (F \ {b}) \cap MaHeld(used2) = {} /\ F \ {b} \in SUBSET (1..MaHeap)
    BY <1>4
  <2>7. MaTaken(n, used2, brk, F \ {b})
    BY <2>1, <2>3, <2>4, <2>5, <2>6, Zenon DEF MaTaken, MaDone
  <2>8. n[0].size = 0
    BY <1>1, <2>1
  <2> QED
    BY <2>1, <2>6, <2>7, <2>8, Zenon DEF n, used2
<1>10. CASE m[b].size # units
  <2> DEFINE t == b + units
             G == (F \ {b}) \cup {t}
  <2>0. t = b + units
    OBVIOUS
  <2>1. units < m[b].size /\ t \in Nat /\ b < t /\ t < b + m[b].size
    BY <1>10, <1>n
  <2> HIDE DEF t
  <2>2. t \in 1..MaHeap
    BY <1>1, <1>8, <1>n, <2>1
  <2>3. t \notin B
    BY <1>8, <1>n, <2>1
  <2>4. t \notin F /\ t \notin MaHeld(used) /\ used[t] = 0 /\ t # b /\ t # 0
    BY <1>n, <2>1, <2>2, <2>3 DEF B, MaHeld
  <2>5. m[b].next = 0 \/ t < m[b].next
    <3>1. m[b].next \in F \cup {0} /\ (m[b].next = 0 \/ b < m[b].next)
      BY <1>6 DEF MaLinked
    <3>2. CASE m[b].next # 0
      <4>1. m[b].next \in F /\ b < m[b].next /\ m[b].next \in Nat
        BY <1>1, <3>1, <3>2
      <4>2. b + m[b].size <= m[b].next
        BY <1>8, <4>1 DEF B
      <4> QED
        BY <1>n, <2>1, <4>1, <4>2
    <3> QED
      BY <3>2
  <2>6. /\ MaLinked(n, G) /\ n \in MaMemories /\ n[t].size = m[b].size - units
        /\ \A x \in MaAddresses : x # t => n[x].size = m[x].size
    <3>1. n = SplitTail(m, b, units)
      BY <1>2, <1>10
    <3> QED
      <4>1. MaTail(m, F, b, units, t)
        BY <1>n, <2>0, <2>1, <2>2, <2>4, <2>5, Zenon DEF MaTail
      <4>2. MaSplit(m, n, F, b, units, t)
        BY <1>6, <3>1, <4>1, MaSplits, Zenon
      <4> QED
        BY <4>2, Zenon DEF MaSplit, MaCut
  <2> HIDE DEF G
  <2>g. G = (F \ {b}) \cup {t}
    BY DEF G
  <2>7. MaApart(n, used2, brk, B \cup {t})
    <3>1. MaTail(m, B, b, units, t)
      BY <1>n, <2>0, <2>1, <2>2, <2>3, <2>5, Zenon DEF MaTail
    <3>2. MaCut(m, n, b, units, t) /\ MaGivenOut(used, used2, b, units)
      BY <1>3, <2>6, Zenon DEF MaCut, MaGivenOut
    <3> QED
      BY <1>3, <1>5, <1>6, <2>4, <2>6, <3>1, <3>2, MaApartSplit, Zenon
  <2>8. \A x \in F \ {b} : n[x].size = m[x].size
    BY <1>1, <2>4, <2>6
  <2>9. MaMerged(n, G)
    <3>1. ASSUME NEW x \in G, NEW y \in G PROVE x + n[x].size # y
      <4>1. CASE x = t
        <5>1. x + n[x].size = b + m[b].size
          <6>1. n[x].size = m[b].size - units
            BY <2>6, <4>1
          <6> QED
            BY <1>n, <2>0, <4>1, <6>1
        <5>2. y = t \/ y \in F
          BY <2>g
        <5> QED
          BY <1>6, <1>n, <2>1, <5>1, <5>2 DEF MaMerged
      <4>2. CASE x # t
        <5>1. x \in F /\ x # b /\ n[x].size = m[x].size /\ x \in Nat /\ m[x].size \in Nat
          BY <1>1, <1>7, <2>g, <2>8, <4>2
        <5>2. CASE y = t
          <6>1. x < b => x + m[x].size <= b
            BY <1>5, <1>6, <1>7, <5>1 DEF MaApart, B
          <6>2. b < x => b + m[b].size <= x
            BY <1>8, <5>1 DEF B
          <6> QED
            BY <1>n, <2>1, <5>1, <5>2, <6>1, <6>2
        <5>3. CASE y # t
          BY <1>6, <2>g, <5>1, <5>3 DEF MaMerged
        <5> QED
          BY <5>2, <5>3
      <4> QED
        BY <4>1, <4>2
    <3> QED
      BY <3>1 DEF MaMerged
  <2>10. G \cup MaHeld(used2) = B \cup {t} /\ G \cap MaHeld(used2) = {} /\ G \in SUBSET (1..MaHeap)
    BY <1>4, <2>2, <2>4, <2>g DEF B
  <2>11. MaTaken(n, used2, brk, G)
    BY <2>6, <2>7, <2>9, <2>10, Zenon DEF MaTaken, MaDone
  <2>12. n[0].size = 0
    BY <1>1, <2>4, <2>6
  <2> QED
    BY <2>6, <2>10, <2>11, <2>12, Zenon DEF n, used2
<1> QED
  BY <1>9, <1>10

\* The search begins below every free block.
LEMMA MaFirst ==
  ASSUME NEW m, NEW F, F \subseteq 1..MaHeap, MaLinked(m, F)
  PROVE  /\ m[0].next \in F \cup {0}
         /\ \A b \in F : ~(m[0].next = 0 \/ b < m[0].next)
<1>1. \A b \in F : b \in Nat /\ 0 < b
  BY MallocAssumption
<1>2. m[0].next \in F \cup {0} /\ \A b \in F : 0 < b => m[0].next # 0 /\ m[0].next <= b
  BY DEF MaLinked
<1>3. m[0].next \in Nat
  <2>1. \A b \in F \cup {0} : b \in Nat
    BY <1>1
  <2> QED
    BY <1>2, <2>1, Zenon
<1> QED
  BY <1>1, <1>2, <1>3

\* The search goes on past no block but the one it was at.
LEMMA MaOn ==
  ASSUME NEW m, NEW F, F \subseteq 1..MaHeap, MaLinked(m, F), NEW c \in F
  PROVE  /\ m[c].next \in F \cup {0}
         /\ \A b \in F : m[c].next = 0 \/ b < m[c].next => b = c \/ b < c
<1>1. \A b \in F : b \in Nat /\ 0 < b
  BY MallocAssumption
<1>2. m[c].next \in F \cup {0} /\ \A b \in F : c < b => m[c].next # 0 /\ m[c].next <= b
  BY DEF MaLinked
<1>3. m[c].next \in Nat
  <2>1. \A b \in F \cup {0} : b \in Nat
    BY <1>1
  <2> QED
    BY <1>2, <2>1, Zenon
<1>4. ASSUME NEW b \in F, m[c].next = 0 \/ b < m[c].next PROVE b = c \/ b < c
  <2>1. b \in Nat /\ c \in Nat
    BY <1>1
  <2>2. ~(c < b)
    BY <1>2, <1>3, <1>4, <2>1
  <2> QED
    BY <2>1, <2>2
<1> QED
  BY <1>2, <1>4

MaState ==
  /\ MaType /\ ~maLost /\ maMem \in MaMemories
  /\ 1..MaHeap \subseteq MaAddresses /\ 1..MaHeap \subseteq Nat \ {0} /\ 0 \in MaAddresses
  /\ MaHeap \in Nat

LEMMA MaStates == ASSUME MaType, ~maLost PROVE MaState
  BY MallocAssumption DEF MaState, MaType, MaMemories, MaAddresses

\* What the conversions to units and bytes give: room for the bytes unless rounding them
\* up wraps, and the number of bytes that was meant unless there are about half as many as
\* values of a size_t.
LEMMA MaDivides ==
  ASSUME NEW x \in Nat, NEW d \in Nat \ {0}
  PROVE  /\ x \div d \in Nat /\ x % d \in Nat
         /\ (x \div d) * d <= x /\ x < (x \div d) * d + d
  OBVIOUS

LEMMA MaRounds ==
  ASSUME NEW nbytes \in 0..(MaWord - 1)
  PROVE  /\ UnitsFor(nbytes) \in Nat /\ UnitsFor(nbytes) > 0
         /\ nbytes <= (UnitsFor(nbytes) - 1) * MaHeader \/ nbytes + MaHeader > MaWord
         /\ (UnitsFor(nbytes) - 1) * MaHeader <= nbytes + MaHeader - 1
<1> DEFINE x == nbytes + MaHeader - 1
           r == x % MaWord
           q == r \div MaHeader
<1>1. /\ MaWord \in Nat \ {0} /\ MaHeader \in Nat \ {0} /\ nbytes \in Nat /\ nbytes < MaWord
      /\ x \in Nat
  BY MallocAssumption
<1>2. r \in Nat /\ r <= x /\ (x < MaWord => r = x)
  <2> HIDE DEF x
  <2> QED
    BY <1>1
<1>3. q \in Nat /\ q * MaHeader <= r /\ r < q * MaHeader + MaHeader
  <2> HIDE DEF r
  <2> QED
    BY <1>1, <1>2, MaDivides
<1>4. UnitsFor(nbytes) = q + 1
  BY DEF UnitsFor
<1> HIDE DEF q, r
<1> DEFINE p == q * MaHeader
<1>5. p \in Nat /\ p <= r /\ r < p + MaHeader /\ (UnitsFor(nbytes) - 1) * MaHeader = p
  BY <1>1, <1>3, <1>4
<1> HIDE DEF p
<1>6. nbytes <= p \/ nbytes + MaHeader > MaWord
  BY <1>1, <1>2, <1>5
<1>7. p <= nbytes + MaHeader - 1
  BY <1>1, <1>2, <1>5
<1> QED
  BY <1>3, <1>4, <1>5, <1>6, <1>7

LEMMA MaIncrements ==
  ASSUME NEW units \in Nat, 2 * (units * MaHeader) < MaWord
  PROVE  SbrkIncrement(units) = units * MaHeader
<1> DEFINE b == units * MaHeader
<1>1. b \in Nat /\ 2 * b < MaWord /\ MaWord \in Nat
  BY MallocAssumption
<1>2. SbrkIncrement(units) =
        IF 2 * (b % MaWord) < MaWord THEN b % MaWord ELSE (b % MaWord) - MaWord
  BY DEF SbrkIncrement
<1> HIDE DEF b
<1>3. b % MaWord = b
  BY <1>1
<1>4. SbrkIncrement(units) = b
  BY <1>1, <1>2, <1>3
<1> QED
  BY <1>4 DEF b

LEMMA MaCallsMalloc ==
  ASSUME MaState, NEW F \in SUBSET (1..MaHeap), MaFree(F), NEW nbytes \in MaRequests,
         MallocCalled(nbytes)
  PROVE  MaType' /\ MaFree(F)'
<1> USE DEF MaState
<1>1. UnitsFor(nbytes) \in Nat /\ UnitsFor(nbytes) > 0
  BY MaRounds, MallocAssumption
<1>2. maMem[0].next \in F \cup {0} /\ \A b \in F : ~(maMem[0].next = 0 \/ b < maMem[0].next)
  BY MaFirst, Zenon DEF MaFree
<1>3. MaGiven = {} /\ MaGiven' = {}
  BY DEF MallocCalled, MaSearch, MaGiven
<1>4. MaType'
  BY <1>1, <1>2 DEF MaType, MallocCalled, MaSearch, MaAddresses
<1> QED
  BY <1>2, <1>3, <1>4 DEF MaFree, MallocCalled, MaSearch

LEMMA MaMallocGoesOn ==
  ASSUME MaState, NEW F \in SUBSET (1..MaHeap), MaFree(F), MallocFurther
  PROVE  MaType' /\ MaFree(F)'
<1> USE DEF MaState
<1>1. maBlock \in F
  BY DEF MaFree, MallocFurther
<1>2. /\ maMem[maBlock].next \in F \cup {0}
      /\ \A b \in F : maMem[maBlock].next = 0 \/ b < maMem[maBlock].next => b = maBlock \/ b < maBlock
  BY <1>1, MaOn, Zenon DEF MaFree
<1>3. MaGiven = {} /\ MaGiven' = {}
  BY DEF MallocFurther, MaGiven
<1>4. MaType'
  BY <1>2 DEF MaType, MallocFurther, MaAddresses
<1> QED
  BY <1>2, <1>3, <1>4 DEF MaFree, MallocFurther

LEMMA MaFreeGoesOn ==
  ASSUME MaState, NEW F \in SUBSET (1..MaHeap), MaFree(F), FreeFurther
  PROVE  MaType' /\ MaFree(F)'
<1> USE DEF MaState
<1>1. maBlock \in F
  BY DEF MaFree, FreeFurther
<1>2. /\ maMem[maBlock].next \in F \cup {0}
      /\ \A b \in F : maMem[maBlock].next = 0 \/ b < maMem[maBlock].next => b = maBlock \/ b < maBlock
  BY <1>1, MaOn, Zenon DEF MaFree
<1>3. MaGiven' = MaGiven
  BY DEF FreeFurther, MaGiven
<1>4. MaType'
  BY <1>2 DEF MaType, FreeFurther, MaAddresses
<1> QED
  BY <1>2, <1>3, <1>4 DEF MaFree, FreeFurther

LEMMA MaMallocFails ==
  ASSUME MaState, NEW F \in SUBSET (1..MaHeap), MaFree(F), MallocFails
  PROVE  MaType' /\ MaFree(F)'
<1> USE DEF MaState
<1>1. MaGiven = {} /\ MaGiven' = {}
  BY DEF MallocFails, MaClient, MaGiven
<1>2. MaType'
  BY DEF MaType, MallocFails, MaClient, MaAddresses
<1> QED
  BY <1>1, <1>2 DEF MaFree, MallocFails, MaClient

LEMMA MaAllocates ==
  ASSUME MaState, NEW F \in SUBSET (1..MaHeap), MaFree(F), AllocMem
  PROVE  MaType' /\ MaFree(F)'
<1> USE DEF MaState
<1> DEFINE got == MaToAlloc
           n == MaSetSize(maMem, maBreak, maAsked)
           B == F \cup MaHeld(maUsed)
<1>1. /\ maAsked \in Nat \ {0} /\ got \in Nat /\ got >= maAsked /\ maBreak \in Nat /\ maBreak > 0
      /\ maBreak + got <= MaHeap + 1
  BY MallocAssumption DEF MaType, AllocMem, MaToAlloc
<1>2. /\ maMem' = n /\ maBreak' = maBreak + got /\ maPc' = "free" /\ maBlock' = maMem[0].next
      /\ maFreed' = maBreak /\ maAsked' = maAsked /\ maUsed' = maUsed /\ maLost' = maLost
  BY DEF AllocMem, MaSearch, MaSetSize
<1> HIDE DEF got
<1>3. maBreak \in 1..MaHeap /\ maBreak \in MaAddresses /\ maBreak # 0 /\ maBreak' \in 1..(MaHeap + 1)
      /\ maBreak' \in Nat /\ maBreak <= maBreak' /\ maBreak + maAsked <= maBreak'
  BY <1>1, <1>2 DEF MaAddresses
<1>4. MaSizeSet(maMem, n, maBreak, maAsked)
  <2>1. maBreak \in MaAddresses /\ maAsked \in Nat /\ maMem \in MaMemories
    BY <1>1, <1>3
  <2> QED
    BY <2>1, MaWritesSize, Zenon
<1> HIDE DEF n
<1>5. /\ n \in MaMemories /\ n[maBreak].size = maAsked
      /\ \A x \in MaAddresses : x # maBreak => n[x].size = maMem[x].size
      /\ \A x \in MaAddresses : n[x].next = maMem[x].next /\ n[x].prev = maMem[x].prev
  BY <1>4, Zenon DEF MaSizeSet
<1>6. MaGiven = {} /\ MaGiven' = {maBreak}
  BY <1>2 DEF AllocMem, MaGiven
<1>7. /\ B \subseteq 1..MaHeap /\ MaLinked(maMem, F) /\ MaMerged(maMem, F)
      /\ MaApart(maMem, maUsed, maBreak, B) /\ F \cap MaHeld(maUsed) = {}
  BY <1>6 DEF MaFree, MaHeld
<1>8. \A x \in B : MaSize(maMem, maUsed, x) \in Nat
  <2>1. ASSUME NEW x \in B PROVE MaSize(maMem, maUsed, x) \in Nat
    <3>1. maMem[x] \in MaHeaders /\ x \in 1..MaHeap
      BY <1>7 DEF MaMemories
    <3>2. maUsed[x] \in Nat /\ maMem[x].size \in Nat
      BY <3>1 DEF MaHeaders, MaType
    <3> QED
      BY <3>2 DEF MaSize
  <2> QED
    BY <2>1
<1>b. B = F \cup MaHeld(maUsed)
  OBVIOUS
<1> HIDE DEF B
<1>9. /\ \A x \in B : MaSize(maMem, maUsed, x) > 0 /\ x + MaSize(maMem, maUsed, x) <= maBreak
      /\ \A x, y \in B : x < y => x + MaSize(maMem, maUsed, x) <= y
  BY <1>7 DEF MaApart
<1>10. \A x \in B : x < maBreak /\ x \in Nat /\ x \in MaAddresses
  BY <1>1, <1>7, <1>8, <1>9
<1>11. maBreak \notin B
  BY <1>1, <1>10
<1>12. \A x \in B : MaSize(n, maUsed, x) = MaSize(maMem, maUsed, x)
  BY <1>5, <1>10, <1>11, Zenon DEF MaSize
<1>13. MaSize(n, maUsed, maBreak) = maAsked
  <2>1. maUsed[maBreak] = 0
    BY <1>3, <1>11, <1>b DEF MaHeld, MaType
  <2> QED
    BY <1>5, <2>1 DEF MaSize
<1>14. MaApart(n, maUsed, maBreak', B \cup {maBreak})
  <2>1. ASSUME NEW x \in B \cup {maBreak}
        PROVE  MaSize(n, maUsed, x) > 0 /\ x + MaSize(n, maUsed, x) <= maBreak'
    <3>1. CASE x = maBreak
      BY <1>1, <1>3, <1>13, <3>1
    <3>2. CASE x \in B
      BY <1>1, <1>3, <1>8, <1>9, <1>10, <1>12, <3>2
    <3> QED
      BY <3>1, <3>2
  <2>2. ASSUME NEW x \in B \cup {maBreak}, NEW y \in B \cup {maBreak}, x < y
        PROVE  x + MaSize(n, maUsed, x) <= y
    <3>1. x \in B
      BY <1>1, <1>10, <2>2
    <3> QED
      BY <1>9, <1>12, <2>2, <3>1
  <2> QED
    BY <2>1, <2>2 DEF MaApart
<1>15. \A x \in F \cup {0} : /\ n[x].next = maMem[x].next /\ n[x].prev = maMem[x].prev
                           /\ x \in MaAddresses
  BY <1>5
<1>16. MaLinked(n, F)
  <2>1. ASSUME NEW x \in F \cup {0}
        PROVE  /\ n[x].next \in F \cup {0} /\ n[x].prev \in F \cup {0}
               /\ n[n[x].next].prev = x /\ n[n[x].prev].next = x
               /\ n[x].next = 0 \/ x < n[x].next
               /\ \A b \in F : x < b => n[x].next # 0 /\ n[x].next <= b
    <3>1. n[x].next = maMem[x].next /\ n[x].prev = maMem[x].prev
      BY <1>15
    <3>2. /\ maMem[x].next \in F \cup {0} /\ maMem[x].prev \in F \cup {0}
          /\ maMem[maMem[x].next].prev = x /\ maMem[maMem[x].prev].next = x
          /\ maMem[x].next = 0 \/ x < maMem[x].next
          /\ \A b \in F : x < b => maMem[x].next # 0 /\ maMem[x].next <= b
      BY <1>7 DEF MaLinked
    <3>3. /\ n[maMem[x].next].prev = maMem[maMem[x].next].prev
          /\ n[maMem[x].prev].next = maMem[maMem[x].prev].next
      BY <1>15, <3>2
    <3> QED
      BY <3>1, <3>2, <3>3
  <2> QED
    BY <2>1, Zenon DEF MaLinked
<1>17. MaMerged(n, F)
  <2>1. \A x \in F : n[x].size = maMem[x].size
    BY <1>5, <1>10, <1>11, <1>b
  <2> QED
    BY <1>7, <2>1, Zenon DEF MaMerged
<1>18. maMem[0].next \in F \cup {0} /\ \A b \in F : ~(maMem[0].next = 0 \/ b < maMem[0].next)
  BY <1>7, MaFirst, Zenon
<1>19. MaType'
  <2>1. n[0].size = 0
    BY <1>3, <1>5 DEF MaType
  <2>2. n \in [MaAddresses -> MaHeaders]
    BY <1>5 DEF MaMemories
  <2>3. maMem[0].next \in MaAddresses
    BY <1>18
  <2> QED
    BY <1>2, <1>3, <2>1, <2>2, <2>3 DEF MaType
<1>20. /\ F \subseteq 1..MaHeap /\ MaGiven' \subseteq 1..MaHeap /\ F \cap MaHeld(maUsed') = {}
       /\ MaGiven' \cap (F \cup MaHeld(maUsed')) = {}
  BY <1>2, <1>3, <1>6, <1>7, <1>11, <1>b
<1>21. MaApart(maMem', maUsed', maBreak', F \cup MaHeld(maUsed') \cup MaGiven')
  BY <1>2, <1>6, <1>14, <1>b
<1> QED
  BY <1>2, <1>16, <1>17, <1>18, <1>19, <1>20, <1>21 DEF MaFree

LEMMA MaCallsFree ==
  ASSUME MaState, NEW F \in SUBSET (1..MaHeap), MaFree(F), NEW a \in 1..MaHeap, FreeCalled(a)
  PROVE  MaType' /\ (~maLost' => MaFree(F)')
<1> USE DEF MaState
<1>1. /\ maPc = "client" /\ maUsed[a] # 0 /\ maUsed' = [maUsed EXCEPT ![a] = 0]
      /\ maMem' = maMem /\ maBreak' = maBreak /\ maAsked' = maAsked
      /\ maLost' = (maMem[a].size # maUsed[a])
      /\ maLost' => maPc' = maPc /\ maBlock' = maBlock
      /\ ~maLost' => maPc' = "free" /\ maBlock' = maMem[0].next /\ maFreed' = a
  BY DEF FreeCalled, MaSearch
<1>2. /\ maUsed' \in [1..MaHeap -> Nat] /\ maUsed'[a] = 0 /\ \A x \in 1..MaHeap : x # a => maUsed'[x] = maUsed[x]
  BY <1>1 DEF MaType
<1>3. MaHeld(maUsed) = MaHeld(maUsed') \cup {a} /\ a \notin MaHeld(maUsed')
  BY <1>1, <1>2 DEF MaHeld
<1>4. MaGiven = {} /\ MaLinked(maMem, F)
  BY <1>1 DEF MaGiven, MaFree
<1>5. maMem[0].next \in F \cup {0} /\ \A b \in F : ~(maMem[0].next = 0 \/ b < maMem[0].next)
  BY <1>4, MaFirst, Zenon
<1>6. MaType'
  <2>1. maLost' \in BOOLEAN /\ maMem[0].next \in MaAddresses
    BY <1>1, <1>5
  <2> QED
    BY <1>1, <1>2, <2>1 DEF MaType
<1>7. ASSUME ~maLost' PROVE MaFree(F)'
  <2>1. maPc' = "free" /\ maBlock' = maMem[0].next /\ MaGiven' = {a} /\ maMem[a].size = maUsed[a]
    BY <1>1, <1>7 DEF MaGiven
  <2> DEFINE B == F \cup MaHeld(maUsed)
  <2>2. F \cup MaHeld(maUsed') \cup MaGiven' = B /\ a \notin F
    BY <1>1, <1>3, <2>1 DEF MaFree
  <2>3. MaApart(maMem, maUsed, maBreak, B) /\ B \subseteq 1..MaHeap
    BY <1>4 DEF MaFree, MaHeld
  <2> HIDE DEF B
  <2>4. \A x \in B : MaSize(maMem, maUsed', x) = MaSize(maMem, maUsed, x)
    BY <1>2, <2>1, <2>3 DEF MaSize
  <2>5. MaApart(maMem, maUsed', maBreak, B)
    BY <2>3, <2>4, Zenon DEF MaApart
  <2>6. /\ F \cap MaHeld(maUsed') = {} /\ MaGiven' \subseteq 1..MaHeap
        /\ MaGiven' \cap (F \cup MaHeld(maUsed')) = {}
    BY <1>3, <2>1, <2>2 DEF MaFree
  <2> QED
    BY <1>1, <1>5, <2>1, <2>2, <2>5, <2>6 DEF MaFree
<1> QED
  BY <1>6, <1>7

LEMMA MaMallocFinds ==
  ASSUME MaState, NEW F \in SUBSET (1..MaHeap), MaFree(F), MallocFound
  PROVE  MaType' /\ \E G \in SUBSET (1..MaHeap) : MaFree(G)'
<1> USE DEF MaState
<1> DEFINE n == Taken(maMem, maBlock, maAsked)
           used2 == [maUsed EXCEPT ![maBlock] = maAsked]
<1>1. /\ maPc = "malloc" /\ maBlock \in F /\ maMem[maBlock].size >= maAsked /\ maMem' = n /\ maUsed' = used2
      /\ maPc' = "client" /\ maAsked' = 0 /\ maBlock' = 0 /\ maBreak' = maBreak /\ maLost' = maLost
  BY DEF MallocFound, MaClient, MaFree
<1>2. used2 \in [1..MaHeap -> Nat]
  BY DEF MaType
<1>3. MaGiven = {} /\ MaGiven' = {}
  BY <1>1 DEF MaGiven
<1>4. /\ maUsed \in [1..MaHeap -> Nat] /\ maBreak \in 1..(MaHeap + 1) /\ maAsked \in Nat \ {0}
      /\ maMem[0].size = 0 /\ F \cap MaHeld(maUsed) = {} /\ MaDone(maMem, maUsed, maBreak, F)
  BY <1>1, <1>3 DEF MaType, MaFree, MaDone
<1>5. n \in MaMemories /\ n[0].size = 0 /\ \E G \in SUBSET (1..MaHeap) : MaTaken(n, used2, maBreak, G)
  BY <1>1, <1>4, MaTakes, Zenon
<1> HIDE DEF n, used2
<1>6. MaType'
  BY <1>1, <1>2, <1>5 DEF MaType, MaMemories, MaAddresses
<1>7. PICK G \in SUBSET (1..MaHeap) : MaTaken(n, used2, maBreak, G)
  BY <1>5
<1>8. MaFree(G)'
  BY <1>1, <1>3, <1>7 DEF MaFree, MaTaken, MaDone
<1> QED
  BY <1>6, <1>8

LEMMA MaFreeLinks ==
  ASSUME MaState, NEW F \in SUBSET (1..MaHeap), MaFree(F), FreeLinks
  PROVE  MaType' /\ \E G \in SUBSET (1..MaHeap) : MaFree(G)'
<1> USE DEF MaState
<1> DEFINE n == Released(maMem, maFreed, maBlock)
<1>1. /\ maPc = "free" /\ maMem' = n /\ maBreak' = maBreak /\ maUsed' = maUsed /\ maLost' = maLost
      /\ maPc' \in {"client", "malloc"}
      /\ maPc' = "malloc" => maAsked' = maAsked /\ maAsked # 0 /\ maBlock' = n[0].next
      /\ maPc' = "client" => maAsked' = 0 /\ maBlock' = 0
  BY DEF FreeLinks, MaClient
<1>2. MaGiven = {maFreed} /\ MaGiven' = {}
  BY <1>1 DEF MaGiven
<1>3. MaPlace(F, maFreed, maBlock)
  <2>1. /\ maFreed \in 1..MaHeap /\ maFreed \notin F /\ maBlock \in F \cup {0}
        /\ \A b \in F : maBlock = 0 \/ b < maBlock => b < maFreed
    BY <1>1, <1>2 DEF MaFree
  <2>2. maBlock = 0 \/ maFreed < maBlock
    <3>1. maBlock = 0 \/ maBlock >= maFreed
      BY DEF FreeLinks
    <3>2. maBlock # 0 => maBlock \in Nat /\ maBlock # maFreed
      BY <2>1
    <3> QED
      BY <2>1, <3>1, <3>2
  <2> QED
    BY <2>1, <2>2 DEF MaPlace
<1>4. /\ maUsed \in [1..MaHeap -> Nat] /\ maBreak \in Nat /\ maMem[0].size = 0
      /\ MaLinked(maMem, F) /\ MaMerged(maMem, F) /\ F \subseteq 1..MaHeap /\ maMem \in MaMemories
  BY DEF MaType, MaFree
<1>5. (F \cup {maFreed}) \cap MaHeld(maUsed) = {}
  BY <1>2 DEF MaFree
<1>6. MaApart(maMem, maUsed, maBreak, (F \cup {maFreed}) \cup MaHeld(maUsed))
  <2>1. F \cup MaHeld(maUsed) \cup MaGiven = (F \cup {maFreed}) \cup MaHeld(maUsed)
    BY <1>2
  <2> QED
    BY <2>1 DEF MaFree
<1>7. /\ n \in MaMemories /\ n[0].size = 0
      /\ \E G \in SUBSET (F \cup {maFreed}) : MaDone(n, maUsed, maBreak, G)
  <2>1. MaReady(maMem, maUsed, maBreak, F, maFreed, maBlock)
    BY <1>3, <1>4, <1>5, <1>6, Zenon DEF MaReady
  <2>2. MaBack(n, maUsed, maBreak, F \cup {maFreed})
    BY <2>1, MaReleases, Zenon
  <2> QED
    BY <2>2, Zenon DEF MaBack
<1> HIDE DEF n
<1>8. PICK G \in SUBSET (F \cup {maFreed}) : MaDone(n, maUsed, maBreak, G)
  BY <1>7
<1>9. G \in SUBSET (1..MaHeap) /\ G \cap MaHeld(maUsed) = {} /\ MaLinked(n, G)
  BY <1>3, <1>5, <1>8 DEF MaPlace, MaDone
<1>10. n[0].next \in G \cup {0} /\ \A b \in G : ~(n[0].next = 0 \/ b < n[0].next)
  BY <1>9, MaFirst, Zenon
<1>11. MaType'
  <2>1. n[0].next \in MaAddresses
    BY <1>9, <1>10
  <2>2. maAsked # 0 => maAsked > 0
    BY DEF MaType
  <2> QED
    BY <1>1, <1>7, <2>1, <2>2 DEF MaType, MaMemories
<1>12. MaFree(G)'
  BY <1>1, <1>2, <1>8, <1>9, <1>10 DEF MaFree, MaDone
<1> QED
  BY <1>9, <1>11, <1>12

LEMMA MaInitInv == MaInit => MaInv
<1> SUFFICES ASSUME MaInit PROVE MaInv
  OBVIOUS
<1>1. MaHeap \in Nat /\ 0 \in MaAddresses /\ 1..MaHeap \subseteq MaAddresses
  BY MallocAssumption DEF MaAddresses
<1>2. MaType
  <2>1. [next |-> 0, prev |-> 0, size |-> 0] \in MaHeaders
    BY <1>1 DEF MaHeaders
  <2>2. maMem \in [MaAddresses -> MaHeaders]
    BY <2>1 DEF MaInit
  <2>3. maMem[0].size = 0
    BY <1>1 DEF MaInit
  <2>4. /\ maPc = "client" /\ maAsked = 0 /\ maBlock = 0 /\ maBreak = 1 /\ maLost = FALSE
        /\ maUsed \in [1..MaHeap -> Nat]
    BY DEF MaInit
  <2>5. 1 \in 1..(MaHeap + 1)
    BY <1>1
  <2> QED
    BY <1>1, <2>2, <2>3, <2>4, <2>5 DEF MaType
<1>3. MaHeld(maUsed) = {} /\ MaGiven = {}
  BY DEF MaInit, MaHeld, MaGiven
<1>4. MaLinked(maMem, {})
  <2>1. maMem[0].next = 0 /\ maMem[0].prev = 0
    BY <1>1 DEF MaInit
  <2> QED
    BY <2>1 DEF MaLinked
<1>5. MaFree({})
  BY <1>3, <1>4 DEF MaFree, MaApart, MaMerged, MaInit
<1> QED
  BY <1>2, <1>5 DEF MaInv

LEMMA MaNextInv == MaInv /\ [MaNext]_maVars => MaInv'
<1> SUFFICES ASSUME MaInv, [MaNext]_maVars PROVE MaInv'
  OBVIOUS
<1>1. CASE UNCHANGED maVars
  BY <1>1 DEF maVars, MaInv, MaType, MaFree, MaGiven
<1>2. CASE MaNext
  <2>1. ~maLost
    BY <1>2 DEF MaNext
  <2>2. MaState
    BY <2>1, MaStates DEF MaInv
  <2>3. PICK F \in SUBSET (1..MaHeap) : MaFree(F)
    BY <2>1 DEF MaInv
  <2>4. CASE \E nbytes \in MaRequests : MallocCalled(nbytes)
    BY <2>2, <2>3, <2>4, MaCallsMalloc DEF MaInv
  <2>5. CASE MallocFurther
    BY <2>2, <2>3, <2>5, MaMallocGoesOn DEF MaInv
  <2>6. CASE MallocFound
    BY <2>2, <2>3, <2>6, MaMallocFinds DEF MaInv
  <2>7. CASE AllocMem
    BY <2>2, <2>3, <2>7, MaAllocates DEF MaInv
  <2>8. CASE MallocFails
    BY <2>2, <2>3, <2>8, MaMallocFails DEF MaInv
  <2>w. CASE AllocWraps
    BY <2>w DEF MaInv, MaType, AllocWraps
  <2>9. CASE \E a \in 1..MaHeap : FreeCalled(a)
    BY <2>2, <2>3, <2>9, MaCallsFree DEF MaInv
  <2>10. CASE FreeFurther
    BY <2>2, <2>3, <2>10, MaFreeGoesOn DEF MaInv
  <2>11. CASE FreeLinks
    BY <2>2, <2>3, <2>11, MaFreeLinks DEF MaInv
  <2> QED
    BY <1>2, <2>4, <2>5, <2>6, <2>7, <2>8, <2>w, <2>9, <2>10, <2>11 DEF MaNext
<1> QED
  BY <1>1, <1>2

\* The bytes that the units are for.
MaFits ==
  /\ maWant \in 0..(MaWord - 1) \cup {0} /\ (maPc = "malloc" \/ maAsked # 0 => maAsked = UnitsFor(maWant))
  /\ maBytes \in [1..MaHeap -> 0..(MaWord - 1) \cup {0}]
  /\ \A a \in 1..MaHeap : maUsed[a] # 0 => maUsed[a] = UnitsFor(maBytes[a])
  /\ maLost /\ maPc = "malloc" => 2 * (maWant + 2 * MaHeader) > MaWord

LEMMA MaFitsNext == MaInv /\ MaFits /\ [MaNext]_maVars => MaFits'
<1> SUFFICES ASSUME MaInv, MaFits, [MaNext]_maVars PROVE MaFits'
  OBVIOUS
<1>t. MaType
  BY DEF MaInv
<1> USE DEF MaFits
<1>1. CASE UNCHANGED maVars
  BY <1>1 DEF maVars
<1>2. ASSUME NEW nbytes \in MaRequests, MallocCalled(nbytes), ~maLost PROVE MaFits'
  BY <1>2, MallocAssumption DEF MallocCalled, MaSearch
<1>3. CASE MallocFurther /\ ~maLost
  BY <1>3 DEF MallocFurther
<1>4. CASE MallocFound /\ ~maLost
  <2>1. /\ maBytes' = [maBytes EXCEPT ![maBlock] = maWant] /\ maLost' = maLost
        /\ maUsed' = [maUsed EXCEPT ![maBlock] = maAsked] /\ maAsked = UnitsFor(maWant)
        /\ maPc' = "client" /\ maWant' = 0 /\ maAsked' = 0
    BY <1>4 DEF MallocFound, MaClient
  <2>2. \A a \in 1..MaHeap : maUsed'[a] # 0 => maUsed'[a] = UnitsFor(maBytes'[a])
    BY <2>1, <1>t DEF MaType
  <2> QED
    BY <2>1, <2>2
<1>5. CASE AllocMem /\ ~maLost
  BY <1>5 DEF AllocMem, MaSearch
<1>6. CASE AllocWraps /\ ~maLost
  <2>1. /\ SbrkIncrement(MaToAlloc) # MaToAlloc * MaHeader /\ maAsked = UnitsFor(maWant)
        /\ UNCHANGED <<maPc, maWant, maAsked, maUsed, maBytes>>
    BY <1>6 DEF AllocWraps
  <2>2. /\ MaWord \in Nat \ {0} /\ MaHeader \in Nat \ {0} /\ MaMin \in Nat
        /\ maWant \in 0..(MaWord - 1) /\ maWant \in Nat
    <3>1. MaWord # 0
      BY MallocAssumption
    <3> QED
      BY <3>1, MallocAssumption
  <2>3. maAsked \in Nat /\ (maAsked - 1) * MaHeader <= maWant + MaHeader - 1
    BY <2>1, <2>2, MaRounds
  <2>4. MaToAlloc = maAsked
    <3>1. 2 * (MaMin * MaHeader) < MaWord
      BY MallocAssumption
    <3>2. SbrkIncrement(MaMin) = MaMin * MaHeader
      BY <2>2, <3>1, MaIncrements
    <3> QED
      BY <2>1, <3>2 DEF MaToAlloc
  <2>5. ~(2 * (maAsked * MaHeader) < MaWord)
    BY <2>1, <2>3, <2>4, MaIncrements
  <2> DEFINE p == maAsked * MaHeader
  <2>6. p \in Int /\ p - MaHeader <= maWant + MaHeader - 1 /\ ~(2 * p < MaWord)
    <3>1. (maAsked - 1) * MaHeader = maAsked * MaHeader - MaHeader
      BY <2>2, <2>3
    <3> QED
      BY <2>2, <2>3, <2>5, <3>1
  <2> HIDE DEF p
  <2>7. 2 * (maWant + 2 * MaHeader) > MaWord
    BY <2>2, <2>6
  <2> QED
    BY <2>1, <2>7
<1>7. CASE MallocFails /\ ~maLost
  BY <1>7 DEF MallocFails, MaClient
<1>8. ASSUME NEW b \in 1..MaHeap, FreeCalled(b), ~maLost PROVE MaFits'
  <2>1. /\ maBytes' = [maBytes EXCEPT ![b] = 0] /\ maUsed' = [maUsed EXCEPT ![b] = 0]
        /\ maPc' \in {"client", "free"} /\ UNCHANGED <<maWant, maAsked>> /\ maPc = "client"
    BY <1>8 DEF FreeCalled, MaSearch
  <2>2. \A a \in 1..MaHeap : maUsed'[a] # 0 => maUsed'[a] = UnitsFor(maBytes'[a])
    BY <2>1, <1>t DEF MaType
  <2> QED
    BY <2>1, <2>2
<1>9. CASE FreeFurther /\ ~maLost
  BY <1>9 DEF FreeFurther
<1>10. CASE FreeLinks /\ ~maLost
  BY <1>10 DEF FreeLinks, MaClient
<1> QED
  BY <1>1, <1>2, <1>3, <1>4, <1>5, <1>6, <1>7, <1>8, <1>9, <1>10 DEF MaNext

\* The blocks that the links lead to, one after the other.
MaPrefix(m, S, s, N, f) ==
  /\ f \in [0..N -> S]
  /\ \A n \in 0..N : f[n] = IF n = 0 THEN s ELSE m[f[n - 1]].next

LEMMA MaWalks ==
  ASSUME NEW m, NEW S, NEW s \in S, \A x \in S : m[x].next \in S, NEW N \in Nat
  PROVE  \E f : MaPrefix(m, S, s, N, f)
<1> DEFINE T == {n \in Nat : ~ \E f : MaPrefix(m, S, s, n, f)}
<1>1. ASSUME T # {} PROVE FALSE
  <2>1. PICK x \in T : \A y \in T : x <= y
    <3>1. T \subseteq Nat
      OBVIOUS
    <3> HIDE DEF T
    <3> QED
      BY <1>1, <3>1, NatLeast
  <2>2. x \in Nat /\ ~ \E f : MaPrefix(m, S, s, x, f)
    BY <2>1
  <2>3. x # 0
    <3>1. MaPrefix(m, S, s, 0, [n \in 0..0 |-> s])
      BY DEF MaPrefix
    <3> QED
      BY <2>2, <3>1
  <2>4. x - 1 \in Nat /\ ~(x <= x - 1)
    BY <2>2, <2>3
  <2>5. \E f : MaPrefix(m, S, s, x - 1, f)
    BY <2>1, <2>4
  <2>6. PICK f : MaPrefix(m, S, s, x - 1, f)
    BY <2>5
  <2> DEFINE g == [n \in 0..x |-> IF n = x THEN m[f[x - 1]].next ELSE f[n]]
  <2>7. f[x - 1] \in S /\ \A n \in 0..(x - 1) : f[n] \in S
    BY <2>4, <2>6 DEF MaPrefix
  <2>8. g \in [0..x -> S]
    BY <2>4, <2>7
  <2>9. \A n \in 0..x : g[n] = IF n = 0 THEN s ELSE m[g[n - 1]].next
    <3>1. ASSUME NEW n \in 0..x PROVE g[n] = IF n = 0 THEN s ELSE m[g[n - 1]].next
      <4>1. CASE n = x
        <5>1. g[n] = m[f[x - 1]].next /\ g[x - 1] = f[x - 1]
          BY <2>4, <4>1
        <5> QED
          BY <2>3, <4>1, <5>1
      <4>2. CASE n # x
        <5>1. n \in 0..(x - 1)
          BY <2>2, <4>2
        <5>2. f[n] = IF n = 0 THEN s ELSE m[f[n - 1]].next
          BY <2>6, <5>1 DEF MaPrefix
        <5>3. g[n] = f[n]
          BY <4>2
        <5>4. n # 0 => n - 1 \in 0..x /\ n - 1 # x
          BY <2>2, <5>1
        <5>5. n # 0 => g[n - 1] = f[n - 1]
          BY <5>4
        <5> QED
          BY <5>2, <5>3, <5>5
      <4> QED
        BY <4>1, <4>2
    <3> QED
      BY <3>1
  <2>10. MaPrefix(m, S, s, x, g)
    BY <2>8, <2>9 DEF MaPrefix
  <2> QED
    BY <2>2, <2>10
<1> QED
  BY <1>1

\* They are all free.
LEMMA MaFreeBlocks ==
  ASSUME MaState, NEW F \in SUBSET (1..MaHeap), MaFree(F)
  PROVE  FreeBlocks \subseteq F
<1> DEFINE at[n \in MaAddresses] == IF n = 0 THEN maMem[0].next ELSE maMem[at[n - 1]].next
           S == F \cup {0}
<1>1. FreeBlocks = {at[n] : n \in MaAddresses} \ {0}
  BY DEF FreeBlocks
<1>2. MaAddresses = 0..MaHeap /\ MaHeap \in Nat
  BY DEF MaState, MaAddresses
<1>3. maMem[0].next \in S /\ \A x \in S : maMem[x].next \in S
  BY DEF MaFree, MaLinked
<1> HIDE DEF S
<1>4. \E f : f = [n \in MaAddresses |-> IF n = 0 THEN maMem[0].next ELSE maMem[f[n - 1]].next]
  <2>1. PICK f : MaPrefix(maMem, S, maMem[0].next, MaHeap, f)
    BY <1>2, <1>3, MaWalks, Zenon
  <2>2. f = [n \in 0..MaHeap |-> f[n]]
    BY <2>1 DEF MaPrefix
  <2>3. \A n \in 0..MaHeap : f[n] = IF n = 0 THEN maMem[0].next ELSE maMem[f[n - 1]].next
    BY <2>1, Zenon DEF MaPrefix
  <2>4. f = [n \in 0..MaHeap |-> IF n = 0 THEN maMem[0].next ELSE maMem[f[n - 1]].next]
    BY <2>2, <2>3, Zenon
  <2> QED
    BY <1>2, <2>4, Zenon
<1>5. at = [n \in MaAddresses |-> IF n = 0 THEN maMem[0].next ELSE maMem[at[n - 1]].next]
  BY <1>4, Zenon
<1> HIDE DEF at
<1>6. \A n \in MaAddresses : at[n] = IF n = 0 THEN maMem[0].next ELSE maMem[at[n - 1]].next
  BY <1>5, Zenon
<1> DEFINE T == {n \in MaAddresses : at[n] \notin S}
<1>7. ASSUME T # {} PROVE FALSE
  <2>1. PICK x \in T : \A y \in T : x <= y
    <3>1. T \subseteq Nat
      BY <1>2
    <3> HIDE DEF T
    <3> QED
      BY <1>7, <3>1, NatLeast
  <2>2. x \in 0..MaHeap /\ at[x] \notin S
    BY <1>2, <2>1
  <2>3. x # 0
    BY <1>2, <1>3, <1>6, <2>2
  <2>4. x - 1 \in MaAddresses /\ ~(x <= x - 1)
    BY <1>2, <2>2, <2>3
  <2>5. at[x - 1] \in S
    BY <2>1, <2>4
  <2>6. at[x] = maMem[at[x - 1]].next
    BY <1>2, <1>6, <2>2, <2>3
  <2> QED
    BY <1>3, <2>2, <2>5, <2>6
<1>8. \A n \in MaAddresses : at[n] \in S
  BY <1>7
<1> QED
  BY <1>1, <1>8 DEF S

\* The list and the blocks in use, as long as nothing was lost.
MaOrder ==
  LET size(a) == IF maUsed[a] # 0 THEN maUsed[a] ELSE maMem[a].size
      used == {a \in 1..MaHeap : maUsed[a] # 0}
      free == FreeBlocks
  IN /\ \A a \in used \cup free : size(a) > 0 /\ a + size(a) <= maBreak
     /\ used \cap free = {}
     /\ \A a, b \in used \cup free : a < b => a + size(a) <= b
     /\ \A a, b \in free : a + size(a) # b
     /\ \A a \in free \cup {0} :
          /\ maMem[maMem[a].next].prev = a
          /\ maMem[a].next = 0 \/ maMem[a].next > a
     /\ maPc = "malloc" /\ maBlock = 0 => \A a \in free : size(a) < maAsked

LEMMA MaInvOrder == MaInv /\ ~maLost => MaOrder
<1> SUFFICES ASSUME MaInv, ~maLost PROVE MaOrder
  OBVIOUS
<1>1. MaState
  BY MaStates DEF MaInv
<1>2. PICK F \in SUBSET (1..MaHeap) : MaFree(F)
  BY DEF MaInv
<1>3. FreeBlocks \subseteq F
  BY <1>1, <1>2, MaFreeBlocks
<1> DEFINE size(a) == IF maUsed[a] # 0 THEN maUsed[a] ELSE maMem[a].size
           used == {a \in 1..MaHeap : maUsed[a] # 0}
           B == F \cup used
<1>4. used = MaHeld(maUsed) /\ \A a : size(a) = MaSize(maMem, maUsed, a)
  BY DEF MaHeld, MaSize
<1>5. /\ \A a \in B : size(a) > 0 /\ a + size(a) <= maBreak
      /\ \A a, b \in B : a < b => a + size(a) <= b
  <2>1. MaApart(maMem, maUsed, maBreak, B \cup MaGiven)
    BY <1>2, <1>4 DEF MaFree
  <2> HIDE DEF size, B
  <2> QED
    BY <1>4, <2>1 DEF MaApart
<1>6. used \cap F = {} /\ MaMerged(maMem, F) /\ MaLinked(maMem, F)
  BY <1>2, <1>4 DEF MaFree
<1>7. \A a \in F : size(a) = maMem[a].size
  <2>1. \A a \in F : a \in 1..MaHeap
    BY <1>2
  <2> QED
    BY <1>6, <2>1
<1>8. \A a, b \in F : a + size(a) # b
  BY <1>6, <1>7 DEF MaMerged
<1>9. \A a \in F \cup {0} : maMem[maMem[a].next].prev = a /\ (maMem[a].next = 0 \/ maMem[a].next > a)
  BY <1>6 DEF MaLinked
<1>10. maPc = "malloc" /\ maBlock = 0 => \A a \in F : size(a) < maAsked
  BY <1>2, <1>7 DEF MaFree
<1> HIDE DEF size, used
<1> QED
  BY <1>3, <1>5, <1>6, <1>8, <1>9, <1>10 DEF MaOrder, size, used

LEMMA MaInvSound == MaInv /\ MaFits => MallocSound
<1> SUFFICES ASSUME MaInv, MaFits PROVE MallocSound
  OBVIOUS
<1>1. ASSUME NEW a \in 1..MaHeap, maUsed[a] # 0
      PROVE  maBytes[a] <= (maUsed[a] - 1) * MaHeader \/ maBytes[a] + MaHeader > MaWord
  <2>1. maBytes[a] \in 0..(MaWord - 1) /\ maUsed[a] = UnitsFor(maBytes[a])
    <3>1. MaWord \in Nat \ {0}
      BY MallocAssumption
    <3> QED
      BY <1>1, <3>1 DEF MaFits
  <2> QED
    BY <2>1, MaRounds
<1>2. maLost /\ maPc = "malloc" => 2 * (maWant + 2 * MaHeader) > MaWord
  BY DEF MaFits
<1>3. ~maLost => MaOrder
  BY MaInvOrder
<1> QED
  BY <1>1, <1>2, <1>3 DEF MallocSound, MaOrder

\* No unit of the heap is handed out twice, whatever the heap, the sizes and the calls, until
\* a block is freed that does not tell its size or a size wraps on its way to sbrk(2); and
\* that takes a request at the end of what a size_t holds.
THEOREM MallocIsSound == MaSpec => []MallocSound
<1>1. MaInit => MaFits
  BY MallocAssumption DEF MaInit, MaFits
<1>2. MaSpec => [](MaInv /\ MaFits)
  BY <1>1, MaInitInv, MaNextInv, MaFitsNext, PTL DEF MaSpec
<1> QED
  BY <1>2, MaInvSound, PTL
==============================================================================
