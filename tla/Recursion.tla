------------------------------ MODULE Recursion ------------------------------
(* The programs of recursion_dp that enumerate, count or optimise.  Each     *)
(* runs in one step on an input it is made for.  An array or a string is a   *)
(* sequence, so index i of the code is i + 1 here.  What a program prints is *)
(* the sequence of its lines, a line being the sequence of what is on it.    *)
(* A buffer the code fills up to buff_i and overwrites on the way back is    *)
(* the prefix handed down; an array it changes before a call and restores    *)
(* after it is handed down, and back where the next step reads what came     *)
(* back.                                                                     *)
EXTENDS Integers, Sequences, FiniteSets, SequencesExt

CONSTANTS
  ReLen,    \* bound: the longest array, string or side of a grid
  ReCount,  \* bound: the largest distance, amount or quantity
  ReVals    \* the values in arrays

ASSUME ReAssumption == ReLen \in Nat /\ ReCount \in Nat /\ ReVals \subseteq Nat

VARIABLES
  reProg,  \* the program that runs
  reIn,    \* its input
  reOut,   \* what it printed or returned
  reDone   \* the function has returned

reVars == <<reProg, reIn, reOut, reDone>>

UINT_MAX == 9999   \* above every number of this model
Larger(a, b) == IF a > b THEN a ELSE b
Smaller(a, b) == IF a < b THEN a ELSE b
FromTo(a, b) == [k \in 1..(b - a + 1) |-> a + k - 1]
SwapIn(s, i, j) == [s EXCEPT ![i] = s[j], ![j] = s[i]]
SumOf(s) == FoldLeft(LAMBDA a, b : a + b, 0, s)
----------------------------------------------------------------------------
(* Programs that print every way of doing something.                         *)

\* print_subsets_aux(): without element i, then with it.
RECURSIVE PrintSubsets(_, _, _)
PrintSubsets(buff, set, i) ==
  IF i > Len(set) THEN <<buff>>
  ELSE PrintSubsets(buff, set, i + 1) \o PrintSubsets(Append(buff, set[i]), set, i + 1)

\* print_combinations_aux(): the same, but the empty one is not printed.
PrintCombinations(str) == SelectSeq(PrintSubsets(<<>>, str, 1), LAMBDA b : b # <<>>)

\* print_combinations() of solution_duplicates.c: the letters, each once, in order.
PrintCombinationsDup(str) == PrintCombinations(SetToSortSeq(ToSet(str), <))

\* powerset_aux(): none of the elements equal to elems[i], then one more of
\* them each time; elems is sorted.
RECURSIVE Powerset(_, _, _)
Powerset(elems, i, buff) ==
  IF i > Len(elems) THEN <<buff>>
  ELSE LET equal == {j \in i..Len(elems) : \A k \in i..j : elems[k] = elems[i]}
           next == i + Cardinality(equal)
           copies(k) == [c \in 1..k |-> elems[i]]
       IN  FoldLeft(LAMBDA out, k : out \o Powerset(elems, next, buff \o copies(k)),
                    <<>>, FromTo(0, next - i))

\* k_combinations_aux(): skips an element only while enough are left.
RECURSIVE KCombinations(_, _, _, _)
KCombinations(arr, i, k, buff) ==
  IF k = 0 THEN <<buff>>
  ELSE IF i > Len(arr) THEN <<>>
  ELSE (IF Len(arr) - i + 1 > k THEN KCombinations(arr, i + 1, k, buff) ELSE <<>>)
         \o KCombinations(arr, i + 1, k - 1, Append(buff, arr[i]))

\* str_permutations_aux(): every letter of the rest comes to place i by a swap
\* that is undone; st holds the string and what was printed.
RECURSIVE StrPermutations(_, _)
StrPermutations(st, i) ==
  IF i > Len(st.str) THEN [st EXCEPT !.out = Append(@, st.str)]
  ELSE LET try(s, j) ==
             LET back == StrPermutations([s EXCEPT !.str = SwapIn(s.str, i, j)], i + 1)
             IN  [back EXCEPT !.str = SwapIn(back.str, i, j)]
       IN  FoldLeft(try, st, FromTo(i, Len(st.str)))

\* The same of solution_duplicates.c: a letter that was at place i is not tried again.
RECURSIVE StrPermutationsDup(_, _)
StrPermutationsDup(st, i) ==
  IF i > Len(st.str) THEN [st EXCEPT !.out = Append(@, st.str)]
  ELSE LET try(s, j) ==
             IF s.str[j] \in s.used THEN s
             ELSE LET back == StrPermutationsDup([s EXCEPT !.str = SwapIn(s.str, i, j),
                                                           !.used = {}], i + 1)
                  IN  [back EXCEPT !.str = SwapIn(back.str, i, j),
                                   !.used = s.used \cup {s.str[j]}]
       IN  FoldLeft(try, st, FromTo(i, Len(st.str)))

\* wildcards_aux(): 2 stands for the question mark, put back at the end.
RECURSIVE Wildcards(_, _)
Wildcards(st, i) ==
  IF i > Len(st.str) THEN [st EXCEPT !.out = Append(@, st.str)]
  ELSE IF st.str[i] # 2 THEN Wildcards(st, i + 1)
  ELSE LET zero == Wildcards([st EXCEPT !.str[i] = 0], i)
           one == Wildcards([zero EXCEPT !.str[i] = 1], i)
       IN  [one EXCEPT !.str[i] = 2]

\* print_parens_aux(): closes first, then opens; 1 opens and -1 closes.
RECURSIVE PrintParens(_, _, _, _)
PrintParens(buff, openUsed, n, toClose) ==
  IF openUsed = n /\ toClose = 0 THEN <<buff>>
  ELSE (IF toClose > 0 THEN PrintParens(Append(buff, -1), openUsed, n, toClose - 1) ELSE <<>>)
         \o (IF openUsed < n THEN PrintParens(Append(buff, 1), openUsed + 1, n, toClose + 1)
             ELSE <<>>)

\* get_char_key() and print_words_aux() of telephone_words: keys below 2 print
\* themselves (as -1 and -2 here, to tell them from letters).
GetCharKey(key, place) == (key - 2) * 3 + (place - 1)
Letter(key, place) == IF key < 2 THEN -1 - key ELSE GetCharKey(key, place)

RECURSIVE PrintWords(_, _, _)
PrintWords(number, i, buff) ==
  IF i > Len(number) THEN <<buff>>
  ELSE FoldLeft(LAMBDA out, place :
                  out \o PrintWords(number, i + 1, Append(buff, Letter(number[i], place))),
                <<>>, FromTo(1, IF number[i] < 2 THEN 1 ELSE 3))

\* increment() and print_words() without recursion: places[i] counts 1..3 like
\* the digits of a number, -1 where the key has no letters.
Increment(number, places) ==
  LET live == {i \in DOMAIN places : places[i] \notin {-1, 3}}
      last == CHOOSE i \in live : \A j \in live : j <= i
  IN  IF live = {} THEN <<>>
      ELSE [i \in DOMAIN places |->
              IF i < last \/ places[i] = -1 THEN places[i]
              ELSE IF i = last THEN places[i] + 1 ELSE 1]

RECURSIVE PrintWordsFrom(_, _)
PrintWordsFrom(number, places) ==
  LET word == [i \in DOMAIN places |-> Letter(number[i], places[i])]
      next == Increment(number, places)
  IN  <<word>> \o (IF next = <<>> THEN <<>> ELSE PrintWordsFrom(number, next))

PrintWordsLoop(number) ==
  PrintWordsFrom(number, [i \in DOMAIN number |-> IF number[i] < 2 THEN -1 ELSE 1])

\* make_numeronym(), and from_numeronym() over the letters of ReVals.
MakeNumeronym(str) ==
  IF Len(str) < 2 THEN str ELSE <<str[1], Len(str) - 2, str[Len(str)]>>

RECURSIVE FromNumeronymAux(_, _, _, _)
FromNumeronymAux(first, last, left, buff) ==
  IF left = 0 THEN <<<<first>> \o buff \o <<last>>>>
  ELSE FoldLeft(LAMBDA out, c : out \o FromNumeronymAux(first, last, left - 1, Append(buff, c)),
                <<>>, SetToSortSeq(ReVals, <))

FromNumeronym(num) ==
  IF Len(num) < 2 THEN <<num>> ELSE FromNumeronymAux(num[1], num[3], num[2], <<>>)

\* target_n_aux(): adds the next number, then subtracts it; a line is its signs.
RECURSIVE TargetN(_, _, _, _, _)
TargetN(numbers, i, sofar, target, buff) ==
  IF i = Len(numbers) THEN IF sofar = target THEN <<buff>> ELSE <<>>
  ELSE TargetN(numbers, i + 1, sofar + numbers[i + 1], target, Append(buff, 1))
         \o TargetN(numbers, i + 1, sofar - numbers[i + 1], target, Append(buff, -1))

\* eval(), next_ops() and target_n() of solution_iterative.c: the signs count up.
Eval(numbers, ops) == numbers[1] + SumOf([i \in DOMAIN ops |-> ops[i] * numbers[i + 1]])

NextOps(ops) ==
  LET plus == {i \in DOMAIN ops : ops[i] = 1}
      last == CHOOSE i \in plus : \A j \in plus : j <= i
  IN  IF plus = {} THEN <<>>
      ELSE [i \in DOMAIN ops |-> IF i < last THEN ops[i] ELSE IF i = last THEN -1 ELSE 1]

RECURSIVE TargetNLoop(_, _, _)
TargetNLoop(numbers, ops, target) ==
  (IF Eval(numbers, ops) = target THEN <<ops>> ELSE <<>>)
    \o (IF NextOps(ops) = <<>> THEN <<>> ELSE TargetNLoop(numbers, NextOps(ops), target))

\* bin_search() and sorted_arrays_aux(): the next element comes from the other
\* array, at or above the last one; a line is printed where none is left.
BinSearchGte(arr, val) ==
  LET halve[l \in Int, r \in Int] ==
        LET m == l + (r - l) \div 2
        IN  IF l + 1 = r THEN r
            ELSE IF arr[m + 1] < val THEN halve[m, r] ELSE halve[l, m]
      at == halve[-1, Len(arr)]
  IN  IF at = Len(arr) THEN -1 ELSE at

RECURSIVE SortedArraysAux(_, _, _)
SortedArraysAux(active, other, out) ==
  LET at == IF active = <<>> \/ other = <<>> THEN -1 ELSE BinSearchGte(other, active[1])
  IN  IF at = -1 THEN <<out>>
      ELSE FoldLeft(LAMBDA all, i :
                      all \o SortedArraysAux(SubSeq(other, i, Len(other)), Tail(active),
                                             Append(out, other[i])),
                    <<>>, FromTo(at + 1, Len(other)))

SortedArrays(a, b) ==
  IF a = <<>> THEN <<>>
  ELSE SortedArraysAux(a, b, <<a[1]>>) \o SortedArraysAux(b, a, <<b[1]>>)
----------------------------------------------------------------------------
(* Programs that count or find the best.                                     *)

\* recursive_multiply(): doubles while it halves a.
RECURSIVE RecursiveMultiply(_, _)
RecursiveMultiply(a, b) ==
  LET abs(x) == IF x > 0 THEN x ELSE -x
  IN  IF a = 0 \/ b = 0 THEN 0
      ELSE IF a = 1 THEN b
      ELSE IF b = 1 THEN a
      ELSE IF (a < 0) # (b < 0) THEN -RecursiveMultiply(abs(a), abs(b))
      ELSE 2 * RecursiveMultiply(abs(a) \div 2, abs(b)) + (IF abs(a) % 2 = 1 THEN abs(b) ELSE 0)

\* frog_combos(): the last two numbers, n + 1 times.
FrogCombos(n) ==
  LET loop[i \in 0..n + 1] ==
        IF i = 0 THEN <<1, 0>> ELSE <<loop[i - 1][2], loop[i - 1][1] + loop[i - 1][2]>>
  IN  loop[n + 1][2]

\* possibilities_naive() and the table of possibilities().
RECURSIVE PossibilitiesNaive(_)
PossibilitiesNaive(n) ==
  IF n = 0 THEN 1
  ELSE PossibilitiesNaive(n - 1) + (IF n > 1 THEN PossibilitiesNaive(n - 2) ELSE 0)
         + (IF n > 2 THEN PossibilitiesNaive(n - 3) ELSE 0)

Possibilities(n) ==
  LET dp[i \in 0..n] ==
        CASE i = 0 -> 1
          [] i = 1 -> dp[0]
          [] i = 2 -> dp[1] + dp[0]
          [] OTHER -> dp[i - 1] + dp[i - 2] + dp[i - 3]
  IN  dp[n]

\* ways() and ways_aux(): every number of the coins from next_qty on.
Quantities == <<25, 10, 5, 1>>

RECURSIVE WaysAux(_, _)
WaysAux(qty, n) ==
  IF n = 0 THEN 1
  ELSE IF qty > Len(Quantities) THEN 0
  ELSE SumOf([i \in 1..(n \div Quantities[qty] + 1) |->
                WaysAux(qty + 1, n - (i - 1) * Quantities[qty])])

Ways(n) == WaysAux(IF n >= 25 THEN 1 ELSE IF n >= 10 THEN 2 ELSE IF n >= 5 THEN 3 ELSE 4, n)

\* scheduler_possibilities() and its table, square whatever m and n are.
RECURSIVE SchedulerPossibilities(_, _)
SchedulerPossibilities(m, n) ==
  IF m = 0 \/ n = 0 THEN 1
  ELSE SchedulerPossibilities(m - 1, n) + SchedulerPossibilities(m, n - 1)

SchedulerPossibilitiesDp(m, n) ==
  LET dim == Larger(m + 1, n + 1)
      dp[i \in 0..dim - 1, j \in 0..dim - 1] ==
        IF i = 0 \/ j = 0 THEN 1 ELSE dp[i - 1, j] + dp[i, j - 1]
  IN  dp[m, n]

\* paths_aux() from (cx, cy), and the table of paths_dp().
RECURSIVE PathsAux(_, _, _, _)
PathsAux(cx, cy, x, y) ==
  IF cx = x /\ cy = y THEN 1
  ELSE (IF cx < x THEN PathsAux(cx + 1, cy, x, y) ELSE 0)
         + (IF cy < y THEN PathsAux(cx, cy + 1, x, y) ELSE 0)

PathsDp(x, y) ==
  LET dp[i \in 0..x, j \in 0..y] == IF i = 0 \/ j = 0 THEN 1 ELSE dp[i, j - 1] + dp[i - 1, j]
  IN  dp[x, y]

\* paths() of rectangular_paths/solution1.cpp, for n columns and m rows.
RectanglePaths(n, m) ==
  LET dp[r \in 0..m - 1, c \in 0..n - 1] ==
        IF r = 0 \/ c = 0 THEN 1 ELSE dp[r, c - 1] + dp[r - 1, c]
  IN  dp[m - 1, n - 1]

\* paths_aux() of solution2.cpp: to all four neighbours, not twice to a node.
RECURSIVE AllPathsAux(_, _, _, _, _)
AllPathsAux(x, y, n, m, visited) ==
  IF x \notin 0..m - 1 \/ y \notin 0..n - 1 \/ <<x, y>> \in visited THEN 0
  ELSE IF x = m - 1 /\ y = n - 1 THEN 1
  ELSE LET on == visited \cup {<<x, y>>}
       IN  AllPathsAux(x, y - 1, n, m, on) + AllPathsAux(x, y + 1, n, m, on)
             + AllPathsAux(x - 1, y, n, m, on) + AllPathsAux(x + 1, y, n, m, on)

\* generate_sequences_aux() and generate_sequences(); available is for 1 to 4.
RECURSIVE GenerateSequencesAux(_, _, _)
GenerateSequencesAux(available, usable, last) ==
  IF usable = 0 THEN 1
  ELSE SumOf([i \in 1..4 |-> IF available[i] = 0 \/ i = last THEN 0
                             ELSE GenerateSequencesAux([available EXCEPT ![i] = @ - 1],
                                                       usable - 1, i)])

GenerateSequences(available) ==
  LET total == SumOf(available)
  IN  IF total = 0 THEN 0
      ELSE SumOf([i \in 1..4 |-> IF available[i] = 0 THEN 0
                                 ELSE GenerateSequencesAux([available EXCEPT ![i] = @ - 1],
                                                           total - 1, i)])

\* update_queen(), queens_arrangements_aux(): every field counts the queens that
\* reach it, along its row, its column and its diagonals.
UpdateQueen(board, q, val) ==
  [f \in DOMAIN board |->
     IF f[1] = q[1] \/ f[2] = q[2] \/ f[1] - f[2] = q[1] - q[2] \/ f[1] + f[2] = q[1] + q[2]
     THEN board[f] + val ELSE board[f]]

RECURSIVE QueensArrangementsAux(_, _, _)
QueensArrangementsAux(x, st, row) ==
  IF row = x THEN [st EXCEPT !.res = @ + 1]
  ELSE LET try(s, i) ==
             IF s.board[row, i] # 0 THEN s
             ELSE LET back == QueensArrangementsAux(
                                x, [s EXCEPT !.board = UpdateQueen(@, <<row, i>>, 1)], row + 1)
                  IN  [back EXCEPT !.board = UpdateQueen(@, <<row, i>>, -1)]
       IN  FoldLeft(try, st, FromTo(0, x - 1))

QueensArrangements(x) ==
  QueensArrangementsAux(x, [board |-> [f \in (0..x - 1) \X (0..x - 1) |-> 0], res |-> 0], 0).res

\* cut_rod(): naive, bottom up, and top down with the table handed on, -1 where
\* nothing is known.
RECURSIVE CutRod(_, _)
CutRod(prices, len) ==
  IF len <= 0 THEN 0
  ELSE FoldLeft(LAMBDA res, i : Larger(res, prices[i + 1] + CutRod(prices, len - i - 1)),
                prices[1] + CutRod(prices, len - 1), FromTo(1, len - 1))

CutRodBottomUp(prices) ==
  LET dp[l \in 0..Len(prices)] ==
        IF l = 0 THEN 0
        ELSE FoldLeft(LAMBDA res, i : Larger(res, dp[i] + prices[l - i]),
                      dp[0] + prices[l], FromTo(1, l - 1))
  IN  dp[Len(prices)]

RECURSIVE CutRodTopDown(_, _, _)
CutRodTopDown(prices, len, dp) ==
  IF len <= 0 THEN [res |-> 0, dp |-> dp]
  ELSE IF dp[len] # -1 THEN [res |-> dp[len], dp |-> dp]
  ELSE LET first == CutRodTopDown(prices, len - 1, dp)
           try(s, i) == LET rest == CutRodTopDown(prices, len - i - 1, s.dp)
                        IN  [res |-> Larger(s.res, prices[i + 1] + rest.res), dp |-> rest.dp]
           all == FoldLeft(try, [first EXCEPT !.res = @ + prices[1]], FromTo(1, len - 1))
       IN  [all EXCEPT !.dp[len] = all.res]

\* knapsack(): naive, bottom up, top down.
RECURSIVE Knapsack(_, _, _, _)
Knapsack(weights, values, capacity, items) ==
  IF items = 0 THEN 0
  ELSE LET without == Knapsack(weights, values, capacity, items - 1)
       IN  IF weights[items] > capacity THEN without
           ELSE Larger(without, values[items]
                         + Knapsack(weights, values, capacity - weights[items], items - 1))

\* The table with the item of the row in hand once more.
KnapsackBottomUpReuse(weights, values, capacity) ==
  LET dp[i \in 0..Len(values), j \in 0..capacity] ==
        IF i = 0 THEN 0
        ELSE IF weights[i] > j THEN dp[i - 1, j]
        ELSE Larger(dp[i - 1, j], dp[i, j - weights[i]] + values[i])
  IN  dp[Len(values), capacity]
KnapsackBottomUp(weights, values, capacity) ==
  LET dp[i \in 0..Len(values), j \in 0..capacity] ==
        IF i = 0 THEN 0
        ELSE IF weights[i] > j THEN dp[i - 1, j]
        ELSE Larger(dp[i - 1, j], dp[i - 1, j - weights[i]] + values[i])
  IN  dp[Len(values), capacity]

RECURSIVE KnapsackTopDown(_, _, _, _, _)
KnapsackTopDown(weights, values, capacity, items, dp) ==
  IF items = 0 THEN [res |-> 0, dp |-> dp]
  ELSE IF dp[capacity, items] # -1 THEN [res |-> dp[capacity, items], dp |-> dp]
  ELSE LET without == KnapsackTopDown(weights, values, capacity, items - 1, dp)
           rest == KnapsackTopDown(weights, values, capacity - weights[items], items - 1,
                                   without.dp)
           both == IF weights[items] > capacity THEN without
                   ELSE [res |-> Larger(without.res, values[items] + rest.res), dp |-> rest.dp]
       IN  [both EXCEPT !.dp[capacity, items] = both.res]

\* min_bottles() and bottles_brute_force().
MinBottles(amount) ==
  LET dp[i \in 0..amount] ==
        IF i = 0 THEN 0
        ELSE LET one == dp[i - 1] + 1
                 five == IF i > 4 THEN Smaller(one, dp[i - 5] + 1) ELSE one
                 seven == IF i > 6 THEN Smaller(five, dp[i - 7] + 1) ELSE five
             IN  IF i > 9 THEN Smaller(seven, dp[i - 10] + 1) ELSE seven
  IN  dp[amount]

RECURSIVE BottlesBruteForce(_)
BottlesBruteForce(amount) ==
  IF amount = 0 THEN 0
  ELSE LET one == BottlesBruteForce(amount - 1) + 1
           five == IF amount > 4 THEN Smaller(one, BottlesBruteForce(amount - 5) + 1) ELSE one
           seven == IF amount > 6 THEN Smaller(five, BottlesBruteForce(amount - 7) + 1) ELSE five
       IN  IF amount > 9 THEN Smaller(seven, BottlesBruteForce(amount - 10) + 1) ELSE seven

\* min_penalty() and the table of min_penalty_dp(); stairs are 0 and 1.
RECURSIVE MinPenaltyAux(_, _, _, _)
MinPenaltyAux(jump, steps, stair, i) ==
  IF i > Len(steps[1]) THEN 0
  ELSE LET other == (stair + 1) % 2
       IN  Smaller(jump[i] + steps[other + 1][i] + MinPenaltyAux(jump, steps, other, i + 1),
                   steps[stair + 1][i] + MinPenaltyAux(jump, steps, stair, i + 1))

MinPenalty(jump, steps) ==
  Smaller(MinPenaltyAux(jump, steps, 0, 1), MinPenaltyAux(jump, steps, 1, 1))

MinPenaltyDp(jump, steps) ==
  LET n == Len(steps[1]) + 1
      dp[j \in 0..1, i \in 1..n] ==
        IF i = n THEN 0
        ELSE LET k == (j + 1) % 2
             IN  Smaller(dp[j, i + 1] + steps[j + 1][i], dp[k, i + 1] + jump[i] + steps[k + 1][i])
  IN  Smaller(dp[0, 1], dp[1, 1])

\* min_canoes(): the heaviest kid left takes the lightest along if they fit.
MAX_CANOE_WEIGHT == 150

MinCanoes(kids) ==
  LET sorted == SortSeq(kids, <)
      loop[low \in Int, high \in Int] ==
        IF low >= high THEN IF low = high THEN 1 ELSE 0
        ELSE 1 + (IF sorted[low] + sorted[high] <= MAX_CANOE_WEIGHT
                  THEN loop[low + 1, high - 1] ELSE loop[low, high - 1])
  IN  IF kids = <<>> THEN UINT_MAX
      ELSE IF sorted[Len(kids)] > MAX_CANOE_WEIGHT THEN UINT_MAX
      ELSE loop[1, Len(kids)]

\* canoes_aux(): the kid with each of those behind, by swaps, then alone.
RECURSIVE CanoesAux(_, _)
CanoesAux(kids, i) ==
  IF i > Len(kids) THEN 0
  ELSE IF kids[i] > MAX_CANOE_WEIGHT THEN UINT_MAX
  ELSE LET try(res, j) ==
             LET with == CanoesAux(SwapIn(kids, i + 1, j), i + 2)
             IN  IF kids[i] + kids[j] > MAX_CANOE_WEIGHT \/ with = UINT_MAX THEN res
                 ELSE Smaller(res, with + 1)
           paired == FoldLeft(try, UINT_MAX, FromTo(i + 1, Len(kids)))
           alone == CanoesAux(kids, i + 1)
       IN  IF alone = UINT_MAX THEN UINT_MAX ELSE Smaller(paired, alone + 1)

\* min_swaps_aux(): leaves position curr, or swaps it with one behind; -1 if the
\* arrays do not become the same.
RECURSIVE MinSwapsAux(_, _, _, _)
MinSwapsAux(from, to, curr, swaps) ==
  IF curr > Len(from) THEN IF from = to THEN swaps ELSE -1
  ELSE LET try(res, i) ==
             LET s == MinSwapsAux(SwapIn(from, curr, i), to, curr + 1, swaps + 1)
             IN  IF res = -1 \/ (s # -1 /\ s < res) THEN s ELSE res
       IN  FoldLeft(try, MinSwapsAux(from, to, curr + 1, swaps), FromTo(curr + 1, Len(from)))

\* can_stack() and stack_boxes_aux(); boxes are <<width, height, depth>>.
CanStack(below, above) == \A d \in 1..3 : above[d] < below[d]

RECURSIVE StackBoxesAux(_, _, _)
StackBoxesAux(boxes, i, height) ==
  LET fits(j) == i = 1 \/ CanStack(boxes[i - 1], boxes[j])
      try(res, j) == IF ~fits(j) THEN res
                     ELSE Larger(res, StackBoxesAux(SwapIn(boxes, i, j), i + 1,
                                                    height + boxes[j][2]))
  IN  FoldLeft(try, height, FromTo(i, Len(boxes)))

\* optimal_merge_aux() and optimal_merge(): the strings, by their lengths, are
\* put one after the other at the end of what is there, in the cheapest order.
RECURSIVE OptimalMergeAux(_, _, _, _)
OptimalMergeAux(cost, len, strs, i) ==
  IF i > Len(strs) THEN cost
  ELSE FoldLeft(LAMBDA res, j :
                  Smaller(res, OptimalMergeAux(cost + strs[j] + len, strs[j] + len,
                                               SwapIn(strs, i, j), i + 1)),
                UINT_MAX, FromTo(i, Len(strs)))

OptimalMerge(strs) ==
  FoldLeft(LAMBDA res, i : Smaller(res, OptimalMergeAux(0, strs[i], SwapIn(strs, 1, i), 2)),
           UINT_MAX, FromTo(1, Len(strs)))

\* magic_index() for distinct elements, and magic_index_aux() of follow_up.c;
\* indexes are those of the code, 0-based.
MagicIndex(arr) ==
  LET loop[l \in Int, r \in Int] ==
        LET m == l + (r - l) \div 2
        IN  IF l > r THEN -1
            ELSE IF arr[m + 1] = m THEN m
            ELSE IF arr[m + 1] > m THEN loop[l, m - 1] ELSE loop[m + 1, r]
  IN  loop[0, Len(arr) - 1]

MagicIndexFollowUp(arr) ==
  LET aux[l \in Int, r \in Int] ==
        IF l > r \/ l < 0 \/ r > Len(arr) - 1 THEN -1
        ELSE LET m == l + (r - l) \div 2
                 left == aux[l, Smaller(m - 1, arr[m + 1])]
             IN  IF arr[m + 1] = m THEN m
                 ELSE IF left # -1 THEN left ELSE aux[Larger(m + 1, arr[m + 1]), r]
  IN  aux[0, Len(arr) - 1]
----------------------------------------------------------------------------
(* Programs that look for a way through a grid or a set.  A grid is a        *)
(* function on Field(x, y); a search hands on what it has visited.           *)

Field(x, y) == (0..x - 1) \X (0..y - 1)

\* The four neighbours in the order of the loops over i and j in -1..1.
Around(p) == <<<<p[1] - 1, p[2]>>, <<p[1], p[2] - 1>>, <<p[1], p[2] + 1>>, <<p[1] + 1, p[2]>>>>

\* find_path_aux() of grid_path/follow_up.c: down, and right if that failed;
\* the path, or <<>>.
RECURSIVE FindGridPath(_, _, _, _)
FindGridPath(p, x, y, bad) ==
  LET down == <<p[1] + 1, p[2]>>
      right == <<p[1], p[2] + 1>>
      first == IF p[1] < x - 1 /\ ~bad[down] THEN FindGridPath(down, x, y, bad) ELSE <<>>
      second == IF first # <<>> THEN first
                ELSE IF p[2] < y - 1 /\ ~bad[right] THEN FindGridPath(right, x, y, bad) ELSE <<>>
  IN  IF p = <<x - 1, y - 1>> THEN <<p>>
      ELSE IF second = <<>> THEN <<>> ELSE <<p>> \o second

\* valid_move() and find_path() of path_puzzle: the position is a wall while the
\* search is beyond it.
RECURSIVE FindPuzzlePath(_, _, _)
FindPuzzlePath(puzzle, curr, goal) ==
  LET walled == [puzzle EXCEPT ![curr] = 1]
      valid(p) == p \in DOMAIN puzzle /\ (p \in DOMAIN puzzle => walled[p] = 0)
  IN  \/ goal = curr
      \/ \E i \in 1..4 : valid(Around(curr)[i]) /\ FindPuzzlePath(walled, Around(curr)[i], goal)

\* find_path_aux() of maze: <<"out">> past the border, the path to there, or <<>>;
\* 1 is a wall.
RECURSIVE FindWayOut(_, _, _)
FindWayOut(maze, visited, p) ==
  IF p \notin DOMAIN maze THEN <<"out">>
  ELSE IF p \in visited \/ maze[p] = 1 THEN <<>>
  ELSE LET ways == [i \in 1..4 |-> FindWayOut(maze, visited \cup {p}, Around(p)[i])]
           found == {i \in 1..4 : ways[i] # <<>>}
       IN  IF found = {} THEN <<>> ELSE <<p>> \o ways[CHOOSE i \in found : \A j \in found : i <= j]

\* paint_fill_aux() and paint_fill().
RECURSIVE PaintFillAux(_, _, _, _)
PaintFillAux(screen, p, original, new) ==
  IF screen[p] # original THEN screen
  ELSE LET go(s, q) == IF q \in DOMAIN s THEN PaintFillAux(s, q, original, new) ELSE s
       IN  FoldLeft(go, [screen EXCEPT ![p] = new],
                    <<<<p[1] - 1, p[2]>>, <<p[1] + 1, p[2]>>, <<p[1], p[2] - 1>>, <<p[1], p[2] + 1>>>>)

PaintFill(screen, p, new) ==
  IF screen[p] = new THEN screen ELSE PaintFillAux(screen, p, screen[p], new)

\* min_jumps_aux(): jumps of every length up to the stone's, in four
\* directions, and keeps the shortest path so far in result.  The calls that
\* return at once, off the map or on a visited stone, are not made.
RECURSIVE MinJumpsAux(_, _, _, _, _)
MinJumpsAux(map, curr, dest, buff, result) ==
  IF curr = dest
  THEN IF result = <<>> \/ Len(buff) + 1 < Len(result) THEN Append(buff, curr) ELSE result
  ELSE LET path == Append(buff, curr)
           around(dx, dy) == <<<<dx, dy>>, <<dx, -dy>>, <<-dx, dy>>, <<-dx, -dy>>>>
           jumps == FlattenSeq([j \in 1..map[curr] |->
                      FlattenSeq([d \in 1..j + 1 |-> around(d - 1, j - d + 1)])])
           stones == [k \in DOMAIN jumps |-> <<curr[1] + jumps[k][1], curr[2] + jumps[k][2]>>]
           open(p) == p \in DOMAIN map /\ p \notin ToSet(path)
       IN  FoldLeft(LAMBDA res, p : MinJumpsAux(map, p, dest, path, res),
                    result, SelectSeq(stones, open))

\* find_path_for() and find_paths_aux() of path_fill: a path for the pair i, then
\* the other pairs on what is left, and at the end the whole grid must be used.
\* The paths, or <<>>.
RECURSIVE FindPathFor(_, _, _, _, _)
FindPathFor(points, i, cells, visited, curr) ==
  LET on == visited \cup {curr}
      next == points[i + 1][1]
      rest == IF i = Len(points) THEN IF on = cells THEN <<<<>>>> ELSE <<>>
              ELSE FindPathFor(points, i + 1, cells, on, next)
      ways == [k \in 1..4 |-> FindPathFor(points, i, cells, on, Around(curr)[k])]
      found == {k \in 1..4 : ways[k] # <<>>}
      way == ways[CHOOSE k \in found : \A l \in found : k <= l]
  IN  IF curr \notin cells \/ curr \in visited THEN <<>>
      ELSE IF curr = points[i][2]
      THEN IF rest = <<>> THEN <<>>
           ELSE <<<<curr>>>> \o (IF i = Len(points) THEN <<>> ELSE rest)
      ELSE IF found = {} THEN <<>> ELSE <<<<curr>> \o way[1]>> \o Tail(way)

\* top_box_path(): a position is visited once for every letter looked for; the
\* markers of a branch that failed stay.  st.path is what has been printed.  buff has
\* 1024 bytes and nothing bounds the path: the words here are of at most six letters,
\* whose paths fit (26 positions of up to six bytes for each); a longer one may not.
RECURSIVE TopBoxPath(_, _, _, _, _)
TopBoxPath(word, i, box, p, st) ==
  LET marked == [st EXCEPT !.visited[p] = i]
      here == box[p] = word[i]
      ok == IF here THEN [marked EXCEPT !.path = Append(@, "OK")] ELSE marked
      next == IF here THEN i + 1 ELSE i
      go(s, dir, q) ==
        IF s.found THEN s
        ELSE LET far == TopBoxPath(word, next, box, q, [s EXCEPT !.path = Append(@, dir)])
             IN  IF far.found THEN far ELSE [far EXCEPT !.path = s.path]
      left == go(ok, "LEFT", <<p[1], p[2] - 1>>)
      right == go(left, "RIGHT", <<p[1], p[2] + 1>>)
      up == go(right, "UP", <<p[1] - 1, p[2]>>)
  IN  IF p \notin DOMAIN box THEN st
      ELSE IF st.visited[p] = i THEN st
      ELSE IF next > Len(word) THEN [ok EXCEPT !.found = TRUE]
      ELSE go(up, "DOWN", <<p[1] + 1, p[2]>>)

\* place_blue_strip() fills downwards, place_red_strip() to the right; min_strips()
\* tries both at the first colourless field.
Stripe(grid, p, d) ==
  LET at(k) == <<p[1] + k * d[1], p[2] + k * d[2]>>
      free(k) == at(k) \in DOMAIN grid /\ (at(k) \in DOMAIN grid => grid[at(k)] = ".")
      len == CHOOSE n \in 1..Cardinality(DOMAIN grid) :
               (\A k \in 0..n - 1 : free(k)) /\ ~free(n)
  IN  {at(k) : k \in 0..len - 1}

RECURSIVE MinStrips(_)
MinStrips(grid) ==
  LET blank == {p \in DOMAIN grid : grid[p] = "."}
      first == CHOOSE p \in blank : \A q \in blank : p[1] < q[1] \/ (p[1] = q[1] /\ p[2] <= q[2])
      with(d, c) == [q \in DOMAIN grid |-> IF q \in Stripe(grid, first, d) THEN c ELSE grid[q]]
  IN  IF blank = {} THEN 0
      ELSE Smaller(MinStrips(with(<<1, 0>>, "B")) + 1, MinStrips(with(<<0, 1>>, "R")) + 1)

\* switch_op() and switch_aux(): without a switch at curr, then with one; the
\* switches, and whether the arrays came out the same.
SwitchOp(arr, i) == [k \in DOMAIN arr |-> IF k \in i - 1..i + 1 THEN ~arr[k] ELSE arr[k]]

RECURSIVE SwitchAux(_, _, _, _)
SwitchAux(source, target, curr, buff) ==
  IF curr > Len(source) THEN [found |-> source = target, buff |-> buff]
  ELSE LET without == SwitchAux(source, target, curr + 1, buff)
           with == SwitchAux(SwitchOp(source, curr), target, curr + 1, Append(buff, curr))
       IN  IF without.found THEN without
           ELSE IF with.found THEN with ELSE [found |-> FALSE, buff |-> buff]

\* word_path_aux(): every letter of every position, in order; a word that was
\* used is out of the set until the search comes back.  <<FALSE>> if none is found.
RECURSIVE WordPathAux(_, _, _, _)
WordPathAux(words, start, end, path) ==
  LET letters == SetToSortSeq(ReVals, <)
      tries == FlattenSeq([i \in DOMAIN start |-> [k \in DOMAIN letters |-> <<i, letters[k]>>]])
      try(res, t) ==
        LET word == [start EXCEPT ![t[1]] = t[2]]
        IN  IF res.found \/ word \notin words THEN res
            ELSE WordPathAux(words \ {word}, word, end, Append(path, word))
      none == [found |-> FALSE, path |-> <<>>]
  IN  IF start = end THEN [found |-> TRUE, path |-> path]
      ELSE IF words = {} THEN none ELSE FoldLeft(try, none, tries)

WordPath(words, start, end) == WordPathAux(words \cup {end}, start, end, <<>>)
----------------------------------------------------------------------------
\* hanoi(): the moves it prints.
RECURSIVE Hanoi(_, _, _, _)
Hanoi(source, target, auxiliary, disks) ==
  IF disks = 0 THEN <<>>
  ELSE Hanoi(source, auxiliary, target, disks - 1) \o <<<<source, target>>>>
         \o Hanoi(auxiliary, target, source, disks - 1)

\* The table of lcs(): the length for the first i and j characters.
LcsTable(str1, str2) ==
  LET table[i \in 0..Len(str1), j \in 0..Len(str2)] ==
        IF i = 0 \/ j = 0 THEN 0
        ELSE IF str1[i] = str2[j] THEN table[i - 1, j - 1] + 1
        ELSE Larger(Larger(table[i, j - 1], table[i - 1, j]), table[i - 1, j - 1])
  IN  table
\* build_lcs_str(), which goes back through the table and reverses what it met.
RECURSIVE BuildLcs(_, _, _, _, _)
BuildLcs(str1, str2, table, i, j) ==
  IF i = 0 \/ j = 0 THEN <<>>
  ELSE IF str1[i] = str2[j] THEN Append(BuildLcs(str1, str2, table, i - 1, j - 1), str1[i])
  ELSE IF table[i, j - 1] > table[i - 1, j] THEN BuildLcs(str1, str2, table, i, j - 1)
  ELSE BuildLcs(str1, str2, table, i - 1, j)
Lcs(str1, str2) ==
  LET table == LcsTable(str1, str2)
  IN  <<table[Len(str1), Len(str2)], BuildLcs(str1, str2, table, Len(str1), Len(str2))>>

\* find_pile() of LIS: the leftmost pile whose top is greater, from 0, by halving.
LisFindPile(piles, val) ==
  LET search[l \in -1..Len(piles), r \in 0..Len(piles)] ==
        LET m == l + (r - l) \div 2
        IN  IF l + 1 = r THEN r
            ELSE IF Last(piles[m + 1]).value <= val THEN search[m, r] ELSE search[l, m]
  IN  search[-1, Len(piles)]
\* patience_sort(): an element remembers the top of the pile before its own; on the
\* first pile prev_pile_idx is not set, and not read.
LisDeal(piles, val) ==
  LET at == LisFindPile(piles, val)
      elem == [value |-> val, prev |-> IF at = 0 THEN 0 ELSE Len(piles[at]) - 1]
  IN  IF at = Len(piles) THEN Append(piles, <<elem>>)
      ELSE [piles EXCEPT ![at + 1] = Append(@, elem)]
\* solve(): from the bottom of the last pile back along the links.
LisSolve(array) ==
  LET piles == FoldLeft(LisDeal, <<>>, array)
      back[k \in 0..Len(piles)] ==
        IF k = Len(piles) THEN Last(piles)[1] ELSE piles[k][back[k + 1].prev + 1]
  IN  [k \in DOMAIN piles |-> back[k].value]
----------------------------------------------------------------------------
(* The inputs each program is made for, and the run.                         *)

Strings(n, vals) == UNION {[1..k -> vals] : k \in 0..n}
Distinct(s) == \A i, j \in DOMAIN s : s[i] = s[j] => i = j
NonDescending(s) == \A i \in 1..Len(s) - 1 : s[i] <= s[i + 1]
Sets == {s \in Strings(ReLen, ReVals) : Distinct(s)}
Screens(x, y, vals) == [Field(x, y) -> vals]
Grid == Field(2, 3)
Weights == {50, 75, 100, 101, 151}
Boxes == {<<1, 1, 1>>, <<2, 1, 2>>, <<2, 2, 2>>, <<3, 2, 3>>, <<3, 3, 3>>}
Pad == {<<0, 0>>, <<0, 1>>, <<1, 0>>, <<1, 1>>, <<2, 0>>}
PadLetters == [p \in Pad |-> 2 * p[1] + p[2]]

ReInputs(p) ==
  CASE p \in {"subsets", "combinations", "permutations"} -> Sets
    [] p \in {"combinations_dup", "powerset", "permutations_dup"} -> Strings(ReLen + 1, ReVals)
    [] p = "k_combinations" -> Sets \X (0..ReLen + 1)
    [] p = "wildcards" -> Strings(ReLen, {0, 1, 2})
    [] p = "parens" -> 0..ReLen
    [] p \in {"telephone", "telephone_loop"} -> [1..ReLen -> {0, 1, 2, 3}]
    [] p = "numeronym" -> Strings(ReLen + 1, ReVals) \ {<<>>}
    [] p \in {"target", "target_loop"} -> (Strings(ReLen + 1, ReVals) \ {<<>>}) \X (-2..3)
    [] p = "sorted_arrays" -> {io \in Strings(ReLen, ReVals) \X Strings(ReLen, ReVals) :
                                 Len(io[1]) = Len(io[2]) /\ NonDescending(io[1]) /\ NonDescending(io[2])}
    [] p = "multiply" -> (-ReCount..ReCount) \X (-5..5)
    [] p \in {"frog", "stairs"} -> 0..2 * ReLen
    [] p \in {"cents", "bottles"} -> 0..ReCount
    [] p \in {"scheduler", "grid_count"} -> (0..ReLen) \X (0..ReLen)
    [] p = "rectangle" -> {d \in (1..3) \X (1..3) : d[1] * d[2] <= 6}
    [] p = "special" -> {a \in [1..4 -> 0..2] : SumOf(a) <= 4}
    [] p = "queens" -> 1..ReLen + 2
    [] p = "rod" -> Strings(ReLen + 1, ReVals) \ {<<>>}
    [] p = "knapsack" -> UNION {[1..k -> ReVals] \X [1..k -> ReVals] \X (0..ReLen + 1) :
                                  k \in 0..ReLen}
    [] p = "penalty" -> UNION {[1..k + 1 -> ReVals] \X [1..k -> ReVals] \X [1..k -> ReVals] :
                                 k \in 0..2}
    [] p = "canoes" -> Strings(ReLen + 1, Weights)
    [] p = "min_swaps" -> {io \in Strings(ReLen, ReVals) \X Strings(ReLen, ReVals) :
                             SortSeq(io[1], <) = SortSeq(io[2], <)}
    [] p = "boxes" -> Strings(ReLen, Boxes)
    [] p = "concat" -> Strings(ReLen + 1, ReVals) \ {<<>>}
    [] p = "magic_index" -> {s \in Strings(ReLen + 1, -1..ReLen) : NonDescending(s)}
    [] p = "grid_path" -> UNION {{<<x, y, b>> : b \in Screens(x, y, BOOLEAN)} :
                                   x \in 1..3, y \in 1..3}
    [] p = "puzzle" -> Screens(2, 3, {0, 1}) \X Grid \X Grid
    [] p = "maze" -> Screens(3, 4, {0, 1})
    [] p = "paint" -> Screens(2, 3, {1, 2}) \X Grid \X {1, 2, 3}
    [] p = "jumps" -> (Screens(2, 2, 0..2) \X Field(2, 2)) \cup (Screens(1, 4, 0..2) \X Field(1, 4))
    [] p = "path_fill" -> Strings(2, Grid \X Grid) \ {<<>>}
    [] p = "top_box" -> Strings(ReLen, 0..4) \ {<<>>}
    [] p = "stripes" -> Screens(2, 3, {".", "G"}) \cup Screens(3, 2, {".", "G"})
    [] p = "switch" -> UNION {[1..k -> BOOLEAN] \X [1..k -> BOOLEAN] : k \in 1..ReLen + 1}
    [] p = "hanoi" -> 0..ReLen + 1
    [] p = "lcs" -> (Strings(ReLen + 1, {1, 2}) \ {<<>>}) \X (Strings(ReLen + 1, {1, 2}) \ {<<>>})
    [] p = "lis" -> Strings(ReLen + 2, ReVals) \ {<<>>}
    [] p = "word_path" -> (SUBSET [1..2 -> ReVals]) \X [1..2 -> ReVals]

RePrograms ==
  {"subsets", "combinations", "permutations", "combinations_dup", "powerset", "permutations_dup",
   "k_combinations", "wildcards", "parens", "telephone", "telephone_loop", "numeronym",
   "target", "target_loop", "sorted_arrays", "multiply", "frog", "stairs", "cents", "bottles",
   "scheduler", "grid_count", "rectangle", "special", "queens", "rod", "knapsack", "penalty",
   "canoes", "min_swaps", "boxes", "concat", "magic_index", "grid_path", "puzzle", "maze",
   "paint", "jumps", "path_fill", "top_box", "stripes", "switch", "word_path",
   "hanoi", "lcs", "lis"}

\* The start of the search of word_path, fixed.
From == <<1, 1>>
Printing(s) == [str |-> s, out |-> <<>>, used |-> {}]

ReInit == reProg \in RePrograms /\ reIn \in ReInputs(reProg) /\ reOut = <<>> /\ reDone = FALSE

\* The program p prints or returns out; where there are several solutions to a
\* problem, out holds the results of all of them.
ReAnswers(p, out) ==
  /\ reProg = p /\ ~reDone
  /\ reOut' = out /\ reDone' = TRUE
  /\ UNCHANGED <<reProg, reIn>>

RunSubsets == ReAnswers("subsets", PrintSubsets(<<>>, reIn, 1))
RunCombinations == ReAnswers("combinations", PrintCombinations(reIn))
RunCombinationsDup == ReAnswers("combinations_dup", PrintCombinationsDup(reIn))
RunPowerset == ReAnswers("powerset", Powerset(SortSeq(reIn, <), 1, <<>>))
RunKCombinations == ReAnswers("k_combinations", KCombinations(reIn[1], 1, reIn[2], <<>>))
RunPermutations == ReAnswers("permutations", StrPermutations(Printing(reIn), 1))
RunPermutationsDup == ReAnswers("permutations_dup", StrPermutationsDup(Printing(reIn), 1))
RunWildcards == ReAnswers("wildcards", Wildcards(Printing(reIn), 1))
RunParens == ReAnswers("parens", PrintParens(<<>>, 0, reIn, 0))
RunTelephone == ReAnswers("telephone", PrintWords(reIn, 1, <<>>))
RunTelephoneLoop == ReAnswers("telephone_loop", PrintWordsLoop(reIn))
RunNumeronym == ReAnswers("numeronym", FromNumeronym(MakeNumeronym(reIn)))
RunTarget == ReAnswers("target", TargetN(reIn[1], 1, reIn[1][1], reIn[2], <<>>))
RunTargetLoop ==
  ReAnswers("target_loop",
    TargetNLoop(reIn[1], [i \in 1..Len(reIn[1]) - 1 |-> 1], reIn[2]))
RunSortedArrays == ReAnswers("sorted_arrays", SortedArrays(reIn[1], reIn[2]))
RunMultiply == ReAnswers("multiply", {RecursiveMultiply(reIn[1], reIn[2])})
RunFrog == ReAnswers("frog", {FrogCombos(reIn)})
RunStairs == ReAnswers("stairs", {PossibilitiesNaive(reIn), Possibilities(reIn)})
RunCents == ReAnswers("cents", {Ways(reIn)})
RunBottles == ReAnswers("bottles", {MinBottles(reIn), BottlesBruteForce(reIn)})
RunScheduler ==
  ReAnswers("scheduler",
    {SchedulerPossibilities(reIn[1], reIn[2]),
      SchedulerPossibilitiesDp(reIn[1], reIn[2])})
RunGridCount ==
  ReAnswers("grid_count",
    {PathsAux(0, 0, reIn[1], reIn[2]), PathsDp(reIn[1], reIn[2]),
      RectanglePaths(reIn[1] + 1, reIn[2] + 1)})
RunRectangle == ReAnswers("rectangle", {AllPathsAux(0, 0, reIn[1], reIn[2], {})})
RunSpecial == ReAnswers("special", {GenerateSequences(reIn)})
RunQueens == ReAnswers("queens", {QueensArrangements(reIn)})
RunRod ==
  ReAnswers("rod",
    {CutRod(reIn, Len(reIn)), CutRodBottomUp(reIn),
      CutRodTopDown(reIn, Len(reIn), [l \in 0..Len(reIn) |-> -1]).res})
RunKnapsack ==
  ReAnswers("knapsack",
    {Knapsack(reIn[1], reIn[2], reIn[3], Len(reIn[1])), KnapsackBottomUp(reIn[1], reIn[2], reIn[3]),
      KnapsackTopDown(reIn[1], reIn[2], reIn[3], Len(reIn[1]),
      [c \in (0..reIn[3]) \X (0..Len(reIn[1])) |-> -1]).res})
RunPenalty ==
  ReAnswers("penalty",
    {MinPenalty(reIn[1], <<reIn[2], reIn[3]>>), MinPenaltyDp(reIn[1], <<reIn[2], reIn[3]>>)})
RunCanoes ==
  ReAnswers("canoes",
    {CanoesAux(reIn, 1)} \cup (IF reIn = <<>> THEN {} ELSE {MinCanoes(reIn)}))
RunMinSwaps == ReAnswers("min_swaps", {MinSwapsAux(reIn[1], reIn[2], 1, 0)})
RunBoxes == ReAnswers("boxes", {StackBoxesAux(reIn, 1, 0)})
RunConcat == ReAnswers("concat", {OptimalMerge(reIn)})
RunMagicIndex ==
  ReAnswers("magic_index",
    {MagicIndexFollowUp(reIn)} \cup (IF Distinct(reIn) THEN {MagicIndex(reIn)} ELSE {}))
RunGridPath == ReAnswers("grid_path", FindGridPath(<<0, 0>>, reIn[1], reIn[2], reIn[3]))
RunPuzzle == ReAnswers("puzzle", FindPuzzlePath(reIn[1], reIn[2], reIn[3]))
RunMaze == ReAnswers("maze", FindWayOut(reIn, {}, <<1, 1>>))
RunPaint == ReAnswers("paint", PaintFill(reIn[1], reIn[2], reIn[3]))
RunJumps == ReAnswers("jumps", MinJumpsAux(reIn[1], <<0, 0>>, reIn[2], <<>>, <<>>))
RunPathFill == ReAnswers("path_fill", FindPathFor(reIn, 1, Grid, {}, reIn[1][1]))
RunTopBox ==
  ReAnswers("top_box",
    TopBoxPath(reIn, 1, PadLetters, <<0, 0>>,
      [visited |-> [q \in Pad |-> 0], path |-> <<>>, found |-> FALSE]))
RunStripes == ReAnswers("stripes", {MinStrips(reIn)})
RunSwitch == ReAnswers("switch", SwitchAux(reIn[1], reIn[2], 1, <<>>))
RunWordPath == ReAnswers("word_path", WordPath(reIn[1], From, reIn[2]))
RunHanoi == ReAnswers("hanoi", Hanoi(1, 3, 2, reIn))
RunLcs == ReAnswers("lcs", Lcs(reIn[1], reIn[2]))
RunLis == ReAnswers("lis", LisSolve(reIn))

ReNext ==
  \/ RunSubsets \/ RunCombinations \/ RunCombinationsDup \/ RunPowerset
  \/ RunKCombinations \/ RunPermutations \/ RunPermutationsDup \/ RunWildcards
  \/ RunParens \/ RunTelephone \/ RunTelephoneLoop \/ RunNumeronym
  \/ RunTarget \/ RunTargetLoop \/ RunSortedArrays \/ RunMultiply
  \/ RunFrog \/ RunStairs \/ RunCents \/ RunBottles
  \/ RunScheduler \/ RunGridCount \/ RunRectangle \/ RunSpecial
  \/ RunQueens \/ RunRod \/ RunKnapsack \/ RunPenalty
  \/ RunCanoes \/ RunMinSwaps \/ RunBoxes \/ RunConcat
  \/ RunMagicIndex \/ RunGridPath \/ RunPuzzle \/ RunMaze
  \/ RunPaint \/ RunJumps \/ RunPathFill \/ RunTopBox
  \/ RunStripes \/ RunSwitch \/ RunWordPath
  \/ RunHanoi \/ RunLcs \/ RunLis

ReSpec == ReInit /\ [][ReNext]_reVars
----------------------------------------------------------------------------
(* What the answers must be.                                                 *)

\* Every line of a set, each once.
Lines(out, set) == ToSet(out) = set /\ Len(out) = Cardinality(set)

\* What is left of s when some positions are kept.
Picks(s) ==
  {LET at == SetToSortSeq(S, <) IN [k \in DOMAIN at |-> s[at[k]]] : S \in SUBSET DOMAIN s}
Rearranged(s) ==
  {[i \in DOMAIN s |-> s[f[i]]] : f \in {g \in [DOMAIN s -> DOMAIN s] : Distinct(g)}}

\* A printed sorted array by the indexes it takes from a and b in turn.
Alternating(a, b) ==
  LET from(k) == IF k % 2 = 1 THEN a ELSE b
      value(q, k) == from(k)[q[k]]
      fits(q) == \A k \in 2..Len(q) : /\ value(q, k) >= value(q, k - 1)
                                      /\ k > 2 => q[k] > q[k - 2]
      all == {q \in UNION {[1..k -> DOMAIN a] : k \in 1..2 * Len(a)} : q[1] = 1 /\ fits(q)}
  IN  {q \in all : \A j \in DOMAIN a : ~fits(Append(q, j))}

AlternatingLines(a, b) ==
  {[k \in DOMAIN q |-> IF k % 2 = 1 THEN a[q[k]] ELSE b[q[k]]] : q \in Alternating(a, b)}

\* The programs that print all of something print all of it and nothing twice,
\* and those that work in place leave their string as it was.  solution_duplicates.c
\* prints only combinations of the string, and all of those in which no letter comes
\* twice; that it goes up "to the length of the string" (lines 2-3) is claimed only of
\* strings whose letters are distinct, which is the same.
RePrints ==
  reDone =>
    CASE reProg = "subsets" -> Lines(reOut, Picks(reIn))
      [] reProg = "combinations" -> Lines(reOut, Picks(reIn) \ {<<>>})
      [] reProg = "combinations_dup" ->
           LET all == Picks(SortSeq(reIn, <)) \ {<<>>}
           IN  /\ Distinct(reOut) /\ ToSet(reOut) \subseteq all
               /\ {t \in all : Distinct(t)} \subseteq ToSet(reOut)
      [] reProg = "powerset" -> Lines(reOut, Picks(SortSeq(reIn, <)))
      [] reProg = "k_combinations" -> Lines(reOut, {t \in Picks(reIn[1]) : Len(t) = reIn[2]})
      [] reProg \in {"permutations", "permutations_dup"} ->
           Lines(reOut.out, Rearranged(reIn)) /\ reOut.str = reIn
      [] reProg = "wildcards" ->
           /\ Lines(reOut.out, {t \in [DOMAIN reIn -> {0, 1}] :
                                  \A i \in DOMAIN reIn : reIn[i] # 2 => t[i] = reIn[i]})
           /\ reOut.str = reIn
      [] reProg = "parens" ->
           Lines(reOut, {t \in [1..2 * reIn -> {1, -1}] :
                           /\ SumOf(t) = 0
                           /\ \A k \in 1..2 * reIn : SumOf(SubSeq(t, 1, k)) >= 0})
      [] reProg \in {"telephone", "telephone_loop"} ->
           Lines(reOut, {w \in [DOMAIN reIn -> -2..5] :
                           \A i \in DOMAIN reIn :
                             IF reIn[i] < 2 THEN w[i] = -1 - reIn[i]
                             ELSE w[i] \in 3 * reIn[i] - 6..3 * reIn[i] - 4})
      [] reProg = "numeronym" ->
           Lines(reOut, {t \in [DOMAIN reIn -> ReVals] :
                           t[1] = reIn[1] /\ t[Len(t)] = reIn[Len(t)]})
      [] reProg \in {"target", "target_loop"} ->
           Lines(reOut, {t \in [1..Len(reIn[1]) - 1 -> {1, -1}] :
                           SumOf([i \in DOMAIN reIn[1] |-> IF i = 1 THEN reIn[1][1]
                                                           ELSE t[i - 1] * reIn[1][i]]) = reIn[2]})
      [] reProg = "sorted_arrays" ->
           /\ ToSet(reOut) = AlternatingLines(reIn[1], reIn[2]) \cup AlternatingLines(reIn[2], reIn[1])
           /\ Len(reOut) = Cardinality(Alternating(reIn[1], reIn[2]))
                             + Cardinality(Alternating(reIn[2], reIn[1]))
      [] OTHER -> TRUE

Most(S) == CHOOSE n \in S : \A m \in S : m <= n
Least(S) == CHOOSE n \in S : \A m \in S : n <= m
Sums(n, parts) == {s \in UNION {[1..k -> parts] : k \in 0..n} : SumOf(s) = n}

\* The arrays k swaps away.
AfterSwaps(s, k) ==
  LET reach[n \in Nat] ==
        IF n = 0 THEN {s}
        ELSE UNION {{SwapIn(t, i, j) : i \in DOMAIN t, j \in DOMAIN t} : t \in reach[n - 1]}
  IN  reach[k]

\* Sets of disjoint pairs of kids that fit in a canoe.
Pairings(kids) ==
  LET pairs == {{i, j} : i \in DOMAIN kids, j \in DOMAIN kids}
      fit == {p \in pairs : Cardinality(p) = 2 /\ \A i, j \in p :
                              i # j => kids[i] + kids[j] <= MAX_CANOE_WEIGHT}
  IN  {M \in SUBSET fit : \A p, q \in M : p # q => p \cap q = {}}

\* Paths of the rectangle that meet no node twice.
Rectangle(n, m) ==
  LET cells == Field(m, n)
      next(p, q) == q \in ToSet(Around(p))
  IN  {s \in UNION {SetToSeqs(S) : S \in SUBSET cells \ {{}}} :
         /\ s[1] = <<0, 0>> /\ s[Len(s)] = <<m - 1, n - 1>>
         /\ \A i \in 1..Len(s) - 1 : next(s[i], s[i + 1])}

\* The stripes used when every colourless field belongs to one that goes down or
\* to one that goes right.
StripesOf(grid, down) ==
  LET blank == {p \in DOMAIN grid : grid[p] = "."}
  IN  Cardinality({p \in down : <<p[1] - 1, p[2]>> \notin down})
        + Cardinality({p \in blank \ down : <<p[1], p[2] - 1>> \notin blank \ down})

\* The number, or the best value, the problem asks for.
ReExpected(p, io) ==
  CASE p = "multiply" -> io[1] * io[2]
    [] p = "frog" -> Cardinality(Sums(io, {1, 2}))
    [] p = "stairs" -> Cardinality(Sums(io, {1, 2, 3}))
    [] p = "cents" -> Cardinality({c \in (0..io \div 25) \X (0..io \div 10) \X (0..io \div 5) :
                                     25 * c[1] + 10 * c[2] + 5 * c[3] <= io})
    [] p = "bottles" -> Least({b[1] + b[2] + b[3] + (io - 10 * b[1] - 7 * b[2] - 5 * b[3]) :
                                 b \in {c \in (0..io \div 10) \X (0..io \div 7) \X (0..io \div 5) :
                                          10 * c[1] + 7 * c[2] + 5 * c[3] <= io}})
    [] p \in {"scheduler", "grid_count"} ->
         Cardinality({S \in SUBSET (1..io[1] + io[2]) : Cardinality(S) = io[1]})
    [] p = "rectangle" -> Cardinality(Rectangle(io[1], io[2]))
    [] p = "special" ->
         IF SumOf(io) = 0 THEN 0
         ELSE Cardinality({s \in [1..SumOf(io) -> 1..4] :
                             /\ \A i \in 1..Len(s) - 1 : s[i] # s[i + 1]
                             /\ \A d \in 1..4 : Cardinality({i \in DOMAIN s : s[i] = d}) = io[d]})
    [] p = "queens" ->
         Cardinality({q \in [1..io -> 1..io] :
                        \A i, j \in 1..io : i < j => q[j] - q[i] \notin {0, j - i, i - j}})
    [] p = "rod" -> Most({SumOf([i \in DOMAIN c |-> io[c[i]]]) : c \in Sums(Len(io), DOMAIN io)})
    [] p = "knapsack" ->
         LET sum(S, of) == SumOf([k \in 1..Len(of) |-> IF k \in S THEN of[k] ELSE 0])
         IN  Most({sum(S, io[2]) : S \in {T \in SUBSET DOMAIN io[1] : sum(T, io[1]) <= io[3]}})
    [] p = "penalty" ->
         LET n == Len(io[2])
             step(t, i) == IF t[i] = 0 THEN io[2][i] ELSE io[3][i]
             cost(t) == SumOf([i \in 1..n |-> step(t, i) + (IF i > 1 /\ t[i] # t[i - 1]
                                                            THEN io[1][i] ELSE 0)])
         IN  Least({cost(t) : t \in [0..n -> {0, 1}]})
    [] p = "canoes" ->
         IF \E i \in DOMAIN io : io[i] > MAX_CANOE_WEIGHT THEN UINT_MAX
         ELSE Len(io) - Most({Cardinality(M) : M \in Pairings(io)})
    [] p = "min_swaps" -> Least({k \in 0..Len(io[1]) : io[2] \in AfterSwaps(io[1], k)})
    [] p = "boxes" ->
         Most({SumOf([i \in DOMAIN t |-> t[i][2]]) :
                 t \in {u \in UNION {SetToSeqs(S) : S \in SUBSET ToSet(io)} :
                          \A i \in 1..Len(u) - 1 : CanStack(u[i], u[i + 1])}})
    [] p = "stripes" ->
         Least({StripesOf(io, down) : down \in SUBSET {q \in DOMAIN io : io[q] = "."}})

ReCounting ==
  {"multiply", "frog", "stairs", "cents", "bottles", "scheduler", "grid_count", "rectangle",
   "special", "queens", "rod", "knapsack", "penalty", "canoes", "min_swaps", "boxes",
   "stripes"}

\* What it costs to append the other strings to one, the shortest first.
AppendingCost(lens) ==
  LET s == SortSeq(lens, <) IN SumOf([i \in DOMAIN s |-> IF i = 1 THEN 0 ELSE SumOf(SubSeq(s, 1, i))])

\* What it costs to join the strings two by two until one is left, whichever two.
RECURSIVE CheapestJoin(_)
CheapestJoin(lens) ==
  LET sum(i, j) == lens[i] + lens[j]
      joined(i, j) == Append(RemoveAt(RemoveAt(lens, j), i), sum(i, j))
  IN  IF Len(lens) = 1 THEN 0
      ELSE Least({sum(i, j) + CheapestJoin(joined(i, j)) :
                    <<i, j>> \in {p \in (DOMAIN lens) \X (DOMAIN lens) : p[1] < p[2]}})

\* optimal_concat is "to minimize the cost of concatenating a series of strings" (line
\* 12): no way to join them costs less.
ConcatCheapest == (reProg = "concat" /\ reDone) => reOut = {CheapestJoin(reIn)}

\* Every solution of a problem that asks for a number or a best value gives
\* that of the definition: the naive recursion, the table filled from below and
\* the one filled on demand agree with it.  A magic index is found exactly when
\* there is one, and boards have a solution except for 2 and 3 queens.  The cost of
\* optimal_concat is the least of all orders that append one string at a time, and no
\* more is claimed (joining in pairs may cost less, see ConcatCheapest).
ReCounts ==
  reDone =>
    /\ reProg \in ReCounting => reOut = {ReExpected(reProg, reIn)}
    /\ reProg = "concat" => reOut = {AppendingCost(reIn)}
    /\ reProg = "queens" => (reOut = {0} <=> reIn \in {2, 3})
    /\ reProg = "magic_index" =>
         LET magic == {i \in 0..Len(reIn) - 1 : reIn[i + 1] = i}
         IN  IF magic = {} THEN reOut = {-1} ELSE reOut \subseteq magic

\* What can be reached from start by steps of next, a function to sets.
Reached(start, next) ==
  LET reach[k \in Nat] ==
        IF k = 0 THEN {start}
        ELSE reach[k - 1] \cup UNION {next[p] : p \in reach[k - 1]}
  IN  reach[Cardinality(DOMAIN next)]
Steps(path, next) == \A i \in 1..Len(path) - 1 : path[i + 1] \in next[path[i]]
Near(cells) == [p \in cells |-> ToSet(Around(p)) \cap cells]

\* The stones a frog can jump to from each stone, and those k jumps away.
Jumps(map) ==
  LET abs(n) == IF n < 0 THEN -n ELSE n
  IN  [p \in DOMAIN map |-> {q \in DOMAIN map : abs(p[1] - q[1]) + abs(p[2] - q[2]) <= map[p]}]

\* All orders of the fields of the grid.
GridOrders == Rearranged(SetToSeq(Grid))
\* s walks from p[1] to p[2].
Walks(s, p) == s # <<>> /\ s[1] = p[1] /\ s[Len(s)] = p[2] /\ Steps(s, Near(Grid))
Fillable(points) ==
  \E s \in {o \in GridOrders : o[1] = points[1][1] /\ o[6] = points[Len(points)][2]} :
    IF Len(points) = 1 THEN Walks(s, points[1])
    ELSE \E k \in 1..5 : Walks(SubSeq(s, 1, k), points[1]) /\ Walks(SubSeq(s, k + 1, 6), points[2])

\* Where the cursor is after a path, <<-1, -1>> once it left the box.
Cursor(path) ==
  LET move(p, d) ==
        LET q == CASE d = "LEFT" -> <<p[1], p[2] - 1>> [] d = "RIGHT" -> <<p[1], p[2] + 1>>
                   [] d = "UP" -> <<p[1] - 1, p[2]>> [] d = "DOWN" -> <<p[1] + 1, p[2]>>
                   [] OTHER -> p
        IN  IF q \in Pad THEN q ELSE <<-1, -1>>
  IN  FoldLeft(move, <<0, 0>>, path)

\* One letter, or none, is different.
Changed(v, w) == Cardinality({i \in DOMAIN v : v[i] # w[i]}) <= 1

\* The towers after a move, from the top down; <<>> once a move was illegal.
Moved(towers, move) ==
  IF towers = <<>> \/ towers[move[1]] = <<>> THEN <<>>
  ELSE LET disk == Head(towers[move[1]])
           on == towers[move[2]]
       IN  IF on # <<>> /\ Head(on) < disk THEN <<>>
           ELSE [towers EXCEPT ![move[1]] = Tail(@), ![move[2]] = <<disk>> \o @]

\* The searches that go back when they are stuck find a way exactly when there
\* is one, and what they answer is one: a path that keeps to the rules, a
\* shortest one where that is asked for, a filling of the whole grid, switches
\* that turn one array into the other, a route that selects the word, legal moves
\* that take every disk to the last tower, a common or non-decreasing subsequence
\* than which none is longer.
ReFinds ==
  reDone =>
    CASE reProg = "grid_path" ->
           LET free == {p \in Field(reIn[1], reIn[2]) : ~reIn[3][p] \/ p = <<0, 0>>}
               next == [p \in free |-> {<<p[1] + 1, p[2]>>, <<p[1], p[2] + 1>>} \cap free]
               goal == <<reIn[1] - 1, reIn[2] - 1>>
           IN  IF goal \in Reached(<<0, 0>>, next)
               THEN reOut # <<>> /\ reOut[1] = <<0, 0>> /\ reOut[Len(reOut)] = goal /\ Steps(reOut, next)
               ELSE reOut = <<>>
      [] reProg = "puzzle" ->
           LET free == {p \in Grid : reIn[1][p] = 0} \cup {reIn[2]}
           IN  reOut <=> reIn[3] \in Reached(reIn[2], Near(free))
      [] reProg = "maze" ->
           LET free == {p \in DOMAIN reIn : reIn[p] = 0}
               border == {p \in free : p[1] \in {0, 2} \/ p[2] \in {0, 3}}
               way == SubSeq(reOut, 1, Len(reOut) - 1)
           IN  IF <<1, 1>> \in free /\ Reached(<<1, 1>>, Near(free)) \cap border # {}
               THEN /\ way # <<>> /\ way[1] = <<1, 1>> /\ way[Len(way)] \in border
                    /\ Steps(way, Near(free)) /\ Distinct(way)
               ELSE reOut = <<>>
      [] reProg = "paint" ->
           LET same == {p \in Grid : reIn[1][p] = reIn[1][reIn[2]]}
               area == Reached(reIn[2], Near(same))
           IN  reOut = [p \in Grid |-> IF p \in area THEN reIn[3] ELSE reIn[1][p]]
      [] reProg = "jumps" ->
           LET next == Jumps(reIn[1])
               all == {s \in UNION {[1..k -> DOMAIN reIn[1]] : k \in 1..4} :
                         s[1] = <<0, 0>> /\ s[Len(s)] = reIn[2] /\ Steps(s, next)}
           IN  IF all = {} THEN reOut = <<>>
               ELSE reOut \in all /\ \A s \in all : Len(reOut) <= Len(s)
      [] reProg = "path_fill" ->
           IF ~Fillable(reIn) THEN reOut = <<>>
           ELSE /\ Len(reOut) = Len(reIn) /\ \A i \in DOMAIN reIn : Walks(reOut[i], reIn[i])
                /\ Distinct(FlattenSeq(reOut)) /\ ToSet(FlattenSeq(reOut)) = Grid
      [] reProg = "top_box" ->
           LET oks == SetToSortSeq({i \in DOMAIN reOut.path : reOut.path[i] = "OK"}, <)
           IN  /\ reOut.found /\ Len(oks) = Len(reIn)
               /\ \A k \in DOMAIN oks :
                    LET p == Cursor(SubSeq(reOut.path, 1, oks[k]))
                    IN  p \in Pad /\ (p \in Pad => PadLetters[p] = reIn[k])
      [] reProg = "switch" ->
           /\ reOut.found <=> \E S \in SUBSET DOMAIN reIn[1] :
                                \A i \in DOMAIN reIn[1] :
                                  (reIn[1][i] = reIn[2][i]) <=>
                                    (Cardinality(S \cap (i - 1..i + 1)) % 2 = 0)
           /\ reOut.found => \A i \in DOMAIN reIn[1] :
                (reIn[1][i] = reIn[2][i]) <=>
                  (Cardinality(ToSet(reOut.buff) \cap (i - 1..i + 1)) % 2 = 0)
      [] reProg = "word_path" ->
           LET words == reIn[1] \cup {reIn[2], From}
               next == [w \in words |-> {v \in reIn[1] \cup {reIn[2]} : Changed(v, w)}]
               path == <<From>> \o reOut.path
           IN  /\ reOut.found <=> reIn[2] \in Reached(From, next)
               /\ reOut.found => path[Len(path)] = reIn[2] /\ Steps(path, next)
      [] reProg = "hanoi" ->
           /\ FoldLeft(Moved, <<FromTo(1, reIn), <<>>, <<>>>>, reOut) = <<<<>>, <<>>, FromTo(1, reIn)>>
           /\ Len(reOut) = 2 ^ reIn - 1
      [] reProg = "lcs" ->
           LET common == Picks(reIn[1]) \cap Picks(reIn[2])
           IN  /\ reOut[2] \in common /\ Len(reOut[2]) = reOut[1]
               /\ \A t \in common : Len(t) <= reOut[1]
      [] reProg = "lis" ->
           LET rising == {t \in Picks(reIn) : NonDescending(t)}
           IN  reOut \in rising /\ \A t \in rising : Len(t) <= Len(reOut)
      [] OTHER -> TRUE
=============================================================================
