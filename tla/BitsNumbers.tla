------------------------------ MODULE BitsNumbers ------------------------------
(* The programs of bit_manipulation and numeric.  A machine word is a number   *)
(* from 0 to 2^BnBits - 1 and the operators on its bits go through the set of  *)
(* the positions that hold a 1, position 0 the lowest.  A program that draws   *)
(* random numbers is run on every sequence of draws: what it prints is counted *)
(* over all of them, a number for each outcome.                                *)
EXTENDS Integers, Sequences, FiniteSets, SequencesExt

CONSTANTS
  BnBits,    \* bits of an unsigned
  BnCharBit, \* CHAR_BIT, of the screen and of the missing number
  BnWords,   \* the words that are taken for second arguments
  BnRandMax, \* RAND_MAX
  BnMax      \* bound: the longest array of numbers

ASSUME BnAssumption ==
  /\ BnBits \in Nat /\ BnBits % 4 = 0 /\ BnBits > 0 /\ BnCharBit \in Nat \ {0}
  /\ BnWords \subseteq 0..2 ^ BnBits - 1 /\ BnRandMax \in Nat /\ BnMax \in Nat

VARIABLES
  bnProg,  \* the program that runs
  bnIn,    \* its input
  bnOut,   \* what it printed or returned
  bnDone   \* the function has returned

bnVars == <<bnProg, bnIn, bnOut, bnDone>>

Upto(a, b) == [k \in 1..(b - a + 1) |-> a + k - 1]
Exchanged(s, i, j) == [s EXCEPT ![i] = s[j], ![j] = s[i]]
----------------------------------------------------------------------------
(* MachineWords.                                                                    *)

Positions == 0..BnBits - 1
MachineWords == 0..2 ^ BnBits - 1
ALLONES == 2 ^ BnBits - 1
BitsOf == [n \in MachineWords |-> {k \in Positions : (n \div 2 ^ k) % 2 = 1}]
WordOf == [S \in SUBSET Positions |-> CHOOSE n \in MachineWords : BitsOf[n] = S]

Wrap(n) == n % 2 ^ BnBits
BitAnd(a, b) == WordOf[BitsOf[a] \cap BitsOf[b]]
BitOr(a, b) == WordOf[BitsOf[a] \cup BitsOf[b]]
BitXor(a, b) == WordOf[(BitsOf[a] \cup BitsOf[b]) \ (BitsOf[a] \cap BitsOf[b])]
BitNot(a) == ALLONES - a
ShiftLeft(a, k) == Wrap(a * 2 ^ k)
ShiftRight(a, k) == a \div 2 ^ k
Lowest(n) == BitAnd(n, Wrap(-n))
Signed(n) == ((n + 2 ^ (BnBits - 1)) % 2 ^ BnBits) - 2 ^ (BnBits - 1)

\* bits_count(), count_ones(): n & (n-1) takes the lowest 1 away.
RECURSIVE CountOnes(_)
CountOnes(n) == IF n = 0 THEN 0 ELSE 1 + CountOnes(BitAnd(n, n - 1))

\* bits_table, as build_table prints it, and bits_set().
BitsTable == [x \in MachineWords |-> CountOnes(x)]
BitsSet(arr) == FoldLeft(LAMBDA res, x : res + BitsTable[x], 0, arr)

\* convert_bits().
ConvertBits(a, b) == CountOnes(BitXor(a, b))

\* copy_bits() and insert_into().  A shift by the width of a word is undefined: it
\* gives 0, or what a shift by the remainder, 0, gives.
FieldMask(len, at, zero) ==
  LET ones == IF len = BnBits THEN IF zero THEN 0 ELSE ALLONES ELSE ShiftLeft(ALLONES, len)
  IN  ShiftLeft(BitNot(ones), at)
CopyBits(from, to, begin, end, zero) ==
  LET mask == FieldMask(end - begin + 1, begin, zero)
  IN  BitOr(BitAnd(to, BitNot(mask)), BitAnd(from, mask))
InsertInto(n, m, j, i, zero) ==
  BitOr(BitAnd(n, BitNot(FieldMask(j - i + 1, i, zero))), ShiftLeft(m, i))

\* divide(): long division, a bit of the dividend at a time; int wraps round.
DivideBits(dividend, divisor) ==
  LET sign == IF (dividend < 0) # (divisor < 0) THEN -1 ELSE 1
      top == IF dividend < 0 THEN Signed(-dividend) ELSE dividend
      by == IF divisor < 0 THEN Signed(-divisor) ELSE divisor
      step(st, k) ==
        LET divd == Signed(2 * st.divd + (IF k \in BitsOf[Wrap(top)] THEN 1 ELSE 0))
        IN  IF divd < by THEN [res |-> Signed(2 * st.res), divd |-> divd]
            ELSE [res |-> Signed(2 * st.res + 1), divd |-> Signed(divd - by)]
  IN  Signed(sign * FoldLeft(step, [res |-> 0, divd |-> 0], Reverse(Upto(0, BnBits - 1))).res)

\* find_missing(): in the column the halves differ by the missing number; FALSE in fits
\* once more numbers go into zeros or ones than they have room for.
RECURSIVE FindMissing(_, _)
FindMissing(arr, col) ==
  IF col = BnCharBit THEN [val |-> 0, fits |-> TRUE]
  ELSE LET ones == SelectSeq(arr, LAMBDA x : col \in BitsOf[x])
           zeros == SelectSeq(arr, LAMBDA x : col \notin BitsOf[x])
           room == Len(arr) \div 2 + 1
           even == Len(zeros) <= Len(ones)
           rest == FindMissing(IF even THEN zeros ELSE ones, col + 1)
       IN  [val |-> 2 * rest.val + (IF even THEN 0 ELSE 1),
            fits |-> rest.fits /\ Len(ones) <= room /\ Len(zeros) <= room]

\* find_two_repeating(): a bit in which the two differ divides the numbers.
XorAll(s) == FoldLeft(BitXor, 0, s)
FindTwoRepeating(arr) ==
  LET all == arr \o Upto(1, Len(arr) - 2)
      diff == Lowest(XorAll(all))
  IN  <<XorAll(SelectSeq(all, LAMBDA x : BitAnd(x, diff) # 0)),
        XorAll(SelectSeq(all, LAMBDA x : BitAnd(x, diff) = 0))>>

\* find_number(): ones and twos count the 1s of each column modulo 3; FALSE in ok once
\* an assertion fails.
FindNumber(arr) ==
  LET step(st, x) ==
        LET mask == BitAnd(x, BitNot(st.twos))
            ones == BitXor(st.ones, mask)
            twos == BitXor(BitXor(st.twos, BitAnd(x, BitNot(mask))), BitXor(BitAnd(mask, ones), mask))
        IN  [ones |-> ones, twos |-> twos, ok |-> st.ok /\ BitAnd(ones, twos) = 0]
      end == FoldLeft(step, [ones |-> 0, twos |-> 0, ok |-> TRUE], arr)
  IN  [val |-> IF end.twos = 0 THEN end.ones ELSE end.twos,
       ok |-> end.ok /\ (end.ones = 0 \/ end.twos = 0)]

\* flip_to_win(): right and left are the 1s beside a 0, from the lowest 0 up.
RECURSIVE OnesFrom(_, _)
OnesFrom(n, mask) == IF BitAnd(n, mask) = 0 THEN 0 ELSE 1 + OnesFrom(n, ShiftLeft(mask, 1))
RECURSIVE FlipAt(_, _, _, _)
FlipAt(n, m, right, res) ==
  IF m = 0 THEN res
  ELSE LET left == OnesFrom(n, ShiftLeft(Lowest(m), 1))
           here == left + right + 1
       IN  FlipAt(n, BitAnd(m, m - 1), left, IF here > res THEN here ELSE res)
FlipToWin(n) ==
  LET m == BitNot(n)
  IN  IF m = 0 THEN BnBits ELSE FlipAt(n, m, CHOOSE k \in Positions : 2 ^ k = Lowest(m), 0)

\* is_power_two().
IsPowerTwo(n) == BitAnd(n, Wrap(n - 1)) = 0

\* next_largest() and next_smallest(); -1 where an assertion fails.
NextLargest(n) ==
  LET ls == Lowest(n)
      first == Wrap(n + ls)
      rest == ShiftRight((Lowest(first) \div ls) - 1, 1)
  IN  IF n \in {0, ALLONES} THEN -1 ELSE IF first = 0 THEN -1 ELSE BitOr(first, rest)
NextSmallestWord(n) ==
  LET cut == BitAnd(n, Wrap(n + 1))
      ls == ShiftRight(Lowest(cut), 1)
      head == BitOr(BitAnd(cut, Wrap(cut - 1)), ls)
      rlim == ls \div BitAnd(Wrap(n + 1), BitNot(n))
      group == BitOr(BitNot(BitOr(ls, ShiftRight(rlim, 1))), rlim)
      shifted == BitAnd(BitAnd(group, BitNot(Wrap(rlim - 1))), Wrap(ls - 1))
  IN  IF n = 0 \/ cut = 0 THEN -1 ELSE IF cut = n THEN head ELSE BitOr(head, shifted)

\* print_binary_rep(): a number between 0 and 1 is the set of its binary places; the
\* buffer takes the places until cursor is 34, "ERROR" if there are more.
RECURSIVE PrintBinaryRep(_, _)
PrintBinaryRep(n, cursor) ==
  IF n = {} THEN <<>>
  ELSE IF cursor = 34 THEN <<"ERROR">>
  ELSE <<IF 1 \in n THEN "1" ELSE "0">> \o PrintBinaryRep({k - 1 : k \in n \ {1}}, cursor + 1)

\* same_page(), with pages of PAGE_SIZE addresses.
PAGE_SIZE == 4
SamePage(p1, p2) == BitAnd(p1, BitNot(PAGE_SIZE - 1)) = BitAnd(p2, BitNot(PAGE_SIZE - 1))

\* draw_horizontal_line(): screen gives the bits of each byte that are set, the first
\* pixel the highest.
DrawHorizontalLine(screen, width, x1, x2, y) ==
  LET row == y * (width \div BnCharBit)
      firstOff == x1 % BnCharBit
      lastOff == x2 % BnCharBit
      first == x1 \div BnCharBit
      last == x2 \div BnCharBit
      full == (first + (IF firstOff # 0 THEN 1 ELSE 0))..(last - (IF lastOff # BnCharBit - 1 THEN 1 ELSE 0))
      filled == [b \in DOMAIN screen |-> IF b - row \in full THEN 0..BnCharBit - 1 ELSE screen[b]]
  IN  IF first # last
      THEN [filled EXCEPT ![row + first] = @ \cup 0..BnCharBit - 1 - firstOff,
                          ![row + last] = @ \cup (BnCharBit - 1 - lastOff)..(BnCharBit - 1)]
      ELSE [filled EXCEPT ![row + first] = @ \cup (BnCharBit - 1 - lastOff)..(BnCharBit - 1 - firstOff)]

\* swap_endianness(): an unsigned has four bytes.
BYTE == BnBits \div 4
SwapEndianness(n) ==
  FoldLeft(LAMBDA st, i : [res |-> BitOr(ShiftLeft(st.res, BYTE), BitAnd(st.n, 2 ^ BYTE - 1)),
                           n |-> ShiftRight(st.n, BYTE)], [res |-> 0, n |-> n], Upto(1, 4)).res

\* swap_pairs().
ODDMASK == WordOf[{k \in Positions : k % 2 = 1}]
SwapPairs(n) ==
  BitOr(ShiftRight(BitAnd(n, ODDMASK), 1), ShiftLeft(BitAnd(n, ShiftRight(ODDMASK, 1)), 1))
----------------------------------------------------------------------------
(* Numbers.                                                                  *)

\* Division and remainder of C go towards zero.
Magnitude(n) == IF n < 0 THEN -n ELSE n
CQuotient(a, b) == LET q == Magnitude(a) \div Magnitude(b) IN IF (a < 0) # (b < 0) THEN -q ELSE q
CRemainder(a, b) == a - b * CQuotient(a, b)

\* divide() of numeric: the integer part, then n digits.
DivideDecimal(numerator, denominator, n) ==
  LET step(st, i) == [digits |-> Append(st.digits, CQuotient(st.left, denominator)),
                      left |-> CRemainder(st.left, denominator) * 10]
  IN  [int |-> CQuotient(numerator, denominator),
       digits |-> FoldLeft(step, [digits |-> <<>>, left |-> CRemainder(numerator, denominator) * 10],
                           Upto(1, n)).digits]

\* find_solutions(): of the pairs with the same sum the last one stays in values.
FindSolutions(maxVal) ==
  LET pairs == {p \in (0..maxVal) \X (0..maxVal) : p[1] < p[2]}
      cubes(p) == p[1] ^ 3 + p[2] ^ 3
      value(s) == CHOOSE p \in pairs : cubes(p) = s /\ \A q \in pairs : cubes(q) = s => q[1] <= p[1]
  IN  {<<value(cubes(p)), p>> : p \in {q \in pairs : value(cubes(q))[1] # q[1] /\ value(cubes(q))[2] # q[2]}}

\* even_odd_digits(), by the table, and even_odd_digits_naive().
Power10(i) == CHOOSE m \in {1, 10, 100, 1000} : m <= i /\ i < 10 * m
EvenOddDigits(n) ==
  LET odd[i \in 0..n] == IF i < 10 THEN i % 2 ELSE odd[i % Power10(i)] + odd[i \div Power10(i)]
  IN  Cardinality({i \in 0..n : odd[i] % 2 = 0}) - 1
RECURSIVE OddDigits(_)
OddDigits(j) == IF j = 0 THEN 0 ELSE (j % 2) + OddDigits(j \div 10)
EvenOddDigitsNaive(n) == Cardinality({i \in 1..n : OddDigits(i) % 2 = 0})

\* is_palindrome(): the digits from the lowest up.
RECURSIVE Reversed10(_, _)
Reversed10(n, rev) == IF n = 0 THEN rev ELSE Reversed10(n \div 10, 10 * rev + (n % 10))
IsPalindrome(n) == n >= 0 /\ Reversed10(n, 0) = n

\* perfect_square(): the roots below lim in a table up to lim * lim.
SqRoot(lim) == FoldLeft(LAMBDA t, i : [t EXCEPT ![i * i] = i], [n \in 1..lim * lim |-> 0], Upto(1, lim - 1))

\* stream_sub(): the digits from the lowest up; past the end of b the borrow is taken
\* from one digit, whatever it is.
StreamSub(a, b) ==
  LET step(st, k) ==
        IF k <= Len(b)
        THEN LET less == a[k] < b[k] + st.carry
             IN  [res |-> Append(st.res, a[k] + (IF less THEN 10 ELSE 0) - (b[k] + st.carry)),
                  carry |-> IF less THEN 1 ELSE 0]
        ELSE [res |-> Append(st.res, a[k] - st.carry), carry |-> 0]
  IN  Reverse(FoldLeft(step, [res |-> <<>>, carry |-> 0], Upto(1, Len(a))).res)
----------------------------------------------------------------------------
(* Random numbers.                                                           *)

\* How many of the draws give each of the outcomes.
Counted(draws, outcome) == [v \in {outcome[d] : d \in draws} |-> Cardinality({d \in draws : outcome[d] = v})]

\* rand_zero(): rand(3) is called until it does not exceed lim; the draws are the values
\* of the last call.  range_rand() moves them to low.
RandZero(max) ==
  LET lim == BnRandMax - ((BnRandMax % (max + 1)) + 1)
      draws == IF max = BnRandMax THEN 0..BnRandMax ELSE 0..lim
  IN  Counted(draws, [r \in draws |-> IF max = BnRandMax THEN r ELSE r % (max + 1)])
RangeRand(low, high) ==
  IF high - low + 1 > BnRandMax THEN (-1 :> 1)
  ELSE [v \in {w + low : w \in DOMAIN RandZero(high - low)} |-> RandZero(high - low)[v - low]]

\* rand7(): two draws of rand5() until they make a number up to 20.
Rand7 ==
  LET number(d) == 5 * (d[1] - 1) + d[2] - 1
      draws == {d \in (1..5) \X (1..5) : number(d) <= 20}
  IN  Counted(draws, [d \in draws |-> (number(d) % 7) + 1])

\* prepare_stream() and generate_char(): PERCENT indexes, each character as often as its
\* share; FALSE in ok once an assertion fails.
PERCENT == 6
PrepareStream(shares) ==
  LET step(st, i) == [sum |-> st.sum + shares[i],
                      indexes |-> st.indexes \o [k \in 1..shares[i] |-> i],
                      ok |-> st.ok /\ st.sum + shares[i] <= PERCENT]
  IN  FoldLeft(step, [sum |-> 0, indexes |-> <<>>, ok |-> TRUE], Upto(1, Len(shares)))
GenerateChar(shares) ==
  LET st == PrepareStream(shares)
  IN  IF ~st.ok \/ st.sum # PERCENT THEN <<>> ELSE Counted(1..PERCENT, st.indexes)

\* quicksort(): the right part is left alone if the pivot comes first.
RECURSIVE PartlySorted(_)
PartlySorted(arr) ==
  LET front == Exchanged(arr, 1, Len(arr) \div 2 + 1)
      step(st, j) ==
        IF st.arr[j] <= st.arr[1] THEN [arr |-> Exchanged(st.arr, st.i + 1, j), i |-> st.i + 1] ELSE st
      end == FoldLeft(step, [arr |-> front, i |-> 1], Upto(2, Len(arr)))
      parted == Exchanged(end.arr, 1, end.i)
      right == SubSeq(parted, end.i + 1, Len(arr))
  IN  IF Len(arr) <= 1 THEN arr
      ELSE PartlySorted(SubSeq(parted, 1, end.i - 1)) \o <<parted[end.i]>>
             \o (IF end.i > 1 THEN PartlySorted(right) ELSE right)

\* The draws of a program that draws from i..max for i = 0, 1, ...
Draws(max) == {d \in [0..max -> 0..max] : \A i \in 0..max : d[i] >= i}

\* sorted_rand_subset(): the first size places get what is drawn for them.
SortedRandSubset(size, max) ==
  LET shuffled(d) == FoldLeft(LAMBDA vals, i : Exchanged(vals, i + 1, d[i] + 1), Upto(0, max), Upto(0, size - 1))
  IN  Counted(Draws(max), [d \in Draws(max) |-> PartlySorted(SubSeq(shuffled(d), 1, size))])

\* knuth_rand_subset(): d[i] - i is the draw from 0..remaining-1 for the number i.
KnuthRandSubset(size, max) ==
  LET step(d, st, i) ==
        IF st.missing # 0 /\ d[i] - i < st.missing
        THEN [arr |-> Append(st.arr, i), missing |-> st.missing - 1] ELSE st
      taken(d) == FoldLeft(LAMBDA st, i : step(d, st, i), [arr |-> <<>>, missing |-> size], Upto(0, max)).arr
  IN  Counted(Draws(max), [d \in Draws(max) |-> taken(d)])
----------------------------------------------------------------------------
(* The inputs and the programs.                                              *)

Fields == {f \in Positions \X Positions : f[1] <= f[2]}
Numerals(n) == UNION {[1..k -> {0, 1, 9}] : k \in 1..n}
Numeral(a) == FoldLeft(LAMBDA v, d : 10 * v + d, 0, a)
Places == {1, 2, 31, 32, 33, 40}
OneMissing == {<<n, x>> : n \in 0..2 ^ BnCharBit - 1, x \in 0..2 ^ BnCharBit - 1}
AllBut(n, x) == SelectSeq(Upto(0, n), LAMBDA k : k # x)
TwiceTwo(s) == LET n == Len(s) - 2
               IN  /\ \A k \in 1..n : k \in ToSet(s)
                   /\ Cardinality({k \in 1..n : Cardinality({i \in DOMAIN s : s[i] = k}) = 2}) = 2
Occurs(s, x) == Cardinality({i \in DOMAIN s : s[i] = x})
ThriceBut1(s) == Cardinality({x \in ToSet(s) : Occurs(s, x) # 3}) = 1

BnInputs(p) ==
  CASE p = "count_ones" -> MachineWords
    [] p = "bits_set" -> UNION {[1..k -> BnWords] : k \in 0..3}
    [] p = "convert" -> MachineWords \X BnWords
    [] p = "copy_bits" -> BnWords \X BnWords \X Fields
    [] p = "insert" -> {x \in BnWords \X (0..15) \X Fields : x[2] < 2 ^ (x[3][2] - x[3][1] + 1)}
    [] p = "divide" -> {Signed(n) : n \in MachineWords} \X {Signed(n) : n \in BnWords}
    [] p = "find_missing" -> {x \in OneMissing : x[2] <= x[1]} \X BOOLEAN
    [] p = "two_repeating" -> {s \in UNION {[1..k + 2 -> 1..k] : k \in 2..BnMax - 2} : TwiceTwo(s)}
    [] p = "three_repeats" ->
         {s \in UNION {[1..k -> {1, 6, ALLONES}] : k \in {1, 2, 4, 5, 7}} : ThriceBut1(s)}
    [] p = "flip_to_win" -> MachineWords
    [] p = "power_2" -> MachineWords
    [] p = "next_word" -> MachineWords
    [] p = "real_binary" -> SUBSET Places
    [] p = "same_page" -> (0..15) \X (0..15)
    [] p = "screen" -> {x \in BOOLEAN \X (0..3 * BnCharBit - 1) \X (0..3 * BnCharBit - 1) \X (0..1) : x[2] <= x[3]}
    [] p = "endianness" -> MachineWords
    [] p = "swap_pairs" -> MachineWords
    [] p = "divide_decimal" -> (-12..12) \X {-7, -3, 1, 4, 7} \X (0..3)
    [] p = "equation" -> 1..13
    [] p = "even_odd" -> 0..130
    [] p = "palindrome" -> -2..310 \cup {1001, 1221, 1231, 2112, 1200}
    [] p = "perfect_square" -> 2..6
    [] p = "stream_sub" -> {x \in Numerals(4) \X Numerals(3) : Len(x[1]) >= Len(x[2])
                                                              /\ Numeral(Reverse(x[1])) >= Numeral(Reverse(x[2]))}
    [] p = "rand_shrink" -> {x \in (0..3) \X (0..BnRandMax + 2) : x[1] <= x[2]}
    [] p = "rand_grow" -> {0}
    [] p = "biased_chars" -> UNION {[1..k -> 0..PERCENT] : k \in 1..3}
    [] p = "rand_subset" -> {x \in (1..4) \X (0..3) : x[1] <= x[2] + 1}

BnPrograms ==
  {"count_ones", "bits_set", "convert", "copy_bits", "insert", "divide", "find_missing",
   "two_repeating", "three_repeats", "flip_to_win", "power_2", "next_word", "real_binary",
   "same_page", "screen", "endianness", "swap_pairs", "divide_decimal", "equation",
   "even_odd", "palindrome", "perfect_square", "stream_sub", "rand_shrink", "rand_grow",
   "biased_chars", "rand_subset"}

BnInit == bnProg \in BnPrograms /\ bnIn \in BnInputs(bnProg) /\ bnOut = <<>> /\ bnDone = FALSE

BnAnswers(p, out) ==
  /\ bnProg = p /\ ~bnDone
  /\ bnOut' = out /\ bnDone' = TRUE
  /\ UNCHANGED <<bnProg, bnIn>>

RunCountOnes == BnAnswers("count_ones", CountOnes(bnIn))
RunBitsSet == BnAnswers("bits_set", BitsSet(bnIn))
RunConvert == BnAnswers("convert", ConvertBits(bnIn[1], bnIn[2]))
RunCopyBits ==
  \E zero \in BOOLEAN :
    BnAnswers("copy_bits", CopyBits(bnIn[1], bnIn[2], bnIn[3][1], bnIn[3][2], zero))
RunInsert ==
  \E zero \in BOOLEAN :
    BnAnswers("insert", InsertInto(bnIn[1], bnIn[2], bnIn[3][2], bnIn[3][1], zero))
RunDivide == BnAnswers("divide", DivideBits(bnIn[1], bnIn[2]))
RunFindMissing ==
  BnAnswers("find_missing",
    LET arr == AllBut(bnIn[1][1], bnIn[1][2]) IN FindMissing(IF bnIn[2] THEN Reverse(arr) ELSE arr, 0))
RunTwoRepeating == BnAnswers("two_repeating", FindTwoRepeating(bnIn))
RunThreeRepeats == BnAnswers("three_repeats", FindNumber(bnIn))
RunFlipToWin == BnAnswers("flip_to_win", FlipToWin(bnIn))
RunPower2 == BnAnswers("power_2", IsPowerTwo(bnIn))
RunNextWord == BnAnswers("next_word", [up |-> NextLargest(bnIn), down |-> NextSmallestWord(bnIn)])
RunRealBinary == BnAnswers("real_binary", PrintBinaryRep(bnIn, 2))
RunSamePage == BnAnswers("same_page", SamePage(bnIn[1], bnIn[2]))
RunScreen ==   \* on a blank screen of two rows of three bytes, or on one with a dot
  BnAnswers("screen",
    DrawHorizontalLine([b \in 0..5 |-> IF bnIn[1] THEN {1} ELSE {}], 3 * BnCharBit, bnIn[2], bnIn[3], bnIn[4]))
RunEndianness == BnAnswers("endianness", SwapEndianness(bnIn))
RunSwapPairs == BnAnswers("swap_pairs", SwapPairs(bnIn))
RunDivideDecimal == BnAnswers("divide_decimal", DivideDecimal(bnIn[1], bnIn[2], bnIn[3]))
RunEquation == BnAnswers("equation", FindSolutions(bnIn))
RunEvenOdd == BnAnswers("even_odd", <<EvenOddDigits(bnIn), EvenOddDigitsNaive(bnIn)>>)
RunPalindrome == BnAnswers("palindrome", IsPalindrome(bnIn))
RunPerfectSquare == BnAnswers("perfect_square", SqRoot(bnIn))
RunStreamSub == BnAnswers("stream_sub", StreamSub(bnIn[1], bnIn[2]))
RunRandShrink == BnAnswers("rand_shrink", RangeRand(bnIn[1], bnIn[2]))
RunRandGrow == BnAnswers("rand_grow", Rand7)
RunBiasedChars == BnAnswers("biased_chars", GenerateChar(bnIn))
RunRandSubset ==
  BnAnswers("rand_subset",
    [shuffle |-> SortedRandSubset(bnIn[1], bnIn[2]), knuth |-> KnuthRandSubset(bnIn[1], bnIn[2])])

BnNext ==
  \/ RunCountOnes \/ RunBitsSet \/ RunConvert \/ RunCopyBits \/ RunInsert \/ RunDivide
  \/ RunFindMissing \/ RunTwoRepeating \/ RunThreeRepeats \/ RunFlipToWin \/ RunPower2
  \/ RunNextWord \/ RunRealBinary \/ RunSamePage \/ RunScreen \/ RunEndianness
  \/ RunSwapPairs \/ RunDivideDecimal \/ RunEquation \/ RunEvenOdd \/ RunPalindrome
  \/ RunPerfectSquare \/ RunStreamSub \/ RunRandShrink \/ RunRandGrow \/ RunBiasedChars
  \/ RunRandSubset

BnSpec == BnInit /\ [][BnNext]_bnVars
----------------------------------------------------------------------------
(* What the programs are asked for.                                          *)

Bit(n, k) == (n \div 2 ^ k) % 2
OnesIn(n) == Cardinality({k \in Positions : Bit(n, k) = 1})
LongestRun(n) ==
  LET runs == {f \in Fields : \A k \in f[1]..f[2] : Bit(n, k) = 1}
      lens == {f[2] - f[1] + 1 : f \in runs} \cup {0}
  IN  CHOOSE l \in lens : \A m \in lens : m <= l
Evenly(counts) == counts # <<>> /\ \A v, w \in DOMAIN counts : counts[v] = counts[w]
INTMIN == -(2 ^ (BnBits - 1))

\* The inputs that the code does not answer as its problem asks: a field as wide as the
\* word (a shift by that width; see CopiesField), the least int, of which there is no
\* negative, and 0, which passes for a power of 2.
WholeWord(field) == field = <<0, BnBits - 1>>
LeastInt(a, b) == INTMIN \in {a, b}

\* The header of copy_bits() lets end be as high as sizeof(unsigned)*CHAR_BIT-1: the bits
\* from begin to end are those of the source and the others stay, whatever the field.
CopiesField ==
  (bnProg = "copy_bits" /\ bnDone) =>
    \A k \in Positions : Bit(bnOut, k) = Bit(bnIn[IF k \in bnIn[3][1]..bnIn[3][2] THEN 1 ELSE 2], k)

\* The programs on words answer as the definition of their problem on single bits
\* does.  Nothing is claimed of a WholeWord in copy_bits() and insert_into(), of divide()
\* where an operand is the LeastInt or the divisor is 0, and of is_power_two(0).
BnWordsRight ==
  bnDone =>
    CASE bnProg = "count_ones" -> bnOut = OnesIn(bnIn)
      [] bnProg = "bits_set" ->
           bnOut = Cardinality({x \in (1..Len(bnIn)) \X Positions : Bit(bnIn[x[1]], x[2]) = 1})
      [] bnProg = "convert" -> bnOut = Cardinality({k \in Positions : Bit(bnIn[1], k) # Bit(bnIn[2], k)})
      [] bnProg = "copy_bits" ->
           ~WholeWord(bnIn[3]) => CopiesField
      [] bnProg = "insert" ->
           ~WholeWord(bnIn[3]) =>
             \A k \in Positions :
               Bit(bnOut, k) = (IF k \in bnIn[3][1]..bnIn[3][2] THEN Bit(bnIn[2], k - bnIn[3][1]) ELSE Bit(bnIn[1], k))
      [] bnProg = "divide" ->
           ~LeastInt(bnIn[1], bnIn[2]) /\ bnIn[2] # 0 => bnOut = CQuotient(bnIn[1], bnIn[2])
      [] bnProg = "find_missing" -> bnOut.fits /\ bnOut.val = bnIn[1][2]
      [] bnProg = "two_repeating" ->
           {bnOut[1], bnOut[2]} = {k \in ToSet(bnIn) : Occurs(bnIn, k) = 2}
      [] bnProg = "three_repeats" -> bnOut.ok /\ Occurs(bnIn, bnOut.val) % 3 # 0
      [] bnProg = "flip_to_win" ->
           LET flips == {bnIn} \cup {BitOr(bnIn, 2 ^ k) : k \in Positions}
           IN  /\ \E f \in flips : bnOut = LongestRun(f)
               /\ \A f \in flips : LongestRun(f) <= bnOut
      [] bnProg = "power_2" -> bnIn # 0 => bnOut = (\E k \in Positions : bnIn = 2 ^ k)
      [] bnProg = "next_word" ->
           LET same == {n \in MachineWords : OnesIn(n) = OnesIn(bnIn)}
           IN  /\ IF bnOut.up = -1 THEN \A n \in same : n <= bnIn
                  ELSE bnOut.up \in same /\ \A n \in same : n > bnIn <=> n >= bnOut.up
               /\ IF bnOut.down = -1 THEN \A n \in same : n >= bnIn
                  ELSE bnOut.down \in same /\ \A n \in same : n < bnIn <=> n <= bnOut.down
      [] bnProg = "real_binary" ->
           IF \E k \in bnIn : k > 32 THEN Last(bnOut) = "ERROR"
           ELSE bnIn = {k \in DOMAIN bnOut : bnOut[k] = "1"} /\ (bnOut # <<>> => Last(bnOut) = "1")
      [] bnProg = "same_page" -> bnOut = (bnIn[1] \div PAGE_SIZE = bnIn[2] \div PAGE_SIZE)
      [] bnProg = "screen" ->
           \A b \in 0..5, k \in 0..BnCharBit - 1 :
             LET x == (b % 3) * BnCharBit + BnCharBit - 1 - k
             IN  k \in bnOut[b] <=> \/ bnIn[1] /\ k = 1
                                    \/ b \div 3 = bnIn[4] /\ x \in bnIn[2]..bnIn[3]
      [] bnProg = "endianness" ->
           \A k \in Positions : Bit(bnOut, k) = Bit(bnIn, (3 - (k \div BYTE)) * BYTE + (k % BYTE))
      [] bnProg = "swap_pairs" ->
           \A k \in Positions : Bit(bnOut, k) = Bit(bnIn, IF k % 2 = 0 THEN k + 1 ELSE k - 1)
      [] OTHER -> TRUE

\* stream_sub() takes a last borrow from the digit behind the end of b as it is: from
\* a 0 it leaves a character that is no digit.
BorrowsFromZero(a, b) ==
  /\ Numeral(Reverse(SubSeq(a, 1, Len(b)))) < Numeral(Reverse(b))
  /\ a[Len(b) + 1] = 0

\* The programs on numbers: the digits printed have the value asked for, also those of
\* a negative quotient; and each outcome of a random choice comes from as many draws as
\* any other.  Nothing is claimed of stream_sub() where it BorrowsFromZero, nor that
\* sorted_rand_subset() sorts more than two numbers, which its quicksort() does not.
BnNumbersRight ==
  bnDone =>
    CASE bnProg = "divide_decimal" ->
           bnOut.int * 10 ^ bnIn[3] + Numeral(bnOut.digits) = CQuotient(bnIn[1] * 10 ^ bnIn[3], bnIn[2])
      [] bnProg = "equation" ->
           LET cubes(p) == p[1] ^ 3 + p[2] ^ 3
               pairs == {p \in (0..bnIn) \X (0..bnIn) : p[1] < p[2]}
           IN  /\ \A s \in bnOut : cubes(s[1]) = cubes(s[2]) /\ Cardinality({s[1][1], s[1][2], s[2][1], s[2][2]}) = 4
               /\ \A p, q \in pairs : p # q /\ cubes(p) = cubes(q) => \E s \in bnOut : cubes(s[1]) = cubes(p)
      [] bnProg = "even_odd" -> bnOut[1] = bnOut[2]
      [] bnProg = "palindrome" ->
           bnOut = (bnIn >= 0 /\ \A i, j \in 0..3 :
                      i + j + 1 = Cardinality({k \in 0..3 : bnIn >= 10 ^ k}) =>
                        (bnIn \div 10 ^ i) % 10 = (bnIn \div 10 ^ j) % 10)
      [] bnProg = "perfect_square" ->
           \A n \in 1..bnIn * bnIn - 1 :
             IF bnOut[n] # 0 THEN bnOut[n] * bnOut[n] = n ELSE ~\E r \in 1..n : r * r = n
      [] bnProg = "stream_sub" ->
           ~BorrowsFromZero(bnIn[1], bnIn[2]) =>
             /\ \A k \in DOMAIN bnOut : bnOut[k] \in 0..9
             /\ Numeral(bnOut) = Numeral(Reverse(bnIn[1])) - Numeral(Reverse(bnIn[2]))
      [] bnProg = "rand_shrink" ->
           IF bnIn[2] - bnIn[1] + 1 > BnRandMax THEN DOMAIN bnOut = {-1}
           ELSE DOMAIN bnOut = bnIn[1]..bnIn[2] /\ Evenly(bnOut)
      [] bnProg = "rand_grow" -> DOMAIN bnOut = 1..7 /\ Evenly(bnOut)
      [] bnProg = "biased_chars" ->
           IF Numeral(bnIn) = 0 \/ FoldLeft(LAMBDA x, y : x + y, 0, bnIn) # PERCENT THEN bnOut = <<>>
           ELSE \A i \in DOMAIN bnIn : bnIn[i] = IF i \in DOMAIN bnOut THEN bnOut[i] ELSE 0
      [] bnProg = "rand_subset" ->
           LET subset(s) == Cardinality(ToSet(s)) = Len(s) /\ ToSet(s) \subseteq 0..bnIn[2]
               rises(s) == \A i \in 1..Len(s) - 1 : s[i] < s[i + 1]
               sets(out) == {ToSet(s) : s \in DOMAIN out}
               draws(out, S) == Cardinality({d \in {<<s, k>> : s \in {t \in DOMAIN out : ToSet(t) = S}, k \in 1..24} :
                                               d[2] <= out[d[1]]})
               even(out) == /\ \A s \in DOMAIN out : subset(s) /\ Len(s) = bnIn[1]
                            /\ \A S, T \in sets(out) : draws(out, S) = draws(out, T)
                            /\ \A S \in SUBSET (0..bnIn[2]) : Cardinality(S) = bnIn[1] => S \in sets(out)
           IN  /\ even(bnOut.shuffle) /\ even(bnOut.knuth)
               /\ \A s \in DOMAIN bnOut.knuth : rises(s)
               /\ bnIn[1] <= 2 => \A s \in DOMAIN bnOut.shuffle : rises(s)
      [] OTHER -> TRUE
================================================================================
