----------------------------- MODULE Expressions -----------------------------
(* The programs of recursion_dp that parse, match or rewrite a string.  A    *)
(* string is the sequence of its tokens: a number or a letter is a natural   *)
(* number, a sign of the grammar one of the negative numbers below, and the  *)
(* end of the string END.  Index i of the code is i + 1 here.                *)
EXTENDS Integers, Sequences, FiniteSets, SequencesExt

CONSTANTS
  ExDigits,  \* bound: the digits a missing number is tried with
  ExLen      \* bound: the longest string that is matched

ASSUME ExAssumption == ExDigits \subseteq 1..9 /\ ExDigits # {} /\ ExLen \in Nat

VARIABLES
  exProg,  \* the program that runs
  exIn,    \* its input
  exOut,   \* what it printed or returned
  exDone   \* the function has returned

exVars == <<exProg, exIn, exOut, exDone>>

PLUS == -1
MINUS == -2
MUL == -3
DIV == -4
OPEN == -5
CLOSE == -6
BLANK == -7
EQUALS == -8
END == -9
DOT == -10
STAR == -11

At(s, i) == IF i \in DOMAIN s THEN s[i] ELSE END

\* C's division, towards zero; inputs do not divide by zero.
Quotient(a, b) ==
  LET abs(x) == IF x < 0 THEN -x ELSE x
      q == IF b = 0 THEN 0 ELSE abs(a) \div abs(b)
  IN  IF (a < 0) = (b < 0) THEN q ELSE -q
Apply(op, a, b) ==
  CASE op = PLUS -> a + b [] op = MINUS -> a - b [] op = MUL -> a * b [] op = DIV -> Quotient(a, b)
----------------------------------------------------------------------------
\* expr(), expr_r(), term(), term_r() and factor() of expr_evaluator, and of
\* magic_numbers/solution_followup.c, which has them again: the value read so
\* far and the cursor behind it.
RECURSIVE Expr(_, _)
RECURSIVE TermR(_, _)
RECURSIVE ExprR(_, _)

Factor(s, cur) ==
  LET inner == Expr(s, cur + 1)
  IN  IF At(s, cur) = OPEN THEN [inner EXCEPT !.cur = @ + 1] ELSE [val |-> s[cur], cur |-> cur + 1]

TermR(s, f) ==
  IF At(s, f.cur) \notin {MUL, DIV} THEN f
  ELSE LET g == Factor(s, f.cur + 1)
       IN  TermR(s, [val |-> Apply(s[f.cur], f.val, g.val), cur |-> g.cur])

Term(s, cur) == TermR(s, Factor(s, cur))

ExprR(s, t) ==
  IF At(s, t.cur) \notin {PLUS, MINUS} THEN t
  ELSE LET u == Term(s, t.cur + 1)
       IN  ExprR(s, [val |-> Apply(s[t.cur], t.val, u.val), cur |-> u.cur])

Expr(s, cur) == ExprR(s, Term(s, cur))

EvalExpr(s) == Expr(s, 1).val
----------------------------------------------------------------------------
\* redundant_parens(): by the operators beside the pair at l and r and the
\* weakest one seen inside, first in the order of the enum.
HigherPrio(op1, op2) == op1 \in {MUL, DIV} /\ op2 \in {PLUS, MINUS}

RedundantParens(s, l, r, seen) ==
  LET weakest == CHOOSE op \in seen : \A o \in seen : o <= op
      left == At(s, l - 1)
      right == At(s, r + 1)
  IN  IF seen = {} THEN TRUE
      ELSE ~(\/ HigherPrio(left, weakest) \/ HigherPrio(right, weakest)
             \/ left = MINUS /\ weakest \in {PLUS, MINUS}
             \/ left = DIV)

\* The same parser, with the operators seen since the last pair that stays, and
\* the positions of the parentheses that go.
RECURSIVE OpsExpr(_, _)
RECURSIVE OpsTermR(_, _)
RECURSIVE OpsExprR(_, _)

Joined(s, f, g) ==
  [val |-> Apply(s[f.cur], f.val, g.val), cur |-> g.cur,
   seen |-> f.seen \cup g.seen \cup {s[f.cur]}, ign |-> f.ign \cup g.ign]

OpsFactor(s, cur) ==
  LET inner == OpsExpr(s, cur + 1)
  IN  IF At(s, cur) # OPEN THEN [val |-> s[cur], cur |-> cur + 1, seen |-> {}, ign |-> {}]
      ELSE IF RedundantParens(s, cur, inner.cur, inner.seen)
      THEN [inner EXCEPT !.cur = @ + 1, !.ign = @ \cup {cur, inner.cur}]
      ELSE [inner EXCEPT !.cur = @ + 1, !.seen = {}]

OpsTermR(s, f) ==
  IF At(s, f.cur) \in {MUL, DIV} THEN OpsTermR(s, Joined(s, f, OpsFactor(s, f.cur + 1))) ELSE f

OpsTerm(s, cur) == OpsTermR(s, OpsFactor(s, cur))

OpsExprR(s, t) ==
  IF At(s, t.cur) \in {PLUS, MINUS} THEN OpsExprR(s, Joined(s, t, OpsTerm(s, t.cur + 1))) ELSE t

OpsExpr(s, cur) == OpsExprR(s, OpsTerm(s, cur))

\* eval_expr() of redundant_parens: the value, and the string without them.
RemoveParens(s) ==
  LET res == OpsExpr(s, 1)
  IN  [val |-> res.val, str |-> FoldLeft(LAMBDA t, i : IF i \in res.ign THEN t ELSE Append(t, s[i]),
                                         <<>>, [i \in DOMAIN s |-> i])]
----------------------------------------------------------------------------
\* next_result() and magic_numbers_aux(): a blank is tried with every digit, and
\* a blank again when they are through; st holds the pattern and the lines.
NextResult(pattern, i, n, sofar) ==
  IF i = 1 THEN n ELSE IF pattern[i - 1] = PLUS THEN sofar + n ELSE sofar - n

RECURSIVE MagicNumbersAux(_, _, _, _)
MagicNumbersAux(st, i, sofar, target) ==
  IF At(st.pattern, i - 1) = EQUALS
  THEN IF sofar = target THEN [st EXCEPT !.out = Append(@, st.pattern)] ELSE st
  ELSE IF st.pattern[i] # BLANK
  THEN MagicNumbersAux(st, i + 2, NextResult(st.pattern, i, st.pattern[i], sofar), target)
  ELSE LET try(s, d) == MagicNumbersAux([s EXCEPT !.pattern[i] = d], i + 2,
                                        NextResult(s.pattern, i, d, sofar), target)
       IN  [FoldLeft(try, st, SetToSortSeq(ExDigits, <)) EXCEPT !.pattern[i] = BLANK]

\* eval_expr(): the expression with the blanks filled in from left to right.
BlanksFilled(s, vars) ==
  [i \in DOMAIN s |->
     IF s[i] = BLANK THEN vars[Cardinality({j \in 1..i : s[j] = BLANK})] ELSE s[i]]

\* next_possibility(): counts up; <<>> when all digits are the last one.
NextPossibility(vars) ==
  LET digits == SetToSortSeq(ExDigits, <)
      top == digits[Len(digits)]
      less == {i \in DOMAIN vars : vars[i] # top}
      last == CHOOSE i \in less : \A j \in less : j <= i
      after(d) == CHOOSE e \in ExDigits : e > d /\ \A f \in ExDigits : f > d => e <= f
  IN  IF less = {} THEN <<>>
      ELSE [i \in DOMAIN vars |->
              IF i < last THEN vars[i] ELSE IF i = last THEN after(vars[i]) ELSE digits[1]]

\* magic_numbers() of the follow-up: the lines it prints and the matches it
\* counts, among which the first possibility is not.
RECURSIVE PossibilitiesFrom(_, _, _)
PossibilitiesFrom(s, vars, target) ==
  LET line == IF EvalExpr(BlanksFilled(s, vars)) = target THEN <<vars>> ELSE <<>>
      next == NextPossibility(vars)
  IN  line \o (IF next = <<>> THEN <<>> ELSE PossibilitiesFrom(s, next, target))

MagicNumbers(s, target) ==
  LET blanks == Cardinality({i \in DOMAIN s : s[i] = BLANK})
      first == [i \in 1..blanks |-> SetToSortSeq(ExDigits, <)[1]]
      all == PossibilitiesFrom(s, first, target)
      uncounted == blanks > 0 /\ EvalExpr(BlanksFilled(s, first)) = target
  IN  [out |-> all, matches |-> Len(all) - (IF uncounted THEN 1 ELSE 0)]
----------------------------------------------------------------------------
\* valid_evals() and as_last(): the ways to put parentheses such that the operator
\* at i is the last, for every i; PLUS, MUL and MINUS stand for or, and, xor.
RECURSIVE ValidEvals(_, _)
AsLast(s, i, expected) ==
  LET left(v) == ValidEvals(SubSeq(s, 1, i - 1), v)
      right(v) == ValidEvals(SubSeq(s, i + 1, Len(s)), v)
      both(v, w) == left(v) * right(w)
  IN  CASE s[i] = MINUS -> IF expected = 1 THEN both(1, 0) + both(0, 1) ELSE both(1, 1) + both(0, 0)
        [] s[i] = PLUS -> IF expected = 1 THEN both(1, 0) + both(0, 1) + both(1, 1) ELSE both(0, 0)
        [] s[i] = MUL -> IF expected = 1 THEN both(1, 1) ELSE both(0, 1) + both(1, 0) + both(0, 0)

ValidEvals(s, expected) ==
  IF s \in {<<0>>, <<1>>} THEN IF s[1] = expected THEN 1 ELSE 0
  ELSE FoldLeft(LAMBDA res, i : IF s[i] < 0 THEN res + AsLast(s, i, expected) ELSE res,
                0, [i \in DOMAIN s |-> i])

\* parenthesize_aux(): every operator as the last one, each left with each right.
RECURSIVE ParenthesizeAux(_, _, _)
ParenthesizeAux(s, begin, end) ==
  LET both(i) == LET left == ParenthesizeAux(s, begin, i - 1)
                     right == ParenthesizeAux(s, i + 1, end)
                 IN  FlattenSeq([l \in DOMAIN left |->
                       [r \in DOMAIN right |->
                          <<OPEN>> \o left[l] \o <<s[i]>> \o right[r] \o <<CLOSE>>]])
  IN  IF begin = end THEN <<<<s[begin]>>>>
      ELSE FlattenSeq([k \in 1..(end - begin + 1) |->
             IF s[begin + k - 1] < 0 THEN both(begin + k - 1) ELSE <<>>])

\* parenthesize(): prints them without the outermost pair.
Parenthesize(s) ==
  IF Len(s) <= 1 THEN IF s = <<>> THEN <<>> ELSE <<s>>
  ELSE LET all == ParenthesizeAux(s, 1, Len(s))
       IN  [k \in DOMAIN all |-> SubSeq(all[k], 2, Len(all[k]) - 1)]
----------------------------------------------------------------------------
\* match_aux() of glob_matcher: a starred unit takes nothing, then one letter more
\* each time while it fits.
RECURSIVE MatchAux(_, _, _, _)
MatchAux(str, i, patt, p) ==
  LET unit == At(patt, p)
      fits(k) == At(str, k) # END /\ (unit = DOT \/ At(str, k) = unit)
      loop[n \in Nat] ==
        \/ MatchAux(str, i + n, patt, p + 2)
        \/ fits(i + n) /\ loop[n + 1]
  IN  IF unit = END THEN At(str, i) = END
      ELSE IF At(patt, p + 1) # STAR THEN fits(i) /\ MatchAux(str, i + 1, patt, p + 1)
      ELSE loop[0]

\* simple_dfa, step() and dfa() of kleene_star; states 0 to 4 are A to E.
SimpleDfa == [n \in 0..4 |-> CASE n = 0 -> <<4, 1>> [] n = 1 -> <<2, 1>> [] n = 2 -> <<3, 4>>
                               [] n = 3 -> <<3, 3>> [] n = 4 -> <<4, 4>>]
Dfa(input) == FoldLeft(LAMBDA curr, bit : SimpleDfa[curr][bit + 1], 0, input) = 3

\* The epsilon moves of simple_nfa, A to H, and kleene_closure_aux(): the nodes in
\* the order they are printed.
Epsilon == [n \in 0..7 |-> CASE n = 0 -> <<1, 2>> [] n \in {5, 6} -> <<0, 7>> [] OTHER -> <<>>]

RECURSIVE KleeneClosureAux(_, _)
KleeneClosureAux(buff, node) ==
  FoldLeft(LAMBDA b, n : IF n \in ToSet(b) THEN b ELSE KleeneClosureAux(b, n),
           Append(buff, node), Epsilon[node])

\* find_match_aux(): the words the letters of the pattern stand for; a letter
\* met for the first time is forgotten again when its word does not lead on.
\* The words, or <<>>.
RECURSIVE FindMatchAux(_, _, _, _, _)
FindMatchAux(str, i, vars, v, matches) ==
  LET left == Len(str) - i + 1
      need == Len(vars) - v + 1
      word(n) == SubSeq(str, i, i + n - 1)
      try(n) ==
        IF vars[v] \in DOMAIN matches
        THEN IF matches[vars[v]] = word(n) THEN FindMatchAux(str, i + n, vars, v + 1, matches)
             ELSE <<>>
        ELSE FindMatchAux(str, i + n, vars, v + 1,
                          [x \in DOMAIN matches \cup {vars[v]} |->
                             IF x = vars[v] THEN word(n) ELSE matches[x]])
      found == {n \in 1..(left - need + 1) : try(n) # <<>>}
  IN  IF left < need THEN <<>>
      ELSE IF need = 0 THEN IF left = 0 THEN <<matches>> ELSE <<>>
      ELSE IF found = {} THEN <<>> ELSE try(CHOOSE n \in found : \A m \in found : n <= m)

\* dict_find(): three words of two letters in place of the dictionary.
Dictionary == {<<1>>, <<1, 2>>, <<2, 2, 1>>}

\* tokenize_words_aux(): the shortest first word that leads on; <<FALSE>> or the words.
RECURSIVE TokenizeWordsAux(_, _)
TokenizeWordsAux(str, buffer) ==
  LET rest(n) == TokenizeWordsAux(SubSeq(str, n + 1, Len(str)), Append(buffer, SubSeq(str, 1, n)))
      found == {n \in 1..Len(str) : SubSeq(str, 1, n) \in Dictionary /\ rest(n).found}
  IN  IF str = <<>> THEN [found |-> TRUE, words |-> buffer]
      ELSE IF found = {} THEN [found |-> FALSE, words |-> <<>>]
      ELSE rest(CHOOSE n \in found : \A m \in found : n <= m)

TokenizeWords(str) ==
  IF str = <<>> THEN [found |-> FALSE, words |-> <<>>] ELSE TokenizeWordsAux(str, <<>>)

\* tokenize_words() of solution_dp.cpp: dp[i] for the suffix at i, the last j that
\* fits overwrites the others.
TokenizeWordsDp(str) ==
  LET n == Len(str)
      dp[i \in 1..n + 1] ==
        IF i = n + 1 THEN [found |-> TRUE, words |-> <<>>]
        ELSE FoldLeft(LAMBDA d, j : IF SubSeq(str, i, j - 1) \in Dictionary /\ dp[j].found
                                    THEN [found |-> TRUE,
                                          words |-> <<SubSeq(str, i, j - 1)>> \o dp[j].words]
                                    ELSE d,
                      [found |-> FALSE, words |-> <<>>], [k \in 1..(n + 1 - i) |-> i + k])
  IN  dp[1]
----------------------------------------------------------------------------
\* eval_expr() of rpn_calculator/solution.c, with the stack it leaves for the
\* next line.
EvalRpn(tokens) ==
  LET token(stack, tok) ==
        IF tok >= 0 THEN Append(stack, tok)
        ELSE LET n == Len(stack)
             IN  Append(SubSeq(stack, 1, n - 2), Apply(tok, stack[n - 1], stack[n]))
      stack == FoldLeft(token, <<>>, tokens)
  IN  <<Last(stack), Front(stack)>>

\* solution_recursive.c: read_expr() makes a list of the tokens, and
\* eval_expr_aux() folds the two nodes behind curr into it while a value follows.
ReadExpr(tokens) == [i \in DOMAIN tokens |-> [operator |-> tokens[i] < 0, token |-> tokens[i]]]
RECURSIVE EvalExprAux(_, _)
EvalExprAux(list, curr) ==
  IF curr = Len(list) \/ list[curr + 1].operator THEN list
  ELSE LET l == EvalExprAux(list, curr + 1)
           res == Apply(l[curr + 2].token, l[curr].token, l[curr + 1].token)
       IN  EvalExprAux(SubSeq(l, 1, curr - 1) \o <<[l[curr] EXCEPT !.token = res]>>
                         \o SubSeq(l, curr + 3, Len(l)), curr)
\* eval_expr(): the value of the first node; what else is on the list is left there.
EvalRpnList(tokens) ==
  LET list == EvalExprAux(ReadExpr(tokens), 1) IN <<list[1].token, Tail(list)>>
----------------------------------------------------------------------------
(* The inputs: expressions over at most four operands with any operators and *)
(* any pairs of parentheses, and short strings.                              *)

ExStrings(n, set) == UNION {[1..k -> set] : k \in 0..n}

\* The ways to write leaves lo to hi with operators of ops between them.
RECURSIVE Written(_, _, _, _)
Written(leaves, ops, lo, hi) ==
  IF lo = hi THEN {<<leaves[lo]>>}
  ELSE LET bare == UNION {{l \o <<op>> \o r : l \in Written(leaves, ops, lo, k), op \in ops,
                                              r \in Written(leaves, ops, k + 1, hi)} : k \in lo..hi - 1}
       IN  bare \cup {<<OPEN>> \o s \o <<CLOSE>> : s \in bare}

\* The tree an expression means: split at its last operator of the lowest
\* priority outside all parentheses.
RECURSIVE ParseTree(_)
ParseTree(s) ==
  LET depth(i) == Cardinality({j \in 1..i : s[j] = OPEN}) - Cardinality({j \in 1..i : s[j] = CLOSE})
      outer == {i \in DOMAIN s : s[i] \in {PLUS, MINUS, MUL, DIV} /\ depth(i) = 0}
      weak == {i \in outer : s[i] \in {PLUS, MINUS}}
      last(set) == CHOOSE i \in set : \A j \in set : j <= i
      at == IF weak # {} THEN last(weak) ELSE last(outer)
  IN  IF Len(s) = 1 THEN [op |-> END, val |-> s[1]]
      ELSE IF outer = {} THEN ParseTree(SubSeq(s, 2, Len(s) - 1))
      ELSE [op |-> s[at], left |-> ParseTree(SubSeq(s, 1, at - 1)), right |-> ParseTree(SubSeq(s, at + 1, Len(s)))]

\* Its value in C; its value as a fraction; and that no divisor is zero.
RECURSIVE IntValue(_)
IntValue(t) == IF t.op = END THEN t.val ELSE Apply(t.op, IntValue(t.left), IntValue(t.right))
RECURSIVE Fraction(_)
Fraction(t) ==
  LET l == Fraction(t.left)
      r == Fraction(t.right)
  IN  CASE t.op = END -> <<t.val, 1>>
        [] t.op = PLUS -> <<l[1] * r[2] + r[1] * l[2], l[2] * r[2]>>
        [] t.op = MINUS -> <<l[1] * r[2] - r[1] * l[2], l[2] * r[2]>>
        [] t.op = MUL -> <<l[1] * r[1], l[2] * r[2]>>
        [] t.op = DIV -> <<l[1] * r[2], l[2] * r[1]>>
RECURSIVE Divides(_)
Divides(t) ==
  t.op # END => Divides(t.left) /\ Divides(t.right) /\ (t.op = DIV => IntValue(t.right) # 0)

Equations == UNION {Written(<<2, 7, 3, 5>>, {PLUS, MINUS, MUL, DIV}, 1, n) : n \in 1..4}

Riddles ==
  UNION {Written(l, {PLUS, MINUS, MUL}, 1, 3) :
           l \in {<<BLANK, BLANK, BLANK>>, <<2, BLANK, 3>>, <<BLANK, 3, BLANK>>, <<1, 1, 2>>}}

\* Up to max operands with operators between them, and no parentheses.
Chains(max, operands, ops) ==
  UNION {{[i \in 1..2 * n - 1 |-> IF i % 2 = 1 THEN d[(i + 1) \div 2] ELSE o[i \div 2]] :
            d \in [1..n -> operands], o \in [1..n - 1 -> ops]} : n \in 1..max}

ExInputs(p) ==
  CASE p \in {"evaluate", "redundant", "rpn"} -> {s \in Equations : Divides(ParseTree(s))}
    [] p = "magic" ->
         {Append(s, EQUALS) : s \in Chains(3, {BLANK, 2}, {PLUS, MINUS})} \X {1, 4}
    [] p = "magic_any" -> Riddles \X {1, 6}
    [] p \in {"valid_evals", "parenthesize"} -> Chains(4, {0, 1}, {PLUS, MINUS, MUL})
    [] p = "glob" -> ExStrings(ExLen, {1, 2}) \X ExStrings(ExLen, {1, 2, DOT} \X BOOLEAN)
    [] p = "dfa" -> ExStrings(ExLen + 2, {0, 1})
    [] p = "closure" -> 0..7
    [] p = "match" -> ExStrings(ExLen + 1, {1, 2}) \X ExStrings(ExLen, {1, 2})
    [] p = "tokenize" -> ExStrings(ExLen + 2, {1, 2}) \ {<<>>}

ExPrograms ==
  {"rpn", "evaluate", "redundant", "magic", "magic_any", "valid_evals", "parenthesize", "glob", "dfa",
   "closure", "match", "tokenize"}

ExInit == exProg \in ExPrograms /\ exIn \in ExInputs(exProg) /\ exOut = <<>> /\ exDone = FALSE

\* The program p prints or returns out.
ExAnswers(p, out) ==
  /\ exProg = p /\ ~exDone
  /\ exOut' = out /\ exDone' = TRUE
  /\ UNCHANGED <<exProg, exIn>>

\* A glob pattern as it is written: a starred letter is followed by the star.
Globbed(units) == FlattenSeq([u \in DOMAIN units |-> IF units[u][2] THEN <<units[u][1], STAR>>
                                                     ELSE <<units[u][1]>>])

\* An expression in reverse Polish notation.
RECURSIVE Postfix(_)
Postfix(t) == IF t.op = END THEN <<t.val>> ELSE Postfix(t.left) \o Postfix(t.right) \o <<t.op>>

\* The line typed is the expression in postfix; both programs read it.
RunRpn ==
  LET line == Postfix(ParseTree(exIn)) IN ExAnswers("rpn", {EvalRpn(line), EvalRpnList(line)})
RunEvaluate == ExAnswers("evaluate", EvalExpr(exIn))
RunRedundant == ExAnswers("redundant", RemoveParens(exIn))
RunMagic ==
  ExAnswers("magic", MagicNumbersAux([pattern |-> exIn[1], out |-> <<>>], 1, 0, exIn[2]).out)
RunMagicAny == ExAnswers("magic_any", MagicNumbers(exIn[1], exIn[2]))
RunValidEvals == ExAnswers("valid_evals", <<ValidEvals(exIn, 0), ValidEvals(exIn, 1)>>)
RunParenthesize == ExAnswers("parenthesize", Parenthesize(exIn))
RunGlob == ExAnswers("glob", MatchAux(exIn[1], 1, Globbed(exIn[2]), 1))
RunDfa == ExAnswers("dfa", Dfa(exIn))
RunClosure == ExAnswers("closure", KleeneClosureAux(<<>>, exIn))
RunMatch == ExAnswers("match", FindMatchAux(exIn[1], 1, exIn[2], 1, <<>>))
RunTokenize == ExAnswers("tokenize", {TokenizeWords(exIn), TokenizeWordsDp(exIn)})

ExNext ==
  \/ RunRpn \/ RunEvaluate \/ RunRedundant \/ RunMagic \/ RunMagicAny \/ RunValidEvals \/ RunParenthesize
  \/ RunGlob \/ RunDfa \/ RunClosure \/ RunMatch \/ RunTokenize

ExSpec == ExInit /\ [][ExNext]_exVars
----------------------------------------------------------------------------
SameFraction(a, b) == a[1] * b[2] = b[1] * a[2]

\* The string without the pair of parentheses that opens at i.
Unpaired(s, i) ==
  LET opens(k) == Cardinality({j \in i..k : s[j] = OPEN})
      closes(k) == Cardinality({j \in i..k : s[j] = CLOSE})
      ends == {k \in i..Len(s) : opens(k) = closes(k)}
      end == CHOOSE k \in ends : \A j \in ends : k <= j
  IN  SubSeq(s, 1, i - 1) \o SubSeq(s, i + 1, end - 1) \o SubSeq(s, end + 1, Len(s))

\* A tree with a pair of parentheses for every operator.
RECURSIVE FullyWritten(_)
FullyWritten(t) ==
  IF t.op = END THEN <<t.val>>
  ELSE <<OPEN>> \o FullyWritten(t.left) \o <<t.op>> \o FullyWritten(t.right) \o <<CLOSE>>

RECURSIVE BitValue(_)
BitValue(t) ==
  LET l == BitValue(t.left)
      r == BitValue(t.right)
  IN  CASE t.op = END -> t.val
        [] t.op = PLUS -> IF l + r > 0 THEN 1 ELSE 0
        [] t.op = MUL -> l * r
        [] t.op = MINUS -> (l + r) % 2

Catalan == <<1, 1, 2, 5>>
OneEach(s) == Cardinality(ToSet(s)) = Len(s)

\* The assignments of digits to the blanks of an expression that give target.
Solutions(s, target) ==
  {v \in [1..Cardinality({i \in DOMAIN s : s[i] = BLANK}) -> ExDigits] :
     IntValue(ParseTree(BlanksFilled(s, v))) = target}

\* str is cut into one piece per unit, each of which its unit fits.
Globs(str, units) ==
  \E n \in [DOMAIN units -> 0..Len(str)] :
    LET upto[u \in 0..Len(units)] == IF u = 0 THEN 0 ELSE upto[u - 1] + n[u]
    IN  /\ upto[Len(units)] = Len(str)
        /\ \A u \in DOMAIN units :
             /\ ~units[u][2] => n[u] = 1
             /\ \A i \in upto[u - 1] + 1..upto[u] : units[u][1] \in {DOT, str[i]}

\* The meanings of the letters of vars under which they spell str.
Meanings(str, vars) ==
  {m \in [ToSet(vars) -> {SubSeq(str, i, j) : i \in 1..Len(str), j \in 1..Len(str)} \ {<<>>}] :
     FlattenSeq([v \in DOMAIN vars |-> m[vars[v]]]) = str}

EpsilonReach(node) ==
  LET more(set) == set \cup UNION {ToSet(Epsilon[n]) : n \in set} IN more(more(more({node})))

\* redundant_parens "evaluates the result of an arithmetic expression, but also removes
\* all pairs of redundant parentheses" (lines 7-9): the expression it prints has, as C
\* evaluates it, the value it prints.
RedundantOnly ==
  (exProg = "redundant" /\ exDone) =>
    LET t == ParseTree(exOut.str) IN Divides(t) /\ IntValue(t) = exOut.val

\* Parsers and matchers agree with the meaning of their input: an expression has
\* the value of its tree; the parentheses redundant_parens removes do not matter
\* and those it leaves do, in exact fractions (with the divisions of C the ones of
\* a * (b / c) do matter, see RedundantOnly); the blanks are filled in every way that
\* gives the target, and all are counted unless the first possibility is among them
\* (which is printed and not counted: nothing is claimed of that count); every way to put
\* parentheses is printed once and counted for its value; a glob matches
\* exactly when it can be laid over the string; the automaton accepts 1+00 and
\* what follows; the closure has every node reached by epsilons once; letters
\* and words are found for a string exactly when there are some, and spell it;
\* a postfix line is worth what its tree is and leaves nothing on the stack or the
\* list for the next line.
ExMeans ==
  exDone =>
    CASE exProg = "rpn" -> exOut = {<<IntValue(ParseTree(exIn)), <<>>>>}
      [] exProg = "evaluate" -> exOut = IntValue(ParseTree(exIn))
      [] exProg = "redundant" ->
           LET value == Fraction(ParseTree(exIn))
           IN  /\ exOut.val = IntValue(ParseTree(exIn))
               /\ SameFraction(Fraction(ParseTree(exOut.str)), value)
               /\ \A i \in {j \in DOMAIN exOut.str : exOut.str[j] = OPEN} :
                    ~SameFraction(Fraction(ParseTree(Unpaired(exOut.str, i))), value)
      [] exProg = "magic" ->
           LET sum == SubSeq(exIn[1], 1, Len(exIn[1]) - 1)
           IN  OneEach(exOut) /\ ToSet(exOut) = {Append(BlanksFilled(sum, v), EQUALS) : v \in Solutions(sum, exIn[2])}
      [] exProg = "magic_any" ->
           LET all == Solutions(exIn[1], exIn[2])
               first(v) == v # <<>> /\ \A i \in DOMAIN v : v[i] = 1
           IN  /\ OneEach(exOut.out) /\ ToSet(exOut.out) = all
               /\ (\E v \in all : first(v)) \/ exOut.matches = Cardinality(all)
      [] exProg = "valid_evals" ->
           \A bit \in {0, 1} :
             exOut[bit + 1] = Cardinality({s \in ToSet(Parenthesize(exIn)) : BitValue(ParseTree(s)) = bit})
      [] exProg = "parenthesize" ->
           /\ OneEach(exOut) /\ Len(exOut) = Catalan[(Len(exIn) + 1) \div 2]
           /\ \A k \in DOMAIN exOut :
                /\ FullyWritten(ParseTree(exOut[k])) = IF Len(exIn) = 1 THEN exOut[k]
                                                  ELSE <<OPEN>> \o exOut[k] \o <<CLOSE>>
                /\ SelectSeq(exOut[k], LAMBDA c : c \notin {OPEN, CLOSE}) = exIn
      [] exProg = "glob" -> exOut = Globs(exIn[1], exIn[2])
      [] exProg = "dfa" ->
           exOut = \E k \in DOMAIN exIn : /\ k + 2 <= Len(exIn)
                                          /\ \A i \in 1..k : exIn[i] = 1
                                          /\ exIn[k + 1] = 0 /\ exIn[k + 2] = 0
      [] exProg = "closure" -> OneEach(exOut) /\ ToSet(exOut) = EpsilonReach(exIn)
      [] exProg = "match" ->
           LET all == Meanings(exIn[1], exIn[2])
           IN  IF all = {} THEN exOut = <<>> ELSE exOut # <<>> /\ exOut[1] \in all
      [] exProg = "tokenize" ->
           LET splits == {w \in ExStrings(Len(exIn), Dictionary) : FlattenSeq(w) = exIn}
           IN  \A answer \in exOut : IF splits = {} THEN ~answer.found
                                     ELSE answer.found /\ answer.words \in splits
=============================================================================
