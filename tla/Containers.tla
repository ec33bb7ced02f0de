----------------------------- MODULE Containers -----------------------------
(* The small containers: a hash table, stacks, number streams, a cache, a   *)
(* dictionary and a priority queue.                                         *)
EXTENDS Integers, Sequences, FiniteSets, SequencesExt

(* DS_Algos/hash_table: chained hashing.  Each slot is the head of a       *)
(* circular doubly linked list; a new node goes right behind the head.     *)
(* A slot head is its slot number; node n >= HtSlots was allocated as the  *)
(* (n - HtSlots + 1)-th one.                                               *)

CONSTANTS
  HtSlots,   \* HASH_TABLE_SZ: 941 in the code
  HtWord,    \* 2^w, w the bits of an unsigned
  HtKeys,    \* the keys typed, which may be negative
  HtVals,    \* the values typed
  HtNodes    \* bound: the nodes ever allocated

ASSUME HtAssumption ==
  /\ HtSlots \in Nat \ {0} /\ HtWord \in Nat \ {0} /\ HtNodes \in Nat
  /\ HtKeys \subseteq Int

VARIABLES
  htNext,  \* next of the heads and of the nodes allocated so far
  htPrev,  \* prev
  htItem,  \* <<key, value>> of each node
  htHeld   \* for each key, the values inserted and not deleted, newest first

htVars == <<htNext, htPrev, htItem, htHeld>>

HtHeads == 0..(HtSlots - 1)

\* hash_key(): the key as an unsigned, modulo the number of slots.
HashKey(k) == (k % HtWord) % HtSlots

\* new_table(): every slot is an empty circle.
HtInit ==
  /\ htNext = [s \in HtHeads |-> s]
  /\ htPrev = [s \in HtHeads |-> s]
  /\ htItem = <<>>
  /\ htHeld = [k \in HtKeys |-> <<>>]

\* find_internal(): the first node with the key, or the head itself.
RECURSIVE FindFrom(_, _, _)
FindFrom(head, n, k) ==
  IF n = head \/ htItem[n - HtSlots + 1][1] = k THEN n
  ELSE FindFrom(head, htNext[n], k)
FindInternal(head, k) == FindFrom(head, htNext[head], k)

\* insert(): new_node() and insert_after() the head of its slot.
HtInsert(k, v) ==
  /\ Len(htItem) < HtNodes
  /\ LET new == HtSlots + Len(htItem)
         head == HashKey(k)
         first == htNext[head]
     IN /\ htNext' = [n \in DOMAIN htNext \cup {new} |->
                        IF n = new THEN first ELSE IF n = head THEN new ELSE htNext[n]]
        /\ htPrev' = [n \in DOMAIN htPrev \cup {new} |->
                        IF n = new THEN head ELSE IF n = first THEN new ELSE htPrev[n]]
  /\ htItem' = Append(htItem, <<k, v>>)
  /\ htHeld' = [htHeld EXCEPT ![k] = <<v>> \o @]

\* delete(): find the node and unlink it in both directions.
HtDelete(k) ==
  /\ FindInternal(HashKey(k), k) # HashKey(k)
  /\ LET n == FindInternal(HashKey(k), k) IN
       /\ htNext' = [htNext EXCEPT ![htPrev[n]] = htNext[n]]
       /\ htPrev' = [htPrev EXCEPT ![htNext[n]] = htPrev[n]]
  /\ htHeld' = [htHeld EXCEPT ![k] = Tail(@)]
  /\ UNCHANGED htItem

HtNext ==
  \E k \in HtKeys : HtDelete(k) \/ \E v \in HtVals : HtInsert(k, v)

HtSpec == HtInit /\ [][HtNext]_htVars
----------------------------------------------------------------------------
\* find() answers the newest value of the key that is not deleted, whatever
\* else hashes to the slot, and says so when there is none; insert() although
\* the key is there ("Assumes element is not on the table yet") hides the old
\* value until the new one is deleted.
HtAnswers ==
  \A k \in HtKeys :
    LET n == FindInternal(HashKey(k), k) IN
      IF htHeld[k] = <<>> THEN n = HashKey(k)
      ELSE n # HashKey(k) /\ htItem[n - HtSlots + 1] = <<k, Head(htHeld[k])>>

-----------------------------------------------------------------------------
(* stacks_queues/array_as_3stacks: three stacks in one array of nodes,     *)
(* with the unused nodes on a fourth; and stacks_queues/stack_with_min: a  *)
(* stack beside a stack of its minima.  A command that fails an assert(3)  *)
(* ends the program and is not taken here.                                 *)

CONSTANTS
  TsNodes,   \* ARRAY_SZ
  MsMax,     \* MAX_STACK_SZ
  StackVals  \* the values pushed

ASSUME StacksAssumption == TsNodes \in Nat /\ MsMax \in Nat /\ StackVals \subseteq Nat

VARIABLES
  tsBelow,  \* below of each node; 0 is NULL
  tsData,   \* data of each node
  tsTop,    \* top[]: stacks 0 to 2, and 3, the free nodes
  tsHeld,   \* what each of the three stacks should hold, top first
  msStack,  \* stack[0 .. top-1]
  msMins    \* mins[0 .. mins_top-1]

tsVars == <<tsBelow, tsData, tsTop, tsHeld>>
msVars == <<msStack, msMins>>

\* create_stacks(): node 1 is pushed onto the free nodes first.
TsInit ==
  /\ tsBelow = [n \in 1..TsNodes |-> n - 1]
  /\ tsData = [n \in 1..TsNodes |-> 0]
  /\ tsTop = [s \in 0..3 |-> IF s = 3 THEN TsNodes ELSE 0]
  /\ tsHeld = [s \in 0..2 |-> <<>>]

\* pop_internal() from one stack and push_internal() onto another.
TsMoveLeak(from, to) ==
  /\ tsTop[from] # 0
  /\ tsTop' = [tsTop EXCEPT ![to] = tsTop[from]]
  /\ tsBelow' = [tsBelow EXCEPT ![tsTop[from]] = tsTop[to]]
TsMove(from, to) ==
  /\ tsTop[from] # 0
  /\ tsTop' = [tsTop EXCEPT ![from] = tsBelow[tsTop[from]], ![to] = tsTop[from]]
  /\ tsBelow' = [tsBelow EXCEPT ![tsTop[from]] = tsTop[to]]

\* push() and pop().
TsPush(s, v) ==
  /\ TsMove(3, s)
  /\ tsData' = [tsData EXCEPT ![tsTop[3]] = v]
  /\ tsHeld' = [tsHeld EXCEPT ![s] = <<v>> \o @]
TsPop(s) ==
  /\ TsMove(s, 3)
  /\ tsHeld' = [tsHeld EXCEPT ![s] = Tail(@)]
  /\ UNCHANGED tsData

TsNext == \E s \in 0..2 : TsPop(s) \/ \E v \in StackVals : TsPush(s, v)

MsInit == msStack = <<>> /\ msMins = <<>>

MsLast(s) == s[Len(s)]
MsButLast(s) == SubSeq(s, 1, Len(s) - 1)

\* push(): an element not above the current minimum is a minimum too.
MsPush(v) ==
  /\ Len(msStack) < MsMax
  /\ msStack' = Append(msStack, v)
  /\ msMins' = IF msMins = <<>> \/ v <= MsLast(msMins) THEN Append(msMins, v) ELSE msMins

\* pop(), with its two assertions.
MsPop ==
  /\ msStack # <<>> /\ msMins # <<>>
  /\ msStack' = MsButLast(msStack)
  /\ msMins' = IF Len(msStack) = 1 \/ MsLast(msStack) = MsLast(msMins)
               THEN MsButLast(msMins) ELSE msMins

MsNext == MsPop \/ \E v \in StackVals : MsPush(v)
----------------------------------------------------------------------------
\* The nodes of stack s from the top, for as many steps as there are nodes.
RECURSIVE TsChain(_, _)
TsChain(n, steps) == IF n = 0 \/ steps = 0 THEN <<>> ELSE <<n>> \o TsChain(tsBelow[n], steps - 1)

\* The three stacks are stacks although they share one array, and push() fails
\* only when the three together hold ARRAY_SZ values: no node is lost or on two
\* stacks.
TsAnswers ==
  LET on == [s \in 0..3 |-> TsChain(tsTop[s], TsNodes)] IN
    /\ \A s \in 0..2 : tsHeld[s] = [j \in DOMAIN on[s] |-> tsData[on[s][j]]]
    /\ Len(on[0]) + Len(on[1]) + Len(on[2]) + Len(on[3]) = TsNodes
    /\ UNION {{on[s][j] : j \in DOMAIN on[s]} : s \in 0..3} = 1..TsNodes

\* min() is the minimum of what is on the stack and is there as long as
\* anything is, so pop()'s second assertion never fails.
MsAnswers ==
  IF msStack = <<>> THEN msMins = <<>>
  ELSE msMins # <<>> /\ MsLast(msMins) = Min({msStack[j] : j \in DOMAIN msStack})

-----------------------------------------------------------------------------
(* sorting_searching/track_median: the median of a growing stream, kept    *)
(* between two heaps; and sorting_searching/int_stream: the rank of a      *)
(* number in a stream, kept in a search tree that counts.                  *)

CONSTANTS
  StreamVals,  \* the numbers in the stream
  StreamMax    \* bound: numbers in the stream

ASSUME StreamAssumption == StreamVals \subseteq Int /\ StreamMax \in Nat

VARIABLES
  mdLow,    \* heap_l: the lower half, largest on top
  mdHigh,   \* heap_r: the upper half, smallest on top
  mdSeen,   \* the numbers inserted, in increasing order
  rkTree,   \* the nodes of the tree; node 1 is the root, 0 is NULL
  rkSeen    \* the numbers tracked, in increasing order

mdVars == <<mdLow, mdHigh, mdSeen>>
rkVars == <<rkTree, rkSeen>>

\* Heap<Compare>: sign 1 has the largest number on top, sign -1 the smallest.
MdBelow(sign, a, b) == sign * a < sign * b
MdSwap(h, i, j) == [h EXCEPT ![i] = h[j], ![j] = h[i]]

RECURSIVE MdUp(_, _, _), MdDown(_, _, _)
MdUp(sign, h, i) ==
  IF i > 1 /\ MdBelow(sign, h[i \div 2], h[i]) THEN MdUp(sign, MdSwap(h, i, i \div 2), i \div 2) ELSE h
MdLargest(sign, h, i) ==
  LET first == IF 2 * i <= Len(h) /\ MdBelow(sign, h[i], h[2 * i]) THEN 2 * i ELSE i
  IN IF 2 * i + 1 <= Len(h) /\ MdBelow(sign, h[first], h[2 * i + 1]) THEN 2 * i + 1 ELSE first
MdDown(sign, h, i) ==
  LET l == MdLargest(sign, h, i) IN IF l = i THEN h ELSE MdDown(sign, MdSwap(h, i, l), l)

HeapAdd(sign, h, v) == MdUp(sign, Append(h, v), Len(h) + 1)
HeapExtract(sign, h) ==
  LET g == Front(h) IN IF g = <<>> THEN g ELSE MdDown(sign, [g EXCEPT ![1] = Last(h)], 1)

\* balance_heaps(): move tops until one of the sizes is reached.
RECURSIVE Balance(_, _, _, _)
Balance(l, r, sizeL, sizeR) ==
  IF Len(l) = sizeL \/ Len(r) = sizeR THEN <<l, r>>
  ELSE IF Len(l) > sizeL
  THEN Balance(HeapExtract(1, l), HeapAdd(-1, r, l[1]), sizeL, sizeR)
  ELSE Balance(HeapAdd(1, l, r[1]), HeapExtract(-1, r), sizeL, sizeR)

MdInit == mdLow = <<>> /\ mdHigh = <<>> /\ mdSeen = <<>>

\* MedianTracker::insert(); the lower half gets the odd one.
MdInsert(v) ==
  /\ Len(mdSeen) < StreamMax
  /\ LET inLow == mdSeen = <<>> \/ v <= mdLow[1]
         l == IF inLow THEN HeapAdd(1, mdLow, v) ELSE mdLow
         r == IF inLow THEN mdHigh ELSE HeapAdd(-1, mdHigh, v)
         n == Len(mdSeen) + 1
         b == Balance(l, r, (n \div 2) + (n % 2), n \div 2)
     IN mdLow' = b[1] /\ mdHigh' = b[2]
  /\ mdSeen' = SortSeq(Append(mdSeen, v), <)

MdNext == \E v \in StreamVals : MdInsert(v)

RkInit == rkTree = <<>> /\ rkSeen = <<>>

\* tree_insert(): the nodes passed on the way down, from node n.
RECURSIVE RkPath(_, _, _)
RkPath(t, n, v) ==
  IF n = 0 THEN <<>>
  ELSE <<n>> \o RkPath(t, IF v < t[n].value THEN t[n].left
                          ELSE IF v > t[n].value THEN t[n].right ELSE 0, v)

\* track(): count the number in every node it passes on the left, then count
\* it in its own node or hang up a new one.
Track(v) ==
  /\ Len(rkSeen) < StreamMax
  /\ LET path == RkPath(rkTree, IF rkTree = <<>> THEN 0 ELSE 1, v)
         passed == [n \in DOMAIN rkTree |->
                      IF n \in ToSet(path) /\ v < rkTree[n].value
                      THEN [rkTree[n] EXCEPT !.left_children = @ + 1] ELSE rkTree[n]]
         new == [value |-> v, occurrences |-> 1, left_children |-> 0, left |-> 0, right |-> 0]
         k == Len(rkTree) + 1
     IN rkTree' =
          IF path = <<>> THEN <<new>>
          ELSE LET n == Last(path) IN
            IF rkTree[n].value = v THEN [passed EXCEPT ![n].occurrences = @ + 1]
            ELSE IF v < rkTree[n].value THEN Append([passed EXCEPT ![n].left = k], new)
            ELSE Append([passed EXCEPT ![n].right = k], new)
  /\ rkSeen' = SortSeq(Append(rkSeen, v), <)

RkNext == \E v \in StreamVals : Track(v)

\* tree_find() and rank(), from node n with the numbers counted so far; -1 for
\* a number that never appeared.
RECURSIVE RankFrom(_, _, _, _)
RankFrom(t, n, v, lower) ==
  IF n = 0 THEN -1
  ELSE IF t[n].value = v THEN lower + t[n].left_children + t[n].occurrences - 1
  ELSE IF v < t[n].value THEN RankFrom(t, t[n].left, v, lower)
  ELSE RankFrom(t, t[n].right, v, lower + t[n].left_children + t[n].occurrences)
Rank(t, v) == RankFrom(t, IF t = <<>> THEN 0 ELSE 1, v, 0)

\* Twice what median() returns.
Median2(l, r) == IF (Len(l) + Len(r)) % 2 = 1 THEN 2 * l[1] ELSE l[1] + r[1]
----------------------------------------------------------------------------
\* median() is the middle of the sorted stream, or the mean of the two in the
\* middle, whatever the order the numbers came in.
MdAnswers ==
  LET n == Len(mdSeen) IN
    /\ Len(mdLow) + Len(mdHigh) = n
    /\ n > 0 => Median2(mdLow, mdHigh) = mdSeen[(n + 1) \div 2] + mdSeen[(n \div 2) + 1]

\* "the number of values less than or equal to x (not including x itself)".
RkAnswers ==
  \A v \in StreamVals :
    Rank(rkTree, v) = IF v \in ToSet(rkSeen)
                      THEN Cardinality({j \in DOMAIN rkSeen : rkSeen[j] <= v}) - 1
                      ELSE -1
-----------------------------------------------------------------------------
(* misc/lru_cache: a set-associative cache that evicts the entry used      *)
(* least recently.  Each line is a min-heap of entries ordered by the time *)
(* of their last use.  Heap positions are numbered from 0 in the code and  *)
(* from 1 here.                                                            *)

CONSTANTS
  LruLines,  \* lines_count = blocks / associativity
  LruAssoc,  \* assoc
  LruKeys,   \* the memory locations
  LruVals,   \* the values
  LruOps     \* bound: operations that advance the clock

ASSUME LruAssumption ==
  /\ LruLines \in Nat \ {0} /\ LruAssoc \in Nat \ {0}
  /\ LruKeys \subseteq Nat /\ LruOps \in Nat

VARIABLES
  lruHeap,   \* min_heap of each line
  lruClock,  \* timestamp
  lruUsed,   \* the entries of each line, the one used last at the end
  lruLast,   \* for each key, the value written last
  lruTwice   \* the keys that were inserted again while they were cached

lruVars == <<lruHeap, lruClock, lruUsed, lruLast, lruTwice>>

LruLine(k) == k % LruLines

LruInit ==
  /\ lruHeap = [l \in 0..(LruLines - 1) |-> <<>>]
  /\ lruClock = 0
  /\ lruUsed = [l \in 0..(LruLines - 1) |-> <<>>]
  /\ lruLast = [k \in LruKeys |-> CHOOSE v \in LruVals : TRUE]
  /\ lruTwice = {}

Swap(h, i, j) == [h EXCEPT ![i] = h[j], ![j] = h[i]]

\* The entry with the smallest time among i and its children; the left child
\* wins a tie with the right one, i wins both.
Smallest(h, i) ==
  LET first == IF 2 * i <= Len(h) /\ h[2 * i].time < h[i].time THEN 2 * i ELSE i
  IN IF 2 * i + 1 <= Len(h) /\ h[2 * i + 1].time < h[first].time THEN 2 * i + 1 ELSE first

RECURSIVE HeapUp(_, _), HeapDown(_, _)
HeapUp(h, i) ==
  IF i # 1 /\ h[i].time < h[i \div 2].time THEN HeapUp(Swap(h, i, i \div 2), i \div 2) ELSE h
HeapDown(h, i) ==
  LET s == Smallest(h, i) IN IF s = i THEN h ELSE HeapDown(Swap(h, i, s), s)

\* extract_min(), insert() and increase_key().
ExtractMin(h) ==
  LET g == Front(Swap(h, 1, Len(h))) IN IF g = <<>> THEN g ELSE HeapDown(g, 1)
HeapInsert(h, e) == HeapUp(Append(h, e), Len(h) + 1)
IncreaseKey(h, i, t) == HeapDown([h EXCEPT ![i].time = t], i)

\* find_by_key(): the first entry with the key in heap order.
FindByKey(h, k) == {i \in DOMAIN h : h[i].key = k /\ \A j \in 1..(i - 1) : h[j].key # k}

\* LRUCache::insert(): evict when the line is full, whether or not the key is
\* cached already.
LruInsert(k, v) ==
  /\ lruClock < LruOps
  /\ LET l == LruLine(k)
         full == Len(lruHeap[l]) = LruAssoc
         room == IF full THEN ExtractMin(lruHeap[l]) ELSE lruHeap[l]
         left == IF full THEN Tail(lruUsed[l]) ELSE lruUsed[l]
     IN /\ lruHeap' = [lruHeap EXCEPT ![l] =
                         HeapInsert(room, [time |-> lruClock, key |-> k, val |-> v, id |-> lruClock])]
        /\ lruUsed' = [lruUsed EXCEPT ![l] = Append(left, lruClock)]
  /\ lruClock' = lruClock + 1
  /\ lruLast' = [lruLast EXCEPT ![k] = v]
  /\ lruTwice' = IF FindByKey(lruHeap[LruLine(k)], k) = {} THEN lruTwice ELSE lruTwice \cup {k}

\* The entry at position i of line l is used now.
Touch(l, i, h) ==
  /\ lruHeap' = [lruHeap EXCEPT ![l] = IncreaseKey(h, i, lruClock)]
  /\ lruUsed' = [lruUsed EXCEPT ![l] = Append(Remove(@, h[i].id), h[i].id)]

\* LRUCache::get() of a key that is cached; a miss changes nothing.
LruGet(k) ==
  /\ lruClock < LruOps
  /\ \E i \in FindByKey(lruHeap[LruLine(k)], k) : Touch(LruLine(k), i, lruHeap[LruLine(k)])
  /\ lruClock' = lruClock + 1
  /\ UNCHANGED <<lruLast, lruTwice>>

\* LRUCache::update(): a key that is not cached only advances the clock.
LruUpdate(k, v) ==
  /\ lruClock < LruOps
  /\ LET l == LruLine(k)
         at == FindByKey(lruHeap[l], k)
     IN IF at = {}
        THEN UNCHANGED <<lruHeap, lruUsed, lruLast>>
        ELSE /\ \E i \in at : Touch(l, i, [lruHeap[l] EXCEPT ![i].val = v])
             /\ lruLast' = [lruLast EXCEPT ![k] = v]
  /\ lruClock' = lruClock + 1
  /\ UNCHANGED lruTwice

LruNext ==
  \E k \in LruKeys : LruGet(k) \/ \E v \in LruVals : LruInsert(k, v) \/ LruUpdate(k, v)

LruSpec == LruInit /\ [][LruNext]_lruVars
----------------------------------------------------------------------------
\* The replacement strategy is LRU: the top of the heap, which insert() evicts,
\* is the entry of the line that was used longest ago, and no line outgrows the
\* associativity.  A cached key has the value written last, unless it was
\* inserted twice where update() was meant.
LruSound ==
  \A l \in DOMAIN lruHeap :
    LET h == lruHeap[l] IN
      /\ Len(h) <= LruAssoc
      /\ {h[i].id : i \in DOMAIN h} = {lruUsed[l][i] : i \in DOMAIN lruUsed[l]}
      /\ h # <<>> => h[1].id = lruUsed[l][1]
      /\ \A i \in DOMAIN h : h[i].key \notin lruTwice => h[i].val = lruLast[h[i].key]
----------------------------------------------------------------------------
(* recursion_dp/boggle_board: a dictionary kept in a trie, a board, and the  *)
(* search for the best word on it.  A node of the trie is the word that      *)
(* leads to it, letters being numbers.                                       *)

CONSTANTS
  BgLetters,  \* the letters
  BgDims,     \* the sizes of a board
  BgWords,    \* the words typed
  BgScores,   \* the scores typed
  BgOps       \* bound: the commands that change something

ASSUME BgAssumption ==
  /\ BgLetters \subseteq Nat /\ BgDims \subseteq Nat /\ BgOps \in Nat
  /\ BgScores \subseteq Nat /\ BgWords \subseteq Seq(BgLetters) \ {<<>>}

VARIABLES
  bgTrie,   \* score and children_count of each node
  bgBoard,  \* the letters of the fields, <<>> while there is no board
  bgDict,   \* the score of every word that was put in and not taken out
  bgCount   \* the commands so far

bgVars == <<bgTrie, bgBoard, bgDict, bgCount>>

\* new_trie().
BgInit ==
  /\ bgTrie = (<<>> :> [score |-> -1, children |-> 0])
  /\ bgBoard = <<>> /\ bgDict = <<>> /\ bgCount = 0

Prefix(word, k) == SubSeq(word, 1, k)

\* insert_word(): down the nodes there are, then new nodes for the rest.
InsertWord(trie, word, score) ==
  LET known == Cardinality({k \in 1..Len(word) : Prefix(word, k) \in DOMAIN trie})
      new == {Prefix(word, k) : k \in known + 1..Len(word)}
  IN  [p \in DOMAIN trie \cup new |->
        IF p = word THEN [score |-> score, children |-> IF new = {} THEN trie[p].children ELSE 0]
        ELSE IF p \in new THEN [score |-> -1, children |-> 1]
        ELSE IF new # {} /\ p = Prefix(word, known) THEN [trie[p] EXCEPT !.children = @ + 1]
        ELSE trie[p]]

\* delete_word_aux(): the node would be freed on the way back if it had no children
\* and still a score.
RECURSIVE DeleteWordAux(_, _, _)
DeleteWordAux(trie, word, i) ==
  LET root == Prefix(word, i)
      child == Prefix(word, i + 1)
      below == DeleteWordAux(trie, word, i + 1)
      empty == below.ret /\ below.trie[child].children = 0 /\ below.trie[child].score # -1
  IN  IF i = Len(word)
      THEN [ret |-> trie[root].score # -1, trie |-> [trie EXCEPT ![root].score = -1]]
      ELSE IF child \notin DOMAIN trie THEN [ret |-> FALSE, trie |-> trie]
      ELSE IF ~empty THEN below
      ELSE [below EXCEPT !.trie = [[p \in DOMAIN @ \ {child} |-> @[p]] EXCEPT ![root].children = @ - 1]]

\* word_score().
WordScore(trie, word) == IF word \in DOMAIN trie THEN trie[word].score ELSE -1

\* generate_board_aux(): row by row, a letter that was used more than n times is
\* drawn, or read, again.
BgFields(n) == (0..n - 1) \X (0..n - 1)
GenerateBoards(n) ==
  {b \in [BgFields(n) -> BgLetters] :
     \A p \in BgFields(n) :
       Cardinality({q \in BgFields(n) : n * q[1] + q[2] < n * p[1] + p[2] /\ b[q] = b[p]}) <= n}

\* find_best_word_aux(): the best of the word that ends here and those that go on
\* from here; a word that is not in the dictionary is not gone on with.  The calls
\* for fields off the board, which return at once, are not made.
NoWord == [score |-> -1, word |-> <<>>]
Around8(p) ==
  LET steps == <<<<-1, -1>>, <<-1, 0>>, <<-1, 1>>, <<0, -1>>, <<0, 1>>, <<1, -1>>, <<1, 0>>, <<1, 1>>>>
  IN  [k \in 1..8 |-> <<p[1] + steps[k][1], p[2] + steps[k][2]>>]
Better(best, found) == IF found.score > best.score THEN found ELSE best
RECURSIVE FindBestWordAux(_, _, _, _)
FindBestWordAux(trie, board, p, buff) ==
  LET word == Append(buff, board[p])
      mine == [score |-> WordScore(trie, word), word |-> word]
  IN  IF mine.score = -1 THEN NoWord
      ELSE FoldLeft(LAMBDA best, q : Better(best, FindBestWordAux(trie, board, q, word)),
                    mine, SelectSeq(Around8(p), LAMBDA q : q \in DOMAIN board))
\* find_best_word(): from every field.
FindBestWord(trie, board) ==
  FoldLeft(LAMBDA best, p : Better(best, FindBestWordAux(trie, board, p, <<>>)), NoWord,
           SetToSortSeq(DOMAIN board, LAMBDA p, q : p[1] < q[1] \/ (p[1] = q[1] /\ p[2] < q[2])))

\* print_words(): a node before its children, the children by letter.
RECURSIVE BgDump(_, _)
BgDump(trie, root) ==
  LET kids == SetToSortSeq({l \in BgLetters : Append(root, l) \in DOMAIN trie}, <)
  IN  (IF trie[root].score # -1 THEN <<<<root, trie[root].score>>>> ELSE <<>>)
        \o FlattenSeq([k \in DOMAIN kids |-> BgDump(trie, Append(root, kids[k]))])

\* The commands of main(): I and G (which differ in where the letters come from),
\* W, A and R.
BgStep == bgCount < BgOps /\ bgCount' = bgCount + 1
BgBoard(n) ==
  /\ BgStep /\ bgBoard' \in GenerateBoards(n) /\ UNCHANGED <<bgTrie, bgDict>>
Known(dict, word, score) == [w \in DOMAIN dict \cup {word} |-> IF w = word THEN score ELSE dict[w]]
BgWord(word, score) ==
  /\ BgStep
  /\ bgTrie' = InsertWord(bgTrie, word, score)
  /\ bgDict' = Known(bgDict, word, score)
  /\ UNCHANGED bgBoard
\* A: every shorter prefix gets the score 0, also one that had another.
BgPrefixes(word, score) ==
  LET shorter == [k \in 1..Len(word) - 1 |-> Prefix(word, k)]
  IN  /\ BgStep
      /\ bgTrie' = InsertWord(FoldLeft(LAMBDA t, p : InsertWord(t, p, 0), bgTrie, shorter), word, score)
      /\ bgDict' = Known(FoldLeft(LAMBDA d, p : Known(d, p, 0), bgDict, shorter), word, score)
      /\ UNCHANGED bgBoard
BgRemove(word) ==
  /\ BgStep
  /\ bgTrie' = DeleteWordAux(bgTrie, word, 0).trie
  /\ bgDict' = [w \in DOMAIN bgDict \ {word} |-> bgDict[w]]
  /\ UNCHANGED bgBoard

BgNext ==
  \/ \E n \in BgDims : BgBoard(n)
  \/ \E word \in BgWords :
       BgRemove(word) \/ \E score \in BgScores : BgWord(word, score) \/ BgPrefixes(word, score)

\* A word lies on the board if its letters do, each beside the one before.
OnBoard(word) ==
  \E walk \in [DOMAIN word -> DOMAIN bgBoard] :
    /\ \A i \in DOMAIN word : bgBoard[walk[i]] = word[i]
    /\ \A i \in 1..Len(word) - 1 : walk[i + 1] \in Range(Around8(walk[i]))
Spelt(word) == OnBoard(word) /\ \A k \in 1..Len(word) : Prefix(word, k) \in DOMAIN bgDict
Alphabetical(v, w) ==
  \/ IsStrictPrefix(v, w)
  \/ \E k \in DOMAIN v \cap DOMAIN w : Prefix(v, k - 1) = Prefix(w, k - 1) /\ v[k] < w[k]

\* S, D and B answer from the dictionary: the trie has the score of every word put
\* in and of no other, counts its children, is dumped in alphabetical order, and the
\* best word has the highest score of all words on the board that are in the
\* dictionary with all their prefixes.
BgAnswers ==
  /\ \A w \in BgWords \cup DOMAIN bgTrie :
       WordScore(bgTrie, w) = IF w \in DOMAIN bgDict THEN bgDict[w] ELSE -1
  /\ \A p \in DOMAIN bgTrie :
       bgTrie[p].children = Cardinality({l \in BgLetters : Append(p, l) \in DOMAIN bgTrie})
  /\ LET dump == BgDump(bgTrie, <<>>)
     IN  /\ Range(dump) = {<<w, bgDict[w]>> : w \in DOMAIN bgDict}
         /\ \A i \in 1..Len(dump) - 1 : Alphabetical(dump[i][1], dump[i + 1][1])
  /\ LET spelt == {w \in DOMAIN bgDict : Spelt(w)}
         best == FindBestWord(bgTrie, bgBoard)
     IN  IF spelt = {} THEN best = NoWord
         ELSE best.word \in spelt /\ best.score = bgDict[best.word] /\ \A w \in spelt : bgDict[w] <= best.score

----------------------------------------------------------------------------
(* DS_Algos/prio_queue: a priority queue in a heap.  Positions are those   *)
(* of the code, from 0: the children of i are 2i+1 and 2i+2, while         *)
(* sift_up() takes i/2 for the parent of i.                                *)

CONSTANTS
  Prios,  \* the priorities typed
  PqMax   \* bound: elements in the queue

ASSUME PqAssumption == Prios \subseteq Nat /\ PqMax \in Nat

VARIABLES
  pqHeap,  \* the priorities in heap order
  pqHeld,  \* the priorities enqueued and not dequeued, in increasing order
  pqOut    \* the last dequeue(): <<what it returned, the smallest one>>

pqVars == <<pqHeap, pqHeld, pqOut>>

PqInit == pqHeap = <<>> /\ pqHeld = <<>> /\ pqOut = <<0, 0>>

\* heap[i] and swap(i, j).
PqAt(h, i) == h[i + 1]
PqSwap(h, i, j) == [h EXCEPT ![i + 1] = h[j + 1], ![j + 1] = h[i + 1]]

RECURSIVE PqUp(_, _), PqDown(_, _)
PqUp(h, i) ==
  IF i # 0 /\ PqAt(h, i) < PqAt(h, i \div 2) THEN PqUp(PqSwap(h, i, i \div 2), i \div 2) ELSE h
PqSmallest(h, i) ==
  LET l == 2 * i + 1
      first == IF l < Len(h) /\ PqAt(h, l) < PqAt(h, i) THEN l ELSE i
  IN IF l + 1 < Len(h) /\ PqAt(h, l + 1) < PqAt(h, first) THEN l + 1 ELSE first
PqDown(h, i) ==
  LET s == PqSmallest(h, i) IN IF s = i THEN h ELSE PqDown(PqSwap(h, i, s), s)

Enqueue(p) ==
  /\ Len(pqHeap) < PqMax
  /\ pqHeap' = PqUp(Append(pqHeap, p), Len(pqHeap))
  /\ pqHeld' = SortSeq(Append(pqHeld, p), <)
  /\ UNCHANGED pqOut

\* dequeue(), with its assertion.
Dequeue ==
  /\ pqHeap # <<>>
  /\ LET h == Front(pqHeap) IN
       pqHeap' = IF h = <<>> THEN h ELSE PqDown([h EXCEPT ![1] = Last(pqHeap)], 0)
  /\ pqOut' = <<pqHeap[1], pqHeld[1]>>
  /\ pqHeld' = RemoveFirst(pqHeld, pqHeap[1])

PqNext == Dequeue \/ \E p \in Prios : Enqueue(p)

\* "Higher priorities correspond to lower priority values. Thus, a min-heap is
\* used": dequeue() returns the smallest value in the queue.
PqServesMin == pqOut[1] = pqOut[2]

\* Whatever the order of the heap, the queue holds what was put in and not
\* taken out.
PqKeeps == SortSeq(pqHeap, <) = pqHeld
=============================================================================
