-------------------------------- MODULE MCData -------------------------------
(* The containers, the allocator and the I/O library, each under every       *)
(* sequence of calls a client can make within the bounds, and the algorithms, *)
(* each on every input within the bounds.                                     *)
EXTENDS
  BinarySearchTree, Containers, Malloc, Stdio, BinarySearch,
  SortingSearching, LinkedLists, TreesGraphs, Recursion, Expressions, ArraysStrings,
  BitsNumbers

VARIABLE prog

mcVars ==
  <<prog, bstVars, htVars, lruVars, tsVars, msVars, mdVars, rkVars, pqVars, maVars,
  ioVars, bgVars, bsVars, soVars, seVars, llVars, tgVars, reVars, exVars, asVars, bnVars>>

Programs ==
  {"bst", "hash_table", "lru_cache", "three_stacks", "stack_with_min", "track_median",
   "int_stream", "prio_queue", "malloc", "stdio", "boggle_board", "binary_search",
   "sorting", "searching", "linked_lists", "trees_graphs", "recursion", "expressions",
   "arrays_strings", "bits_numbers"}

\* The state of an algorithm that does not run.
BsIdle ==
  /\ bsKind = "binary_search" /\ bsSize = 0 /\ bsArr = <<>> /\ bsVal = 0
  /\ bsL = 0 /\ bsR = -1 /\ bsPc = "loop" /\ bsRet = -1 /\ bsPow = 1
SoIdle ==
  soProg = "quicksort" /\ soArr = <<>> /\ soArg = 0 /\ soOut = <<>> /\ soRet = -1 /\ soDone = FALSE
SeIdle ==
  seProg = "listy" /\ seIn = <<>> /\ seVal = 0 /\ seOut = <<>> /\ seDone = FALSE
LlIdle ==
  llProg = "quicksort" /\ llIn = <<>> /\ llArg = 0 /\ llOut = <<>> /\ llDone = FALSE
TgIdle ==
  tgProg = "is_bst" /\ tgIn = <<>> /\ tgArg = 0 /\ tgOut = <<>> /\ tgDone = FALSE
ReIdle ==
  reProg = "subsets" /\ reIn = <<>> /\ reOut = <<>> /\ reDone = FALSE
ExIdle ==
  exProg = "dfa" /\ exIn = <<>> /\ exOut = <<>> /\ exDone = FALSE
AsIdle ==
  asProg = "reverse_str" /\ asIn = <<>> /\ asOut = <<>> /\ asDone = FALSE
BnIdle ==
  bnProg = "power_2" /\ bnIn = 0 /\ bnOut = <<>> /\ bnDone = FALSE

MCInit ==
  /\ prog \in Programs
  /\ BstInit /\ HtInit /\ LruInit /\ TsInit /\ MsInit /\ MdInit /\ RkInit /\ PqInit
  /\ MaInit /\ IoInit /\ BgInit
  /\ IF prog = "binary_search" THEN BsInit ELSE BsIdle
  /\ IF prog = "sorting" THEN SoInit ELSE SoIdle
  /\ IF prog = "searching" THEN SeInit ELSE SeIdle
  /\ IF prog = "linked_lists" THEN LlInit ELSE LlIdle
  /\ IF prog = "trees_graphs" THEN TgInit ELSE TgIdle
  /\ IF prog = "recursion" THEN ReInit ELSE ReIdle
  /\ IF prog = "expressions" THEN ExInit ELSE ExIdle
  /\ IF prog = "arrays_strings" THEN AsInit ELSE AsIdle
  /\ IF prog = "bits_numbers" THEN BnInit ELSE BnIdle

BstAlone ==
  /\ prog = "bst"
  /\ UNCHANGED <<prog, htVars, lruVars, tsVars, msVars, mdVars, rkVars, pqVars, maVars,
                   ioVars, bgVars, bsVars, soVars, seVars, llVars, tgVars, reVars,
                   exVars, asVars, bnVars>>
HtAlone ==
  /\ prog = "hash_table"
  /\ UNCHANGED <<prog, bstVars, lruVars, tsVars, msVars, mdVars, rkVars, pqVars, maVars,
                   ioVars, bgVars, bsVars, soVars, seVars, llVars, tgVars, reVars,
                   exVars, asVars, bnVars>>
LruAlone ==
  /\ prog = "lru_cache"
  /\ UNCHANGED <<prog, bstVars, htVars, tsVars, msVars, mdVars, rkVars, pqVars, maVars,
                   ioVars, bgVars, bsVars, soVars, seVars, llVars, tgVars, reVars,
                   exVars, asVars, bnVars>>
TsAlone ==
  /\ prog = "three_stacks"
  /\ UNCHANGED <<prog, bstVars, htVars, lruVars, msVars, mdVars, rkVars, pqVars, maVars,
                   ioVars, bgVars, bsVars, soVars, seVars, llVars, tgVars, reVars,
                   exVars, asVars, bnVars>>
MsAlone ==
  /\ prog = "stack_with_min"
  /\ UNCHANGED <<prog, bstVars, htVars, lruVars, tsVars, mdVars, rkVars, pqVars, maVars,
                   ioVars, bgVars, bsVars, soVars, seVars, llVars, tgVars, reVars,
                   exVars, asVars, bnVars>>
MdAlone ==
  /\ prog = "track_median"
  /\ UNCHANGED <<prog, bstVars, htVars, lruVars, tsVars, msVars, rkVars, pqVars, maVars,
                   ioVars, bgVars, bsVars, soVars, seVars, llVars, tgVars, reVars,
                   exVars, asVars, bnVars>>
RkAlone ==
  /\ prog = "int_stream"
  /\ UNCHANGED <<prog, bstVars, htVars, lruVars, tsVars, msVars, mdVars, pqVars, maVars,
                   ioVars, bgVars, bsVars, soVars, seVars, llVars, tgVars, reVars,
                   exVars, asVars, bnVars>>
PqAlone ==
  /\ prog = "prio_queue"
  /\ UNCHANGED <<prog, bstVars, htVars, lruVars, tsVars, msVars, mdVars, rkVars, maVars,
                   ioVars, bgVars, bsVars, soVars, seVars, llVars, tgVars, reVars,
                   exVars, asVars, bnVars>>
MaAlone ==
  /\ prog = "malloc"
  /\ UNCHANGED <<prog, bstVars, htVars, lruVars, tsVars, msVars, mdVars, rkVars, pqVars,
                   ioVars, bgVars, bsVars, soVars, seVars, llVars, tgVars, reVars,
                   exVars, asVars, bnVars>>
IoAlone ==
  /\ prog = "stdio"
  /\ UNCHANGED <<prog, bstVars, htVars, lruVars, tsVars, msVars, mdVars, rkVars, pqVars,
                   maVars, bgVars, bsVars, soVars, seVars, llVars, tgVars, reVars,
                   exVars, asVars, bnVars>>
BgAlone ==
  /\ prog = "boggle_board"
  /\ UNCHANGED <<prog, bstVars, htVars, lruVars, tsVars, msVars, mdVars, rkVars, pqVars,
                   maVars, ioVars, bsVars, soVars, seVars, llVars, tgVars, reVars,
                   exVars, asVars, bnVars>>
BsAlone ==
  /\ prog = "binary_search"
  /\ UNCHANGED <<prog, bstVars, htVars, lruVars, tsVars, msVars, mdVars, rkVars, pqVars,
                   maVars, ioVars, bgVars, soVars, seVars, llVars, tgVars, reVars,
                   exVars, asVars, bnVars>>
SoAlone ==
  /\ prog = "sorting"
  /\ UNCHANGED <<prog, bstVars, htVars, lruVars, tsVars, msVars, mdVars, rkVars, pqVars,
                   maVars, ioVars, bgVars, bsVars, seVars, llVars, tgVars, reVars,
                   exVars, asVars, bnVars>>
SeAlone ==
  /\ prog = "searching"
  /\ UNCHANGED <<prog, bstVars, htVars, lruVars, tsVars, msVars, mdVars, rkVars, pqVars,
                   maVars, ioVars, bgVars, bsVars, soVars, llVars, tgVars, reVars,
                   exVars, asVars, bnVars>>
LlAlone ==
  /\ prog = "linked_lists"
  /\ UNCHANGED <<prog, bstVars, htVars, lruVars, tsVars, msVars, mdVars, rkVars, pqVars,
                   maVars, ioVars, bgVars, bsVars, soVars, seVars, tgVars, reVars,
                   exVars, asVars, bnVars>>
TgAlone ==
  /\ prog = "trees_graphs"
  /\ UNCHANGED <<prog, bstVars, htVars, lruVars, tsVars, msVars, mdVars, rkVars, pqVars,
                   maVars, ioVars, bgVars, bsVars, soVars, seVars, llVars, reVars,
                   exVars, asVars, bnVars>>
ReAlone ==
  /\ prog = "recursion"
  /\ UNCHANGED <<prog, bstVars, htVars, lruVars, tsVars, msVars, mdVars, rkVars, pqVars,
                   maVars, ioVars, bgVars, bsVars, soVars, seVars, llVars, tgVars,
                   exVars, asVars, bnVars>>
ExAlone ==
  /\ prog = "expressions"
  /\ UNCHANGED <<prog, bstVars, htVars, lruVars, tsVars, msVars, mdVars, rkVars, pqVars,
                   maVars, ioVars, bgVars, bsVars, soVars, seVars, llVars, tgVars,
                   reVars, asVars, bnVars>>
AsAlone ==
  /\ prog = "arrays_strings"
  /\ UNCHANGED <<prog, bstVars, htVars, lruVars, tsVars, msVars, mdVars, rkVars, pqVars,
                   maVars, ioVars, bgVars, bsVars, soVars, seVars, llVars, tgVars,
                   reVars, exVars, bnVars>>
BnAlone ==
  /\ prog = "bits_numbers"
  /\ UNCHANGED <<prog, bstVars, htVars, lruVars, tsVars, msVars, mdVars, rkVars, pqVars,
                   maVars, ioVars, bgVars, bsVars, soVars, seVars, llVars, tgVars,
                   reVars, exVars, asVars>>

MCNext ==
  \/ BstAlone /\ BstNext
  \/ HtAlone /\ HtNext
  \/ LruAlone /\ LruNext
  \/ TsAlone /\ TsNext
  \/ MsAlone /\ MsNext
  \/ MdAlone /\ MdNext
  \/ RkAlone /\ RkNext
  \/ PqAlone /\ PqNext
  \/ MaAlone /\ MaNext
  \/ IoAlone /\ IoNext
  \/ BgAlone /\ BgNext
  \/ BsAlone /\ BsNext
  \/ SoAlone /\ SoNext
  \/ SeAlone /\ SeNext
  \/ LlAlone /\ LlNext
  \/ TgAlone /\ TgNext
  \/ ReAlone /\ ReNext
  \/ ExAlone /\ ExNext
  \/ AsAlone /\ AsNext
  \/ BnAlone /\ BnNext

IoInputs == <<1, 2, 3, 4, 5>>
NegKeys == {-1, 0, 3}
SignedVals == {-1, 0, 2}
AsNumbers == {-2, 0, 1, 3}
BgTyped == {<<1>>, <<1, 2>>, <<1, 2, 1>>, <<2, 1>>, <<2, 2>>}

MCSpec == MCInit /\ [][MCNext]_mcVars

\* The priority queue alone, for the run that checks PqServesMin.
PqOnly == (prog = "prio_queue" /\ MCInit) /\ [][MCNext]_mcVars

\* The searches alone, for DiagonalSearch.cfg, which checks DiagonalFinds.
SeOnly == (prog = "searching" /\ MCInit) /\ [][MCNext]_mcVars
----------------------------------------------------------------------------
\* Whatever was put in, each container answers as its abstract counterpart:
\* the table as a map, the stacks as stacks, the streams as the sorted list
\* of their numbers, the queue gives back what it was given, the cache forgets
\* what was used longest ago, and the dictionary of boggle_board knows the words
\* put in and the best of them on the board.
MCAnswers ==
  /\ HtAnswers /\ TsAnswers /\ MsAnswers /\ MdAnswers /\ RkAnswers
  /\ PqKeeps /\ LruSound /\ BgAnswers

\* The programs on arrays, strings, words and numbers sort, search, rearrange and
\* compute what the definitions of their problems say.
MCComputes ==
  /\ SoRight /\ SeFinds /\ SeComputesRight
  /\ AsArranged /\ AsFound /\ AsRead
  /\ BnWordsRight /\ BnNumbersRight

\* The programs that rewire pointers leave the lists, trees and graphs their
\* definitions ask for, and take every marker back, and every thread but those of a
\* comparison that ends early.
MCPointers == LlRight /\ TgRight

\* The recursive programs print, count and find what the definition of their
\* problem asks for, with every table and every way back.
MCRecursion == RePrints /\ ReCounts /\ ReFinds /\ ExMeans
=============================================================================
