----------------------------- MODULE ForkThreads -----------------------------
(* fork(2) together with threads, signals and mutexes: fhandlers.c of      *)
(* forkhandlers, ssignals.c of synchronous_signals, shared_list.c of       *)
(* shared_list.                                                            *)
EXTENDS Posix

CONSTANTS
  FhRounds,  \* bound: rounds of thread_fn() of fhandlers.c
  SwSends    \* bound: signals sent to ssignals.c, and wake-ups nobody asked for

ASSUME ForkThreadsAssumption == FhRounds \in Nat /\ SwSends \in Nat
----------------------------------------------------------------------------
(* fhandlers.c.  The memory of the process: two mutexes and two counters.   *)
(* An increment under way is the half between its load and its store.       *)
VARIABLES
  fhLock1, fhLock2,  \* lock1 and lock2
  fhMem,             \* counter and counter2, and whether an increment is under way
  fhMain,            \* where main() is
  fhThread,          \* where thread_fn() is
  fhCopy,            \* the child: its memory, locks and where it is
  fhKey              \* TRUE once the user pressed return

fhVars == <<fhLock1, fhLock2, fhMem, fhMain, fhThread, fhCopy, fhKey>>

NoCopy == [pc |-> "none", lock1 |-> {}, lock2 |-> {}, mem |-> [c1 |-> 0, c2 |-> 0, busy |-> FALSE]]

FhInit ==
  /\ fhLock1 = {} /\ fhLock2 = {}
  /\ fhMem = [c1 |-> 0, c2 |-> 0, busy |-> FALSE]
  /\ fhMain = "getchar" /\ fhThread = "lock1" /\ fhCopy = NoCopy /\ fhKey = FALSE

\* The process exists until main() returns or exit(3) is called.
FhAlive == fhMain # "exit"

\* thread_fn(): counter under lock1, then counter2 under lock2, for ever.
FhThreadStep ==
  /\ FhAlive
  /\ \/ /\ fhThread = "lock1" /\ fhMem.c1 < FhRounds
        /\ MutexLock(fhLock1, "thread") /\ fhThread' = "load1" /\ UNCHANGED <<fhLock2, fhMem>>
     \/ /\ fhThread = "load1" /\ fhThread' = "store1"
        /\ fhMem' = [fhMem EXCEPT !.busy = TRUE] /\ UNCHANGED <<fhLock1, fhLock2>>
     \/ /\ fhThread = "store1" /\ fhThread' = "unlock1"
        /\ fhMem' = [fhMem EXCEPT !.c1 = @ + 1, !.busy = FALSE]
        /\ UNCHANGED <<fhLock1, fhLock2>>
     \/ /\ fhThread = "unlock1" /\ MutexUnlock(fhLock1, "thread")
        /\ fhThread' = "lock2" /\ UNCHANGED <<fhLock2, fhMem>>
     \/ /\ fhThread = "lock2" /\ MutexLock(fhLock2, "thread")
        /\ fhThread' = "load2" /\ UNCHANGED <<fhLock1, fhMem>>
     \/ /\ fhThread = "load2" /\ fhThread' = "store2"
        /\ fhMem' = [fhMem EXCEPT !.busy = TRUE] /\ UNCHANGED <<fhLock1, fhLock2>>
     \/ /\ fhThread = "store2" /\ fhThread' = "unlock2"
        /\ fhMem' = [fhMem EXCEPT !.c2 = @ + 1, !.busy = FALSE]
        /\ UNCHANGED <<fhLock1, fhLock2>>
     \/ /\ fhThread = "unlock2" /\ MutexUnlock(fhLock2, "thread")
        /\ fhThread' = "lock1" /\ UNCHANGED <<fhLock1, fhMem>>
  /\ UNCHANGED <<fhMain, fhCopy, fhKey>>

FhPress ==
  /\ ~fhKey /\ fhKey' = TRUE
  /\ UNCHANGED <<fhLock1, fhLock2, fhMem, fhMain, fhThread, fhCopy>>

\* prepare_handler() that takes the first lock only.
PrepareHandlerOne ==
  /\ \/ /\ fhMain = "getchar" /\ fhKey /\ fhMain' = "prepare1" /\ UNCHANGED fhLock1
     \/ /\ fhMain = "prepare1" /\ MutexLock(fhLock1, "main") /\ fhMain' = "fork"
  /\ UNCHANGED <<fhLock2, fhMem, fhThread, fhCopy, fhKey>>

\* prepare_handler(): called by fork(2) before the child exists.
PrepareHandler ==
  /\ \/ /\ fhMain = "getchar" /\ fhKey /\ fhMain' = "prepare1" /\ UNCHANGED <<fhLock1, fhLock2>>
     \/ /\ fhMain = "prepare1" /\ MutexLock(fhLock1, "main")
        /\ fhMain' = "prepare2" /\ UNCHANGED fhLock2
     \/ /\ fhMain = "prepare2" /\ MutexLock(fhLock2, "main")
        /\ fhMain' = "fork" /\ UNCHANGED fhLock1
  /\ UNCHANGED <<fhMem, fhThread, fhCopy, fhKey>>

\* fork(2) copies the memory as it is; the copy has the calling thread only.  When it
\* fails the parent's handler runs too, and main() exits.
FhFork ==
  /\ fhMain = "fork" /\ fhMain' = "parent2"
  /\ \/ fhCopy' = [pc |-> "child2", lock1 |-> fhLock1, lock2 |-> fhLock2, mem |-> fhMem]
     \/ UNCHANGED fhCopy
  /\ UNCHANGED <<fhLock1, fhLock2, fhMem, fhThread, fhKey>>

\* parent_handler(), and wait(2) until the child has left.
ParentHandler ==
  /\ \/ /\ fhMain = "parent2" /\ MutexUnlock(fhLock2, "main")
        /\ fhMain' = "parent1" /\ UNCHANGED fhLock1
     \/ /\ fhMain = "parent1" /\ MutexUnlock(fhLock1, "main")
        /\ fhMain' = "wait" /\ UNCHANGED fhLock2
     \/ /\ fhMain = "wait" /\ fhCopy.pc \in {"none", "exit"}
        /\ fhMain' = "exit" /\ UNCHANGED <<fhLock1, fhLock2>>
  /\ UNCHANGED <<fhMem, fhThread, fhCopy, fhKey>>

\* child_handler() in the child's own copy of the locks, and exit(3).
ChildHandler ==
  /\ \/ fhCopy.pc = "child2"
        /\ fhCopy' = [fhCopy EXCEPT !.pc = "child1", !.lock2 = @ \ {"main"}]
     \/ fhCopy.pc = "child1"
        /\ fhCopy' = [fhCopy EXCEPT !.pc = "leaving", !.lock1 = @ \ {"main"}]
     \/ fhCopy.pc = "leaving" /\ fhCopy' = [fhCopy EXCEPT !.pc = "exit"]
  /\ UNCHANGED <<fhLock1, fhLock2, fhMem, fhMain, fhThread, fhKey>>

FhMainStep == PrepareHandler \/ FhFork \/ ParentHandler
FhNext == FhThreadStep \/ FhPress \/ FhMainStep \/ ChildHandler

FhSpec == FhInit /\ [][FhNext]_fhVars

\* The memory of the process and that of its copy.
FhTypeOK ==
  LET mems == [c1 : Nat, c2 : Nat, busy : BOOLEAN]
      holders == SUBSET {"main", "thread"}
  IN  /\ fhLock1 \in holders /\ fhLock2 \in holders /\ fhMem \in mems
      /\ fhMain \in {"getchar", "prepare1", "prepare2", "fork", "parent2", "parent1",
                     "wait", "exit"}
      /\ fhThread \in {"lock1", "load1", "store1", "unlock1",
                       "lock2", "load2", "store2", "unlock2"}
      /\ fhCopy \in [pc : {"none", "child2", "child1", "leaving", "exit"},
                     lock1 : holders, lock2 : holders, mem : mems]
      /\ fhKey \in BOOLEAN

\* The child does not find "locks acquired by threads that do not exist", nor data
\* that a thread left in the middle of an update: whatever the thread was doing when
\* fork(2) was called, once the child's handler has run both locks are free and
\* the two counters are those between two increments.
FhConsistent ==
  fhCopy.pc \in {"leaving", "exit"} =>
    /\ fhCopy.lock1 = {} /\ fhCopy.lock2 = {}
    /\ ~fhCopy.mem.busy /\ fhCopy.mem.c1 - fhCopy.mem.c2 \in {0, 1}

\* Once the user presses return both processes leave: the handlers never wait for
\* the thread while it waits for them.  (FhRounds keeps the thread from taking a mutex
\* again and again before main() gets it, which POSIX does not exclude.)
FhEnds == fhKey ~> (fhMain = "exit" /\ fhCopy.pc \in {"none", "exit"})
----------------------------------------------------------------------------
(* ssignals.c.  All signals are blocked in both threads; one waits for them. *)
VARIABLES
  swPend,   \* the pending signals
  swFlag,   \* flag
  swLock,   \* cond_lock
  swCond,   \* the threads asleep on cond
  swMain,   \* where main() is
  swThread, \* where thread_fn() is
  swSent    \* signals sent and spurious wake-ups

swVars == <<swPend, swFlag, swLock, swCond, swMain, swThread, swSent>>

SwInit ==
  /\ swPend = {} /\ swFlag = 0 /\ swLock = {} /\ swCond = {}
  /\ swMain = "sigmask" /\ swThread = "none" /\ swSent = 0

\* A signal before pthread_sigmask(3) has its default action and ends the process.
SwSend ==
  /\ swMain \notin {"exit", "killed"} /\ swSent < SwSends
  /\ swSent' = swSent + 1
  /\ IF swMain = "sigmask" THEN swMain' = "killed" /\ UNCHANGED swPend
     ELSE \E s \in {"QUIT", "TERM", "INT"} : swPend' = swPend \cup {s} /\ UNCHANGED swMain
  /\ UNCHANGED <<swFlag, swLock, swCond, swThread>>

\* main(): block, create the thread, wait for flag.  A pthread_create(3) that fails
\* returns a positive number, which passes for success: main() goes on without a thread.
SwMainStep ==
  /\ \/ /\ swMain = "sigmask" /\ swMain' = "create" /\ UNCHANGED <<swThread, swLock, swCond>>
     \/ /\ swMain = "create" /\ swMain' = "lock" /\ swThread' \in {"sigwait", "none"}
        /\ UNCHANGED <<swLock, swCond>>
     \/ /\ swMain = "lock" /\ MutexLock(swLock, "main") /\ swMain' = "test"
        /\ UNCHANGED <<swThread, swCond>>
     \/ /\ swMain = "test" /\ swFlag = 0 /\ swMain' = "relock"
        /\ MutexUnlock(swLock, "main") /\ swCond' = swCond \cup {"main"} /\ UNCHANGED swThread
     \/ /\ swMain = "relock" /\ "main" \notin swCond /\ MutexLock(swLock, "main")
        /\ swMain' = "test" /\ UNCHANGED <<swThread, swCond>>
     \/ /\ swMain = "test" /\ swFlag # 0 /\ swMain' = "exit"
        /\ MutexUnlock(swLock, "main") /\ UNCHANGED <<swThread, swCond>>
  /\ UNCHANGED <<swPend, swFlag, swSent>>

\* thread_fn(): sigwait(3) takes one pending signal; SIGTERM sets flag.
SwThreadStep ==
  /\ swMain # "exit"
  /\ \/ /\ swThread = "sigwait"
        /\ \E s \in swPend :
             /\ swPend' = swPend \ {s}
             /\ swThread' = IF s = "TERM" THEN "lock" ELSE "sigwait"
        /\ UNCHANGED <<swFlag, swLock, swCond>>
     \/ /\ swThread = "lock" /\ MutexLock(swLock, "thread") /\ swThread' = "set"
        /\ UNCHANGED <<swPend, swFlag, swCond>>
     \/ /\ swThread = "set" /\ swFlag' = 1 /\ swThread' = "unlock"
        /\ UNCHANGED <<swPend, swLock, swCond>>
     \/ /\ swThread = "unlock" /\ MutexUnlock(swLock, "thread") /\ swThread' = "signal"
        /\ UNCHANGED <<swPend, swFlag, swCond>>
     \/ /\ swThread = "signal" /\ CondSignal(swCond) /\ swThread' = "sigwait"
        /\ UNCHANGED <<swPend, swFlag, swLock>>
  /\ UNCHANGED <<swMain, swSent>>

SwSpurious ==
  /\ swSent < SwSends /\ swSent' = swSent + 1
  /\ CondSpurious(swCond, "main")
  /\ UNCHANGED <<swPend, swFlag, swLock, swMain, swThread>>

SwNext == SwSend \/ SwMainStep \/ SwThreadStep \/ SwSpurious

SwSpec == SwInit /\ [][SwNext]_swVars

\* One waiter at most, and only main() waits on cond.
SwTypeOK ==
  /\ swPend \subseteq {"QUIT", "TERM", "INT"}
  /\ swFlag \in {0, 1} /\ swLock \subseteq {"main", "thread"} /\ swCond \subseteq {"main"}
  /\ swMain \in {"sigmask", "create", "lock", "test", "relock", "exit", "killed"}
  /\ swThread \in {"none", "sigwait", "lock", "set", "unlock", "signal"}
  /\ swSent \in 0..SwSends

\* SIGTERM ends the program, although pthread_cond_signal(3) is called after the
\* mutex was released and main() may not be waiting yet.  Without the thread that waits
\* for signals, whose failed creation main() does not notice (line 82), nothing ends it.
SwQuits == (swThread # "none" /\ "TERM" \in swPend) ~> (swMain = "exit")
----------------------------------------------------------------------------
(* knowledge_based/linux_internals/shared_list/shared_list.c: processes    *)
(* that share, through an anonymous mapping, a linked list, the list of    *)
(* free nodes and the mutex that guards both.  Each child moves WORK_UNIT  *)
(* nodes from the free list to the list and then as many back.             *)
CONSTANTS
  Nodes,     \* the nodes of the mapping (MAX_LIST_SZ of them), as 1..n
  WorkUnit,  \* WORK_UNIT
  NIL        \* the null pointer

ASSUME NodesAssumption ==
  /\ Nodes \in Nat /\ WorkUnit \in Nat
  /\ NIL \notin 1..Nodes

VARIABLES
  slNext,  \* next of each node
  slList,  \* *list_head
  slFree,  \* *free_head
  slLock,  \* *mutex
  slPc,    \* where each process is
  slI,     \* the loop counter of each child
  slN      \* n of each child

slVars == <<slNext, slList, slFree, slLock, slPc, slI, slN>>

\* main(): the nodes are chained into the free list and the list is empty.
SlInit ==
  /\ slNext = [k \in 1..Nodes |-> IF k = Nodes THEN NIL ELSE k + 1]
  /\ slFree = IF Nodes = 0 THEN NIL ELSE 1
  /\ slList = NIL
  /\ slLock = {}
  /\ slPc = [p \in Workers \cup {Boss} |-> IF p = Boss THEN "fork" ELSE "unborn"]
  /\ slI = [p \in Workers |-> 0]
  /\ slN = [p \in Workers |-> NIL]

SlGoto(p, label) == slPc' = [slPc EXCEPT ![p] = label]

\* main(): fork(2) of the next child, or its failure, after which the parent
\* exits and the children born so far go on.
SlFork(p) ==
  /\ slPc[Boss] = "fork"
  /\ slPc[p] = "unborn"
  /\ \/ SlGoto(p, "push")
     \/ SlGoto(Boss, "exited")
  /\ UNCHANGED <<slNext, slList, slFree, slLock, slI, slN>>

\* do_work() that takes the free node before it locks.
SlPushLockLate(p) ==
  /\ slPc[p] = "push"
  /\ slI[p] < WorkUnit
  /\ slN' = [slN EXCEPT ![p] = slFree]
  /\ SlGoto(p, "pushed")
  /\ UNCHANGED <<slNext, slList, slFree, slLock, slI>>

\* do_work(), first loop: lock; n = *free_head.
SlPushLock(p) ==
  /\ slPc[p] = "push"
  /\ slI[p] < WorkUnit
  /\ MutexLock(slLock, p)
  /\ slN' = [slN EXCEPT ![p] = slFree]
  /\ SlGoto(p, "pushed")
  /\ UNCHANGED <<slNext, slList, slFree, slI>>

\* The node leaves the free list and heads the list; print_list(); unlock.
\* Without a free node: unlock and assert(0).
SlPush(p) ==
  /\ slPc[p] = "pushed"
  /\ IF slN[p] = NIL
     THEN SlGoto(p, "aborted") /\ UNCHANGED <<slNext, slList, slFree, slI>>
     ELSE /\ slFree' = slNext[slFree]
          /\ slNext' = [slNext EXCEPT ![slN[p]] = slList]
          /\ slList' = slN[p]
          /\ slI' = [slI EXCEPT ![p] = @ + 1]
          /\ SlGoto(p, "push")
  /\ MutexUnlock(slLock, p)
  /\ UNCHANGED slN

\* The first loop is over.
SlTurn(p) ==
  /\ slPc[p] = "push"
  /\ slI[p] = WorkUnit
  /\ slI' = [slI EXCEPT ![p] = 0]
  /\ SlGoto(p, "pop")
  /\ UNCHANGED <<slNext, slList, slFree, slLock, slN>>

\* Second loop: lock; n = *list_head.
SlPopLock(p) ==
  /\ slPc[p] = "pop"
  /\ slI[p] < WorkUnit
  /\ MutexLock(slLock, p)
  /\ slN' = [slN EXCEPT ![p] = slList]
  /\ SlGoto(p, "popped")
  /\ UNCHANGED <<slNext, slList, slFree, slI>>

\* The head of the list, whoever pushed it, goes back to the free list.  With
\* an empty list (*list_head)->next is a load through a null pointer.
SlPop(p) ==
  /\ slPc[p] = "popped"
  /\ IF slN[p] = NIL
     THEN SlGoto(p, "aborted") /\ UNCHANGED <<slNext, slList, slFree, slLock, slI>>
     ELSE /\ slList' = slNext[slList]
          /\ slNext' = [slNext EXCEPT ![slN[p]] = slFree]
          /\ slFree' = slN[p]
          /\ slI' = [slI EXCEPT ![p] = @ + 1]
          /\ MutexUnlock(slLock, p)
          /\ SlGoto(p, "pop")
  /\ UNCHANGED slN

\* do_work() is over and the child exits.
SlExit(p) ==
  /\ slPc[p] = "pop"
  /\ slI[p] = WorkUnit
  /\ SlGoto(p, "done")
  /\ UNCHANGED <<slNext, slList, slFree, slLock, slI, slN>>

\* main(): wait(2) has returned for every child; assert(*list_head == NULL).
SlWait ==
  /\ slPc[Boss] = "fork"
  /\ \A p \in Workers : slPc[p] \in {"done", "aborted"}
  /\ SlGoto(Boss, IF slList = NIL THEN "returned" ELSE "aborted")
  /\ UNCHANGED <<slNext, slList, slFree, slLock, slI, slN>>

SlChild(p) ==
  \/ SlPushLock(p) \/ SlPush(p) \/ SlTurn(p)
  \/ SlPopLock(p) \/ SlPop(p) \/ SlExit(p)

SlNextStep == SlWait \/ \E p \in Workers : SlFork(p) \/ SlChild(p)

SlSpec == SlInit /\ [][SlNextStep]_slVars
----------------------------------------------------------------------------
\* The pointers stay inside the mapping, and only children lock the mutex.
SlTypeOK ==
  /\ slNext \in [1..Nodes -> 1..Nodes \cup {NIL}]
  /\ slList \in 1..Nodes \cup {NIL} /\ slFree \in 1..Nodes \cup {NIL}
  /\ slLock \subseteq Workers
  /\ slPc \in [Workers \cup {Boss} ->
       {"unborn", "push", "pushed", "pop", "popped", "done", "aborted",
        "fork", "exited", "returned"}]
  /\ slI \in [Workers -> 0..WorkUnit]
  /\ slN \in [Workers -> 1..Nodes \cup {NIL}]

\* The nodes reachable from pointer h, following next at most Nodes times.
SlChain(h) ==
  LET step[k \in 0..Nodes] ==
        IF k = 0 THEN {h} \ {NIL}
        ELSE step[k - 1] \cup ({slNext[n] : n \in step[k - 1]} \ {NIL})
  IN  step[Nodes]

\* Whenever the mutex is free every node is on exactly one of the two lists,
\* and with room for every child's WORK_UNIT nodes neither assertion of the
\* program fails and no child finds the list empty.
SlSafe ==
  /\ slLock = {} =>
       /\ SlChain(slList) \cup SlChain(slFree) = 1..Nodes
       /\ SlChain(slList) \cap SlChain(slFree) = {}
  /\ Nodes >= WorkUnit * Cardinality(Workers) =>
       \A p \in Workers \cup {Boss} : slPc[p] # "aborted"
=============================================================================
