--------------------------- MODULE SharedCounters ---------------------------
(* Processes that take turns on a counter in shared memory, by signals and *)
(* by a named semaphore.                                                   *)
EXTENDS ForkSync

(* anon_mmap/anon_mmap.c: a parent and a child increment a counter in      *)
(* shared memory in turns, synchronised by SIGUSR1.  The increment is a    *)
(* load and a store.                                                       *)

CONSTANT Loops   \* NLOOPS

ASSUME LoopsAssumption == Loops \in Nat

VARIABLES
  amCounter,  \* *counter
  amLoad,     \* the value each process loaded
  amPc,       \* where each process is
  amI,        \* i of each process
  amOut,      \* the values printed, with who printed them
  amFlag,     \* sig_flag
  amPend      \* the processes with SIGUSR1 pending

amVars == <<amCounter, amLoad, amPc, amI, amOut, amFlag, amPend>>

AmProcs == {"parent", "child"}
AmOther(p) == IF p = "parent" THEN "child" ELSE "parent"

AmInit ==
  /\ amCounter = 0
  /\ amLoad = [p \in AmProcs |-> 0]
  /\ amPc = [p \in AmProcs |-> IF p = "parent" THEN "start" ELSE "unborn"]
  /\ amI = [p \in AmProcs |-> 0]
  /\ amOut = <<>>
  /\ amFlag = [p \in AmProcs |-> 0]
  /\ amPend = {}

AmGoto(p, label) == amPc' = [amPc EXCEPT ![p] = label]

\* The body of each loop starts with update() in the child and with
\* WAIT_NOTIFY() in the parent; past the last iteration the process returns.
AmBody(p, i) ==
  IF i = Loops THEN "done" ELSE IF p = "child" THEN "load" ELSE "wait"

\* mmap(2), NOTIFY_INIT() and fork(2), of which the calls may fail.
AmFork ==
  /\ amPc["parent"] = "start"
  /\ \/ amPc' = [p \in AmProcs |-> AmBody(p, 0)]
     \/ AmGoto("parent", "done")
  /\ UNCHANGED <<amCounter, amLoad, amI, amOut, amFlag, amPend>>

\* update(): increment the counter.
AmRead(p) ==
  /\ amPc[p] = "load"
  /\ amLoad' = [amLoad EXCEPT ![p] = amCounter]
  /\ AmGoto(p, "store")
  /\ UNCHANGED <<amCounter, amI, amOut, amFlag, amPend>>

AmStore(p) ==
  /\ amPc[p] = "store"
  /\ amCounter' = amLoad[p] + 1
  /\ AmGoto(p, "print")
  /\ UNCHANGED <<amLoad, amI, amOut, amFlag, amPend>>

\* printf(..., *counter).
AmPrint(p) ==
  /\ amPc[p] = "print"
  /\ amOut' = Append(amOut, <<p, amCounter>>)
  /\ AmGoto(p, "notify")
  /\ UNCHANGED <<amCounter, amLoad, amI, amFlag, amPend>>

\* NOTIFY(): the end of the parent's iteration, the middle of the child's.
AmNotify(p) ==
  /\ amPc[p] = "notify"
  /\ Notify(amPend, AmOther(p))
  /\ IF p = "child"
     THEN AmGoto(p, "wait") /\ UNCHANGED amI
     ELSE /\ amI' = [amI EXCEPT ![p] = @ + 1]
          /\ AmGoto(p, AmBody(p, amI[p] + 1))
  /\ UNCHANGED <<amCounter, amLoad, amOut, amFlag>>

\* WAIT_NOTIFY(): the start of the parent's iteration, the end of the child's.
AmWait(p) ==
  /\ amPc[p] = "wait"
  /\ \/ WaitDeliver(amFlag, amPend, p) /\ UNCHANGED <<amPc, amI>>
     \/ /\ WaitReturn(amFlag, p)
        /\ IF p = "parent"
           THEN AmGoto(p, "load") /\ UNCHANGED amI
           ELSE /\ amI' = [amI EXCEPT ![p] = @ + 1]
                /\ AmGoto(p, AmBody(p, amI[p] + 1))
        /\ UNCHANGED amPend
  /\ UNCHANGED <<amCounter, amLoad, amOut>>

AmStep(p) == AmRead(p) \/ AmStore(p) \/ AmPrint(p) \/ AmNotify(p) \/ AmWait(p)

AmNext == AmFork \/ \E p \in AmProcs : AmStep(p)

AmSpec == AmInit /\ [][AmNext]_amVars
----------------------------------------------------------------------------
\* No increment is lost and the two processes alternate: the k-th line printed
\* says k, the child's lines being the odd ones.
AmAlternate ==
  \A k \in 1..Len(amOut) :
    amOut[k] = <<IF k % 2 = 1 THEN "child" ELSE "parent", k>>

\* The signals, which are not queued, are never merged: both loops end.
AmStarted == amPc["child"] = "load"
AmDone == amPc = [p \in AmProcs |-> "done"] /\ amCounter = 2 * Loops
AmEnds == AmStarted ~> AmDone

-----------------------------------------------------------------------------
(* shared_semaphores/named_semaphores: processes that take turns with a    *)
(* semaphore they find by its name: main() creates it, forks and execs two *)
(* children and removes the name when both have ended.  The program may be *)
(* started several times, one instance beside or after another.            *)

CONSTANTS
  Instances,  \* the times the named program is started
  Iters       \* ITERS

ASSUME InstancesAssumption == IsFiniteSet(Instances) /\ Iters \in Nat

VARIABLES
  ssName,   \* the semaphore behind SEM_NAME: {} or {count}
  ssMain,   \* where the main() of each instance is
  ssPc,     \* where each child of each instance is
  ssI       \* i of each child

ssVars == <<ssName, ssMain, ssPc, ssI>>

SsKids == Instances \X {1, 2}

SsInit ==
  /\ ssName = {}
  /\ ssMain = [n \in Instances |-> "create"]
  /\ ssPc = [c \in SsKids |-> "unborn"]
  /\ ssI = [c \in SsKids |-> 0]

SsGoto(c, label) == ssPc' = [ssPc EXCEPT ![c] = label]
SsMainGoto(n, label) == ssMain' = [ssMain EXCEPT ![n] = label]

\* sem_open(O_CREAT | O_EXCL, 1), which fails while the name exists, and
\* sem_close(3), after whose failure the name is removed again.
SsCreate(n) ==
  /\ ssMain[n] = "create"
  /\ \/ ssName = {} /\ ssName' = {1} /\ SsMainGoto(n, "fork1")
     \/ SsMainGoto(n, "exited") /\ UNCHANGED ssName
  /\ UNCHANGED <<ssPc, ssI>>

\* fork(2) and execl(3) of a child.  When fork fails main() exits and leaves
\* the name behind; when execl fails the child exits.
SsFork(n) ==
  \E k \in {1, 2} :
    /\ ssMain[n] = (IF k = 1 THEN "fork1" ELSE "fork2")
    /\ \/ /\ ssPc' \in {[ssPc EXCEPT ![<<n, k>>] = l] : l \in {"open", "exited"}}
          /\ SsMainGoto(n, IF k = 1 THEN "fork2" ELSE "reap")
       \/ SsMainGoto(n, "left name") /\ UNCHANGED ssPc
    /\ UNCHANGED <<ssName, ssI>>

\* waitpid(2) for both children, then sem_unlink(3).
SsReap(n) ==
  /\ ssMain[n] = "reap"
  /\ \A k \in {1, 2} : ssPc[<<n, k>>] \in {"exited", "lost"}
  /\ ssName' = {}
  /\ SsMainGoto(n, "exited")
  /\ UNCHANGED <<ssPc, ssI>>

\* The child: sem_open(SEM_NAME) of a semaphore that must exist.
SsOpen(c) ==
  /\ ssPc[c] = "open"
  /\ SsGoto(c, IF ssName = {} THEN "lost" ELSE "wait")
  /\ UNCHANGED <<ssName, ssMain, ssI>>

\* sem_wait(3), then "acquired semaphore"; when it fails (a signal) the
\* iteration is over.
SsWait(c) ==
  /\ ssPc[c] = "wait"
  /\ ssI[c] < Iters
  /\ \/ /\ \E v \in ssName : v > 0 /\ ssName' = {v - 1}
        /\ SsGoto(c, "inside")
        /\ UNCHANGED ssI
     \/ /\ ssI' = [ssI EXCEPT ![c] = @ + 1]
        /\ UNCHANGED <<ssName, ssPc>>
  /\ UNCHANGED ssMain

\* sem_post(3), then sleep(1).
SsPost(c) ==
  /\ ssPc[c] = "inside"
  /\ ssName' = {v + 1 : v \in ssName}
  /\ ssI' = [ssI EXCEPT ![c] = @ + 1]
  /\ SsGoto(c, "wait")
  /\ UNCHANGED ssMain

\* sem_close(3) and return.
SsClose(c) ==
  /\ ssPc[c] = "wait"
  /\ ssI[c] = Iters
  /\ SsGoto(c, "exited")
  /\ UNCHANGED <<ssName, ssMain, ssI>>

SsNext ==
  \/ \E n \in Instances : SsCreate(n) \/ SsFork(n) \/ SsReap(n)
  \/ \E c \in SsKids : SsOpen(c) \/ SsWait(c) \/ SsPost(c) \/ SsClose(c)

SsSpec == SsInit /\ [][SsNext]_ssVars
----------------------------------------------------------------------------
\* O_EXCL and waiting before sem_unlink(3) keep instances apart: no child finds
\* the name gone, at most one child at a time is between sem_wait(3) and
\* sem_post(3), and the name goes away with the instance that made it unless
\* that one could not fork.
SsSafe ==
  /\ \A c \in SsKids : ssPc[c] # "lost"
  /\ Cardinality({c \in SsKids : ssPc[c] = "inside"}) <= 1
  /\ ssName # {} =>
       Cardinality({n \in Instances : ssMain[n] \notin {"create", "exited"}}) = 1
=============================================================================
