----------------------------- MODULE ThreadOrder -----------------------------
(* Programs that force an order: two whose threads take two locks each,    *)
(* the lower one first, and two whose semaphores order their threads.      *)
EXTENDS Posix, Sequences
----------------------------------------------------------------------------
(* threads/philosophers_dinner/solution.c: philosopher i eats once, with   *)
(* forks i and i+1 (mod forks_sz), and picks the lower numbered fork up    *)
(* first.                                                                  *)
VARIABLES
  phForks,  \* forks[]: the philosophers holding each fork
  phPc      \* where each philosopher_thread() is

phVars == <<phForks, phPc>>

Phils == 0..(Forks - 1)

PhMin(a, b) == IF a < b THEN a ELSE b
PhMax(a, b) == IF a > b THEN a ELSE b
PhRight(i) == i
PhLeft(i) == (i + 1) % Forks

\* The naive protocol: everybody picks the right fork up first.
PhFirstRight(i) == PhRight(i)
PhFirst(i) == PhMin(PhRight(i), PhLeft(i))
PhSecond(i) == PhMax(PhRight(i), PhLeft(i))

PhInit ==
  /\ phForks = [f \in Phils |-> {}]
  /\ phPc = [i \in Phils |-> "uncreated"]

PhGoto(i, label) == phPc' = [phPc EXCEPT ![i] = label]

\* main() creates the philosophers in order and ignores what
\* pthread_create(3) returns.
PhCreate(i) ==
  /\ phPc[i] = "uncreated"
  /\ \A j \in Phils : j < i => phPc[j] # "uncreated"
  /\ \/ PhGoto(i, "hungry")
     \/ PhGoto(i, "failed")
  /\ UNCHANGED phForks

PhPickFirst(i) ==
  /\ phPc[i] = "hungry"
  /\ phForks[PhFirst(i)] = {}
  /\ phForks' = [phForks EXCEPT ![PhFirst(i)] = {i}]
  /\ PhGoto(i, "one")

PhPickSecond(i) ==
  /\ phPc[i] = "one"
  /\ phForks[PhSecond(i)] = {}
  /\ phForks' = [phForks EXCEPT ![PhSecond(i)] = {i}]
  /\ PhGoto(i, "eating")

\* "Eating... Done!", then the second fork is put down, then the first.
PhDropSecond(i) ==
  /\ phPc[i] = "eating"
  /\ phForks' = [phForks EXCEPT ![PhSecond(i)] = {}]
  /\ PhGoto(i, "leaving")

PhDropFirst(i) ==
  /\ phPc[i] = "leaving"
  /\ phForks' = [phForks EXCEPT ![PhFirst(i)] = {}]
  /\ PhGoto(i, "done")

PhStep(i) ==
  PhPickFirst(i) \/ PhPickSecond(i) \/ PhDropSecond(i) \/ PhDropFirst(i)

PhNext == \E i \in Phils : PhCreate(i) \/ PhStep(i)

PhSpec == PhInit /\ [][PhNext]_phVars
----------------------------------------------------------------------------
PhLabels == {"uncreated", "failed", "hungry", "one", "eating", "leaving", "done"}

PhTypeOK ==
  /\ phForks \in [Phils -> SUBSET Phils]
  /\ phPc \in [Phils -> PhLabels]

\* The philosophers that are in the middle of philosopher_thread().
PhBusy == {i \in Phils : phPc[i] \in {"hungry", "one", "eating", "leaving"}}

\* "free of deadlocks": while somebody is busy, somebody busy is not blocked
\* in pthread_mutex_lock(3).
PhNoDeadlock ==
  PhBusy # {} =>
    \E i \in PhBusy :
      /\ phPc[i] = "hungry" => phForks[PhFirst(i)] = {}
      /\ phPc[i] = "one" => phForks[PhSecond(i)] = {}

\* "ensures that every philosopher will eventually eat".
PhAllEat == \A i \in Phils : phPc[i] = "hungry" ~> phPc[i] = "done"
----------------------------------------------------------------------------
(* threads/copy_buffers/solution.c: copy_buf(dest_idx, src_idx) copies a   *)
(* buffer under the locks of both, the lower index locked first.  The      *)
(* threads call it with any two indices; memcpy(3) copies one word at a    *)
(* time, so a copy is seen half done by whoever does not hold the lock.    *)
VARIABLES
  cbBufs,   \* bufs[]: the words of each buffer
  cbLocks,  \* buf_locks[]: the threads holding each lock
  cbPc,     \* where each thread is in copy_buf()
  cbArg,    \* <<dest_idx, src_idx>> of each thread's call
  cbWord,   \* the words memcpy(3) has copied, per thread
  cbCalls   \* the calls each thread has made

cbVars == <<cbBufs, cbLocks, cbPc, cbArg, cbWord, cbCalls>>

BufIdx == 0..(Bufs - 1)

\* Buffer b starts with its own contents, here the number b in every word.
CbInit ==
  /\ cbBufs = [b \in BufIdx |-> [k \in 1..BufWords |-> b]]
  /\ cbLocks = [b \in BufIdx |-> {}]
  /\ cbPc = [t \in Workers |-> "idle"]
  /\ cbArg = [t \in Workers |-> <<0, 0>>]
  /\ cbWord = [t \in Workers |-> 0]
  /\ cbCalls = [t \in Workers |-> 0]

CbGoto(t, label) == cbPc' = [cbPc EXCEPT ![t] = label]

CbDest(t) == cbArg[t][1]
CbSrc(t) == cbArg[t][2]

\* Locking the destination first, whichever index is lower.
CbFirstDest(t) == CbDest(t)
CbFirst(t) == IF CbDest(t) < CbSrc(t) THEN CbDest(t) ELSE CbSrc(t)
CbSecond(t) == IF CbFirst(t) = CbDest(t) THEN CbSrc(t) ELSE CbDest(t)

\* copy_buf(d, s) is called; a buffer copied onto itself returns at once.
CbCall(t, d, s) ==
  /\ cbPc[t] = "idle"
  /\ cbCalls[t] < MaxCalls
  /\ cbCalls' = [cbCalls EXCEPT ![t] = @ + 1]
  /\ IF d = s
     THEN UNCHANGED <<cbPc, cbArg>>
     ELSE CbGoto(t, "first") /\ cbArg' = [cbArg EXCEPT ![t] = <<d, s>>]
  /\ UNCHANGED <<cbBufs, cbLocks, cbWord>>

CbLockFirst(t) ==
  /\ cbPc[t] = "first"
  /\ cbLocks[CbFirst(t)] = {}
  /\ cbLocks' = [cbLocks EXCEPT ![CbFirst(t)] = {t}]
  /\ CbGoto(t, "second")
  /\ UNCHANGED <<cbBufs, cbArg, cbWord, cbCalls>>

\* A copy that locks only one of the two buffers.
CbLockSecondNone(t) ==
  /\ cbPc[t] = "second"
  /\ CbGoto(t, "copy")
  /\ UNCHANGED <<cbBufs, cbLocks, cbArg, cbWord, cbCalls>>

CbLockSecond(t) ==
  /\ cbPc[t] = "second"
  /\ cbLocks[CbSecond(t)] = {}
  /\ cbLocks' = [cbLocks EXCEPT ![CbSecond(t)] = {t}]
  /\ CbGoto(t, "copy")
  /\ UNCHANGED <<cbBufs, cbArg, cbWord, cbCalls>>

\* A copy that goes on behind the end of the buffer.
CbCopyNoReset(t) ==
  /\ cbPc[t] = "copy"
  /\ cbWord' = [cbWord EXCEPT ![t] = @ + 1]
  /\ CbGoto(t, IF cbWord[t] = BufWords THEN "unlock" ELSE "copy")
  /\ UNCHANGED <<cbBufs, cbLocks, cbArg, cbCalls>>

\* memcpy(bufs[dest_idx], bufs[src_idx], BUF_SIZE): the next word.
CbCopy(t) ==
  /\ cbPc[t] = "copy"
  /\ LET k == cbWord[t] + 1 IN
       /\ cbBufs' = [cbBufs EXCEPT ![CbDest(t)][k] = cbBufs[CbSrc(t)][k]]
       /\ cbWord' = [cbWord EXCEPT ![t] = k % BufWords]
       /\ CbGoto(t, IF k = BufWords THEN "unlock" ELSE "copy")
  /\ UNCHANGED <<cbLocks, cbArg, cbCalls>>

\* The second lock is released, then the first.
CbUnlockSecond(t) ==
  /\ cbPc[t] = "unlock"
  /\ cbLocks' = [cbLocks EXCEPT ![CbSecond(t)] = {}]
  /\ CbGoto(t, "unlock1")
  /\ UNCHANGED <<cbBufs, cbArg, cbWord, cbCalls>>

CbUnlockFirst(t) ==
  /\ cbPc[t] = "unlock1"
  /\ cbLocks' = [cbLocks EXCEPT ![CbFirst(t)] = {}]
  /\ cbArg' = [cbArg EXCEPT ![t] = <<0, 0>>]
  /\ CbGoto(t, "idle")
  /\ UNCHANGED <<cbBufs, cbWord, cbCalls>>

CbStep(t) ==
  \/ CbLockFirst(t) \/ CbLockSecond(t) \/ CbCopy(t)
  \/ CbUnlockSecond(t) \/ CbUnlockFirst(t)

CbNext ==
  \E t \in Workers :
    \/ \E d, s \in BufIdx : CbCall(t, d, s)
    \/ CbStep(t)

CbSpec == CbInit /\ [][CbNext]_cbVars
----------------------------------------------------------------------------
CbTypeOK ==
  /\ cbBufs \in [BufIdx -> [1..BufWords -> BufIdx]]
  /\ cbLocks \in [BufIdx -> SUBSET Workers]
  /\ cbPc \in [Workers -> {"idle", "first", "second", "copy", "unlock", "unlock1"}]
  /\ cbArg \in [Workers -> BufIdx \X BufIdx]
  /\ cbWord \in [Workers -> 0..(BufWords - 1)]
  /\ cbCalls \in [Workers -> 0..MaxCalls]

\* "Make it work safely in a multithreaded program": a buffer nobody is
\* working on holds one whole buffer, never a mixture of two.
CbUntorn ==
  \A b \in BufIdx : cbLocks[b] = {} =>
    \A j, k \in 1..BufWords : cbBufs[b][j] = cbBufs[b][k]

\* Every call returns: the lock order leaves no circle of waiting threads.
CbReturns == \A t \in Workers : cbPc[t] = "first" ~> cbPc[t] = "idle"
----------------------------------------------------------------------------
(* threads/order_prints/solution.c: three threads print '1', '2' and '3'   *)
(* forever; thread i waits for semaphore i and posts the next one.         *)

VARIABLES
  opSem,   \* semaphores[], numbered from 1 like the threads
  opMain,  \* where main() is
  opPc,    \* where each thread is
  opOut    \* the characters printed

opVars == <<opSem, opMain, opPc, opOut>>

OpThreads == 1..3

OpInit ==
  /\ opSem = [i \in OpThreads |-> 0]
  /\ opMain = "init"
  /\ opPc = [i \in OpThreads |-> "uncreated"]
  /\ opOut = <<>>

OpGoto(i, label) == opPc' = [opPc EXCEPT ![i] = label]

\* main() that waits for one semaphore only.
OpSetupTwoOpen ==
  /\ opMain = "init"
  /\ opMain' = "creating"
  /\ opSem' = <<1, 0, 1>>
  /\ UNCHANGED <<opPc, opOut>>

\* main(): every semaphore starts at 1 and the last two are waited for; when
\* sem_init(3) fails the ones initialised are destroyed and main() returns 128.
OpSetup ==
  /\ opMain = "init"
  /\ \/ opMain' = "creating" /\ opSem' = <<1, 0, 0>>
     \/ opMain' = "exited" /\ UNCHANGED opSem
  /\ UNCHANGED <<opPc, opOut>>

\* main() creates the threads in order; they run from then on.  A failure
\* cancels them and main() returns 129.
OpCreate(i) ==
  /\ opMain = "creating"
  /\ opPc[i] = "uncreated"
  /\ \A j \in OpThreads : j < i => opPc[j] # "uncreated"
  /\ \/ OpGoto(i, "wait") /\ opMain' = IF i = 3 THEN "joining" ELSE opMain
     \/ opMain' = "exited" /\ UNCHANGED opPc
  /\ UNCHANGED <<opSem, opOut>>

OpWait(i) ==
  /\ opMain # "exited" /\ opPc[i] = "wait"
  /\ opSem[i] > 0
  /\ opSem' = [opSem EXCEPT ![i] = @ - 1]
  /\ OpGoto(i, "print")
  /\ UNCHANGED <<opMain, opOut>>

OpPrint(i) ==
  /\ opMain # "exited" /\ opPc[i] = "print"
  /\ Len(opOut) < MaxPrints
  /\ opOut' = Append(opOut, i)
  /\ OpGoto(i, "post")
  /\ UNCHANGED <<opSem, opMain>>

OpPost(i) ==
  /\ opMain # "exited" /\ opPc[i] = "post"
  /\ opSem' = [opSem EXCEPT ![(i % 3) + 1] = @ + 1]
  /\ OpGoto(i, "wait")
  /\ UNCHANGED <<opMain, opOut>>

OpThread(i) == OpWait(i) \/ OpPrint(i) \/ OpPost(i)

OpNext == OpSetup \/ \E i \in OpThreads : OpCreate(i) \/ OpThread(i)

OpSpec == OpInit /\ [][OpNext]_opVars
----------------------------------------------------------------------------
\* Each semaphore holds at most the one permission that goes round.
OpTypeOK ==
  /\ opSem \in [OpThreads -> 0..1]
  /\ opMain \in {"init", "creating", "joining", "exited"}
  /\ opPc \in [OpThreads -> {"uncreated", "wait", "print", "post"}]
  /\ opOut \in Seq(OpThreads)

\* "force the output sequence to be '1' '2' '3' '1' '2' '3' ...".
OpOrder == \A k \in DOMAIN opOut : opOut[k] = ((k - 1) % 3) + 1

\* Once the three threads exist the output never stops.
OpGoesOn == opMain = "joining" ~> Len(opOut) = MaxPrints

-----------------------------------------------------------------------------
(* threads/order_function_calls/solution.cpp: the methods first(),         *)
(* second() and third() of one Foo object, called by three threads, run in *)
(* that order whatever the order the threads are scheduled in.             *)

VARIABLES
  ocSem,   \* semaphores[0] and semaphores[1], numbered 1 and 2 here
  ocMain,  \* where main() is
  ocPc,    \* where each thread is: "call", "body", "post", "post2", "done"
  ocRan    \* the methods that ran, in order

ocVars == <<ocSem, ocMain, ocPc, ocRan>>

Methods == 1..3

OcInit ==
  /\ ocSem = <<0, 0>>
  /\ ocMain = "construct"
  /\ ocPc = [m \in Methods |-> "uncreated"]
  /\ ocRan = <<>>

OcGoto(m, label) == ocPc' = [ocPc EXCEPT ![m] = label]

\* Foo::Foo(): each semaphore is initialised to 1 and waited for, which leaves
\* it at 0.  A failing sem_init(3) throws, out of main().
OcConstruct ==
  /\ ocMain = "construct"
  /\ ocMain' \in {"creating", "terminated"}
  /\ UNCHANGED <<ocSem, ocPc, ocRan>>

\* main() starts the threads in order; std::thread throws when it cannot.
OcCreate(m) ==
  /\ ocMain = "creating"
  /\ ocPc[m] = "uncreated"
  /\ \A n \in Methods : n < m => ocPc[n] # "uncreated"
  /\ \/ OcGoto(m, "call") /\ ocMain' = IF m = 3 THEN "joining" ELSE ocMain
     \/ ocMain' = "terminated" /\ UNCHANGED ocPc
  /\ UNCHANGED <<ocSem, ocRan>>

\* second() waits for semaphores[0], third() for semaphores[1], first() for
\* nothing.
OcCall(m) ==
  /\ ocMain # "terminated" /\ ocPc[m] = "call"
  /\ IF m = 1
     THEN UNCHANGED ocSem
     ELSE ocSem[m - 1] > 0 /\ ocSem' = [ocSem EXCEPT ![m - 1] = @ - 1]
  /\ OcGoto(m, "body")
  /\ UNCHANGED <<ocMain, ocRan>>

OcBody(m) ==
  /\ ocMain # "terminated" /\ ocPc[m] = "body"
  /\ ocRan' = Append(ocRan, m)
  /\ OcGoto(m, "post")
  /\ UNCHANGED <<ocSem, ocMain>>

\* first() posts semaphores[0]; second() gives semaphores[0] back and goes on
\* to post semaphores[1]; third() gives semaphores[1] back.
OcPost(m) ==
  /\ ocMain # "terminated" /\ ocPc[m] = "post"
  /\ ocSem' = [ocSem EXCEPT ![IF m = 3 THEN 2 ELSE 1] = @ + 1]
  /\ OcGoto(m, IF m = 2 THEN "post2" ELSE "done")
  /\ UNCHANGED <<ocMain, ocRan>>

OcPost2(m) ==
  /\ ocMain # "terminated" /\ ocPc[m] = "post2"
  /\ ocSem' = [ocSem EXCEPT ![2] = @ + 1]
  /\ OcGoto(m, "done")
  /\ UNCHANGED <<ocMain, ocRan>>

\* main() has joined the three threads; ~Foo() destroys the semaphores.
OcJoin ==
  /\ ocMain = "joining"
  /\ \A m \in Methods : ocPc[m] = "done"
  /\ ocMain' = "returned"
  /\ UNCHANGED <<ocSem, ocPc, ocRan>>

OcThread(m) == OcCall(m) \/ OcBody(m) \/ OcPost(m) \/ OcPost2(m)

OcNext ==
  \/ OcConstruct \/ OcJoin
  \/ \E m \in Methods : OcCreate(m) \/ OcThread(m)

OcSpec == OcInit /\ [][OcNext]_ocVars
----------------------------------------------------------------------------
\* No semaphore is posted twice without a wait in between.
OcTypeOK ==
  /\ ocSem \in [1..2 -> 0..1]
  /\ ocMain \in {"construct", "creating", "joining", "returned", "terminated"}
  /\ ocPc \in [Methods -> {"uncreated", "call", "body", "post", "post2", "done"}]
  /\ ocRan \in Seq(Methods)

\* "ensure that first is called before second and second is called before
\* third": the methods that ran are a prefix of <<1, 2, 3>>.
OcOrder == \A k \in DOMAIN ocRan : ocRan[k] = k

\* Unless creation fails, all three run and main() returns.
OcReturns == ocMain = "joining" ~> ocMain = "returned"
=============================================================================
