--------------------------- MODULE CondSemaphore ---------------------------
(* threads/semaphores/semaphore.c: a counting semaphore built from a       *)
(* mutex and a condition, and the program that drives it: threads that     *)
(* wait in a loop and a main thread that posts N times on command.         *)
EXTENDS Posix, Integers

VARIABLES
  csCounter,  \* sem->counter
  csCond,     \* sem->sem_cond: the threads asleep on it
  csLock,     \* sem->sem_lock
  csPc,       \* where each thread is
  csLeft,     \* posts left of the current "P n" command
  csPosts,    \* semaphore_post() increments so far
  csPassed    \* semaphore_wait() returns so far

csVars == <<csCounter, csCond, csLock, csPc, csLeft, csPosts, csPassed>>

csThreads == Workers \cup {Boss}

\* semaphore_init(&sem, 0); main() is about to create the threads.
CsInit ==
  /\ csCounter = 0
  /\ csCond = {}
  /\ csLock = {}
  /\ csPc = [t \in csThreads |-> IF t = Boss THEN "prompt" ELSE "uncreated"]
  /\ csLeft = 0
  /\ csPosts = 0
  /\ csPassed = 0

CsGoto(t, label) == csPc' = [csPc EXCEPT ![t] = label]

\* main(): pthread_create(3), whose failures pass the test "< 0".
CsCreate(t) ==
  /\ csPc[t] = "uncreated"
  /\ \/ CsGoto(t, "start")
     \/ CsGoto(t, "failed")
  /\ UNCHANGED <<csCounter, csCond, csLock, csLeft, csPosts, csPassed>>

\* main(): reads "P n" (MaxJobs bounds the posts of all commands together).
CsCommand(n) ==
  /\ csPc[Boss] = "prompt"
  /\ \A t \in Workers : csPc[t] # "uncreated"
  /\ csPosts + n <= MaxJobs
  /\ csLeft' = n
  /\ CsGoto(Boss, "loop")
  /\ UNCHANGED <<csCounter, csCond, csLock, csPosts, csPassed>>

\* main(): reads "Q" or end of file and joins the threads, which never end.
CsQuit ==
  /\ csPc[Boss] = "prompt"
  /\ \A t \in Workers : csPc[t] # "uncreated"
  /\ CsGoto(Boss, "joining")
  /\ UNCHANGED <<csCounter, csCond, csLock, csLeft, csPosts, csPassed>>

\* main(): the for loop over the n posts is over.
CsLoopEnd ==
  /\ csPc[Boss] = "loop"
  /\ csLeft = 0
  /\ CsGoto(Boss, "prompt")
  /\ UNCHANGED <<csCounter, csCond, csLock, csLeft, csPosts, csPassed>>

\* semaphore_post(): takes the mutex.
CsPostLock ==
  /\ csPc[Boss] = "loop"
  /\ csLeft > 0
  /\ MutexLock(csLock, Boss)
  /\ csLeft' = csLeft - 1
  /\ CsGoto(Boss, "inc")
  /\ UNCHANGED <<csCounter, csCond, csPosts, csPassed>>

\* semaphore_post(): counter++ and unlock.
CsPostInc ==
  /\ csPc[Boss] = "inc"
  /\ csCounter' = csCounter + 1
  /\ csPosts' = csPosts + 1
  /\ MutexUnlock(csLock, Boss)
  /\ CsGoto(Boss, "signal")
  /\ UNCHANGED <<csCond, csLeft, csPassed>>

\* semaphore_post(): pthread_cond_signal(3) after the unlock.
CsPostSignal ==
  /\ csPc[Boss] = "signal"
  /\ CondSignal(csCond)
  /\ CsGoto(Boss, "loop")
  /\ UNCHANGED <<csCounter, csLock, csLeft, csPosts, csPassed>>

\* semaphore_wait() with "if" for "while": a woken thread decrements at once.
CsWaitLockIf(t) ==
  /\ csPc[t] \in {"start", "asleep"}
  /\ t \notin csCond
  /\ MutexLock(csLock, t)
  /\ CsGoto(t, IF csPc[t] = "asleep" THEN "take" ELSE "check")
  /\ UNCHANGED <<csCounter, csCond, csLeft, csPosts, csPassed>>

\* semaphore_wait(): takes the mutex, on entry or once woken.
CsWaitLock(t) ==
  /\ csPc[t] \in {"start", "asleep"}
  /\ t \notin csCond
  /\ MutexLock(csLock, t)
  /\ CsGoto(t, "check")
  /\ UNCHANGED <<csCounter, csCond, csLeft, csPosts, csPassed>>

\* semaphore_wait(): counter == 0, so sleep on the condition.
CsWaitSleep(t) ==
  /\ csPc[t] = "check"
  /\ csCounter = 0
  /\ csCond' = csCond \cup {t}
  /\ MutexUnlock(csLock, t)
  /\ CsGoto(t, "asleep")
  /\ UNCHANGED <<csCounter, csLeft, csPosts, csPassed>>

\* semaphore_wait(): counter is not 0.
CsWaitGo(t) ==
  /\ csPc[t] = "check"
  /\ csCounter # 0
  /\ CsGoto(t, "take")
  /\ UNCHANGED <<csCounter, csCond, csLock, csLeft, csPosts, csPassed>>

\* semaphore_wait(): counter-- and unlock; thr_fn() prints and loops.
CsWaitTake(t) ==
  /\ csPc[t] = "take"
  /\ csCounter' = csCounter - 1
  /\ csPassed' = csPassed + 1
  /\ MutexUnlock(csLock, t)
  /\ CsGoto(t, "start")
  /\ UNCHANGED <<csCond, csLeft, csPosts>>

CsSpurious(t) ==
  /\ CondSpurious(csCond, t)
  /\ UNCHANGED <<csCounter, csLock, csPc, csLeft, csPosts, csPassed>>

CsMain ==
  \/ \E n \in 0..MaxJobs : CsCommand(n)
  \/ CsQuit \/ CsLoopEnd \/ CsPostLock \/ CsPostInc \/ CsPostSignal
CsThread(t) == CsWaitLock(t) \/ CsWaitSleep(t) \/ CsWaitGo(t) \/ CsWaitTake(t)

CsNext ==
  \/ \E t \in Workers : CsCreate(t)
  \/ CsMain
  \/ \E t \in Workers : CsThread(t) \/ CsSpurious(t)

CsSpec == CsInit /\ [][CsNext]_csVars
----------------------------------------------------------------------------
CsLabels ==
  {"uncreated", "failed", "start", "check", "asleep", "take", "prompt", "loop",
   "inc", "signal", "joining"}

CsTypeOK ==
  /\ csCounter \in Int
  /\ csCond \in SUBSET Workers
  /\ csLock \in SUBSET csThreads
  /\ csPc \in [csThreads -> CsLabels]
  /\ csLeft \in 0..MaxJobs
  /\ csPosts \in 0..MaxJobs
  /\ csPassed \in Nat

\* What makes it a semaphore: semaphore_wait() never returns more often than
\* semaphore_post() was called, the unsigned counter never goes below zero,
\* and no post is lost.
CsCounts == csCounter >= 0 /\ csCounter + csPassed = csPosts

\* A post wakes the waiters it can serve although the signal is sent outside
\* the mutex: a positive counter is always consumed by a living thread.
CsDrains ==
  (csCounter > 0 /\ \E t \in Workers : csPc[t] \notin {"uncreated", "failed"})
    ~> csCounter = 0
=============================================================================
