--------------------------- MODULE ThreadBarrier ---------------------------
(* threads/barriers/barrier.c: a barrier built from a mutex, a condition   *)
(* and a counter, and the program that uses it: each thread increments a   *)
(* shared counter thread_inc times and meets the others every sync_step    *)
(* increments.                                                             *)
EXTENDS Posix

VARIABLES
  barCounter,  \* barrier->counter
  barCond,     \* barrier->condv: the threads asleep on it
  barLock,     \* barrier->lock
  barPc,       \* where each thread is
  barI,        \* i of each thr_fn(): the increments it has made
  barOut,      \* how often thread_barrier_wait() has returned, per thread
  barSerial,   \* how often it returned PTHREAD_BARRIER_SERIAL_THREAD
  barTotal     \* the global counter

barVars ==
  <<barCounter, barCond, barLock, barPc, barI, barOut, barSerial, barTotal>>

\* thread_barrier_init(&barrier, threads_no); no thread created yet.
BarInit ==
  /\ barCounter = 0
  /\ barCond = {}
  /\ barLock = {}
  /\ barPc = [t \in Workers |-> "uncreated"]
  /\ barI = [t \in Workers |-> 0]
  /\ barOut = [t \in Workers |-> 0]
  /\ barSerial = 0
  /\ barTotal = 0

BarGoto(t, label) == barPc' = [barPc EXCEPT ![t] = label]

\* The for loop of thr_fn() after i increments, past any barrier.
BarLoop(i) == IF i = ThreadInc THEN "done" ELSE "inc"

\* main(): pthread_create(3); a failure passes the test "< 0".
BarCreate(t) ==
  /\ barPc[t] = "uncreated"
  /\ \/ BarGoto(t, BarLoop(0))
     \/ BarGoto(t, "failed")
  /\ UNCHANGED <<barCounter, barCond, barLock, barI, barOut, barSerial, barTotal>>

\* thr_fn(): counter++ under counter_lock, then the test i%sync_step == 0.
BarInc(t) ==
  /\ barPc[t] = "inc"
  /\ barI' = [barI EXCEPT ![t] = @ + 1]
  /\ barTotal' = barTotal + 1
  /\ BarGoto(t, IF (barI[t] + 1) % SyncStep = 0 THEN "enter" ELSE BarLoop(barI[t] + 1))
  /\ UNCHANGED <<barCounter, barCond, barLock, barOut, barSerial>>

\* thread_barrier_wait(): pthread_mutex_lock(&barrier->lock).
BarEnter(t) ==
  /\ barPc[t] = "enter"
  /\ MutexLock(barLock, t)
  /\ BarGoto(t, "arrive")
  /\ UNCHANGED <<barCounter, barCond, barI, barOut, barSerial, barTotal>>

\* thread_barrier_wait(): not the last one, so sleep on the condition.
BarSleep(t) ==
  /\ barPc[t] = "arrive"
  /\ barCounter + 1 # Target
  /\ barCounter' = barCounter + 1
  /\ barCond' = barCond \cup {t}
  /\ MutexUnlock(barLock, t)
  /\ BarGoto(t, "asleep")
  /\ UNCHANGED <<barI, barOut, barSerial, barTotal>>

\* A last thread that forgets to reset the counter.
BarReleaseNoReset(t) ==
  /\ barPc[t] = "arrive"
  /\ barCounter + 1 = Target
  /\ CondBroadcast(barCond)
  /\ MutexUnlock(barLock, t)
  /\ barOut' = [barOut EXCEPT ![t] = @ + 1]
  /\ barSerial' = barSerial + 1
  /\ BarGoto(t, BarLoop(barI[t]))
  /\ UNCHANGED <<barCounter, barI, barTotal>>

\* An off-by-one in the test: the last but one thread already releases.
BarReleaseEarly(t) ==
  /\ barPc[t] = "arrive"
  /\ barCounter + 2 >= Target
  /\ barCounter' = 0
  /\ CondBroadcast(barCond)
  /\ MutexUnlock(barLock, t)
  /\ barOut' = [barOut EXCEPT ![t] = @ + 1]
  /\ barSerial' = barSerial + 1
  /\ BarGoto(t, BarLoop(barI[t]))
  /\ UNCHANGED <<barI, barTotal>>

\* thread_barrier_wait(): the last one resets the counter, broadcasts inside
\* the mutex and returns PTHREAD_BARRIER_SERIAL_THREAD.
BarRelease(t) ==
  /\ barPc[t] = "arrive"
  /\ barCounter + 1 = Target
  /\ barCounter' = 0
  /\ CondBroadcast(barCond)
  /\ MutexUnlock(barLock, t)
  /\ barOut' = [barOut EXCEPT ![t] = @ + 1]
  /\ barSerial' = barSerial + 1
  /\ BarGoto(t, BarLoop(barI[t]))
  /\ UNCHANGED <<barI, barTotal>>

\* pthread_cond_wait(3) returns with the mutex; unlock and return 0.
BarLeave(t) ==
  /\ barPc[t] = "asleep"
  /\ t \notin barCond
  /\ barLock = {}
  /\ barOut' = [barOut EXCEPT ![t] = @ + 1]
  /\ BarGoto(t, BarLoop(barI[t]))
  /\ UNCHANGED <<barCounter, barCond, barLock, barI, barSerial, barTotal>>

\* pthread_cond_wait(3) returns without a broadcast, which POSIX allows.
BarSpurious(t) ==
  /\ CondSpurious(barCond, t)
  /\ UNCHANGED <<barCounter, barLock, barPc, barI, barOut, barSerial, barTotal>>

BarThread(t) ==
  BarInc(t) \/ BarEnter(t) \/ BarSleep(t) \/ BarRelease(t) \/ BarLeave(t)

BarNext == \E t \in Workers : BarCreate(t) \/ BarThread(t)

\* The barrier where pthread_cond_wait(3) only returns after a broadcast, which
\* is what the code relies on, and where it returns whenever POSIX lets it.
BarSpec == BarInit /\ [][BarNext]_barVars
BarPosixSpec ==
  BarInit /\ [][BarNext \/ \E t \in Workers : BarSpurious(t)]_barVars
----------------------------------------------------------------------------
BarLabels ==
  {"uncreated", "failed", "inc", "enter", "arrive", "asleep", "done"}

BarTypeOK ==
  /\ barCounter \in Nat
  /\ barCond \in SUBSET Workers
  /\ barLock \in SUBSET Workers
  /\ barPc \in [Workers -> BarLabels]
  /\ barI \in [Workers -> Nat]
  /\ barOut \in [Workers -> Nat]
  /\ barSerial \in Nat
  /\ barTotal \in Nat

\* "the broadcast will wake up the correct threads only" (the comment before
\* thread_barrier_wait()): the counter is exactly the number of threads asleep
\* at the barrier, so a release frees the Target threads of its group.
BarGroup == Cardinality(barCond) = barCounter

\* How often thread u has arrived at the barrier.
BarArrivals(u) == barOut[u] + (IF barPc[u] = "asleep" THEN 1 ELSE 0)

\* What a barrier is for: nobody gets past the k-th meeting before everybody
\* has arrived at it, and so what the others added before it is there.
BarMeets ==
  \A t \in Workers :
    /\ \A u \in Workers : barOut[t] <= BarArrivals(u)
    /\ barTotal >= Cardinality(Workers) * SyncStep * barOut[t]

\* When all threads were created, all of them finish, and the program prints
\* the sum it announces ("All done, counter = ...").
BarFinishes ==
  \/ <>(\E t \in Workers : barPc[t] = "failed")
  \/ <>(/\ \A t \in Workers : barPc[t] = "done"
        /\ barTotal = Cardinality(Workers) * ThreadInc
        /\ barSerial = ThreadInc \div SyncStep)
=============================================================================
