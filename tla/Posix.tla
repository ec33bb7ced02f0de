------------------------------- MODULE Posix --------------------------------
(* The POSIX synchronisation objects that the thread programs of the       *)
(* repository call.  They are not part of the repository: each operator    *)
(* says what the programs rely on.                                         *)
(*                                                                         *)
(*   mutex      the set of threads inside it: {} when it is free           *)
(*   semaphore  a natural number                                           *)
(*   condition  the set of threads asleep on it                            *)
EXTENDS Naturals, FiniteSets

\* pthread_mutex_lock(3): blocks while the mutex is held.
MutexLock(m, t) == m = {} /\ m' = {t}

\* pthread_mutex_unlock(3), called by the holder.
MutexUnlock(m, t) == m' = m \ {t}

\* sem_wait(3): blocks while the count is zero.
SemWait(s) == s > 0 /\ s' = s - 1

\* sem_post(3).
SemPost(s) == s' = s + 1

\* pthread_cond_signal(3): wakes one sleeper, or nobody when nobody sleeps.
\* That POSIX allows it to wake several is covered by CondSpurious.
CondSignal(c) ==
  \/ c = {} /\ c' = c
  \/ \E t \in c : c' = c \ {t}

\* pthread_cond_broadcast(3): wakes every sleeper.
CondBroadcast(c) == c' = {}

\* pthread_cond_wait(3) may return although nobody signalled.
CondSpurious(c, t) == t \in c /\ c' = c \ {t}

-----------------------------------------------------------------------------
(* The sizes of the programs under threads/, shared by their modules.      *)

CONSTANTS
  Workers,   \* the threads a program creates (WORKERS, threads_sz, threads_no)
  Boss,      \* the thread that hands out work: boss_thr(), or main() itself
  MaxJobs,   \* bound: jobs created, or posts made, by the boss
  Target,    \* the count a barrier is initialised with
  ThreadInc, \* thread_inc: how often a thread increments the shared counter
  SyncStep,  \* sync_step: increments between two uses of the barrier
  Forks,     \* forks_sz, which is also the number of philosophers
  Bufs,      \* BUFFERS
  BufWords,  \* BUF_SIZE, in the units memcpy(3) copies at a time
  MaxCalls,  \* bound: copy_buf() calls each thread makes
  MaxPrints  \* bound: characters printed by order_prints

ASSUME WorkersAssumption ==
  /\ IsFiniteSet(Workers) /\ Workers # {}
  /\ Boss \notin Workers
  /\ MaxJobs \in Nat

\* main() of barrier.c initialises the barrier with threads_no, the number of
\* threads it then creates.
ASSUME BarrierAssumption ==
  /\ Target = Cardinality(Workers)
  /\ ThreadInc \in Nat /\ SyncStep \in Nat \ {0}

\* A single philosopher would have the same fork on both sides.
ASSUME ForksAssumption == Forks \in Nat /\ Forks >= 2

ASSUME BufsAssumption ==
  Bufs \in Nat \ {0} /\ BufWords \in Nat \ {0} /\ MaxCalls \in Nat /\ MaxPrints \in Nat
=============================================================================
