--------------------------- MODULE WorkQueueCond ---------------------------
(* threads/work_queue/wqueue_condvars.c: the work queue whose workers      *)
(* sleep on the condition workq_cond while the list is empty.  The boss    *)
(* signals the condition after it has released the mutex.                  *)
EXTENDS Posix, Sequences

VARIABLES
  cqWorkq,   \* workq: the jobs on the list, most recent first
  cqCond,    \* workq_cond: the workers asleep on it
  cqLock,    \* workq_lock
  cqPc,      \* where each thread is
  cqRead,    \* the list each thread read in its critical section, <<>> outside
  cqRet,     \* the job get_job() gave each worker, as a set of at most one
  cqMade,    \* how many jobs boss_thr() has created
  cqDone     \* the jobs run

cqVars == <<cqWorkq, cqCond, cqLock, cqPc, cqRead, cqRet, cqMade, cqDone>>

cqThreads == Workers \cup {Boss}

CqInit ==
  /\ cqWorkq = <<>>
  /\ cqCond = {}
  /\ cqLock = {}
  /\ cqPc = [t \in cqThreads |-> "uncreated"]
  /\ cqRead = [t \in cqThreads |-> <<>>]
  /\ cqRet = [w \in Workers |-> {}]
  /\ cqMade = 0
  /\ cqDone = {}

CqGoto(t, label) == cqPc' = [cqPc EXCEPT ![t] = label]

\* main() creates the workers, then the boss; a failed pthread_create(3) is
\* not noticed by the test "< 0".
CqCreate(t) ==
  /\ cqPc[t] = "uncreated"
  /\ t = Boss => \A w \in Workers : cqPc[w] # "uncreated"
  /\ \/ CqGoto(t, "start")
     \/ CqGoto(t, "failed")
  /\ UNCHANGED <<cqWorkq, cqCond, cqLock, cqRead, cqRet, cqMade, cqDone>>

\* get_job(): takes workq_lock, on entry or on the way out of
\* pthread_cond_wait(3) once woken.
CqGetLock(w) ==
  /\ cqPc[w] \in {"start", "asleep"}
  /\ w \notin cqCond
  /\ MutexLock(cqLock, w)
  /\ CqGoto(w, "check")
  /\ UNCHANGED <<cqWorkq, cqCond, cqRead, cqRet, cqMade, cqDone>>

\* get_job(): while (workq == NULL) pthread_cond_wait(...).  Releasing the
\* mutex and joining the sleepers is one step.
CqGetSleep(w) ==
  /\ cqPc[w] = "check"
  /\ cqWorkq = <<>>
  /\ cqCond' = cqCond \cup {w}
  /\ MutexUnlock(cqLock, w)
  /\ CqGoto(w, "asleep")
  /\ UNCHANGED <<cqWorkq, cqRead, cqRet, cqMade, cqDone>>

\* get_job(): the list is not empty; ret = workq.
CqGetRead(w) ==
  /\ cqPc[w] = "check"
  /\ cqWorkq # <<>>
  /\ cqRead' = [cqRead EXCEPT ![w] = cqWorkq]
  /\ CqGoto(w, "pop")
  /\ UNCHANGED <<cqWorkq, cqCond, cqLock, cqRet, cqMade, cqDone>>

\* get_job(): workq = workq->next; pthread_mutex_unlock(&workq_lock); return.
CqGetPop(w) ==
  /\ cqPc[w] = "pop"
  /\ IF cqRead[w] = <<>>
     THEN /\ CqGoto(w, "crashed")
          /\ UNCHANGED <<cqWorkq, cqLock, cqRead, cqRet>>
     ELSE /\ cqWorkq' = Tail(cqRead[w])
          /\ cqRet' = [cqRet EXCEPT ![w] = {Head(cqRead[w])}]
          /\ cqRead' = [cqRead EXCEPT ![w] = <<>>]
          /\ MutexUnlock(cqLock, w)
          /\ CqGoto(w, "run")
  /\ UNCHANGED <<cqCond, cqMade, cqDone>>

\* worker_thr(): prints the job, frees it and loops.
CqRun(w) ==
  /\ cqPc[w] = "run"
  /\ cqDone' = cqDone \cup cqRet[w]
  /\ cqRet' = [cqRet EXCEPT ![w] = {}]
  /\ CqGoto(w, "start")
  /\ UNCHANGED <<cqWorkq, cqCond, cqLock, cqRead, cqMade>>

\* pthread_cond_wait(3) returns although nobody signalled.
CqSpurious(w) ==
  /\ CondSpurious(cqCond, w)
  /\ UNCHANGED <<cqWorkq, cqLock, cqPc, cqRead, cqRet, cqMade, cqDone>>

\* insert_job() that takes the mutex only for the assignment to workq.
CqPutReadUnlocked ==
  /\ cqPc[Boss] = "start"
  /\ cqMade < MaxJobs
  /\ cqMade' = cqMade + 1
  /\ cqRead' = [cqRead EXCEPT ![Boss] = cqWorkq]
  /\ CqGoto(Boss, "push")
  /\ UNCHANGED <<cqWorkq, cqCond, cqLock, cqRet, cqDone>>

\* boss_thr() and insert_job(): a new job, the lock, new_job->next = workq.
CqPutRead ==
  /\ cqPc[Boss] = "start"
  /\ cqMade < MaxJobs
  /\ MutexLock(cqLock, Boss)
  /\ cqMade' = cqMade + 1
  /\ cqRead' = [cqRead EXCEPT ![Boss] = cqWorkq]
  /\ CqGoto(Boss, "push")
  /\ UNCHANGED <<cqWorkq, cqCond, cqRet, cqDone>>

\* insert_job() that forgets the signal.
CqPutPushNoSignal ==
  /\ cqPc[Boss] = "push"
  /\ cqWorkq' = <<cqMade>> \o cqRead[Boss]
  /\ cqRead' = [cqRead EXCEPT ![Boss] = <<>>]
  /\ MutexUnlock(cqLock, Boss)
  /\ CqGoto(Boss, "start")
  /\ UNCHANGED <<cqCond, cqRet, cqMade, cqDone>>

\* insert_job(): workq = new_job; pthread_mutex_unlock(&workq_lock).
CqPutPush ==
  /\ cqPc[Boss] = "push"
  /\ cqWorkq' = <<cqMade>> \o cqRead[Boss]
  /\ cqRead' = [cqRead EXCEPT ![Boss] = <<>>]
  /\ MutexUnlock(cqLock, Boss)
  /\ CqGoto(Boss, "signal")
  /\ UNCHANGED <<cqCond, cqRet, cqMade, cqDone>>

\* insert_job(): pthread_cond_signal(&workq_cond), outside the mutex.
CqPutSignal ==
  /\ cqPc[Boss] = "signal"
  /\ CondSignal(cqCond)
  /\ CqGoto(Boss, "start")
  /\ UNCHANGED <<cqWorkq, cqLock, cqRead, cqRet, cqMade, cqDone>>

CqBoss == CqPutRead \/ CqPutPush \/ CqPutSignal
CqWorker(w) ==
  CqGetLock(w) \/ CqGetSleep(w) \/ CqGetRead(w) \/ CqGetPop(w) \/ CqRun(w)

CqNext ==
  \/ \E t \in cqThreads : CqCreate(t)
  \/ CqBoss
  \/ \E w \in Workers : CqWorker(w) \/ CqSpurious(w)

CqSpec == CqInit /\ [][CqNext]_cqVars
----------------------------------------------------------------------------
CqLabels ==
  {"uncreated", "failed", "start", "check", "asleep", "pop", "run", "push",
   "signal", "crashed"}

CqTypeOK ==
  /\ cqWorkq \in Seq(1..MaxJobs)
  /\ cqCond \in SUBSET Workers
  /\ cqLock \in SUBSET cqThreads
  /\ cqPc \in [cqThreads -> CqLabels]
  /\ cqRead \in [cqThreads -> Seq(1..MaxJobs)]
  /\ cqRet \in [Workers -> SUBSET (1..MaxJobs)]
  /\ cqMade \in 0..MaxJobs
  /\ cqDone \in SUBSET (1..MaxJobs)

\* The workers main() managed to create.
CqLive == {w \in Workers : cqPc[w] \notin {"uncreated", "failed"}}

\* The window between releasing the mutex and signalling loses no wake-up:
\* while a job is on the list some worker is awake, unless the boss is still
\* to signal.
CqNoLostWakeup ==
  cqWorkq # <<>> /\ CqLive # {} =>
    cqPc[Boss] = "signal" \/ \E w \in CqLive : w \notin cqCond

\* "while" around pthread_cond_wait(3) keeps a worker that was woken in vain, or
\* after another took the job, from popping an empty list.
CqNeverPopsEmpty == \A w \in Workers : cqPc[w] # "crashed"

\* Every job goes to exactly one worker and is run at most once.
CqPool == INSTANCE JobPool WITH
  Jobs    <- 1..MaxJobs,
  pending <- {cqWorkq[i] : i \in DOMAIN cqWorkq},
  running <- cqRet,
  done    <- cqDone

CqIsJobPool == CqPool!PoolSpec

\* With a worker alive the list is emptied again and again: nobody sleeps on
\* forever while jobs wait.
CqDrains == (cqWorkq # <<>> /\ CqLive # {}) ~> cqWorkq = <<>>
=============================================================================
