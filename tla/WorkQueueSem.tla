---------------------------- MODULE WorkQueueSem ----------------------------
(* threads/work_queue/wqueue_semaphores.c: a boss thread pushes jobs on a  *)
(* shared LIFO list guarded by workq_lock and posts workq_sem once per     *)
(* job; a worker waits on the semaphore and pops one job.                  *)
(*                                                                         *)
(* The list is the sequence of the jobs reachable from workq.  The two     *)
(* pointer updates, new_job->next = workq; workq = new_job in insert_job() *)
(* and ret = workq; workq = workq->next in get_job(), are two steps each:  *)
(* a read of workq into a local and a write that uses what was read.       *)
EXTENDS Posix, Sequences

VARIABLES
  sqWorkq,   \* workq: the jobs on the list, most recent first
  sqSem,     \* workq_sem
  sqLock,    \* workq_lock
  sqPc,      \* where each thread is
  sqRead,    \* the list each thread read in its critical section, <<>> outside
  sqRet,     \* the job get_job() gave each worker, as a set of at most one
  sqMade,    \* how many jobs boss_thr() has created
  sqDone     \* the jobs run

sqVars == <<sqWorkq, sqSem, sqLock, sqPc, sqRead, sqRet, sqMade, sqDone>>

sqThreads == Workers \cup {Boss}

\* main() before its loops: sem_init(&workq_sem, 0, 0), an empty list, no
\* thread created.
SqInit ==
  /\ sqWorkq = <<>>
  /\ sqSem = 0
  /\ sqLock = {}
  /\ sqPc = [t \in sqThreads |-> "uncreated"]
  /\ sqRead = [t \in sqThreads |-> <<>>]
  /\ sqRet = [w \in Workers |-> {}]
  /\ sqMade = 0
  /\ sqDone = {}

SqGoto(t, label) == sqPc' = [sqPc EXCEPT ![t] = label]

\* main() creates the workers and then the boss.  pthread_create(3) reports a
\* failure with a positive number, which the test "< 0" lets pass: main() goes
\* on as if the thread existed.
SqCreate(t) ==
  /\ sqPc[t] = "uncreated"
  /\ t = Boss => \A w \in Workers : sqPc[w] # "uncreated"
  /\ \/ SqGoto(t, "start")
     \/ SqGoto(t, "failed")
  /\ UNCHANGED <<sqWorkq, sqSem, sqLock, sqRead, sqRet, sqMade, sqDone>>

\* get_job(): a worker that does not wait for the semaphore.
SqGetWaitNoSem(w) ==
  /\ sqPc[w] = "start"
  /\ SqGoto(w, "lock")
  /\ UNCHANGED <<sqWorkq, sqSem, sqLock, sqRead, sqRet, sqMade, sqDone>>

\* get_job(): sem_wait(&workq_sem).
SqGetWait(w) ==
  /\ sqPc[w] = "start"
  /\ SemWait(sqSem)
  /\ SqGoto(w, "lock")
  /\ UNCHANGED <<sqWorkq, sqLock, sqRead, sqRet, sqMade, sqDone>>

\* get_job(): pthread_mutex_lock(&workq_lock); ret = workq.
SqGetRead(w) ==
  /\ sqPc[w] = "lock"
  /\ MutexLock(sqLock, w)
  /\ sqRead' = [sqRead EXCEPT ![w] = sqWorkq]
  /\ SqGoto(w, "pop")
  /\ UNCHANGED <<sqWorkq, sqSem, sqRet, sqMade, sqDone>>

\* get_job(): workq = workq->next; pthread_mutex_unlock(&workq_lock); return.
\* With an empty list the load of workq->next goes through a null pointer.
SqGetPop(w) ==
  /\ sqPc[w] = "pop"
  /\ IF sqRead[w] = <<>>
     THEN /\ SqGoto(w, "crashed")
          /\ UNCHANGED <<sqWorkq, sqLock, sqRead, sqRet>>
     ELSE /\ sqWorkq' = Tail(sqRead[w])
          /\ sqRet' = [sqRet EXCEPT ![w] = {Head(sqRead[w])}]
          /\ sqRead' = [sqRead EXCEPT ![w] = <<>>]
          /\ MutexUnlock(sqLock, w)
          /\ SqGoto(w, "run")
  /\ UNCHANGED <<sqSem, sqMade, sqDone>>

\* worker_thr(): prints the job, frees it and loops.
SqRun(w) ==
  /\ sqPc[w] = "run"
  /\ sqDone' = sqDone \cup sqRet[w]
  /\ sqRet' = [sqRet EXCEPT ![w] = {}]
  /\ SqGoto(w, "start")
  /\ UNCHANGED <<sqWorkq, sqSem, sqLock, sqRead, sqMade>>

\* boss_thr(): allocates the next job (a failed malloc only loops) and calls
\* insert_job(), which locks and reads workq into new_job->next.
SqPutRead ==
  /\ sqPc[Boss] = "start"
  /\ sqMade < MaxJobs
  /\ MutexLock(sqLock, Boss)
  /\ sqMade' = sqMade + 1
  /\ sqRead' = [sqRead EXCEPT ![Boss] = sqWorkq]
  /\ SqGoto(Boss, "push")
  /\ UNCHANGED <<sqWorkq, sqSem, sqRet, sqDone>>

\* insert_job(): workq = new_job; pthread_mutex_unlock(&workq_lock).
SqPutPush ==
  /\ sqPc[Boss] = "push"
  /\ sqWorkq' = <<sqMade>> \o sqRead[Boss]
  /\ sqRead' = [sqRead EXCEPT ![Boss] = <<>>]
  /\ MutexUnlock(sqLock, Boss)
  /\ SqGoto(Boss, "post")
  /\ UNCHANGED <<sqSem, sqRet, sqMade, sqDone>>

\* insert_job(): sem_post(&workq_sem).
SqPutPost ==
  /\ sqPc[Boss] = "post"
  /\ SemPost(sqSem)
  /\ SqGoto(Boss, "start")
  /\ UNCHANGED <<sqWorkq, sqLock, sqRead, sqRet, sqMade, sqDone>>

SqBoss == SqPutRead \/ SqPutPush \/ SqPutPost
SqWorker(w) == SqGetWait(w) \/ SqGetRead(w) \/ SqGetPop(w) \/ SqRun(w)

SqNext ==
  \/ \E t \in sqThreads : SqCreate(t)
  \/ SqBoss
  \/ \E w \in Workers : SqWorker(w)

SqSpec == SqInit /\ [][SqNext]_sqVars
----------------------------------------------------------------------------
SqLabels ==
  {"uncreated", "failed", "start", "lock", "pop", "run", "push", "post",
   "crashed"}

SqTypeOK ==
  /\ sqWorkq \in Seq(1..MaxJobs)
  /\ sqSem \in Nat
  /\ sqLock \in SUBSET sqThreads
  /\ sqPc \in [sqThreads -> SqLabels]
  /\ sqRead \in [sqThreads -> Seq(1..MaxJobs)]
  /\ sqRet \in [Workers -> SUBSET (1..MaxJobs)]
  /\ sqMade \in 0..MaxJobs
  /\ sqDone \in SUBSET (1..MaxJobs)

\* "it is not possible for sem_wait() to return and the queue be empty"
\* (the file's header comment): no worker ever pops from an empty list, and
\* the list a thread read is still the list when it writes it back.
SqNeverPopsEmpty ==
  /\ \A w \in Workers : sqPc[w] # "crashed"
  /\ \A w \in Workers : sqPc[w] = "pop" =>
       /\ sqRead[w] = sqWorkq
       /\ sqWorkq # <<>>
  /\ sqPc[Boss] = "push" => sqRead[Boss] = sqWorkq

\* Each job is handed to exactly one worker and run at most once: the queue
\* implements the job pool.
SqPool == INSTANCE JobPool WITH
  Jobs    <- 1..MaxJobs,
  pending <- {sqWorkq[i] : i \in DOMAIN sqWorkq},
  running <- sqRet,
  done    <- sqDone

SqIsJobPool == SqPool!PoolSpec
=============================================================================
