---------------------------- MODULE ThreadProofs ----------------------------
(* Proofs about the thread programs, for any set of workers, any number of *)
(* jobs, forks, buffers and words: the two work queues and the job pool    *)
(* they implement, the counting semaphore, the barrier, the philosophers,  *)
(* the buffer copies, the two programs that order their threads, and the   *)
(* fork handlers.  At the end the results are put together for MCThreads.  *)
EXTENDS MCThreads, FiniteSetTheorems, SequenceTheorems, WellFoundedInduction, TLAPS

(* The queue with a semaphore.                                             *)

\* The workers that sem_wait(3) let through and that have not popped yet.
SqPast == {w \in Workers : sqPc[w] \in {"lock", "pop"}}

\* The list has one job for each unit of the semaphore, for each worker that
\* already took a unit, and for the job whose sem_post(3) is still to come.
SqBalance ==
  Len(sqWorkq) = sqSem + Cardinality(SqPast) + (IF sqPc[Boss] = "post" THEN 1 ELSE 0)

\* workq_lock protects the two-step updates of the list.
SqMutual ==
  /\ \A t \in sqThreads : sqPc[t] \in {"pop", "push"} => sqLock = {t}
  /\ \A t \in sqThreads : sqPc[t] \in {"pop", "push"} => sqRead[t] = sqWorkq

\* Which code each kind of thread runs.
SqRoles ==
  /\ \A w \in Workers : sqPc[w] \notin {"push", "post", "crashed"}
  /\ sqPc[Boss] \notin {"lock", "pop", "run", "crashed"}
  /\ sqPc[Boss] = "push" => sqMade > 0

SqInv == SqTypeOK /\ SqBalance /\ SqMutual /\ SqRoles

USE WorkersAssumption

\* A worker counted in SqPast makes the list non-empty.
LEMMA SqPastFinite == IsFiniteSet(SqPast) /\ Cardinality(SqPast) \in Nat
<1>1. IsFiniteSet(SqPast)
  BY FS_Subset DEF SqPast
<1> QED
  BY <1>1, FS_CardinalityType

LEMMA SqPastNonEmpty ==
  ASSUME SqInv, NEW w \in Workers, sqPc[w] \in {"lock", "pop"}
  PROVE  sqWorkq # <<>>
<1>1. w \in SqPast
  BY DEF SqPast
<1>2. Cardinality(SqPast) # 0
  BY <1>1, SqPastFinite, FS_EmptySet
<1>3. Len(sqWorkq) > 0
  BY <1>2, SqPastFinite DEF SqInv, SqBalance, SqTypeOK
<1> QED
  BY <1>3 DEF SqInv, SqTypeOK

\* What the inductive invariant is for.
LEMMA SqInvImplies == SqInv => SqNeverPopsEmpty
<1> SUFFICES ASSUME SqInv PROVE SqNeverPopsEmpty
  OBVIOUS
<1>1. \A w \in Workers : sqPc[w] # "crashed"
  BY DEF SqInv, SqRoles
<1>2. ASSUME NEW w \in Workers, sqPc[w] = "pop"
      PROVE  sqRead[w] = sqWorkq /\ sqWorkq # <<>>
  BY <1>2, SqPastNonEmpty DEF SqInv, SqMutual, sqThreads
<1>3. sqPc[Boss] = "push" => sqRead[Boss] = sqWorkq
  BY DEF SqInv, SqMutual, sqThreads
<1> QED
  BY <1>1, <1>2, <1>3 DEF SqNeverPopsEmpty

LEMMA SqInitInv == SqInit => SqInv
<1> SUFFICES ASSUME SqInit PROVE SqInv
  OBVIOUS
<1>1. SqTypeOK
  BY DEF SqInit, SqTypeOK, SqLabels, sqThreads
<1>2. SqPast = {}
  BY DEF SqInit, SqPast, sqThreads
<1>3. SqBalance
  BY <1>2, FS_EmptySet DEF SqInit, SqBalance, sqThreads
<1>4. SqMutual /\ SqRoles
  BY DEF SqInit, SqMutual, SqRoles, sqThreads
<1> QED
  BY <1>1, <1>3, <1>4 DEF SqInv

LEMMA SqNextType ==
  ASSUME SqInv, [SqNext]_sqVars
  PROVE  SqTypeOK'
<1> USE DEF SqInv, SqTypeOK, sqThreads, SqGoto, SqLabels
<1>1. CASE UNCHANGED sqVars
  BY <1>1 DEF sqVars
<1>2. ASSUME NEW t \in sqThreads, SqCreate(t) PROVE SqTypeOK'
  BY <1>2 DEF SqCreate
<1>3. ASSUME NEW w \in Workers, SqGetWait(w) PROVE SqTypeOK'
  BY <1>3 DEF SqGetWait, SemWait
<1>4. ASSUME NEW w \in Workers, SqGetRead(w) PROVE SqTypeOK'
  BY <1>4 DEF SqGetRead, MutexLock
<1>5. ASSUME NEW w \in Workers, SqGetPop(w) PROVE SqTypeOK'
  <2>1. sqRead[w] = sqWorkq /\ sqWorkq # <<>>
    BY <1>5, SqPastNonEmpty DEF SqGetPop, SqMutual
  <2>2. Head(sqWorkq) \in 1..MaxJobs /\ Tail(sqWorkq) \in Seq(1..MaxJobs)
    BY <2>1, HeadTailProperties
  <2>3. <<>> \in Seq(1..MaxJobs)
    OBVIOUS
  <2>4. /\ sqWorkq' = Tail(sqWorkq) /\ sqLock' = sqLock \ {w}
        /\ sqRet' = [sqRet EXCEPT ![w] = {Head(sqWorkq)}]
        /\ sqRead' = [sqRead EXCEPT ![w] = <<>>]
        /\ sqPc' = [sqPc EXCEPT ![w] = "run"]
        /\ UNCHANGED <<sqSem, sqMade, sqDone>>
    BY <1>5, <2>1 DEF SqGetPop, MutexUnlock
  <2> QED
    BY <2>2, <2>3, <2>4
<1>6. ASSUME NEW w \in Workers, SqRun(w) PROVE SqTypeOK'
  BY <1>6 DEF SqRun
<1>7. CASE SqPutRead
  BY <1>7 DEF SqPutRead, MutexLock
<1>8. CASE SqPutPush
  <2>1. sqMade \in 1..MaxJobs
    BY <1>8 DEF SqPutPush, SqRoles
  <2>2. <<sqMade>> \in Seq(1..MaxJobs)
    BY <2>1
  <2>3. <<sqMade>> \o sqRead[Boss] \in Seq(1..MaxJobs)
    BY <2>2, ConcatProperties
  <2> QED
    BY <1>8, <2>3 DEF SqPutPush, MutexUnlock
<1>9. CASE SqPutPost
  BY <1>9 DEF SqPutPost, SemPost
<1> QED
  BY <1>1, <1>2, <1>3, <1>4, <1>5, <1>6, <1>7, <1>8, <1>9
     DEF SqNext, SqBoss, SqWorker

LEMMA SqNextMutual ==
  ASSUME SqInv, [SqNext]_sqVars
  PROVE  SqMutual' /\ SqRoles'
<1> USE DEF SqInv, SqTypeOK, sqThreads, SqGoto, SqMutual, SqRoles
<1> DEFINE Goal == SqMutual' /\ SqRoles'
<1>1. CASE UNCHANGED sqVars
  BY <1>1 DEF sqVars
<1>2. ASSUME NEW t \in sqThreads, SqCreate(t) PROVE Goal
  BY <1>2 DEF SqCreate
<1>3. ASSUME NEW w \in Workers, SqGetWait(w) PROVE Goal
  BY <1>3 DEF SqGetWait
<1>4. ASSUME NEW w \in Workers, SqGetRead(w) PROVE Goal
  BY <1>4 DEF SqGetRead, MutexLock
<1>5. ASSUME NEW w \in Workers, SqGetPop(w) PROVE Goal
  <2>1. sqRead[w] = sqWorkq /\ sqWorkq # <<>>
    BY <1>5, SqPastNonEmpty DEF SqGetPop
  <2>2. /\ sqLock = {w} /\ sqLock' = {}
        /\ sqRead' = [sqRead EXCEPT ![w] = <<>>]
        /\ sqPc' = [sqPc EXCEPT ![w] = "run"]
        /\ UNCHANGED <<sqMade>>
    BY <1>5, <2>1 DEF SqGetPop, MutexUnlock
  <2>3. \A t \in sqThreads : sqPc'[t] \notin {"pop", "push"}
    BY <2>2
  <2> QED
    BY <1>5, <2>2, <2>3
<1>6. ASSUME NEW w \in Workers, SqRun(w) PROVE Goal
  BY <1>6 DEF SqRun
<1>7. CASE SqPutRead
  BY <1>7 DEF SqPutRead, MutexLock
<1>8. CASE SqPutPush
  BY <1>8 DEF SqPutPush, MutexUnlock
<1>9. CASE SqPutPost
  BY <1>9 DEF SqPutPost
<1> QED
  BY <1>1, <1>2, <1>3, <1>4, <1>5, <1>6, <1>7, <1>8, <1>9
     DEF SqNext, SqBoss, SqWorker

LEMMA SqNextBalance ==
  ASSUME SqInv, [SqNext]_sqVars
  PROVE  SqBalance'
<1> USE SqPastFinite DEF SqInv, SqTypeOK, sqThreads, SqGoto, SqRoles, SqBalance
<1>1. CASE UNCHANGED sqVars
  BY <1>1 DEF sqVars, SqPast
<1>2. ASSUME NEW t \in sqThreads, SqCreate(t) PROVE SqBalance'
  <2>1. SqPast' = SqPast
    BY <1>2 DEF SqCreate, SqPast
  <2> QED
    BY <1>2, <2>1 DEF SqCreate
<1>3. ASSUME NEW w \in Workers, SqGetWait(w) PROVE SqBalance'
  <2>1. SqPast' = SqPast \cup {w} /\ w \notin SqPast
    BY <1>3 DEF SqGetWait, SqPast
  <2>2. Cardinality(SqPast') = Cardinality(SqPast) + 1
    BY <2>1, FS_AddElement
  <2> QED
    BY SMTT(30), <1>3, <2>2 DEF SqGetWait, SemWait
<1>4. ASSUME NEW w \in Workers, SqGetRead(w) PROVE SqBalance'
  <2>1. SqPast' = SqPast
    BY <1>4 DEF SqGetRead, SqPast
  <2> QED
    BY <1>4, <2>1 DEF SqGetRead
<1>5. ASSUME NEW w \in Workers, SqGetPop(w) PROVE SqBalance'
  <2>1. sqRead[w] = sqWorkq /\ sqWorkq # <<>>
    BY <1>5, SqPastNonEmpty DEF SqGetPop, SqMutual
  <2>2. Len(sqWorkq') = Len(sqWorkq) - 1
    BY <1>5, <2>1, HeadTailProperties DEF SqGetPop
  <2>3. SqPast' = SqPast \ {w} /\ w \in SqPast
    BY <1>5, <2>1 DEF SqGetPop, SqPast
  <2>4. Cardinality(SqPast') = Cardinality(SqPast) - 1
    BY <2>3, FS_RemoveElement
  <2> QED
    BY <1>5, <2>1, <2>2, <2>4, SMTT(30) DEF SqGetPop
<1>6. ASSUME NEW w \in Workers, SqRun(w) PROVE SqBalance'
  <2>1. SqPast' = SqPast
    BY <1>6 DEF SqRun, SqPast
  <2> QED
    BY <1>6, <2>1 DEF SqRun
<1>7. CASE SqPutRead
  <2>1. SqPast' = SqPast
    BY <1>7 DEF SqPutRead, SqPast
  <2> QED
    BY <1>7, <2>1 DEF SqPutRead
<1>8. CASE SqPutPush
  <2>1. SqPast' = SqPast
    BY <1>8 DEF SqPutPush, SqPast
  <2>2. <<sqMade>> \in Seq(1..MaxJobs) /\ Len(<<sqMade>>) = 1
    BY <1>8 DEF SqPutPush
  <2>3. Len(sqWorkq') = 1 + Len(sqWorkq)
    BY <1>8, <2>2, ConcatProperties DEF SqPutPush, SqMutual
  <2> QED
    BY <1>8, <2>1, <2>3 DEF SqPutPush
<1>9. CASE SqPutPost
  <2>1. SqPast' = SqPast
    BY <1>9 DEF SqPutPost, SqPast
  <2> QED
    BY <1>9, <2>1 DEF SqPutPost, SemPost
<1> QED
  BY <1>1, <1>2, <1>3, <1>4, <1>5, <1>6, <1>7, <1>8, <1>9
     DEF SqNext, SqBoss, SqWorker

LEMMA SqAlwaysInv == SqSpec => []SqInv
<1>1. SqInv /\ [SqNext]_sqVars => SqInv'
  BY SqNextType, SqNextMutual, SqNextBalance DEF SqInv
<1> QED
  BY <1>1, SqInitInv, PTL DEF SqSpec

\* The variables of wqueue_semaphores.c keep their types.
THEOREM SqTypeCorrect == SqSpec => []SqTypeOK
<1>1. SqInv => SqTypeOK
  BY DEF SqInv
<1> QED
  BY <1>1, SqAlwaysInv, PTL

\* get_job() never finds the list empty, and the two-step updates of the list
\* are never undone by another thread's: the semaphore counts the jobs that no
\* worker has been let through for.
THEOREM SqPopSafe == SqSpec => []SqNeverPopsEmpty
  BY SqInvImplies, SqAlwaysInv, PTL
----------------------------------------------------------------------------
\* The jobs on a list.
SqJobsOn(q) == {q[i] : i \in DOMAIN q}

\* No job is twice on a list.
SqDistinct(q) == \A i, k \in DOMAIN q : q[i] = q[k] => i = k

\* A job number is used once: the jobs on the list differ, and whatever job is
\* anywhere was created before the one the boss is about to push.
SqBefore(j) == j <= sqMade /\ (sqPc[Boss] = "push" => j < sqMade)
SqFresh ==
  /\ SqDistinct(sqWorkq)
  /\ \A j \in SqJobsOn(sqWorkq) : SqBefore(j)
  /\ \A j \in sqDone : SqBefore(j)
  /\ \A w \in Workers : \A j \in sqRet[w] : SqBefore(j)
  /\ \A w \in Workers :
       IF sqPc[w] = "run" THEN \E j \in 1..MaxJobs : sqRet[w] = {j} ELSE sqRet[w] = {}

LEMMA SqJobsType ==
  ASSUME NEW q \in Seq(1..MaxJobs)
  PROVE  SqJobsOn(q) \subseteq 1..MaxJobs
  BY DEF SqJobsOn

LEMMA SqTailJobs ==
  ASSUME NEW q \in Seq(1..MaxJobs), q # <<>>, SqDistinct(q)
  PROVE  /\ SqJobsOn(Tail(q)) = SqJobsOn(q) \ {Head(q)}
         /\ Head(q) \in SqJobsOn(q) /\ Head(q) \in 1..MaxJobs
         /\ SqDistinct(Tail(q))
<1> USE DEF SqDistinct
<1>1. Len(q) \in Nat \ {0} /\ DOMAIN q = 1..Len(q) /\ Head(q) = q[1]
  BY LenProperties, EmptySeq
<1>2. /\ DOMAIN Tail(q) = 1..(Len(q) - 1)
      /\ \A i \in 1..(Len(q) - 1) : Tail(q)[i] = q[i + 1]
  BY <1>1, HeadTailProperties, LenProperties
<1>3. \A i \in DOMAIN Tail(q) : i + 1 \in DOMAIN q /\ Tail(q)[i] = q[i + 1]
  BY <1>1, <1>2
<1>4. SqDistinct(Tail(q))
  BY <1>1, <1>2, <1>3
<1>5. SqJobsOn(Tail(q)) \subseteq SqJobsOn(q) \ {Head(q)}
  BY SMTT(30), <1>1, <1>2, <1>3 DEF SqJobsOn
<1>6. ASSUME NEW i \in DOMAIN q, q[i] # Head(q) PROVE q[i] \in SqJobsOn(Tail(q))
  <2>1. i - 1 \in DOMAIN Tail(q) /\ Tail(q)[i - 1] = q[i]
    BY <1>1, <1>2, <1>6
  <2> QED
    BY <2>1 DEF SqJobsOn
<1>7. Head(q) \in SqJobsOn(q) /\ Head(q) \in 1..MaxJobs
  BY <1>1, HeadTailProperties DEF SqJobsOn
<1>8. SqJobsOn(q) \ {Head(q)} \subseteq SqJobsOn(Tail(q))
  BY <1>6 DEF SqJobsOn
<1> QED
  BY <1>4, <1>5, <1>7, <1>8

LEMMA SqPushJobs ==
  ASSUME NEW q \in Seq(1..MaxJobs), NEW x \in 1..MaxJobs,
         x \notin SqJobsOn(q), SqDistinct(q)
  PROVE  /\ SqJobsOn(<<x>> \o q) = SqJobsOn(q) \cup {x}
         /\ SqDistinct(<<x>> \o q)
<1> DEFINE p == <<x>> \o q
<1>1. /\ <<x>> \in Seq(1..MaxJobs) /\ Len(<<x>>) = 1
      /\ Len(q) \in Nat /\ DOMAIN q = 1..Len(q)
  BY LenProperties
<1>2. p \in Seq(1..MaxJobs) /\ Len(p) = 1 + Len(q)
  BY <1>1, ConcatProperties
<1>3. DOMAIN p = 1..(1 + Len(q))
  BY <1>2, LenProperties
<1>4. p[1] = x /\ \A i \in DOMAIN q : i + 1 \in DOMAIN p /\ p[i + 1] = q[i]
  BY <1>1, <1>3, ConcatProperties
<1>5. \A i \in DOMAIN p : i = 1 \/ (i - 1 \in DOMAIN q /\ p[i] = q[i - 1])
  BY <1>1, <1>3, <1>4
<1>6. 1 \in DOMAIN p
  BY <1>1, <1>3
<1> HIDE DEF p
<1>7. SqJobsOn(p) = SqJobsOn(q) \cup {x}
  <2>1. SqJobsOn(p) \subseteq SqJobsOn(q) \cup {x}
    BY <1>4, <1>5 DEF SqJobsOn
  <2>2. SqJobsOn(q) \cup {x} \subseteq SqJobsOn(p)
    BY <1>4, <1>6 DEF SqJobsOn
  <2> QED
    BY <2>1, <2>2
<1>8. SqDistinct(p)
  <2> SUFFICES ASSUME NEW i \in DOMAIN p, NEW k \in DOMAIN p, p[i] = p[k]
               PROVE  i = k
    BY DEF SqDistinct
  <2>1. \A m \in DOMAIN p : m # 1 => p[m] # x
    BY <1>5 DEF SqJobsOn
  <2>2. CASE i = 1 \/ k = 1
    BY <1>4, <2>1, <2>2
  <2>3. CASE i # 1 /\ k # 1
    <3>1. i - 1 \in DOMAIN q /\ k - 1 \in DOMAIN q /\ q[i - 1] = q[k - 1]
      BY <1>5, <2>3
    <3>2. i - 1 = k - 1 /\ i \in Nat /\ k \in Nat
      BY <1>1, <1>3, <3>1 DEF SqDistinct
    <3> QED
      BY <3>2
  <2> QED
    BY <2>2, <2>3
<1> QED
  BY <1>7, <1>8 DEF p

LEMMA SqNextFresh ==
  ASSUME SqInv, SqFresh, [SqNext]_sqVars
  PROVE  SqFresh'
<1> USE DEF SqInv, SqTypeOK, sqThreads, SqGoto, SqFresh, SqRoles, SqBefore
<1>1. CASE UNCHANGED sqVars
  BY <1>1 DEF sqVars
<1>2. ASSUME NEW t \in sqThreads, SqCreate(t) PROVE SqFresh'
  BY <1>2 DEF SqCreate
<1>3. ASSUME NEW w \in Workers, SqGetWait(w) PROVE SqFresh'
  BY <1>3 DEF SqGetWait
<1>4. ASSUME NEW w \in Workers, SqGetRead(w) PROVE SqFresh'
  BY <1>4 DEF SqGetRead
<1>5. ASSUME NEW w \in Workers, SqGetPop(w) PROVE SqFresh'
  <2>1. sqRead[w] = sqWorkq /\ sqWorkq # <<>>
    BY <1>5, SqPastNonEmpty DEF SqGetPop, SqMutual
  <2>2. /\ sqWorkq' = Tail(sqWorkq)
        /\ sqRet' = [sqRet EXCEPT ![w] = {Head(sqWorkq)}]
        /\ sqPc' = [sqPc EXCEPT ![w] = "run"]
        /\ UNCHANGED <<sqMade, sqDone>>
    BY <1>5, <2>1 DEF SqGetPop
  <2>3. /\ SqDistinct(Tail(sqWorkq))
        /\ SqJobsOn(Tail(sqWorkq)) \subseteq SqJobsOn(sqWorkq)
    BY <2>1, SqTailJobs
  <2>4. Head(sqWorkq) \in SqJobsOn(sqWorkq) /\ Head(sqWorkq) \in 1..MaxJobs
    BY <2>1, SqTailJobs
  <2>5. UNCHANGED sqPc[Boss]
    BY <2>2
  <2> HIDE DEF SqInv
  <2>6. \A j : SqBefore(j) <=> SqBefore(j)'
    BY <2>2, <2>5
  <2> HIDE DEF SqBefore
  <2>7. \A j \in SqJobsOn(sqWorkq)' : SqBefore(j)'
    BY <2>2, <2>3, <2>6
  <2>10. SqDistinct(sqWorkq)'
    BY <2>2, <2>3
  <2>8. \A v \in Workers : \A j \in sqRet'[v] : SqBefore(j)'
    BY <2>2, <2>4, <2>6 DEF SqInv
  <2>9. \A v \in Workers :
          IF sqPc'[v] = "run" THEN \E j \in 1..MaxJobs : sqRet'[v] = {j} ELSE sqRet'[v] = {}
    BY <2>2, <2>4 DEF SqInv
  <2> QED
    BY <2>2, <2>6, <2>7, <2>8, <2>9, <2>10
<1>6. ASSUME NEW w \in Workers, SqRun(w) PROVE SqFresh'
  BY <1>6 DEF SqRun
<1>7. CASE SqPutRead
  <2>1. sqMade' = sqMade + 1 /\ UNCHANGED <<sqWorkq, sqRet, sqDone>>
    BY <1>7 DEF SqPutRead
  <2>2. \A j \in 1..MaxJobs : SqBefore(j) => SqBefore(j)'
    BY <2>1
  <2>3. \A w \in Workers : sqPc'[w] = sqPc[w]
    BY <1>7 DEF SqPutRead
  <2> QED
    BY <2>1, <2>2, <2>3, SqJobsType
<1>8. CASE SqPutPush
  <2>1. sqRead[Boss] = sqWorkq /\ sqMade \in 1..MaxJobs
    BY <1>8 DEF SqPutPush, SqMutual
  <2>2. sqMade \notin SqJobsOn(sqWorkq)
    BY <1>8, <2>1 DEF SqPutPush
  <2>3. /\ sqWorkq' = <<sqMade>> \o sqWorkq
        /\ sqPc' = [sqPc EXCEPT ![Boss] = "post"]
        /\ UNCHANGED <<sqRet, sqMade, sqDone>>
    BY <1>8, <2>1 DEF SqPutPush
  <2>4. /\ SqJobsOn(<<sqMade>> \o sqWorkq) = SqJobsOn(sqWorkq) \cup {sqMade}
        /\ SqDistinct(<<sqMade>> \o sqWorkq)
    BY <2>1, <2>2, SqPushJobs
  <2>5. SqDistinct(sqWorkq)' /\ SqJobsOn(sqWorkq)' = SqJobsOn(sqWorkq) \cup {sqMade}
    BY <2>3, <2>4
  <2>6. \A j \in SqJobsOn(sqWorkq)' : SqBefore(j)'
    <3>1. \A j \in 1..MaxJobs : SqBefore(j) => SqBefore(j)'
      BY <2>1, <2>3
    <3>2. SqBefore(sqMade)'
      BY <2>1, <2>3
    <3> QED
      BY <2>3, <2>5, <3>1, <3>2, SqJobsType
  <2> QED
    BY <2>3, <2>5, <2>6
<1>9. CASE SqPutPost
  BY <1>9 DEF SqPutPost
<1> QED
  BY <1>1, <1>2, <1>3, <1>4, <1>5, <1>6, <1>7, <1>8, <1>9
     DEF SqNext, SqBoss, SqWorker

\* Each step of the queue is a step of the pool, or changes nothing the pool
\* shows.
LEMMA SqStepSimulates ==
  ASSUME SqInv, SqFresh, [SqNext]_sqVars
  PROVE  [SqPool!PoolNext]_(SqPool!poolVars)
<1> USE DEF SqInv, SqTypeOK, sqThreads, SqGoto, SqFresh, SqPool!poolVars
<1>1. CASE UNCHANGED sqVars
  BY <1>1 DEF sqVars
<1>2. ASSUME NEW t \in sqThreads, SqCreate(t) PROVE UNCHANGED SqPool!poolVars
  BY <1>2 DEF SqCreate
<1>3. ASSUME NEW w \in Workers, SqGetWait(w) PROVE UNCHANGED SqPool!poolVars
  BY <1>3 DEF SqGetWait
<1>4. ASSUME NEW w \in Workers, SqGetRead(w) PROVE UNCHANGED SqPool!poolVars
  BY <1>4 DEF SqGetRead
<1>5. ASSUME NEW w \in Workers, SqGetPop(w) PROVE SqPool!PoolNext
  <2>1. sqRead[w] = sqWorkq /\ sqWorkq # <<>>
    BY <1>5, SqPastNonEmpty DEF SqGetPop, SqMutual
  <2>2. /\ sqWorkq' = Tail(sqWorkq)
        /\ sqRet' = [sqRet EXCEPT ![w] = {Head(sqWorkq)}]
        /\ UNCHANGED sqDone
    BY <1>5, <2>1 DEF SqGetPop
  <2>3. SqJobsOn(Tail(sqWorkq)) = SqJobsOn(sqWorkq) \ {Head(sqWorkq)}
    BY <2>1, SqTailJobs
  <2>4. Head(sqWorkq) \in SqJobsOn(sqWorkq)
    BY <2>1, SqTailJobs
  <2>5. sqRet[w] = {}
    BY <1>5 DEF SqGetPop
  <2>6. PICK j \in SqJobsOn(sqWorkq) : j = Head(sqWorkq)
    BY <2>4
  <2>7. SqPool!Take(w, j)
    BY ZenonT(60), <2>2, <2>3, <2>5, <2>6 DEF SqPool!Take, SqJobsOn
  <2> QED
    BY <2>7 DEF SqPool!PoolNext, SqJobsOn
<1>6. ASSUME NEW w \in Workers, SqRun(w) PROVE SqPool!PoolNext
  <2>1. PICK j \in 1..MaxJobs : sqRet[w] = {j}
    BY <1>6 DEF SqRun
  <2>2. SqPool!Finish(w, j)
    BY <1>6, <2>1 DEF SqRun, SqPool!Finish
  <2> QED
    BY <2>1, <2>2 DEF SqPool!PoolNext
<1>7. CASE SqPutRead
  BY <1>7 DEF SqPutRead
<1>8. CASE SqPutPush
  <2>1. sqRead[Boss] = sqWorkq /\ sqMade \in 1..MaxJobs
    BY <1>8 DEF SqPutPush, SqMutual, SqRoles
  <2>2. /\ sqMade \notin SqJobsOn(sqWorkq) /\ sqMade \notin sqDone
        /\ \A w \in Workers : sqMade \notin sqRet[w]
    BY <1>8, <2>1 DEF SqPutPush, SqBefore
  <2>3. sqWorkq' = <<sqMade>> \o sqWorkq /\ UNCHANGED <<sqRet, sqDone>>
    BY <1>8, <2>1 DEF SqPutPush
  <2>4. SqJobsOn(<<sqMade>> \o sqWorkq) = SqJobsOn(sqWorkq) \cup {sqMade}
    BY <2>1, <2>2, SqPushJobs
  <2>5. PICK j \in 1..MaxJobs : j = sqMade
    BY <2>1
  <2>6. SqPool!Submit(j)
    <3>1. j \notin UNION {sqRet[w] : w \in Workers}
      BY <2>2, <2>5
    <3>2. j \notin SqPool!Known
      BY <2>2, <2>5, <3>1 DEF SqPool!Known, SqJobsOn
    <3>3. SqJobsOn(sqWorkq)' = SqJobsOn(sqWorkq) \cup {j}
      BY <2>3, <2>4, <2>5
    <3> QED
      BY <2>3, <3>2, <3>3 DEF SqPool!Submit, SqJobsOn
  <2> QED
    BY <2>6 DEF SqPool!PoolNext
<1>9. CASE SqPutPost
  BY <1>9 DEF SqPutPost
<1> QED
  BY <1>1, <1>2, <1>3, <1>4, <1>5, <1>6, <1>7, <1>8, <1>9
     DEF SqNext, SqBoss, SqWorker

\* wqueue_semaphores.c implements the job pool: whatever the interleaving,
\* every job is taken by one worker and run once.
THEOREM SqRefinesPool == SqSpec => SqIsJobPool
<1>1. SqInit => SqPool!PoolInit /\ SqFresh
  BY DEF SqInit, SqPool!PoolInit, SqFresh, SqJobsOn, SqDistinct, sqThreads
<1>2. SqInv /\ SqFresh /\ [SqNext]_sqVars => SqFresh'
  BY SqNextFresh
<1>3. SqInv /\ SqFresh /\ [SqNext]_sqVars => [SqPool!PoolNext]_(SqPool!poolVars)
  BY SqStepSimulates
<1> QED
  BY <1>1, <1>2, <1>3, SqAlwaysInv, PTL DEF SqSpec, SqIsJobPool, SqPool!PoolSpec
----------------------------------------------------------------------------
(* The queue with a condition.                                             *)

\* Whoever is between the lock and the unlock of workq_lock holds it, and the
\* list it read there is the list; a worker goes on to the pop only when the
\* list is not empty.
CqMutual ==
  /\ \A t \in cqThreads : cqPc[t] \in {"check", "pop", "push"} => cqLock = {t}
  /\ \A t \in cqThreads : cqPc[t] \in {"pop", "push"} => cqRead[t] = cqWorkq
  /\ \A w \in Workers : cqPc[w] = "pop" => cqWorkq # <<>>

\* Which code each kind of thread runs.
CqRoles ==
  /\ \A w \in Workers : cqPc[w] \notin {"push", "signal", "crashed"}
  /\ cqPc[Boss] \notin {"check", "asleep", "pop", "run", "crashed"}
  /\ cqPc[Boss] = "push" => cqMade > 0

\* The sleepers are inside pthread_cond_wait(3).
CqAsleep == \A w \in cqCond : cqPc[w] = "asleep"

CqInv == CqTypeOK /\ CqMutual /\ CqRoles /\ CqAsleep

LEMMA CqInitInv == CqInit => CqInv /\ CqNoLostWakeup
  BY DEF CqInit, CqInv, CqTypeOK, CqLabels, CqMutual, CqRoles, CqAsleep,
         CqNoLostWakeup, cqThreads

\* get_job() without the branch that CqMutual rules out.
LEMMA CqPopWrites ==
  ASSUME CqInv, NEW w \in Workers, CqGetPop(w)
  PROVE  /\ cqRead[w] = cqWorkq /\ cqWorkq # <<>>
         /\ cqLock = {w} /\ cqLock' = {}
         /\ cqWorkq' = Tail(cqWorkq)
         /\ cqRet' = [cqRet EXCEPT ![w] = {Head(cqWorkq)}]
         /\ cqRead' = [cqRead EXCEPT ![w] = <<>>]
         /\ cqPc' = [cqPc EXCEPT ![w] = "run"]
         /\ UNCHANGED <<cqCond, cqMade, cqDone>>
<1>1. cqRead[w] = cqWorkq /\ cqWorkq # <<>> /\ cqLock = {w}
  BY DEF CqGetPop, CqInv, CqMutual, cqThreads
<1> QED
  BY <1>1 DEF CqGetPop, MutexUnlock, CqGoto

LEMMA CqNextType ==
  ASSUME CqInv, [CqNext]_cqVars
  PROVE  CqTypeOK'
<1> USE DEF CqInv, CqTypeOK, cqThreads, CqGoto, CqLabels
<1>1. CASE UNCHANGED cqVars
  BY <1>1 DEF cqVars
<1>2. ASSUME NEW t \in cqThreads, CqCreate(t) PROVE CqTypeOK'
  BY <1>2 DEF CqCreate
<1>3. ASSUME NEW w \in Workers, CqGetLock(w) PROVE CqTypeOK'
  BY <1>3 DEF CqGetLock, MutexLock
<1>4. ASSUME NEW w \in Workers, CqGetSleep(w) PROVE CqTypeOK'
  BY <1>4 DEF CqGetSleep, MutexUnlock
<1>5. ASSUME NEW w \in Workers, CqGetRead(w) PROVE CqTypeOK'
  BY <1>5 DEF CqGetRead
<1>6. ASSUME NEW w \in Workers, CqGetPop(w) PROVE CqTypeOK'
  <2>1. Head(cqWorkq) \in 1..MaxJobs /\ Tail(cqWorkq) \in Seq(1..MaxJobs)
    BY <1>6, CqPopWrites, HeadTailProperties
  <2>2. <<>> \in Seq(1..MaxJobs)
    OBVIOUS
  <2>3. /\ cqLock' = {} /\ cqWorkq' = Tail(cqWorkq)
        /\ cqRet' = [cqRet EXCEPT ![w] = {Head(cqWorkq)}]
        /\ cqRead' = [cqRead EXCEPT ![w] = <<>>]
        /\ cqPc' = [cqPc EXCEPT ![w] = "run"]
        /\ UNCHANGED <<cqCond, cqMade, cqDone>>
    BY <1>6, CqPopWrites
  <2> QED
    BY <2>1, <2>2, <2>3
<1>7. ASSUME NEW w \in Workers, CqRun(w) PROVE CqTypeOK'
  BY <1>7 DEF CqRun
<1>8. ASSUME NEW w \in Workers, CqSpurious(w) PROVE CqTypeOK'
  BY <1>8 DEF CqSpurious, CondSpurious
<1>9. CASE CqPutRead
  BY <1>9 DEF CqPutRead, MutexLock
<1>10. CASE CqPutPush
  <2>1. <<cqMade>> \in Seq(1..MaxJobs)
    BY <1>10 DEF CqPutPush, CqRoles
  <2>2. <<cqMade>> \o cqRead[Boss] \in Seq(1..MaxJobs)
    BY <2>1, ConcatProperties
  <2> QED
    BY <1>10, <2>2 DEF CqPutPush, MutexUnlock
<1>11. CASE CqPutSignal
  BY <1>11 DEF CqPutSignal, CondSignal
<1> QED
  BY <1>1, <1>2, <1>3, <1>4, <1>5, <1>6, <1>7, <1>8, <1>9, <1>10, <1>11
     DEF CqNext, CqBoss, CqWorker

LEMMA CqNextMutual ==
  ASSUME CqInv, [CqNext]_cqVars
  PROVE  CqMutual' /\ CqRoles' /\ CqAsleep'
<1> USE DEF CqInv, CqTypeOK, cqThreads, CqGoto, CqMutual, CqRoles, CqAsleep
<1> DEFINE Goal == CqMutual' /\ CqRoles' /\ CqAsleep'
<1>1. CASE UNCHANGED cqVars
  BY <1>1 DEF cqVars
<1>2. ASSUME NEW t \in cqThreads, CqCreate(t) PROVE Goal
  BY ZenonT(60), <1>2 DEF CqCreate
<1>3. ASSUME NEW w \in Workers, CqGetLock(w) PROVE Goal
  BY <1>3 DEF CqGetLock, MutexLock
<1>4. ASSUME NEW w \in Workers, CqGetSleep(w) PROVE Goal
  BY <1>4 DEF CqGetSleep, MutexUnlock
<1>5. ASSUME NEW w \in Workers, CqGetRead(w) PROVE Goal
  BY <1>5 DEF CqGetRead
<1>6. ASSUME NEW w \in Workers, CqGetPop(w) PROVE Goal
  <2>1. \A t \in cqThreads : cqPc'[t] \notin {"check", "pop", "push"}
    BY ZenonT(60), <1>6, CqPopWrites
  <2>2. CqRoles' /\ CqAsleep'
    BY <1>6, CqPopWrites DEF CqGetPop
  <2> QED
    BY <2>1, <2>2
<1>7. ASSUME NEW w \in Workers, CqRun(w) PROVE Goal
  BY <1>7 DEF CqRun
<1>8. ASSUME NEW w \in Workers, CqSpurious(w) PROVE Goal
  BY <1>8 DEF CqSpurious, CondSpurious
<1>9. CASE CqPutRead
  BY <1>9 DEF CqPutRead, MutexLock
<1>10. CASE CqPutPush
  <2>1. cqLock = {Boss} /\ cqPc' = [cqPc EXCEPT ![Boss] = "signal"]
    BY <1>10 DEF CqPutPush
  <2>2. \A t \in cqThreads : cqPc'[t] \notin {"check", "pop", "push"}
    BY <2>1
  <2>3. CqRoles' /\ CqAsleep'
    BY <1>10, <2>1 DEF CqPutPush
  <2> QED
    BY <2>2, <2>3
<1>11. CASE CqPutSignal
  BY <1>11 DEF CqPutSignal, CondSignal
<1> QED
  BY <1>1, <1>2, <1>3, <1>4, <1>5, <1>6, <1>7, <1>8, <1>9, <1>10, <1>11
     DEF CqNext, CqBoss, CqWorker

\* A sleeper was created, and whoever runs get_job() or a job is awake.
LEMMA CqNextNoLostWakeup ==
  ASSUME CqInv, CqNoLostWakeup, [CqNext]_cqVars
  PROVE  CqNoLostWakeup'
<1> USE DEF CqInv, CqTypeOK, cqThreads, CqGoto, CqRoles, CqAsleep, CqLive, CqNoLostWakeup
<1>1. CASE UNCHANGED cqVars
  BY <1>1 DEF cqVars
<1>2. ASSUME NEW t \in cqThreads, CqCreate(t) PROVE CqNoLostWakeup'
  BY <1>2 DEF CqCreate
<1>3. ASSUME NEW w \in Workers, CqGetLock(w) PROVE CqNoLostWakeup'
  BY <1>3 DEF CqGetLock
<1>4. ASSUME NEW w \in Workers, CqGetSleep(w) PROVE CqNoLostWakeup'
  BY <1>4 DEF CqGetSleep
<1>5. ASSUME NEW w \in Workers, CqGetRead(w) PROVE CqNoLostWakeup'
  BY <1>5 DEF CqGetRead
<1>6. ASSUME NEW w \in Workers, CqGetPop(w) PROVE CqNoLostWakeup'
  <2>1. w \in CqLive' /\ w \notin cqCond'
    BY <1>6, CqPopWrites DEF CqGetPop
  <2> QED
    BY <2>1
<1>7. ASSUME NEW w \in Workers, CqRun(w) PROVE CqNoLostWakeup'
  BY <1>7 DEF CqRun
<1>8. ASSUME NEW w \in Workers, CqSpurious(w) PROVE CqNoLostWakeup'
  BY <1>8 DEF CqSpurious, CondSpurious
<1>9. CASE CqPutRead
  BY <1>9 DEF CqPutRead
<1>10. CASE CqPutPush
  BY <1>10 DEF CqPutPush
<1>11. CASE CqPutSignal
  BY <1>11 DEF CqPutSignal, CondSignal
<1> QED
  BY <1>1, <1>2, <1>3, <1>4, <1>5, <1>6, <1>7, <1>8, <1>9, <1>10, <1>11
     DEF CqNext, CqBoss, CqWorker

LEMMA CqAlwaysInv == CqSpec => []CqInv
<1>1. CqInv /\ [CqNext]_cqVars => CqInv'
  BY CqNextType, CqNextMutual DEF CqInv
<1> QED
  BY <1>1, CqInitInv, PTL DEF CqSpec

\* The variables of wqueue_condvars.c keep their types.
THEOREM CqTypeCorrect == CqSpec => []CqTypeOK
<1>1. CqInv => CqTypeOK
  BY DEF CqInv
<1> QED
  BY <1>1, CqAlwaysInv, PTL

\* A worker woken in vain, or after another one took the job, tests the list
\* again and so never pops from an empty one.
THEOREM CqPopSafe == CqSpec => []CqNeverPopsEmpty
<1>1. CqInv => CqNeverPopsEmpty
  BY DEF CqInv, CqRoles, CqNeverPopsEmpty
<1> QED
  BY <1>1, CqAlwaysInv, PTL

\* Sending the signal outside the mutex loses no wake-up: while a job is on the
\* list some worker is awake, unless the boss is still to signal.
THEOREM CqWakes == CqSpec => []CqNoLostWakeup
<1>1. CqInv /\ CqNoLostWakeup /\ [CqNext]_cqVars => CqNoLostWakeup'
  BY CqNextNoLostWakeup
<1> QED
  BY <1>1, CqInitInv, CqAlwaysInv, PTL DEF CqSpec
----------------------------------------------------------------------------
\* The jobs are told apart as in the other queue.
CqBefore(j) == j <= cqMade /\ (cqPc[Boss] = "push" => j < cqMade)
CqFresh ==
  /\ SqDistinct(cqWorkq)
  /\ \A j \in SqJobsOn(cqWorkq) : CqBefore(j)
  /\ \A j \in cqDone : CqBefore(j)
  /\ \A w \in Workers : \A j \in cqRet[w] : CqBefore(j)
  /\ \A w \in Workers :
       IF cqPc[w] = "run" THEN \E j \in 1..MaxJobs : cqRet[w] = {j} ELSE cqRet[w] = {}

LEMMA CqNextFresh ==
  ASSUME CqInv, CqFresh, [CqNext]_cqVars
  PROVE  CqFresh'
<1> USE DEF CqInv, CqTypeOK, cqThreads, CqGoto, CqFresh, CqRoles, CqBefore
<1>1. CASE UNCHANGED cqVars
  BY <1>1 DEF cqVars
<1>2. ASSUME NEW t \in cqThreads, CqCreate(t) PROVE CqFresh'
  BY <1>2 DEF CqCreate
<1>3. ASSUME NEW w \in Workers, CqGetLock(w) PROVE CqFresh'
  BY <1>3 DEF CqGetLock
<1>10. ASSUME NEW w \in Workers, CqGetSleep(w) PROVE CqFresh'
  BY <1>10 DEF CqGetSleep
<1>11. ASSUME NEW w \in Workers, CqSpurious(w) PROVE CqFresh'
  BY <1>11 DEF CqSpurious
<1>4. ASSUME NEW w \in Workers, CqGetRead(w) PROVE CqFresh'
  BY <1>4 DEF CqGetRead
<1>5. ASSUME NEW w \in Workers, CqGetPop(w) PROVE CqFresh'
  <2>1. cqRead[w] = cqWorkq /\ cqWorkq # <<>>
    BY <1>5, CqPopWrites
  <2>2. /\ cqWorkq' = Tail(cqWorkq)
        /\ cqRet' = [cqRet EXCEPT ![w] = {Head(cqWorkq)}]
        /\ cqPc' = [cqPc EXCEPT ![w] = "run"]
        /\ UNCHANGED <<cqMade, cqDone>>
    BY <1>5, CqPopWrites
  <2>3. /\ SqDistinct(Tail(cqWorkq))
        /\ SqJobsOn(Tail(cqWorkq)) \subseteq SqJobsOn(cqWorkq)
    BY <2>1, SqTailJobs
  <2>4. Head(cqWorkq) \in SqJobsOn(cqWorkq) /\ Head(cqWorkq) \in 1..MaxJobs
    BY <2>1, SqTailJobs
  <2>5. UNCHANGED cqPc[Boss]
    BY <2>2
  <2> HIDE DEF CqInv
  <2>6. \A j : CqBefore(j) <=> CqBefore(j)'
    BY <2>2, <2>5
  <2> HIDE DEF CqBefore
  <2>7. \A j \in SqJobsOn(cqWorkq)' : CqBefore(j)'
    BY <2>2, <2>3, <2>6
  <2>10. SqDistinct(cqWorkq)'
    BY <2>2, <2>3
  <2>8. \A v \in Workers : \A j \in cqRet'[v] : CqBefore(j)'
    BY <2>2, <2>4, <2>6 DEF CqInv
  <2>9. \A v \in Workers :
          IF cqPc'[v] = "run" THEN \E j \in 1..MaxJobs : cqRet'[v] = {j} ELSE cqRet'[v] = {}
    BY <2>2, <2>4 DEF CqInv
  <2> QED
    BY <2>2, <2>6, <2>7, <2>8, <2>9, <2>10
<1>6. ASSUME NEW w \in Workers, CqRun(w) PROVE CqFresh'
  BY <1>6 DEF CqRun
<1>7. CASE CqPutRead
  <2>1. cqMade' = cqMade + 1 /\ UNCHANGED <<cqWorkq, cqRet, cqDone>>
    BY <1>7 DEF CqPutRead
  <2>2. \A j \in 1..MaxJobs : CqBefore(j) => CqBefore(j)'
    BY <2>1
  <2>3. \A w \in Workers : cqPc'[w] = cqPc[w]
    BY <1>7 DEF CqPutRead
  <2> QED
    BY <2>1, <2>2, <2>3, SqJobsType
<1>8. CASE CqPutPush
  <2>1. cqRead[Boss] = cqWorkq /\ cqMade \in 1..MaxJobs
    BY <1>8 DEF CqPutPush, CqMutual
  <2>2. cqMade \notin SqJobsOn(cqWorkq)
    BY <1>8, <2>1 DEF CqPutPush
  <2>3. /\ cqWorkq' = <<cqMade>> \o cqWorkq
        /\ cqPc' = [cqPc EXCEPT ![Boss] = "signal"]
        /\ UNCHANGED <<cqRet, cqMade, cqDone>>
    BY <1>8, <2>1 DEF CqPutPush
  <2>4. /\ SqJobsOn(<<cqMade>> \o cqWorkq) = SqJobsOn(cqWorkq) \cup {cqMade}
        /\ SqDistinct(<<cqMade>> \o cqWorkq)
    BY <2>1, <2>2, SqPushJobs
  <2>5. SqDistinct(cqWorkq)' /\ SqJobsOn(cqWorkq)' = SqJobsOn(cqWorkq) \cup {cqMade}
    BY <2>3, <2>4
  <2>6. \A j \in SqJobsOn(cqWorkq)' : CqBefore(j)'
    <3>1. \A j \in 1..MaxJobs : CqBefore(j) => CqBefore(j)'
      BY <2>1, <2>3
    <3>2. CqBefore(cqMade)'
      BY <2>1, <2>3
    <3> QED
      BY <2>3, <2>5, <3>1, <3>2, SqJobsType
  <2> QED
    BY <2>3, <2>5, <2>6
<1>9. CASE CqPutSignal
  BY <1>9 DEF CqPutSignal
<1> QED
  BY <1>1, <1>2, <1>3, <1>4, <1>5, <1>6, <1>7, <1>8, <1>9, <1>10, <1>11
     DEF CqNext, CqBoss, CqWorker

\* Each step of the queue is a step of the pool, or changes nothing the pool
\* shows.
LEMMA CqStepSimulates ==
  ASSUME CqInv, CqFresh, [CqNext]_cqVars
  PROVE  [CqPool!PoolNext]_(CqPool!poolVars)
<1> USE DEF CqInv, CqTypeOK, cqThreads, CqGoto, CqFresh, CqPool!poolVars
<1>1. CASE UNCHANGED cqVars
  BY <1>1 DEF cqVars
<1>2. ASSUME NEW t \in cqThreads, CqCreate(t) PROVE UNCHANGED CqPool!poolVars
  BY <1>2 DEF CqCreate
<1>3. ASSUME NEW w \in Workers, CqGetLock(w) PROVE UNCHANGED CqPool!poolVars
  BY <1>3 DEF CqGetLock
<1>10. ASSUME NEW w \in Workers, CqGetSleep(w) PROVE UNCHANGED CqPool!poolVars
  BY <1>10 DEF CqGetSleep
<1>11. ASSUME NEW w \in Workers, CqSpurious(w) PROVE UNCHANGED CqPool!poolVars
  BY <1>11 DEF CqSpurious
<1>4. ASSUME NEW w \in Workers, CqGetRead(w) PROVE UNCHANGED CqPool!poolVars
  BY <1>4 DEF CqGetRead
<1>5. ASSUME NEW w \in Workers, CqGetPop(w) PROVE CqPool!PoolNext
  <2>1. cqRead[w] = cqWorkq /\ cqWorkq # <<>>
    BY <1>5, CqPopWrites
  <2>2. /\ cqWorkq' = Tail(cqWorkq)
        /\ cqRet' = [cqRet EXCEPT ![w] = {Head(cqWorkq)}]
        /\ UNCHANGED cqDone
    BY <1>5, CqPopWrites
  <2>3. SqJobsOn(Tail(cqWorkq)) = SqJobsOn(cqWorkq) \ {Head(cqWorkq)}
    BY <2>1, SqTailJobs
  <2>4. Head(cqWorkq) \in SqJobsOn(cqWorkq)
    BY <2>1, SqTailJobs
  <2>5. cqRet[w] = {}
    BY <1>5 DEF CqGetPop
  <2>6. PICK j \in SqJobsOn(cqWorkq) : j = Head(cqWorkq)
    BY <2>4
  <2>7. CqPool!Take(w, j)
    BY ZenonT(60), <2>2, <2>3, <2>5, <2>6 DEF CqPool!Take, SqJobsOn
  <2> QED
    BY <2>7 DEF CqPool!PoolNext, SqJobsOn
<1>6. ASSUME NEW w \in Workers, CqRun(w) PROVE CqPool!PoolNext
  <2>1. PICK j \in 1..MaxJobs : cqRet[w] = {j}
    BY <1>6 DEF CqRun
  <2>2. CqPool!Finish(w, j)
    BY <1>6, <2>1 DEF CqRun, CqPool!Finish
  <2> QED
    BY <2>1, <2>2 DEF CqPool!PoolNext
<1>7. CASE CqPutRead
  BY <1>7 DEF CqPutRead
<1>8. CASE CqPutPush
  <2>1. cqRead[Boss] = cqWorkq /\ cqMade \in 1..MaxJobs
    BY <1>8 DEF CqPutPush, CqMutual, CqRoles
  <2>2. /\ cqMade \notin SqJobsOn(cqWorkq) /\ cqMade \notin cqDone
        /\ \A w \in Workers : cqMade \notin cqRet[w]
    BY <1>8, <2>1 DEF CqPutPush, CqBefore
  <2>3. cqWorkq' = <<cqMade>> \o cqWorkq /\ UNCHANGED <<cqRet, cqDone>>
    BY <1>8, <2>1 DEF CqPutPush
  <2>4. SqJobsOn(<<cqMade>> \o cqWorkq) = SqJobsOn(cqWorkq) \cup {cqMade}
    BY <2>1, <2>2, SqPushJobs
  <2>5. PICK j \in 1..MaxJobs : j = cqMade
    BY <2>1
  <2>6. CqPool!Submit(j)
    <3>1. j \notin UNION {cqRet[w] : w \in Workers}
      BY <2>2, <2>5
    <3>2. j \notin CqPool!Known
      BY <2>2, <2>5, <3>1 DEF CqPool!Known, SqJobsOn
    <3>3. SqJobsOn(cqWorkq)' = SqJobsOn(cqWorkq) \cup {j}
      BY <2>3, <2>4, <2>5
    <3> QED
      BY <2>3, <3>2, <3>3 DEF CqPool!Submit, SqJobsOn
  <2> QED
    BY <2>6 DEF CqPool!PoolNext
<1>9. CASE CqPutSignal
  BY <1>9 DEF CqPutSignal
<1> QED
  BY <1>1, <1>2, <1>3, <1>4, <1>5, <1>6, <1>7, <1>8, <1>9, <1>10, <1>11
     DEF CqNext, CqBoss, CqWorker

\* wqueue_condvars.c implements the job pool: whatever the interleaving,
\* every job is taken by one worker and run once.
THEOREM CqRefinesPool == CqSpec => CqIsJobPool
<1>1. CqInit => CqPool!PoolInit /\ CqFresh
  BY DEF CqInit, CqPool!PoolInit, CqFresh, SqJobsOn, SqDistinct, cqThreads
<1>2. CqInv /\ CqFresh /\ [CqNext]_cqVars => CqFresh'
  BY CqNextFresh
<1>3. CqInv /\ CqFresh /\ [CqNext]_cqVars => [CqPool!PoolNext]_(CqPool!poolVars)
  BY CqStepSimulates
<1> QED
  BY <1>1, <1>2, <1>3, CqAlwaysInv, PTL DEF CqSpec, CqIsJobPool, CqPool!PoolSpec
----------------------------------------------------------------------------
(* The counting semaphore.                                                 *)

\* Whoever is between the lock and the unlock of sem_lock holds it.
CsMutual ==
  \A t \in csThreads : csPc[t] \in {"check", "take", "inc"} => csLock = {t}

\* Which code each kind of thread runs.
CsRoles ==
  /\ \A t \in Workers :
       csPc[t] \in {"uncreated", "failed", "start", "check", "asleep", "take"}
  /\ csPc[Boss] \in {"prompt", "loop", "inc", "signal", "joining"}

\* The test of the counter still holds when the counter is decremented.
CsTaken == \A t \in Workers : csPc[t] = "take" => csCounter > 0

\* The posts made, under way and left of the command.
CsBudget == csPosts + csLeft + (IF csPc[Boss] = "inc" THEN 1 ELSE 0) <= MaxJobs

CsInv == CsTypeOK /\ CsMutual /\ CsRoles /\ CsTaken /\ CsBudget /\ CsCounts

LEMMA CsInitInv == CsInit => CsInv
  BY DEF CsInit, CsInv, CsTypeOK, CsLabels, CsMutual, CsRoles, CsTaken, CsBudget,
         CsCounts, csThreads

LEMMA CsNextType ==
  ASSUME CsInv, [CsNext]_csVars
  PROVE  CsTypeOK' /\ CsBudget'
<1> USE DEF CsInv, CsTypeOK, csThreads, CsGoto, CsLabels, CsBudget
<1> DEFINE Goal == CsTypeOK' /\ CsBudget'
<1>1. CASE UNCHANGED csVars
  BY <1>1 DEF csVars
<1>2. ASSUME NEW t \in Workers, CsCreate(t) PROVE Goal
  BY <1>2 DEF CsCreate
<1>3. ASSUME NEW n \in 0..MaxJobs, CsCommand(n) PROVE Goal
  BY <1>3 DEF CsCommand
<1>4. CASE CsQuit
  BY <1>4 DEF CsQuit
<1>5. CASE CsLoopEnd
  BY <1>5 DEF CsLoopEnd
<1>6. CASE CsPostLock
  BY <1>6 DEF CsPostLock, MutexLock
<1>7. CASE CsPostInc
  BY <1>7 DEF CsPostInc, MutexUnlock
<1>8. CASE CsPostSignal
  BY <1>8 DEF CsPostSignal, CondSignal
<1>9. ASSUME NEW t \in Workers, CsWaitLock(t) PROVE Goal
  BY <1>9 DEF CsWaitLock, MutexLock
<1>10. ASSUME NEW t \in Workers, CsWaitSleep(t) PROVE Goal
  BY <1>10 DEF CsWaitSleep, MutexUnlock
<1>11. ASSUME NEW t \in Workers, CsWaitGo(t) PROVE Goal
  BY <1>11 DEF CsWaitGo
<1>12. ASSUME NEW t \in Workers, CsWaitTake(t) PROVE Goal
  BY <1>12 DEF CsWaitTake, MutexUnlock
<1>13. ASSUME NEW t \in Workers, CsSpurious(t) PROVE Goal
  BY <1>13 DEF CsSpurious, CondSpurious
<1> QED
  BY <1>1, <1>2, <1>3, <1>4, <1>5, <1>6, <1>7, <1>8, <1>9, <1>10, <1>11, <1>12, <1>13
     DEF CsNext, CsMain, CsThread

LEMMA CsNextCounts ==
  ASSUME CsInv, [CsNext]_csVars
  PROVE  CsMutual' /\ CsRoles' /\ CsTaken' /\ CsCounts'
<1> USE DEF CsInv, CsTypeOK, csThreads, CsGoto, CsMutual, CsRoles, CsTaken, CsCounts
<1> DEFINE Goal == CsMutual' /\ CsRoles' /\ CsTaken' /\ CsCounts'
<1>1. CASE UNCHANGED csVars
  BY <1>1 DEF csVars
<1>2. ASSUME NEW t \in Workers, CsCreate(t) PROVE Goal
  BY <1>2 DEF CsCreate
<1>3. ASSUME NEW n \in 0..MaxJobs, CsCommand(n) PROVE Goal
  BY <1>3 DEF CsCommand
<1>4. CASE CsQuit
  BY <1>4 DEF CsQuit
<1>5. CASE CsLoopEnd
  BY <1>5 DEF CsLoopEnd
<1>6. CASE CsPostLock
  BY <1>6 DEF CsPostLock, MutexLock
<1>7. CASE CsPostInc
  BY <1>7 DEF CsPostInc, MutexUnlock
<1>8. CASE CsPostSignal
  BY <1>8 DEF CsPostSignal
<1>9. ASSUME NEW t \in Workers, CsWaitLock(t) PROVE Goal
  BY <1>9 DEF CsWaitLock, MutexLock
<1>10. ASSUME NEW t \in Workers, CsWaitSleep(t) PROVE Goal
  BY <1>10 DEF CsWaitSleep, MutexUnlock
<1>11. ASSUME NEW t \in Workers, CsWaitGo(t) PROVE Goal
  BY <1>11 DEF CsWaitGo
<1>12. ASSUME NEW t \in Workers, CsWaitTake(t) PROVE Goal
  BY <1>12 DEF CsWaitTake, MutexUnlock
<1>13. ASSUME NEW t \in Workers, CsSpurious(t) PROVE Goal
  BY <1>13 DEF CsSpurious
<1> QED
  BY <1>1, <1>2, <1>3, <1>4, <1>5, <1>6, <1>7, <1>8, <1>9, <1>10, <1>11, <1>12, <1>13
     DEF CsNext, CsMain, CsThread

LEMMA CsAlwaysInv == CsSpec => []CsInv
<1>1. CsInv /\ [CsNext]_csVars => CsInv'
  BY CsNextType, CsNextCounts DEF CsInv
<1> QED
  BY <1>1, CsInitInv, PTL DEF CsSpec

\* The variables of semaphore.c keep their types.
THEOREM CsTypeCorrect == CsSpec => []CsTypeOK
<1>1. CsInv => CsTypeOK
  BY DEF CsInv
<1> QED
  BY <1>1, CsAlwaysInv, PTL

\* The object is a counting semaphore: whatever the interleaving of posts,
\* waits and spurious wake-ups, the counter is what was posted and not taken,
\* and the unsigned counter never wraps below zero.
THEOREM CsIsCounting == CsSpec => []CsCounts
<1>1. CsInv => CsCounts
  BY DEF CsInv
<1> QED
  BY <1>1, CsAlwaysInv, PTL
----------------------------------------------------------------------------
(* The barrier, when pthread_cond_wait(3) returns after a broadcast only.  *)

USE BarrierAssumption

\* The mutex is held between the lock and the arrival.
BarHeld == \A u \in Workers : barPc[u] = "arrive" => barLock = {u}

\* The sleepers are inside pthread_cond_wait(3), and they are never all.
BarAsleep ==
  /\ \A u \in barCond : barPc[u] = "asleep"
  /\ barCounter < Target

\* A thread has left the barrier as often as it was released, but once when
\* it was woken and has not left yet.
BarPhase ==
  \A u \in Workers :
    IF barPc[u] = "asleep" /\ u \notin barCond
    THEN barOut[u] + 1 = barSerial
    ELSE barOut[u] = barSerial

\* How many increments bring a thread to its next meeting.
BarGoal(u) ==
  SyncStep * (barOut[u] + (IF barPc[u] \in {"enter", "arrive", "asleep"} THEN 1 ELSE 0))

\* Nobody comes to a meeting early.
BarPaced == \A u \in Workers : barI[u] >= BarGoal(u)

\* The increments made, one by one: the global counter counts them all.
BarAdded == {p \in Workers \X Nat : 1 <= p[2] /\ p[2] <= barI[p[1]]}
BarSum == IsFiniteSet(BarAdded) /\ Cardinality(BarAdded) = barTotal

BarInv ==
  BarTypeOK /\ BarHeld /\ BarAsleep /\ BarGroup /\ BarPhase /\ BarPaced /\ BarSum

LEMMA BarInitInv == BarInit => BarInv
<1> SUFFICES ASSUME BarInit PROVE BarInv
  OBVIOUS
<1>1. BarTypeOK
  BY DEF BarInit, BarTypeOK, BarLabels
<1>2. BarHeld /\ BarPhase /\ BarPaced
  BY DEF BarInit, BarHeld, BarPhase, BarPaced, BarGoal
<1>3. BarAsleep /\ BarGroup
  <2>1. Cardinality(Workers) \in Nat \ {0}
    BY FS_EmptySet, FS_CardinalityType
  <2> QED
    BY <2>1, FS_EmptySet DEF BarInit, BarAsleep, BarGroup
<1>4. BarSum
  <2>1. BarAdded = {}
    BY DEF BarInit, BarAdded
  <2> QED
    BY <2>1, FS_EmptySet DEF BarInit, BarSum
<1> QED
  BY <1>1, <1>2, <1>3, <1>4 DEF BarInv

LEMMA BarNextType ==
  ASSUME BarInv, [BarNext]_barVars
  PROVE  BarTypeOK' /\ BarHeld'
<1> USE DEF BarInv, BarTypeOK, BarHeld, BarGoto, BarLabels, BarLoop
<1> DEFINE Goal == BarTypeOK' /\ BarHeld'
<1>1. CASE UNCHANGED barVars
  BY <1>1 DEF barVars
<1>2. ASSUME NEW t \in Workers, BarCreate(t) PROVE Goal
  BY <1>2 DEF BarCreate
<1>3. ASSUME NEW t \in Workers, BarInc(t) PROVE Goal
  BY <1>3 DEF BarInc
<1>4. ASSUME NEW t \in Workers, BarEnter(t) PROVE Goal
  BY <1>4 DEF BarEnter, MutexLock
<1>5. ASSUME NEW t \in Workers, BarSleep(t) PROVE Goal
  BY <1>5 DEF BarSleep, MutexUnlock
<1>6. ASSUME NEW t \in Workers, BarRelease(t) PROVE Goal
  BY <1>6 DEF BarRelease, MutexUnlock, CondBroadcast
<1>7. ASSUME NEW t \in Workers, BarLeave(t) PROVE Goal
  BY <1>7 DEF BarLeave
<1> QED
  BY <1>1, <1>2, <1>3, <1>4, <1>5, <1>6, <1>7 DEF BarNext, BarThread

\* The last thread to arrive finds all the others asleep.
LEMMA BarLastFindsAll ==
  ASSUME BarInv, NEW t \in Workers, BarRelease(t)
  PROVE  barCond = Workers \ {t}
<1>1. barCond \in SUBSET (Workers \ {t})
  BY DEF BarInv, BarTypeOK, BarAsleep, BarRelease
<1>2. /\ IsFiniteSet(Workers \ {t})
      /\ Cardinality(Workers \ {t}) = Cardinality(Workers) - 1
  BY FS_RemoveElement
<1>3. barCounter = Cardinality(Workers) - 1
  <2>1. Cardinality(Workers) \in Nat
    BY FS_CardinalityType
  <2> QED
    BY <2>1 DEF BarInv, BarTypeOK, BarRelease
<1>4. Cardinality(Workers \ {t}) = Cardinality(barCond)
  BY <1>2, <1>3 DEF BarInv, BarGroup
<1> QED
  BY <1>1, <1>2, <1>4, FS_Subset

LEMMA BarNextPhase ==
  ASSUME BarInv, [BarNext]_barVars
  PROVE  BarAsleep' /\ BarPhase'
<1> USE DEF BarInv, BarTypeOK, BarAsleep, BarPhase, BarGoto, BarLoop
<1> DEFINE Goal == BarAsleep' /\ BarPhase'
<1>0. Target \in Nat \ {0}
  BY FS_EmptySet, FS_CardinalityType
<1>1. CASE UNCHANGED barVars
  BY <1>1 DEF barVars
<1>2. ASSUME NEW t \in Workers, BarCreate(t) PROVE Goal
  BY <1>2 DEF BarCreate
<1>3. ASSUME NEW t \in Workers, BarInc(t) PROVE Goal
  BY <1>3 DEF BarInc
<1>4. ASSUME NEW t \in Workers, BarEnter(t) PROVE Goal
  BY <1>4 DEF BarEnter
<1>5. ASSUME NEW t \in Workers, BarSleep(t) PROVE Goal
  BY <1>0, <1>5 DEF BarSleep
<1>6. ASSUME NEW t \in Workers, BarRelease(t) PROVE Goal
  <2>1. barCond = Workers \ {t} /\ barPc[t] = "arrive"
    BY <1>6, BarLastFindsAll DEF BarRelease
  <2>2. \A u \in Workers : barOut[u] = barSerial
    BY <2>1
  <2> QED
    BY <1>0, <1>6, <2>1, <2>2 DEF BarRelease, CondBroadcast
<1>7. ASSUME NEW t \in Workers, BarLeave(t) PROVE Goal
  BY <1>7 DEF BarLeave
<1> QED
  BY <1>1, <1>2, <1>3, <1>4, <1>5, <1>6, <1>7 DEF BarNext, BarThread

LEMMA BarNextGroup ==
  ASSUME BarInv, [BarNext]_barVars
  PROVE  BarGroup'
<1> USE DEF BarInv, BarTypeOK, BarGroup
<1>1. CASE UNCHANGED barVars
  BY <1>1 DEF barVars
<1>2. ASSUME NEW t \in Workers, BarCreate(t) PROVE BarGroup'
  BY <1>2 DEF BarCreate
<1>3. ASSUME NEW t \in Workers, BarInc(t) PROVE BarGroup'
  BY <1>3 DEF BarInc
<1>4. ASSUME NEW t \in Workers, BarEnter(t) PROVE BarGroup'
  BY <1>4 DEF BarEnter
<1>5. ASSUME NEW t \in Workers, BarSleep(t) PROVE BarGroup'
  <2>1. t \notin barCond
    BY <1>5 DEF BarSleep, BarAsleep
  <2>2. IsFiniteSet(barCond)
    BY FS_Subset
  <2>3. Cardinality(barCond \cup {t}) = Cardinality(barCond) + 1
    BY <2>1, <2>2, FS_AddElement
  <2> QED
    BY <1>5, <2>3 DEF BarSleep
<1>6. ASSUME NEW t \in Workers, BarRelease(t) PROVE BarGroup'
  BY <1>6, FS_EmptySet DEF BarRelease, CondBroadcast
<1>7. ASSUME NEW t \in Workers, BarLeave(t) PROVE BarGroup'
  BY <1>7 DEF BarLeave
<1> QED
  BY <1>1, <1>2, <1>3, <1>4, <1>5, <1>6, <1>7 DEF BarNext, BarThread

\* A multiple of s beyond s * m is at least s * (m + 1).
LEMMA BarMultiple ==
  ASSUME NEW s \in Nat \ {0}, NEW k \in Nat, NEW m \in Nat,
         k % s = 0, k > s * m
  PROVE  k >= s * (m + 1)
<1> DEFINE q == k \div s
<1>1. k = s * q /\ q \in Int
  OBVIOUS
<1> HIDE DEF q
<1>2. q > m
  <2>1. SUFFICES ASSUME q <= m PROVE FALSE
    BY <1>1
  <2>2. s * q <= s * m
    BY <1>1, <2>1
  <2> QED
    BY <1>1, <2>2
<1>3. s * q >= s * (m + 1)
  <2>1. q >= m + 1
    BY <1>1, <1>2
  <2> QED
    BY <1>1, <2>1
<1> QED
  BY <1>1, <1>3

LEMMA BarNextPaced ==
  ASSUME BarInv, [BarNext]_barVars
  PROVE  BarPaced'
<1> USE DEF BarInv, BarTypeOK, BarPaced, BarGoal, BarGoto, BarLoop
<1>1. CASE UNCHANGED barVars
  BY <1>1 DEF barVars
<1>2. ASSUME NEW t \in Workers, BarCreate(t) PROVE BarPaced'
  BY <1>2 DEF BarCreate
<1>3. ASSUME NEW t \in Workers, BarInc(t) PROVE BarPaced'
  <2>1. /\ barI' = [barI EXCEPT ![t] = @ + 1] /\ UNCHANGED barOut
        /\ barPc' = [barPc EXCEPT ![t] =
                       IF (barI[t] + 1) % SyncStep = 0 THEN "enter" ELSE BarLoop(barI[t] + 1)]
    BY <1>3 DEF BarInc
  <2>2. barI[t] >= SyncStep * barOut[t]
    BY <1>3 DEF BarInc
  <2>3. barI[t] + 1 >= BarGoal(t)'
    <3>1. CASE (barI[t] + 1) % SyncStep = 0
      <4>1. barI[t] + 1 >= SyncStep * (barOut[t] + 1)
        <5> DEFINE k == barI[t] + 1
                   m == barOut[t]
        <5>1. k \in Nat /\ m \in Nat /\ k % SyncStep = 0 /\ k > SyncStep * m
          BY <2>2, <3>1
        <5> HIDE DEF k, m
        <5>2. k >= SyncStep * (m + 1)
          BY <5>1, BarMultiple
        <5> QED
          BY <5>2 DEF k, m
      <4> QED
        BY <2>1, <3>1, <4>1
    <3>2. CASE (barI[t] + 1) % SyncStep # 0
      BY <2>1, <2>2, <3>2
    <3> QED
      BY <3>1, <3>2
  <2>4. \A u \in Workers : u # t => barI'[u] = barI[u] /\ BarGoal(u)' = BarGoal(u)
    BY <2>1
  <2> QED
    BY <2>1, <2>3, <2>4
<1>4. ASSUME NEW t \in Workers, BarEnter(t) PROVE BarPaced'
  BY <1>4 DEF BarEnter
<1>5. ASSUME NEW t \in Workers, BarSleep(t) PROVE BarPaced'
  BY <1>5 DEF BarSleep
<1>6. ASSUME NEW t \in Workers, BarRelease(t) PROVE BarPaced'
  BY <1>6 DEF BarRelease
<1>7. ASSUME NEW t \in Workers, BarLeave(t) PROVE BarPaced'
  BY <1>7 DEF BarLeave
<1> QED
  BY <1>1, <1>2, <1>3, <1>4, <1>5, <1>6, <1>7 DEF BarNext, BarThread

LEMMA BarNextSum ==
  ASSUME BarInv, [BarNext]_barVars
  PROVE  BarSum'
<1> USE DEF BarInv, BarTypeOK, BarSum
<1>1. ASSUME UNCHANGED <<barI, barTotal>> PROVE BarSum'
  BY <1>1 DEF BarAdded
<1>2. ASSUME NEW t \in Workers, BarInc(t) PROVE BarSum'
  <2> DEFINE p == <<t, barI[t] + 1>>
  <2>1. p \notin BarAdded
    BY DEF BarAdded
  <2>2. BarAdded' = BarAdded \cup {p}
    <3>1. barI' = [barI EXCEPT ![t] = @ + 1]
      BY <1>2 DEF BarInc
    <3>2. \A u \in Workers, k \in Nat :
            <<u, k>> \in BarAdded' <=> <<u, k>> \in BarAdded \/ <<u, k>> = p
      BY <3>1 DEF BarAdded
    <3>3. BarAdded' \subseteq Workers \X Nat /\ BarAdded \cup {p} \subseteq Workers \X Nat
      BY DEF BarAdded
    <3> HIDE DEF p
    <3> QED
      BY <3>2, <3>3
  <2>3. Cardinality(BarAdded') = Cardinality(BarAdded) + 1 /\ IsFiniteSet(BarAdded')
    BY <2>1, <2>2, FS_AddElement
  <2> QED
    BY <1>2, <2>3 DEF BarInc
<1> QED
  BY <1>1, <1>2
     DEF BarNext, BarThread, barVars, BarCreate, BarEnter, BarSleep, BarRelease, BarLeave

LEMMA BarAlwaysInv == BarSpec => []BarInv
<1>1. BarInv /\ [BarNext]_barVars => BarInv'
  BY BarNextType, BarNextPhase, BarNextGroup, BarNextPaced, BarNextSum DEF BarInv
<1> QED
  BY <1>1, BarInitInv, PTL DEF BarSpec

\* The variables of barrier.c keep their types.
THEOREM BarTypeCorrect == BarSpec => []BarTypeOK
<1>1. BarInv => BarTypeOK
  BY DEF BarInv
<1> QED
  BY <1>1, BarAlwaysInv, PTL

\* The counter is the number of threads asleep, so the broadcast of the last
\* thread wakes the others of its group and nobody else.
THEOREM BarWakesGroup == BarSpec => []BarGroup
<1>1. BarInv => BarGroup
  BY DEF BarInv
<1> QED
  BY <1>1, BarAlwaysInv, PTL

LEMMA BarUpTo ==
  ASSUME NEW n \in Nat
  PROVE  IsFiniteSet(1..n) /\ Cardinality(1..n) = n
<1>1. 1 \in Int /\ n \in Int
  OBVIOUS
<1>2. IsFiniteSet(1..n) /\ Cardinality(1..n) = IF 1 > n THEN 0 ELSE n - 1 + 1
  BY <1>1, FS_Interval, Zenon
<1> QED
  BY <1>2

\* What the inductive invariant says of the meetings.
LEMMA BarInvMeets == BarInv => BarMeets
<1> SUFFICES ASSUME BarInv, NEW t \in Workers
             PROVE  /\ \A u \in Workers : barOut[t] <= BarArrivals(u)
                    /\ barTotal >= Cardinality(Workers) * SyncStep * barOut[t]
  BY DEF BarMeets
<1> USE DEF BarInv, BarTypeOK
<1>1. \A u \in Workers : barOut[t] <= BarArrivals(u)
  BY DEF BarPhase, BarArrivals
<1> DEFINE n == SyncStep * barOut[t]
<1>2. n \in Nat
  OBVIOUS
<1>3. ASSUME NEW u \in Workers PROVE n <= barI[u]
  <2> DEFINE g == barOut[u] + (IF barPc[u] \in {"enter", "arrive", "asleep"} THEN 1 ELSE 0)
  <2>1. g \in Nat /\ g >= barOut[t]
    BY <1>1 DEF BarArrivals
  <2>2. SyncStep * g >= SyncStep * barOut[t]
    BY <2>1
  <2> QED
    BY <2>2 DEF BarPaced, BarGoal
<1> HIDE DEF n
<1>4. Workers \X (1..n) \in SUBSET BarAdded
  BY <1>2, <1>3 DEF BarAdded
<1>5. /\ IsFiniteSet(Workers \X (1..n))
      /\ Cardinality(Workers \X (1..n)) = Cardinality(Workers) * n
  <2> DEFINE S == 1..n
  <2>1. IsFiniteSet(S) /\ Cardinality(S) = n
    BY <1>2, BarUpTo
  <2> HIDE DEF S
  <2>2. IsFiniteSet(Workers \X S) /\ Cardinality(Workers \X S) = Cardinality(Workers) * n
    BY <2>1, FS_Product
  <2> QED
    BY <2>2 DEF S
<1>6. Cardinality(Workers) * n <= barTotal
  BY <1>4, <1>5, FS_Subset DEF BarSum
<1>7. Cardinality(Workers) * n = Cardinality(Workers) * SyncStep * barOut[t]
  <2>1. Cardinality(Workers) \in Nat
    BY FS_CardinalityType
  <2> QED
    BY <2>1 DEF n
<1>8. Cardinality(Workers) * n \in Nat
  <2>1. Cardinality(Workers) \in Nat
    BY FS_CardinalityType
  <2> QED
    BY <1>2, <2>1
<1> QED
  BY <1>1, <1>6, <1>7, <1>8

\* Nobody gets past the k-th meeting before everybody has arrived at it, and
\* what everybody added before it has been added.
THEOREM BarIsBarrier == BarSpec => []BarMeets
  BY BarInvMeets, BarAlwaysInv, PTL
----------------------------------------------------------------------------

\* A set of naturals has a least member.
LEMMA NatLeast ==
  ASSUME NEW T, T \subseteq Nat, T # {}
  PROVE  \E x \in T : \A y \in T : x <= y
<1> DEFINE R == OpToRel(<, Nat)
<1>1. IsWellFoundedOn(R, Nat)
  BY NatLessThanWellFounded, Zenon
<1>2. \A y, x \in Nat : <<y, x>> \in R <=> y < x
  BY Zenon DEF OpToRel
<1> HIDE DEF R
<1>3. PICK x \in T : \A y \in T : ~ (<<y, x>> \in R)
  BY <1>1, WFMin
<1>4. \A y \in T : x <= y
  <2> TAKE y \in T
  <2>1. y \in Nat /\ x \in Nat /\ ~(y < x)
    BY <1>2, <1>3
  <2> QED
    BY <2>1
<1> QED
  BY <1>4
----------------------------------------------------------------------------
(* The dining philosophers.                                                *)

USE ForksAssumption

\* Philosopher i has picked fork f up and not put it down.
PhHas(i, f) ==
  \/ phPc[i] \in {"one", "eating", "leaving"} /\ f = PhFirst(i)
  \/ phPc[i] = "eating" /\ f = PhSecond(i)

\* A fork is held by whoever has it, and by one philosopher at a time.
PhHeld ==
  /\ \A i, f \in Phils : i \in phForks[f] <=> PhHas(i, f)
  /\ \A i, k, f \in Phils : PhHas(i, f) /\ PhHas(k, f) => i = k

PhInv == PhTypeOK /\ PhHeld

\* The forks of philosopher i in the order they are picked up: only the last
\* philosopher starts on the left.
LEMMA PhForkNumbers ==
  ASSUME NEW i \in Phils
  PROVE  /\ PhFirst(i) \in Phils /\ PhSecond(i) \in Phils /\ PhFirst(i) # PhSecond(i)
         /\ i < Forks - 1 => PhFirst(i) = i /\ PhSecond(i) = i + 1
         /\ i = Forks - 1 => PhFirst(i) = 0 /\ PhSecond(i) = Forks - 1
<1> USE DEF Phils, PhFirst, PhSecond, PhMin, PhMax, PhRight, PhLeft
<1>1. CASE i < Forks - 1
  <2>1. (i + 1) % Forks = i + 1
    BY <1>1
  <2> QED
    BY <1>1, <2>1
<1>2. CASE i = Forks - 1
  <2>1. (i + 1) % Forks = 0
    BY <1>2
  <2> QED
    BY <1>2, <2>1
<1> QED
  BY <1>1, <1>2

LEMMA PhInitInv == PhInit => PhInv
  BY DEF PhInit, PhInv, PhTypeOK, PhLabels, PhHeld, PhHas

LEMMA PhNextInv ==
  ASSUME PhInv, [PhNext]_phVars
  PROVE  PhInv'
<1> USE DEF PhInv, PhTypeOK, PhLabels, PhHeld, PhHas, PhGoto
<1>1. CASE UNCHANGED phVars
  BY <1>1 DEF phVars
<1>2. ASSUME NEW i \in Phils, PhCreate(i) PROVE PhInv'
  BY <1>2 DEF PhCreate
<1>3. ASSUME NEW i \in Phils, PhPickFirst(i) PROVE PhInv'
  BY <1>3, PhForkNumbers DEF PhPickFirst
<1>4. ASSUME NEW i \in Phils, PhPickSecond(i) PROVE PhInv'
  BY <1>4, PhForkNumbers DEF PhPickSecond
<1>5. ASSUME NEW i \in Phils, PhDropSecond(i) PROVE PhInv'
  BY <1>5, PhForkNumbers DEF PhDropSecond
<1>6. ASSUME NEW i \in Phils, PhDropFirst(i) PROVE PhInv'
  BY <1>6, PhForkNumbers DEF PhDropFirst
<1> QED
  BY <1>1, <1>2, <1>3, <1>4, <1>5, <1>6 DEF PhNext, PhStep

\* The philosophers that hold one fork and wait for the other.
PhOnes == {i \in Phils : phPc[i] = "one"}

\* When everybody is blocked, whoever waits for a second fork waits for the
\* right-hand neighbour, who waits as well: there is no last one.
LEMMA PhInvNoDeadlock == PhInv => PhNoDeadlock
<1> SUFFICES ASSUME PhInv, PhBusy # {},
                    \A i \in PhBusy :
                      \/ phPc[i] = "hungry" /\ phForks[PhFirst(i)] # {}
                      \/ phPc[i] = "one" /\ phForks[PhSecond(i)] # {}
             PROVE  FALSE
  BY DEF PhNoDeadlock
<1> USE DEF PhInv, PhTypeOK
<1>1. ASSUME NEW f \in Phils, phForks[f] # {}
      PROVE  \E k \in PhOnes : f = PhFirst(k)
  <2>1. PICK k \in Phils : PhHas(k, f)
    BY <1>1 DEF PhHeld
  <2>2. k \in PhBusy
    BY <2>1 DEF PhHas, PhBusy
  <2> QED
    BY <2>1, <2>2 DEF PhHas, PhOnes
<1>2. PhOnes # {}
  <2>1. PICK i \in PhBusy : TRUE
    OBVIOUS
  <2>2. i \in Phils
    BY DEF PhBusy
  <2>3. CASE phPc[i] = "hungry"
    BY <1>1, <2>2, <2>3, PhForkNumbers
  <2>4. CASE phPc[i] = "one"
    BY <2>2, <2>4 DEF PhOnes
  <2> QED
    BY <2>3, <2>4
<1>3. ASSUME NEW i \in PhOnes PROVE i + 1 \in PhOnes
  <2>1. i \in Phils /\ i \in PhBusy /\ phPc[i] = "one"
    BY DEF PhOnes, PhBusy
  <2>2. PICK k \in PhOnes : PhSecond(i) = PhFirst(k)
    BY <1>1, <2>1, PhForkNumbers
  <2>3. k \in Phils
    BY DEF PhOnes
  <2>4. /\ i < Forks - 1 => PhSecond(i) = i + 1
        /\ i = Forks - 1 => PhSecond(i) = Forks - 1
        /\ k < Forks - 1 => PhFirst(k) = k
        /\ k = Forks - 1 => PhFirst(k) = 0
    BY <2>1, <2>3, PhForkNumbers
  <2>5. k = i + 1
    BY <2>1, <2>2, <2>3, <2>4 DEF Phils
  <2> QED
    BY <2>5
<1> DEFINE T == {n \in Nat : \E i \in PhOnes : n = Forks - 1 - i}
<1>4. T # {} /\ T \subseteq Nat
  <2>1. PICK i \in PhOnes : TRUE
    BY <1>2
  <2>2. Forks - 1 - i \in Nat
    BY DEF PhOnes, Phils
  <2> QED
    BY <2>2
<1>5. PICK n \in T : \A m \in T : n <= m
  <2> HIDE DEF T
  <2> QED
    BY <1>4, NatLeast
<1>6. PICK i \in PhOnes : n = Forks - 1 - i
  OBVIOUS
<1>7. i + 1 \in PhOnes /\ i \in Int /\ i + 1 \in Phils
  BY <1>3 DEF PhOnes, Phils
<1>8. Forks - 1 - (i + 1) \in T
  BY <1>7 DEF Phils
<1>9. n <= Forks - 1 - (i + 1)
  <2> HIDE DEF T
  <2> QED
    BY <1>5, <1>8
<1> QED
  BY <1>6, <1>7, <1>9

LEMMA PhAlwaysInv == PhSpec => []PhInv
<1>1. PhInv /\ [PhNext]_phVars => PhInv'
  BY PhNextInv
<1> QED
  BY <1>1, PhInitInv, PTL DEF PhSpec

\* The variables of the dinner keep their types.
THEOREM PhTypeCorrect == PhSpec => []PhTypeOK
<1>1. PhInv => PhTypeOK
  BY DEF PhInv
<1> QED
  BY <1>1, PhAlwaysInv, PTL

\* "free of deadlocks", for every number of philosophers: picking the lower
\* numbered fork up first leaves no circle of waiting philosophers.
THEOREM PhDeadlockFree == PhSpec => []PhNoDeadlock
  BY PhInvNoDeadlock, PhAlwaysInv, PTL
----------------------------------------------------------------------------
(* copy_buf().                                                             *)

USE BufsAssumption

\* Thread t has locked buffer b and not unlocked it.
CbHas(t, b) ==
  \/ cbPc[t] \in {"second", "copy", "unlock", "unlock1"} /\ b = CbFirst(t)
  \/ cbPc[t] \in {"copy", "unlock"} /\ b = CbSecond(t)

\* A lock is held by the one thread that took it.
CbHeld == \A t \in Workers, b \in BufIdx : CbHas(t, b) => cbLocks[b] = {t}

\* Two different buffers are under way, and memcpy(3) starts at the beginning.
CbCalled ==
  \A t \in Workers :
    /\ cbPc[t] # "idle" => CbDest(t) # CbSrc(t)
    /\ cbPc[t] # "copy" => cbWord[t] = 0

CbUniform(b) == \A j, k \in 1..BufWords : cbBufs[b][j] = cbBufs[b][k]

\* A buffer is whole unless somebody is copying into it.
CbWhole ==
  \A b \in BufIdx :
    (\A t \in Workers : cbPc[t] = "copy" => CbDest(t) # b) => CbUniform(b)

\* What memcpy(3) has copied is still what the source holds.
CbCopied ==
  \A t \in Workers : cbPc[t] = "copy" =>
    \A k \in 1..BufWords :
      k <= cbWord[t] => cbBufs[CbDest(t)][k] = cbBufs[CbSrc(t)][k]

CbInv == CbTypeOK /\ CbHeld /\ CbCalled /\ CbWhole /\ CbCopied

\* The lower index is locked first, the two locks are those of the arguments.
LEMMA CbOrder ==
  ASSUME CbTypeOK, NEW t \in Workers
  PROVE  /\ CbDest(t) \in BufIdx /\ CbSrc(t) \in BufIdx
         /\ CbFirst(t) \in BufIdx /\ CbSecond(t) \in BufIdx
         /\ CbDest(t) \in {CbFirst(t), CbSecond(t)}
         /\ CbSrc(t) \in {CbFirst(t), CbSecond(t)}
         /\ CbDest(t) # CbSrc(t) => CbFirst(t) # CbSecond(t)
  BY DEF CbTypeOK, CbDest, CbSrc, CbFirst, CbSecond

\* A buffer being copied from or into is touched by nobody else.
LEMMA CbApart ==
  ASSUME CbInv, NEW t \in Workers, NEW u \in Workers, t # u,
         cbPc[t] = "copy", cbPc[u] = "copy"
  PROVE  /\ CbDest(t) # CbDest(u) /\ CbDest(t) # CbSrc(u)
         /\ CbSrc(t) # CbDest(u)
<1>1. ASSUME NEW b \in BufIdx, CbHas(t, b), CbHas(u, b) PROVE FALSE
  BY <1>1 DEF CbInv, CbHeld
<1>2. /\ CbHas(t, CbDest(t)) /\ CbHas(t, CbSrc(t))
      /\ CbHas(u, CbDest(u)) /\ CbHas(u, CbSrc(u))
  BY CbOrder DEF CbHas, CbInv
<1> QED
  BY <1>1, <1>2, CbOrder DEF CbInv

\* What a call is about is fixed while it runs.
LEMMA CbSameCall ==
  ASSUME NEW u \in Workers, UNCHANGED cbArg[u]
  PROVE  /\ CbDest(u)' = CbDest(u) /\ CbSrc(u)' = CbSrc(u)
         /\ CbFirst(u)' = CbFirst(u) /\ CbSecond(u)' = CbSecond(u)
  BY DEF CbDest, CbSrc, CbFirst, CbSecond

\* Which word memcpy(3) copies next, and what the step makes of its counter.
LEMMA CbNextWord ==
  ASSUME CbTypeOK, NEW t \in Workers
  PROVE  /\ cbWord[t] \in Nat /\ cbWord[t] + 1 \in 1..BufWords
         /\ (cbWord[t] + 1) % BufWords =
              IF cbWord[t] + 1 = BufWords THEN 0 ELSE cbWord[t] + 1
<1>1. cbWord[t] \in 0..(BufWords - 1)
  BY DEF CbTypeOK
<1>2. \A n \in Nat \ {0} : \A k \in 1..n : k % n = IF k = n THEN 0 ELSE k
  OBVIOUS
<1>3. cbWord[t] \in Nat /\ cbWord[t] + 1 \in 1..BufWords
  BY <1>1
<1> QED
  BY <1>2, <1>3

LEMMA CbInitInv == CbInit => CbInv
<1> SUFFICES ASSUME CbInit PROVE CbInv
  OBVIOUS
<1>1. CbTypeOK
  BY DEF CbInit, CbTypeOK, BufIdx
<1>2. CbHeld /\ CbCalled /\ CbCopied
  BY DEF CbInit, CbHeld, CbCalled, CbCopied, CbHas
<1>3. CbWhole
  BY DEF CbInit, CbWhole, CbUniform
<1> QED
  BY <1>1, <1>2, <1>3 DEF CbInv

LEMMA CbNextType ==
  ASSUME CbInv, [CbNext]_cbVars
  PROVE  CbTypeOK' /\ CbCalled'
<1> USE CbSameCall DEF CbInv, CbTypeOK, CbCalled, CbGoto
<1> DEFINE Goal == CbTypeOK' /\ CbCalled'
<1>0. 0 \in BufIdx
  BY DEF BufIdx
<1>1. CASE UNCHANGED cbVars
  BY <1>1 DEF cbVars
<1>2. ASSUME NEW t \in Workers, NEW d \in BufIdx, NEW s \in BufIdx, CbCall(t, d, s)
      PROVE  Goal
  <2>1. CASE d = s
    BY <1>2, <2>1 DEF CbCall
  <2>2. CASE d # s
    <3>1. /\ cbArg' = [cbArg EXCEPT ![t] = <<d, s>>]
          /\ cbPc' = [cbPc EXCEPT ![t] = "first"]
          /\ cbCalls' = [cbCalls EXCEPT ![t] = @ + 1] /\ cbCalls[t] < MaxCalls
          /\ UNCHANGED <<cbBufs, cbLocks, cbWord>>
      BY <1>2, <2>2 DEF CbCall
    <3>2. CbTypeOK'
      BY <3>1
    <3>3. CbDest(t)' = d /\ CbSrc(t)' = s
      BY <3>1 DEF CbDest, CbSrc
    <3>4. \A u \in Workers : u # t => UNCHANGED cbArg[u] /\ UNCHANGED cbPc[u]
      BY <3>1
    <3>5. cbPc[t] = "idle" /\ cbWord[t] = 0
      BY <1>2 DEF CbCall
    <3>6. CbCalled'
      BY <2>2, <3>1, <3>3, <3>4, <3>5
    <3> QED
      BY <3>2, <3>6
  <2> QED
    BY <2>1, <2>2
<1>3. ASSUME NEW t \in Workers, CbLockFirst(t) PROVE Goal
  BY <1>3 DEF CbLockFirst
<1>4. ASSUME NEW t \in Workers, CbLockSecond(t) PROVE Goal
  BY <1>4 DEF CbLockSecond
<1>5. ASSUME NEW t \in Workers, CbCopy(t) PROVE Goal
  <2> DEFINE k == cbWord[t] + 1
             d == CbDest(t)
             s == CbSrc(t)
  <2>1. d \in BufIdx /\ s \in BufIdx
    BY CbOrder
  <2>2. k \in 1..BufWords /\ k % BufWords = IF k = BufWords THEN 0 ELSE k
    BY CbNextWord
  <2>3. /\ cbBufs' = [cbBufs EXCEPT ![d][k] = cbBufs[s][k]]
        /\ cbWord' = [cbWord EXCEPT ![t] = k % BufWords]
        /\ cbPc' = [cbPc EXCEPT ![t] = IF k = BufWords THEN "unlock" ELSE "copy"]
        /\ UNCHANGED <<cbLocks, cbArg, cbCalls>>
    BY <1>5 DEF CbCopy
  <2>4. cbPc[t] = "copy"
    BY <1>5 DEF CbCopy
  <2> HIDE DEF d, s, k
  <2>5. cbBufs' \in [BufIdx -> [1..BufWords -> BufIdx]]
    <3>1. cbBufs[s][k] \in BufIdx
      BY <2>1, <2>2
    <3>2. cbBufs' = [cbBufs EXCEPT ![d] = [cbBufs[d] EXCEPT ![k] = cbBufs[s][k]]]
      BY <2>1, <2>3
    <3>3. [cbBufs[d] EXCEPT ![k] = cbBufs[s][k]] \in [1..BufWords -> BufIdx]
      BY <2>1, <2>2, <3>1
    <3> QED
      BY <2>1, <3>2, <3>3
  <2>8. k % BufWords \in 0..(BufWords - 1)
    BY <2>2
  <2>6. CbTypeOK'
    BY <2>3, <2>5, <2>8
  <2>7. CbCalled'
    BY <2>2, <2>3, <2>4
  <2> QED
    BY <2>6, <2>7
<1>6. ASSUME NEW t \in Workers, CbUnlockSecond(t) PROVE Goal
  BY <1>6 DEF CbUnlockSecond
<1>7. ASSUME NEW t \in Workers, CbUnlockFirst(t) PROVE Goal
  BY <1>0, <1>7 DEF CbUnlockFirst
<1> QED
  BY <1>1, <1>2, <1>3, <1>4, <1>5, <1>6, <1>7 DEF CbNext, CbStep

LEMMA CbNextHeld ==
  ASSUME CbInv, [CbNext]_cbVars
  PROVE  CbHeld'
<1> DEFINE Same(u) == CbFirst(u)' = CbFirst(u) /\ CbSecond(u)' = CbSecond(u)
<1>1. \A u \in Workers : UNCHANGED cbArg[u] => Same(u)
  BY CbSameCall
<1>2. \A u \in Workers :
        /\ CbFirst(u) \in BufIdx /\ CbSecond(u) \in BufIdx
        /\ cbPc[u] # "idle" => CbFirst(u) # CbSecond(u)
  BY CbOrder DEF CbInv, CbCalled
<1>3. cbPc \in [Workers -> {"idle", "first", "second", "copy", "unlock", "unlock1"}]
  BY DEF CbInv, CbTypeOK
<1>4. /\ cbLocks \in [BufIdx -> SUBSET Workers]
      /\ \A u \in Workers, b \in BufIdx : CbHas(u, b) => cbLocks[b] = {u}
  BY DEF CbInv, CbTypeOK, CbHeld
<1>5. CASE UNCHANGED cbVars
  BY <1>1, <1>4, <1>5 DEF cbVars, CbHeld, CbHas
<1>6. ASSUME NEW t \in Workers, NEW d \in BufIdx, NEW s \in BufIdx, CbCall(t, d, s)
      PROVE  CbHeld'
  <2>1. UNCHANGED cbLocks /\ cbPc'[t] \in {"idle", "first"}
    BY <1>3, <1>6 DEF CbCall, CbGoto
  <2>2. \A u \in Workers : u # t => UNCHANGED cbPc[u] /\ Same(u)
    BY <1>1, <1>3, <1>6 DEF CbCall, CbGoto, CbInv, CbTypeOK
  <2>3. \A u \in Workers, b \in BufIdx : CbHas(u, b)' => u # t /\ CbHas(u, b)
    BY <2>1, <2>2 DEF CbHas
  <2> QED
    BY <1>4, <2>1, <2>3 DEF CbHeld
<1>7. ASSUME NEW t \in Workers, CbLockFirst(t) PROVE CbHeld'
  <2>1. \A u \in Workers : Same(u)
    BY <1>1, <1>7 DEF CbLockFirst
  <2>2. /\ cbPc[t] = "first" /\ cbPc' = [cbPc EXCEPT ![t] = "second"]
        /\ cbLocks[CbFirst(t)] = {} /\ cbLocks' = [cbLocks EXCEPT ![CbFirst(t)] = {t}]
    BY <1>7 DEF CbLockFirst, CbGoto
  <2>3. \A u \in Workers, b \in BufIdx :
          CbHas(u, b)' => CbHas(u, b) \/ (u = t /\ b = CbFirst(t))
    BY <1>3, <2>1, <2>2 DEF CbHas
  <2> QED
    BY <1>2, <1>4, <2>2, <2>3 DEF CbHeld
<1>8. ASSUME NEW t \in Workers, CbLockSecond(t) PROVE CbHeld'
  <2>1. \A u \in Workers : Same(u)
    BY <1>1, <1>8 DEF CbLockSecond
  <2>2. /\ cbPc[t] = "second" /\ cbPc' = [cbPc EXCEPT ![t] = "copy"]
        /\ cbLocks[CbSecond(t)] = {} /\ cbLocks' = [cbLocks EXCEPT ![CbSecond(t)] = {t}]
    BY <1>8 DEF CbLockSecond, CbGoto
  <2>3. \A u \in Workers, b \in BufIdx :
          CbHas(u, b)' => CbHas(u, b) \/ (u = t /\ b = CbSecond(t))
    BY <1>3, <2>1, <2>2 DEF CbHas
  <2> QED
    BY <1>2, <1>4, <2>2, <2>3 DEF CbHeld
<1>9. ASSUME NEW t \in Workers, CbCopy(t) PROVE CbHeld'
  <2>1. UNCHANGED cbLocks /\ \A u \in Workers : Same(u)
    BY <1>1, <1>9 DEF CbCopy
  <2>2. cbPc[t] = "copy" /\ \E l \in {"copy", "unlock"} : cbPc' = [cbPc EXCEPT ![t] = l]
    BY <1>9 DEF CbCopy, CbGoto
  <2>3. \A u \in Workers, b \in BufIdx : CbHas(u, b)' => CbHas(u, b)
    BY <1>3, <2>1, <2>2 DEF CbHas
  <2> QED
    BY <1>4, <2>1, <2>3 DEF CbHeld
<1>10. ASSUME NEW t \in Workers, CbUnlockSecond(t) PROVE CbHeld'
  <2>1. \A u \in Workers : Same(u)
    BY <1>1, <1>10 DEF CbUnlockSecond
  <2>2. /\ cbPc[t] = "unlock" /\ cbPc' = [cbPc EXCEPT ![t] = "unlock1"]
        /\ cbLocks' = [cbLocks EXCEPT ![CbSecond(t)] = {}]
    BY <1>10 DEF CbUnlockSecond, CbGoto
  <2>3. cbLocks[CbSecond(t)] = {t}
    BY <1>2, <1>4, <2>2 DEF CbHas
  <2>4. \A u \in Workers, b \in BufIdx :
          CbHas(u, b)' => CbHas(u, b) /\ ~(u = t /\ b = CbSecond(t))
    BY <1>2, <1>3, <2>1, <2>2 DEF CbHas
  <2> QED
    BY <1>2, <1>4, <2>2, <2>3, <2>4 DEF CbHeld
<1>11. ASSUME NEW t \in Workers, CbUnlockFirst(t) PROVE CbHeld'
  <2>1. \A u \in Workers : u # t => Same(u) /\ UNCHANGED cbPc[u]
    BY <1>1, <1>3, <1>11 DEF CbUnlockFirst, CbGoto, CbInv, CbTypeOK
  <2>2. /\ cbPc[t] = "unlock1" /\ cbPc' = [cbPc EXCEPT ![t] = "idle"]
        /\ cbLocks' = [cbLocks EXCEPT ![CbFirst(t)] = {}]
    BY <1>11 DEF CbUnlockFirst, CbGoto
  <2>3. cbLocks[CbFirst(t)] = {t}
    BY <1>2, <1>4, <2>2 DEF CbHas
  <2>4. \A u \in Workers, b \in BufIdx : CbHas(u, b)' => CbHas(u, b) /\ u # t
    BY <1>3, <2>1, <2>2 DEF CbHas
  <2> QED
    BY <1>2, <1>4, <2>2, <2>3, <2>4 DEF CbHeld
<1> QED
  BY <1>5, <1>6, <1>7, <1>8, <1>9, <1>10, <1>11 DEF CbNext, CbStep

\* The next word is copied.
LEMMA CbCopyWhole ==
  ASSUME CbInv, NEW t \in Workers, CbCopy(t)
  PROVE  CbWhole' /\ CbCopied'
<1> USE DEF CbInv
<1> DEFINE k == cbWord[t] + 1
           d == CbDest(t)
           s == CbSrc(t)
<1>1. /\ d \in BufIdx /\ s \in BufIdx /\ d # s
      /\ k \in 1..BufWords /\ cbWord[t] = k - 1 /\ cbPc[t] = "copy"
  BY CbOrder, CbNextWord DEF CbCopy, CbCalled
<1>2. k % BufWords = IF k = BufWords THEN 0 ELSE k
  BY CbNextWord
<1>3. /\ cbBufs' = [cbBufs EXCEPT ![d][k] = cbBufs[s][k]]
      /\ cbWord' = [cbWord EXCEPT ![t] = k % BufWords]
      /\ cbPc' = [cbPc EXCEPT ![t] = IF k = BufWords THEN "unlock" ELSE "copy"]
      /\ UNCHANGED cbArg
  BY DEF CbCopy, CbGoto
<1>4. \A u \in Workers : /\ CbDest(u)' = CbDest(u) /\ CbSrc(u)' = CbSrc(u)
                         /\ CbDest(u) \in BufIdx /\ CbSrc(u) \in BufIdx
  BY <1>3, CbOrder DEF CbDest, CbSrc
<1>5. \A u \in Workers : u # t /\ cbPc[u] = "copy" => CbDest(u) # d /\ CbSrc(u) # d /\ CbDest(u) # s
  BY <1>1, CbApart
<1>6. CbUniform(s)
  BY <1>1, <1>5 DEF CbWhole
<1>7. \A j \in 1..BufWords : j < k => cbBufs[d][j] = cbBufs[s][j]
  BY <1>1 DEF CbCopied
<1>8. /\ CbDest(t) = d /\ CbSrc(t) = s
      /\ CbTypeOK
  OBVIOUS
<1> HIDE DEF k, d, s, CbInv
<1>9. /\ \A b \in BufIdx : b # d => cbBufs'[b] = cbBufs[b]
      /\ \A j \in 1..BufWords : cbBufs'[d][j] = IF j = k THEN cbBufs[s][j] ELSE cbBufs[d][j]
  BY <1>1, <1>3, <1>8 DEF CbTypeOK
<1>10. \A u \in Workers : cbPc'[u] = IF u = t THEN (IF k = BufWords THEN "unlock" ELSE "copy") ELSE cbPc[u]
  BY <1>3, <1>8 DEF CbTypeOK
<1>11. \A u \in Workers : cbWord'[u] = IF u = t THEN k % BufWords ELSE cbWord[u]
  BY <1>3, <1>8 DEF CbTypeOK
<1>12. CbCopied'
  <2> SUFFICES ASSUME NEW u \in Workers, cbPc'[u] = "copy",
                      NEW j \in 1..BufWords, j <= cbWord'[u]
               PROVE  cbBufs'[CbDest(u)'][j] = cbBufs'[CbSrc(u)'][j]
    BY DEF CbCopied
  <2>1. CASE u = t
    <3>1. k # BufWords /\ j <= k
      BY <1>2, <1>10, <1>11, <2>1
    <3> QED
      BY <1>1, <1>4, <1>7, <1>8, <1>9, <2>1, <3>1
  <2>2. CASE u # t
    <3>1. cbPc[u] = "copy" /\ j <= cbWord[u]
      BY <1>10, <1>11, <2>2
    <3>2. cbBufs[CbDest(u)][j] = cbBufs[CbSrc(u)][j]
      BY <3>1 DEF CbInv, CbCopied
    <3> QED
      BY <1>4, <1>5, <1>9, <2>2, <3>1, <3>2
  <2> QED
    BY <2>1, <2>2
<1>13. CbWhole'
  <2> SUFFICES ASSUME NEW b \in BufIdx, \A u \in Workers : cbPc'[u] = "copy" => CbDest(u)' # b
               PROVE  CbUniform(b)'
    BY DEF CbWhole
  <2>1. CASE b = d
    <3>1. k = BufWords
      BY <1>4, <1>8, <1>10, <2>1
    <3>2. \A j \in 1..BufWords : cbBufs'[d][j] = cbBufs[s][j]
      BY <1>1, <1>7, <1>9, <3>1
    <3> QED
      BY <1>6, <2>1, <3>2 DEF CbUniform
  <2>2. CASE b # d
    <3>1. \A u \in Workers : cbPc[u] = "copy" => CbDest(u) # b
      BY <1>4, <1>8, <1>10, <2>2
    <3>2. CbUniform(b)
      BY <3>1 DEF CbInv, CbWhole
    <3> QED
      BY <1>9, <2>2, <3>2 DEF CbUniform
  <2> QED
    BY <2>1, <2>2
<1> QED
  BY <1>12, <1>13

\* A step that leaves the buffers alone and starts no copy leaves them whole.
LEMMA CbQuietWhole ==
  ASSUME CbInv, NEW t \in Workers, UNCHANGED <<cbBufs, cbWord>>,
         cbPc[t] # "copy", cbPc'[t] # "copy",
         \A u \in Workers : u # t => UNCHANGED cbArg[u] /\ UNCHANGED cbPc[u]
  PROVE  CbWhole' /\ CbCopied'
<1>1. \A u \in Workers : /\ cbPc'[u] = "copy" <=> cbPc[u] = "copy"
                         /\ cbPc[u] = "copy" => CbDest(u)' = CbDest(u) /\ CbSrc(u)' = CbSrc(u)
  BY CbSameCall
<1>2. CbWhole'
  BY <1>1 DEF CbInv, CbWhole, CbUniform
<1>3. CbCopied'
  BY <1>1 DEF CbInv, CbCopied
<1> QED
  BY <1>2, <1>3

LEMMA CbNextWhole ==
  ASSUME CbInv, [CbNext]_cbVars
  PROVE  CbWhole' /\ CbCopied'
<1> USE DEF CbInv, CbTypeOK, CbCalled, CbGoto
<1> DEFINE Goal == CbWhole' /\ CbCopied'
<1>1. CASE UNCHANGED cbVars
  BY <1>1 DEF cbVars, CbWhole, CbCopied, CbUniform, CbDest, CbSrc
<1>2. ASSUME NEW t \in Workers, NEW d \in BufIdx, NEW s \in BufIdx, CbCall(t, d, s)
      PROVE  Goal
  BY <1>2, CbQuietWhole DEF CbCall
<1>3. ASSUME NEW t \in Workers, CbLockFirst(t) PROVE Goal
  BY <1>3, CbQuietWhole DEF CbLockFirst
<1>4. ASSUME NEW t \in Workers, CbLockSecond(t) PROVE Goal
  <2>1. cbWord[t] = 0 /\ UNCHANGED <<cbBufs, cbArg, cbWord>>
    BY <1>4 DEF CbLockSecond
  <2>2. cbPc[t] = "second" /\ cbPc' = [cbPc EXCEPT ![t] = "copy"]
    BY <1>4 DEF CbLockSecond
  <2>3. \A u \in Workers : CbDest(u)' = CbDest(u) /\ CbSrc(u)' = CbSrc(u)
    BY <2>1, CbSameCall
  <2>4. \A k \in 1..BufWords : ~(k <= cbWord[t])
    BY <2>1
  <2>5. CbCopied'
    <3>1. ASSUME NEW u \in Workers, cbPc'[u] = "copy", NEW k \in 1..BufWords, k <= cbWord'[u]
          PROVE  cbBufs'[CbDest(u)'][k] = cbBufs'[CbSrc(u)'][k]
      <4>1. CbDest(u)' = CbDest(u) /\ CbSrc(u)' = CbSrc(u) /\ cbBufs' = cbBufs /\ k <= cbWord[u]
        BY <2>1, <2>3, <3>1
      <4>2. u # t
        BY <2>4, <4>1
      <4>3. cbPc[u] = "copy"
        BY <2>2, <3>1, <4>2
      <4> QED
        BY <4>1, <4>3 DEF CbCopied
    <3> QED
      BY <3>1 DEF CbCopied
  <2>6. CbWhole'
    <3> SUFFICES ASSUME NEW b \in BufIdx,
                        \A u \in Workers : cbPc'[u] = "copy" => CbDest(u)' # b
                 PROVE  CbUniform(b)'
      BY DEF CbWhole
    <3>1. \A u \in Workers : cbPc[u] = "copy" => CbDest(u) # b
      BY <2>2, <2>3
    <3>2. CbUniform(b)
      BY <3>1 DEF CbWhole
    <3> QED
      BY <2>1, <3>2 DEF CbUniform
  <2> QED
    BY <2>5, <2>6
<1>5. ASSUME NEW t \in Workers, CbCopy(t) PROVE Goal
  BY <1>5, CbCopyWhole
<1>6. ASSUME NEW t \in Workers, CbUnlockSecond(t) PROVE Goal
  BY <1>6, CbQuietWhole DEF CbUnlockSecond
<1>7. ASSUME NEW t \in Workers, CbUnlockFirst(t) PROVE Goal
  BY <1>7, CbQuietWhole DEF CbUnlockFirst
<1> QED
  BY <1>1, <1>2, <1>3, <1>4, <1>5, <1>6, <1>7 DEF CbNext, CbStep

LEMMA CbAlwaysInv == CbSpec => []CbInv
<1>1. CbInv /\ [CbNext]_cbVars => CbInv'
  BY CbNextType, CbNextHeld, CbNextWhole DEF CbInv
<1> QED
  BY <1>1, CbInitInv, PTL DEF CbSpec

\* The variables of copy_buf() and its callers keep their types.
THEOREM CbTypeCorrect == CbSpec => []CbTypeOK
<1>1. CbInv => CbTypeOK
  BY DEF CbInv
<1> QED
  BY <1>1, CbAlwaysInv, PTL

\* A buffer nobody has locked holds one whole buffer, for every number of
\* buffers, words and threads, although memcpy(3) is not atomic.
THEOREM CbNeverTorn == CbSpec => []CbUntorn
<1>1. CbInv => CbUntorn
  <2> SUFFICES ASSUME CbInv, NEW b \in BufIdx, cbLocks[b] = {}
               PROVE  CbUniform(b)
    BY DEF CbUntorn, CbUniform
  <2>1. ASSUME NEW t \in Workers, cbPc[t] = "copy" PROVE CbDest(t) # b
    BY <2>1, CbOrder DEF CbInv, CbHeld, CbHas
  <2> QED
    BY <2>1 DEF CbInv, CbWhole
<1> QED
  BY <1>1, CbAlwaysInv, PTL
----------------------------------------------------------------------------
(* order_prints: one permission to print goes round.                       *)

OpType ==
  /\ opSem \in [OpThreads -> Nat]
  /\ opMain \in {"init", "creating", "joining", "exited"}
  /\ opPc \in [OpThreads -> {"uncreated", "wait", "print", "post"}]
  /\ opOut \in Seq(OpThreads)

\* The thread whose turn it is.
OpTurn == (Len(opOut) % 3) + 1

\* Nobody is between sem_wait(3) and sem_post(3), nor can get there.
OpQuiet(i) == opSem[i] = 0 /\ opPc[i] \notin {"print", "post"}

\* The permission is in the semaphore of the next thread, or with that thread
\* before it prints, or with its predecessor after it has printed.
OpToken ==
  /\ opMain = "init" => opOut = <<>> /\ \A i \in OpThreads : OpQuiet(i)
  /\ \A i \in OpThreads : ~OpQuiet(i) =>
       /\ \/ opSem[i] = 1 /\ opPc[i] \notin {"print", "post"} /\ i = OpTurn
          \/ opSem[i] = 0 /\ opPc[i] = "print" /\ i = OpTurn
          \/ opSem[i] = 0 /\ opPc[i] = "post" /\ (i % 3) + 1 = OpTurn
       /\ \A k \in OpThreads : k # i => OpQuiet(k)

OpInv == OpType /\ OpToken /\ OpOrder

LEMMA OpInitInv == OpInit => OpInv
  BY DEF OpInit, OpInv, OpType, OpToken, OpQuiet, OpOrder, OpThreads

LEMMA OpSuccessor ==
  ASSUME NEW i \in OpThreads
  PROVE  (i % 3) + 1 \in OpThreads /\ (i % 3) + 1 # i
<1>1. i = 1 \/ i = 2 \/ i = 3
  BY DEF OpThreads
<1> QED
  BY <1>1 DEF OpThreads

LEMMA OpNextInv ==
  ASSUME OpInv, [OpNext]_opVars
  PROVE  OpInv'
<1> USE DEF OpInv, OpType, OpToken, OpQuiet, OpTurn, OpOrder, OpGoto, OpThreads
<1>1. CASE UNCHANGED opVars
  BY <1>1 DEF opVars
<1>2. CASE OpSetup
  <2>1. ASSUME opMain' = "creating", opSem' = <<1, 0, 0>> PROVE OpInv'
    <3>1. opSem' \in [OpThreads -> Nat] /\ opSem'[1] = 1 /\ opSem'[2] = 0 /\ opSem'[3] = 0
      BY <2>1
    <3> QED
      BY <1>2, <2>1, <3>1 DEF OpSetup
  <2>2. ASSUME opMain' = "exited", UNCHANGED opSem PROVE OpInv'
    BY <1>2, <2>2 DEF OpSetup
  <2> QED
    BY <1>2, <2>1, <2>2 DEF OpSetup
<1>3. ASSUME NEW i \in OpThreads, OpCreate(i) PROVE OpInv'
  BY <1>3 DEF OpCreate
<1>4. ASSUME NEW i \in OpThreads, OpWait(i) PROVE OpInv'
  BY <1>4 DEF OpWait
<1>5. ASSUME NEW i \in OpThreads, OpPrint(i) PROVE OpInv'
  <2>1. i = OpTurn /\ opMain # "init"
    BY <1>5 DEF OpPrint
  <2>2. /\ opOut' \in Seq(OpThreads) /\ Len(opOut') = Len(opOut) + 1
        /\ opOut'[Len(opOut) + 1] = i
        /\ \A k \in 1..Len(opOut) : opOut'[k] = opOut[k]
    BY <1>5 DEF OpPrint
  <2>3. OpOrder'
    <3>1. DOMAIN opOut' = 1..(Len(opOut) + 1) /\ DOMAIN opOut = 1..Len(opOut)
      BY <2>2, LenProperties
    <3>2. opOut'[Len(opOut) + 1] = (Len(opOut) % 3) + 1
      BY <2>1, <2>2
    <3>3. \A k \in 1..Len(opOut) : opOut'[k] = ((k - 1) % 3) + 1
      BY <2>2, <3>1
    <3>4. Len(opOut) \in Nat
      BY LenProperties
    <3>5. SUFFICES ASSUME NEW k \in 1..(Len(opOut) + 1)
                   PROVE  opOut'[k] = ((k - 1) % 3) + 1
      BY <3>1
    <3>6. CASE k = Len(opOut) + 1
      <4>1. k - 1 = Len(opOut)
        BY <3>4, <3>6
      <4> QED
        BY <3>2, <3>6, <4>1
    <3> QED
      BY <3>3, <3>4, <3>6
  <2>4. (i % 3) + 1 = OpTurn'
    BY <2>1, <2>2
  <2>5. /\ opPc[i] = "print" /\ opPc' = [opPc EXCEPT ![i] = "post"]
        /\ UNCHANGED <<opSem, opMain>>
    BY <1>5 DEF OpPrint
  <2>6. opSem[i] = 0 /\ \A k \in OpThreads : k # i => OpQuiet(k)
    BY <2>5
  <2>7. \A k \in OpThreads : k # i => OpQuiet(k)'
    BY <2>5, <2>6
  <2>8. OpToken'
    BY <2>1, <2>4, <2>5, <2>6, <2>7
  <2> QED
    BY <2>2, <2>3, <2>5, <2>8
<1>6. ASSUME NEW i \in OpThreads, OpPost(i) PROVE OpInv'
  <2> DEFINE n == (i % 3) + 1
  <2>1. /\ opPc[i] = "post" /\ opPc' = [opPc EXCEPT ![i] = "wait"]
        /\ opSem' = [opSem EXCEPT ![n] = @ + 1]
        /\ UNCHANGED <<opMain, opOut>>
    BY <1>6 DEF OpPost
  <2>9. n = OpTurn
    BY <2>1
  <2>10. n \in OpThreads /\ n # i
    BY OpSuccessor
  <2>2. n = OpTurn /\ n \in OpThreads /\ n # i
    BY <2>9, <2>10
  <2>3. \A k \in OpThreads : opSem[k] = 0 /\ (k # i => OpQuiet(k))
    BY <2>1
  <2>4. opMain # "init"
    BY <2>1
  <2> HIDE DEF n
  <2>5. opSem' \in [OpThreads -> Nat] /\ opSem'[n] = 1
    BY <2>1, <2>2, <2>3
  <2>6. \A k \in OpThreads : k # n => OpQuiet(k)'
    BY <2>1, <2>2, <2>3
  <2>7. opPc'[n] \notin {"print", "post"}
    BY <2>1, <2>2, <2>3
  <2>8. OpToken'
    BY <2>1, <2>2, <2>4, <2>5, <2>6, <2>7
  <2> QED
    BY <2>1, <2>5, <2>8
<1> QED
  BY <1>1, <1>2, <1>3, <1>4, <1>5, <1>6 DEF OpNext, OpThread

\* The permission is alone, so no semaphore counts beyond one.
THEOREM OpTypeCorrect == OpSpec => []OpTypeOK
<1>1. OpInv => OpTypeOK
  BY DEF OpInv, OpType, OpToken, OpQuiet, OpTypeOK
<1>2. OpInv /\ [OpNext]_opVars => OpInv'
  BY OpNextInv
<1> QED
  BY <1>1, <1>2, OpInitInv, PTL DEF OpSpec

\* order_prints prints '1' '2' '3' '1' ..., however long it runs.
THEOREM OpPrintsInOrder == OpSpec => []OpOrder
<1>1. OpInv /\ [OpNext]_opVars => OpInv'
  BY OpNextInv
<1>2. OpInv => OpOrder
  BY DEF OpInv
<1> QED
  BY <1>1, <1>2, OpInitInv, PTL DEF OpSpec
----------------------------------------------------------------------------
(* order_function_calls.                                                   *)

OcLabels == {"uncreated", "call", "body", "post", "post2", "done"}

\* The body of method m has run.
OcHasRun(m) == ocPc[m] \in {"post", "post2", "done"}

\* Method m has waited for its predecessor's semaphore.
OcIsIn(m) == OcHasRun(m) \/ ocPc[m] = "body"

OcBit(b) == IF b THEN 1 ELSE 0

\* A semaphore holds what its first method gave and its second has not taken;
\* a method gets into its body only when its predecessor has returned.
OcGates ==
  /\ ocSem \in [1..2 -> Nat]
  /\ ocPc \in [Methods -> OcLabels]
  /\ \A m \in Methods : ocPc[m] = "post2" => m = 2
  /\ \A m \in {2, 3} : OcIsIn(m) => ocPc[m - 1] = "done"
  /\ ocSem[1] + OcBit(ocPc[2] \in {"body", "post"}) = OcBit(ocPc[1] = "done")
  /\ ocSem[2] + OcBit(ocPc[3] \in {"body", "post"}) = OcBit(ocPc[2] = "done")
  /\ ocRan \in Seq(Methods)
  /\ Len(ocRan) = OcBit(OcHasRun(1)) + OcBit(OcHasRun(2)) + OcBit(OcHasRun(3))

OcInv == OcGates /\ OcOrder

LEMMA OcInitInv == OcInit => OcInv
  BY DEF OcInit, OcInv, OcGates, OcLabels, OcHasRun, OcIsIn, OcBit, OcOrder, Methods

LEMMA OcNextInv ==
  ASSUME OcInv, [OcNext]_ocVars
  PROVE  OcInv'
<1> USE DEF OcInv, OcGates, OcLabels, OcHasRun, OcIsIn, OcBit, OcOrder, OcGoto, Methods
<1>1. CASE UNCHANGED ocVars
  BY <1>1 DEF ocVars
<1>2. CASE OcConstruct \/ OcJoin
  BY <1>2 DEF OcConstruct, OcJoin
<1>3. ASSUME NEW m \in Methods, OcCreate(m) PROVE OcInv'
  BY <1>3 DEF OcCreate
<1>4. ASSUME NEW m \in Methods, OcCall(m) PROVE OcInv'
  <2>1. /\ ocPc[m] = "call" /\ ocPc' = [ocPc EXCEPT ![m] = "body"]
        /\ UNCHANGED ocRan
    BY <1>4 DEF OcCall
  <2>2. CASE m = 1
    BY <1>4, <2>1, <2>2 DEF OcCall
  <2>3. CASE m = 2
    <3>1. ocSem[1] > 0 /\ ocSem' = [ocSem EXCEPT ![1] = @ - 1]
      BY <1>4, <2>3 DEF OcCall
    <3>2. ocPc[1] = "done" /\ ocSem[1] = 1
      BY <2>1, <2>3, <3>1
    <3>3. ocSem' \in [1..2 -> Nat] /\ ocSem'[2] = ocSem[2] /\ ocSem'[1] = 0
      BY <3>1, <3>2
    <3>4. ocPc'[1] = ocPc[1] /\ ocPc'[3] = ocPc[3] /\ ocPc'[2] = "body"
      BY <2>1, <2>3
    <3> QED
      BY <2>1, <2>3, <3>2, <3>3, <3>4
  <2>4. CASE m = 3
    <3>1. ocSem[2] > 0 /\ ocSem' = [ocSem EXCEPT ![2] = @ - 1]
      BY <1>4, <2>4 DEF OcCall
    <3>2. ocPc[2] = "done" /\ ocSem[2] = 1 /\ ocPc[1] = "done"
      BY <2>1, <2>4, <3>1
    <3>3. ocSem' \in [1..2 -> Nat] /\ ocSem'[1] = ocSem[1] /\ ocSem'[2] = 0
      BY <3>1, <3>2
    <3>4. ocPc'[1] = ocPc[1] /\ ocPc'[2] = ocPc[2] /\ ocPc'[3] = "body"
      BY <2>1, <2>4
    <3> QED
      BY <2>1, <2>4, <3>2, <3>3, <3>4
  <2> QED
    BY <2>2, <2>3, <2>4
<1>5. ASSUME NEW m \in Methods, OcBody(m) PROVE OcInv'
  <2>1. /\ ocPc[m] = "body" /\ ocPc' = [ocPc EXCEPT ![m] = "post"]
        /\ UNCHANGED ocSem
    BY <1>5 DEF OcBody
  <2>2. /\ ocRan' \in Seq(Methods) /\ Len(ocRan') = Len(ocRan) + 1
        /\ ocRan'[Len(ocRan) + 1] = m
        /\ \A k \in 1..Len(ocRan) : ocRan'[k] = ocRan[k]
    BY <1>5 DEF OcBody
  <2>3. Len(ocRan) + 1 = m
    BY <2>1
  <2>4. OcOrder'
    BY <2>2, <2>3
  <2>5. OcGates'
    BY <2>1, <2>2
  <2> QED
    BY <2>4, <2>5
<1>6. ASSUME NEW m \in Methods, OcPost(m) PROVE OcInv'
  BY <1>6 DEF OcPost
<1>7. ASSUME NEW m \in Methods, OcPost2(m) PROVE OcInv'
  BY <1>7 DEF OcPost2
<1> QED
  BY <1>1, <1>2, <1>3, <1>4, <1>5, <1>6, <1>7 DEF OcNext, OcThread

\* first(), second() and third() run in this order, whichever thread comes
\* first.
THEOREM OcCallsInOrder == OcSpec => []OcOrder
<1>1. OcInv /\ [OcNext]_ocVars => OcInv'
  BY OcNextInv
<1>2. OcInv => OcOrder
  BY DEF OcInv
<1> QED
  BY <1>1, <1>2, OcInitInv, PTL DEF OcSpec

\* A semaphore counts one call at most, and main() is where the code puts it.
THEOREM OcTypeCorrect == OcSpec => []OcTypeOK
<1> DEFINE Main == ocMain \in {"construct", "creating", "joining", "returned", "terminated"}
<1>1. OcInv /\ [OcNext]_ocVars => OcInv'
  BY OcNextInv
<1>2. OcInit => Main
  BY DEF OcInit
<1>3. Main /\ [OcNext]_ocVars => Main'
  BY DEF OcNext, OcConstruct, OcCreate, OcThread, OcCall, OcBody, OcPost, OcPost2, OcJoin, ocVars
<1>4. OcInv /\ Main => OcTypeOK
  <2> SUFFICES ASSUME OcInv, Main PROVE OcTypeOK
    OBVIOUS
  <2>1. /\ ocSem \in [1..2 -> Nat] /\ ocPc \in [Methods -> OcLabels] /\ ocRan \in Seq(Methods)
        /\ ocSem[1] \in 0..1 /\ ocSem[2] \in 0..1
    BY DEF OcInv, OcGates, OcBit
  <2>2. ocSem \in [1..2 -> 0..1]
    BY <2>1
  <2> QED
    BY <2>1, <2>2 DEF OcTypeOK, OcLabels
<1> QED
  BY <1>1, <1>2, <1>3, <1>4, OcInitInv, PTL DEF OcSpec
----------------------------------------------------------------------------
(* The handlers of fork(2).                                                *)

FhMems == [c1 : Nat, c2 : Nat, busy : BOOLEAN]

FhType ==
  /\ fhMem \in FhMems
  /\ fhMain \in {"getchar", "prepare1", "prepare2", "fork", "parent2", "parent1", "wait", "exit"}
  /\ fhThread \in {"lock1", "load1", "store1", "unlock1", "lock2", "load2", "store2", "unlock2"}
  /\ fhCopy \in [pc : {"none", "child2", "child1", "leaving", "exit"},
                 lock1 : SUBSET {"main", "thread"}, lock2 : SUBSET {"main", "thread"},
                 mem : FhMems]

\* Where the thread and main() hold each lock.
FhThread1 == fhThread \in {"load1", "store1", "unlock1"}
FhThread2 == fhThread \in {"load2", "store2", "unlock2"}
FhMain1 == fhMain \in {"prepare2", "fork", "parent2", "parent1"}
FhMain2 == fhMain \in {"fork", "parent2"}

\* One holder for each lock, and the lock says who.
FhHeld ==
  /\ ~(FhThread1 /\ FhMain1) /\ ~(FhThread2 /\ FhMain2)
  /\ fhLock1 = IF FhThread1 THEN {"thread"} ELSE IF FhMain1 THEN {"main"} ELSE {}
  /\ fhLock2 = IF FhThread2 THEN {"thread"} ELSE IF FhMain2 THEN {"main"} ELSE {}

\* An increment is under way only inside a lock, and the first counter is
\* ahead of the second between the two increments of a round.
FhRound ==
  /\ fhMem.busy => fhThread \in {"store1", "store2"}
  /\ fhMem.c1 = fhMem.c2 + (IF fhThread \in {"unlock1", "lock2", "load2", "store2"} THEN 1 ELSE 0)

\* The child starts with both locks held by the thread that forked it, and
\* with the counters between two increments.
FhChild ==
  /\ fhCopy.pc # "none" => ~fhCopy.mem.busy /\ fhCopy.mem.c1 - fhCopy.mem.c2 \in {0, 1}
  /\ fhCopy.pc = "child2" => fhCopy.lock2 = {"main"}
  /\ fhCopy.pc \in {"child2", "child1"} => fhCopy.lock1 = {"main"}
  /\ fhCopy.pc \in {"child1", "leaving", "exit"} => fhCopy.lock2 = {}
  /\ fhCopy.pc \in {"leaving", "exit"} => fhCopy.lock1 = {}

FhInv == FhType /\ FhHeld /\ FhRound /\ FhChild

LEMMA FhInitInv == FhInit => FhInv
  BY DEF FhInit, FhInv, FhType, FhMems, FhHeld, FhThread1, FhThread2, FhMain1, FhMain2,
         FhRound, FhChild, NoCopy

\* What the two stores of thread_fn() leave of the memory.
LEMMA FhStores ==
  ASSUME NEW m \in FhMems
  PROVE  /\ [m EXCEPT !.c1 = @ + 1, !.busy = FALSE] \in FhMems
         /\ [m EXCEPT !.c2 = @ + 1, !.busy = FALSE] \in FhMems
<1>1. [m EXCEPT !.c1 = @ + 1] \in FhMems /\ [m EXCEPT !.c2 = @ + 1] \in FhMems
  BY DEF FhMems
<1>2. ASSUME NEW w \in FhMems PROVE [w EXCEPT !.busy = FALSE] \in FhMems
  BY DEF FhMems
<1>3. /\ [m EXCEPT !.c1 = @ + 1, !.busy = FALSE] = [[m EXCEPT !.c1 = @ + 1] EXCEPT !.busy = FALSE]
      /\ [m EXCEPT !.c2 = @ + 1, !.busy = FALSE] = [[m EXCEPT !.c2 = @ + 1] EXCEPT !.busy = FALSE]
  OBVIOUS
<1> QED
  BY <1>1, <1>2, <1>3

LEMMA FhNextInv ==
  ASSUME FhInv, [FhNext]_fhVars
  PROVE  FhInv'
<1> USE DEF FhInv, FhType, FhMems, FhHeld, FhThread1, FhThread2, FhMain1, FhMain2,
            FhRound, FhChild
<1>1. CASE UNCHANGED fhVars
  BY <1>1 DEF fhVars
<1>2. CASE FhThreadStep
  <2> USE DEF MutexLock, MutexUnlock
  <2>0. UNCHANGED <<fhMain, fhCopy>>
    BY <1>2 DEF FhThreadStep
  <2>1. CASE fhThread = "lock1"
    BY <1>2, <2>0, <2>1 DEF FhThreadStep
  <2>2. CASE fhThread = "load1"
    BY ZenonT(60), <1>2, <2>0, <2>2 DEF FhThreadStep
  <2>3. CASE fhThread = "store1"
    <3>1. /\ fhThread' = "unlock1" /\ fhMem' = [fhMem EXCEPT !.c1 = @ + 1, !.busy = FALSE]
          /\ UNCHANGED <<fhLock1, fhLock2>>
      BY <1>2, <2>3 DEF FhThreadStep
    <3>2. fhMem.c1 \in Nat /\ fhMem.c2 \in Nat
      OBVIOUS
    <3>3. fhMem' \in FhMems
      BY <3>1, FhStores
    <3>4. fhMem'.c1 = fhMem.c1 + 1 /\ fhMem'.c2 = fhMem.c2 /\ fhMem'.busy = FALSE
      BY <3>1
    <3> HIDE DEF FhMems
    <3> QED
      BY <2>0, <2>3, <3>1, <3>2, <3>3, <3>4
  <2>4. CASE fhThread = "unlock1"
    BY <1>2, <2>0, <2>4 DEF FhThreadStep
  <2>5. CASE fhThread = "lock2"
    BY <1>2, <2>0, <2>5 DEF FhThreadStep
  <2>6. CASE fhThread = "load2"
    BY ZenonT(60), <1>2, <2>0, <2>6 DEF FhThreadStep
  <2>7. CASE fhThread = "store2"
    <3>1. /\ fhThread' = "unlock2" /\ fhMem' = [fhMem EXCEPT !.c2 = @ + 1, !.busy = FALSE]
          /\ UNCHANGED <<fhLock1, fhLock2>>
      BY <1>2, <2>7 DEF FhThreadStep
    <3>2. fhMem.c1 \in Nat /\ fhMem.c2 \in Nat
      OBVIOUS
    <3>3. fhMem' \in FhMems
      BY <3>1, FhStores
    <3>4. fhMem'.c2 = fhMem.c2 + 1 /\ fhMem'.c1 = fhMem.c1 /\ fhMem'.busy = FALSE
      BY <3>1
    <3> HIDE DEF FhMems
    <3> QED
      BY <2>0, <2>7, <3>1, <3>2, <3>3, <3>4
  <2>8. CASE fhThread = "unlock2"
    BY <1>2, <2>0, <2>8 DEF FhThreadStep
  <2> QED
    BY <2>1, <2>2, <2>3, <2>4, <2>5, <2>6, <2>7, <2>8
<1>3. CASE FhPress
  BY <1>3 DEF FhPress
<1>4. CASE PrepareHandler
  BY <1>4 DEF PrepareHandler, MutexLock
<1>5. CASE FhFork
  BY <1>5 DEF FhFork
<1>6. CASE ParentHandler
  BY <1>6 DEF ParentHandler, MutexUnlock
<1>7. CASE ChildHandler
  <2>1. fhCopy.pc \in {"child2", "child1", "leaving"}
    BY <1>7 DEF ChildHandler
  <2>2. UNCHANGED <<fhLock1, fhLock2, fhMem, fhMain, fhThread>>
    BY <1>7 DEF ChildHandler
  <2>3. CASE fhCopy.pc = "child2"
    <3>1. fhCopy' = [fhCopy EXCEPT !.pc = "child1", !.lock2 = @ \ {"main"}]
      BY <1>7, <2>3 DEF ChildHandler
    <3>2. /\ fhCopy'.pc = "child1" /\ fhCopy'.lock1 = fhCopy.lock1
          /\ fhCopy'.lock2 = fhCopy.lock2 \ {"main"} /\ fhCopy'.mem = fhCopy.mem
      BY <3>1
    <3> QED
      BY ZenonT(60), <2>2, <2>3, <3>1, <3>2
  <2>4. CASE fhCopy.pc = "child1"
    <3>1. fhCopy' = [fhCopy EXCEPT !.pc = "leaving", !.lock1 = @ \ {"main"}]
      BY <1>7, <2>4 DEF ChildHandler
    <3>2. /\ fhCopy'.pc = "leaving" /\ fhCopy'.lock2 = fhCopy.lock2
          /\ fhCopy'.lock1 = fhCopy.lock1 \ {"main"} /\ fhCopy'.mem = fhCopy.mem
      BY <3>1
    <3> QED
      BY ZenonT(60), <2>2, <2>4, <3>1, <3>2
  <2>5. CASE fhCopy.pc = "leaving"
    <3>1. fhCopy' = [fhCopy EXCEPT !.pc = "exit"]
      BY <1>7, <2>5 DEF ChildHandler
    <3>2. /\ fhCopy'.pc = "exit" /\ fhCopy'.lock1 = fhCopy.lock1
          /\ fhCopy'.lock2 = fhCopy.lock2 /\ fhCopy'.mem = fhCopy.mem
      BY <3>1
    <3> QED
      BY <2>2, <2>5, <3>1, <3>2
  <2> QED
    BY <2>1, <2>3, <2>4, <2>5
<1> QED
  BY <1>1, <1>2, <1>3, <1>4, <1>5, <1>6, <1>7 DEF FhNext, FhMainStep

\* After the handlers the child finds both locks free and the counters whole,
\* wherever the thread was when fork(2) was called, for any number of rounds.
THEOREM FhChildConsistent == FhSpec => []FhConsistent
<1>1. FhInv /\ [FhNext]_fhVars => FhInv'
  BY FhNextInv
<1>2. FhInv => FhConsistent
  BY DEF FhInv, FhChild, FhConsistent
<1> QED
  BY <1>1, <1>2, FhInitInv, PTL DEF FhSpec

\* Memory, locks and both processes keep their types.
THEOREM FhTypeCorrect == FhSpec => []FhTypeOK
<1> DEFINE Key == fhKey \in BOOLEAN
<1>1. FhInv /\ [FhNext]_fhVars => FhInv'
  BY FhNextInv
<1>2. FhInit => Key
  BY DEF FhInit
<1>3. Key /\ [FhNext]_fhVars => Key'
  BY DEF FhNext, FhPress, FhThreadStep, FhMainStep, PrepareHandler, FhFork, ParentHandler,
         ChildHandler, fhVars
<1>4. FhInv /\ Key => FhTypeOK
  BY DEF FhInv, FhType, FhHeld, FhMems, FhTypeOK
<1> QED
  BY <1>1, <1>2, <1>3, <1>4, FhInitInv, PTL DEF FhSpec
----------------------------------------------------------------------------
(* Signals in one thread.                                                  *)

\* main() is the only one to wait, and SwSends bounds the deliveries.
THEOREM SwTypeCorrect == SwSpec => []SwTypeOK
<1>1. SwInit => SwTypeOK
  BY ForkThreadsAssumption DEF SwInit, SwTypeOK
<1>2. ASSUME SwTypeOK, [SwNext]_swVars PROVE SwTypeOK'
  <2> USE <1>2, ForkThreadsAssumption DEF SwTypeOK
  <2>1. CASE SwSend
    <3>1. swSent' \in 0..SwSends
      BY <2>1 DEF SwSend
    <3>2. CASE swMain = "sigmask"
      BY <2>1, <3>1, <3>2 DEF SwSend
    <3>3. CASE swMain # "sigmask"
      <4>1. PICK s \in {"QUIT", "TERM", "INT"} : swPend' = swPend \cup {s}
        BY <2>1, <3>3 DEF SwSend
      <4> QED
        BY <2>1, <3>1, <3>3, <4>1 DEF SwSend
    <3> QED
      BY <3>2, <3>3
  <2>2. CASE SwMainStep
    BY <2>2 DEF SwMainStep, MutexLock, MutexUnlock
  <2>3. CASE SwThreadStep
    BY <2>3 DEF SwThreadStep, MutexLock, MutexUnlock, CondSignal
  <2>4. CASE SwSpurious
    BY <2>4 DEF SwSpurious, CondSpurious
  <2>5. CASE UNCHANGED swVars
    BY <2>5 DEF swVars
  <2> QED
    BY <1>2, <2>1, <2>2, <2>3, <2>4, <2>5 DEF SwNext
<1> QED
  BY <1>1, <1>2, PTL DEF SwSpec
----------------------------------------------------------------------------
(* The list in shared memory.                                              *)

\* The nodes that p has moved to the list and not back.
SlOwes(p) ==
  IF slPc[p] \in {"pop", "popped", "done"} THEN WorkUnit - slI[p] ELSE slI[p]
SlHeld == {x \in Workers \X (1..WorkUnit) : x[2] <= SlOwes(x[1])}

SlLabels == {"unborn", "push", "pushed", "pop", "popped", "done", "aborted"}
SlType ==
  /\ slNext \in [1..Nodes -> 1..Nodes \cup {NIL}] /\ slI \in [Workers -> 0..WorkUnit]
  /\ slN \in [Workers -> 1..Nodes \cup {NIL}]
  /\ slPc \in [Workers \cup {Boss} -> SlLabels \cup {"fork", "exited", "returned"}]
  /\ \A p \in Workers : slPc[p] \in SlLabels

\* Who holds the mutex has read the head of the list it will move a node from.
SlGuarded ==
  \A p \in Workers :
    /\ slPc[p] \in {"pushed", "popped"} => slLock = {p} /\ slI[p] < WorkUnit
    /\ slPc[p] = "pushed" => slN[p] = slFree
    /\ slPc[p] = "popped" => slN[p] = slList
    /\ slPc[p] = "unborn" => slI[p] = 0
    /\ slPc[p] = "done" => slI[p] = WorkUnit

\* Pointer h heads the n nodes f[n], ..., f[1].
SlIsList(next, h, n, f) ==
  /\ f \in [1..n -> 1..Nodes]
  /\ h = IF n = 0 THEN NIL ELSE f[n]
  /\ \A i \in 1..n : next[f[i]] = IF i = 1 THEN NIL ELSE f[i - 1]
  /\ \A i, j \in 1..n : f[i] = f[j] => i = j

\* The list has the nodes of f and the free list those of g: each node is on
\* one of them.
SlAre(next, list, free, n, m, f, g) ==
  /\ n + m = Nodes
  /\ SlIsList(next, list, n, f) /\ SlIsList(next, free, m, g)
  /\ \A i \in 1..n, j \in 1..m : f[i] # g[j]
  /\ \A k \in 1..Nodes : (\E i \in 1..n : f[i] = k) \/ (\E j \in 1..m : g[j] = k)
SlLists(n) ==
  \E f \in [1..n -> 1..Nodes], g \in [1..(Nodes - n) -> 1..Nodes] :
    SlAre(slNext, slList, slFree, n, Nodes - n, f, g)

SlBalance == \E n \in 0..Nodes : SlLists(n) /\ Cardinality(SlHeld) = n
SlEnough ==
  Nodes >= WorkUnit * Cardinality(Workers) =>
    \A p \in Workers \cup {Boss} : slPc[p] # "aborted"

SlInv == SlType /\ SlGuarded /\ SlBalance /\ SlEnough

\* What holds of 0 and of n + 1 with n holds of every natural number.
LEMMA NatSetInduction ==
  ASSUME NEW T, 0 \in T, \A n \in Nat : n \in T => n + 1 \in T
  PROVE  \A n \in Nat : n \in T
<1> SUFFICES ASSUME NEW n \in Nat, n \notin T PROVE FALSE
  OBVIOUS
<1> DEFINE U == {k \in Nat : k \notin T}
<1>1. PICK x \in U : \A y \in U : x <= y
  BY NatLeast
<1>2. x # 0
  OBVIOUS
<1>3. x - 1 \in Nat /\ x - 1 \notin U
  BY <1>1, <1>2
<1> QED
  BY <1>3

\* Following next from the head reaches the nodes of the list and no others.
LEMMA SlReaches ==
  ASSUME NEW h, NEW n \in 0..Nodes, NEW f, SlIsList(slNext, h, n, f)
  PROVE  SlChain(h) = {f[i] : i \in 1..n}
<1>a. Nodes \in Nat /\ NIL \notin 1..Nodes
  BY NodesAssumption
<1> DEFINE F == [k \in 0..Nodes |-> {f[i] : i \in {j \in 1..n : j >= n - k}}]
           G(g, k) == IF k = 0 THEN {h} \ {NIL}
                      ELSE g[k - 1] \cup ({slNext[x] : x \in g[k - 1]} \ {NIL})
           step == CHOOSE g : g = [k \in 0..Nodes |-> G(g, k)]
<1>1. f \in [1..n -> 1..Nodes] /\ \A i \in 1..n : slNext[f[i]] = IF i = 1 THEN NIL ELSE f[i - 1]
  BY DEF SlIsList
<1>2. F[0] = G(F, 0)
  <2>1. CASE n = 0
    BY <1>a, <2>1 DEF SlIsList
  <2>2. CASE n # 0
    BY <1>a, <1>1, <2>2 DEF SlIsList
  <2> QED
    BY <2>1, <2>2
<1>3. ASSUME NEW k \in 1..Nodes PROVE F[k] = G(F, k)
  <2>1. /\ F[k] = {f[i] : i \in {j \in 1..n : j >= n - k}}
        /\ F[k - 1] = {f[i] : i \in {j \in 1..n : j >= n - (k - 1)}}
    BY <1>a
  <2> HIDE DEF F
  <2>2. ASSUME NEW x \in F[k] PROVE x \in G(F, k)
    <3>1. PICK i \in 1..n : i >= n - k /\ x = f[i]
      BY <2>1
    <3>2. CASE i >= n - (k - 1)
      BY <2>1, <3>1, <3>2
    <3>3. CASE ~(i >= n - (k - 1))
      <4>1. i + 1 \in 1..n /\ i + 1 >= n - (k - 1) /\ i + 1 # 1 /\ (i + 1) - 1 = i
        BY <1>a, <3>1, <3>3
      <4>2. f[i + 1] \in F[k - 1] /\ slNext[f[i + 1]] = f[i] /\ f[i] # NIL
        BY <1>a, <1>1, <2>1, <4>1
      <4> QED
        BY <1>a, <3>1, <4>2
    <3> QED
      BY <3>2, <3>3
  <2>3. ASSUME NEW x \in G(F, k) PROVE x \in F[k]
    <3>1. CASE x \in F[k - 1]
      BY <1>a, <2>1, <3>1
    <3>2. ASSUME NEW y \in F[k - 1], x = slNext[y], x # NIL PROVE x \in F[k]
      <4>1. PICK i \in 1..n : i >= n - (k - 1) /\ y = f[i]
        BY <2>1
      <4>2. i # 1 /\ x = f[i - 1]
        BY <1>1, <3>2, <4>1
      <4>3. i - 1 \in 1..n /\ i - 1 >= n - k
        BY <1>a, <4>1, <4>2
      <4> QED
        BY <2>1, <4>2, <4>3
    <3> QED
      BY <1>a, <2>3, <3>1, <3>2
  <2> QED
    BY <2>2, <2>3
<1>4. F = [k \in 0..Nodes |-> G(F, k)]
  <2>2. F = [k \in 0..Nodes |-> F[k]]
    OBVIOUS
  <2> HIDE DEF F, G
  <2>3. \A k \in 0..Nodes : k = 0 \/ k \in 1..Nodes
    BY <1>a
  <2>1. \A k \in 0..Nodes : F[k] = G(F, k)
    BY <1>2, <1>3, <2>3
  <2> QED
    BY <2>1, <2>2
<1>5. step = [k \in 0..Nodes |-> G(step, k)]
  <2> HIDE DEF F, G
  <2> QED
    BY <1>4
<1>6. SlChain(h) = step[Nodes]
  BY DEF SlChain
<1> HIDE DEF step, F
<1> DEFINE T == {k \in Nat : k <= Nodes => step[k] = F[k]}
<1>7. 0 \in T
  BY <1>a, <1>2, <1>5
<1>8. ASSUME NEW k \in Nat, k \in T PROVE k + 1 \in T
  <2>1. SUFFICES ASSUME k + 1 <= Nodes PROVE step[k + 1] = F[k + 1]
    OBVIOUS
  <2>2. k + 1 \in 0..Nodes /\ k + 1 \in 1..Nodes /\ k + 1 # 0 /\ (k + 1) - 1 = k /\ k <= Nodes
    BY <1>a, <2>1
  <2>3. step[k] = F[k]
    BY <1>8, <2>2
  <2>4. step[k + 1] = G(step, k + 1) /\ F[k + 1] = G(F, k + 1)
    BY <1>3, <1>5, <2>2
  <2> QED
    BY <2>2, <2>3, <2>4
<1>9. step[Nodes] = F[Nodes]
  <2> HIDE DEF T
  <2>1. Nodes \in T
    BY <1>a, <1>7, <1>8, NatSetInduction
  <2> QED
    BY <1>a, <2>1 DEF T
<1>10. F[Nodes] = {f[i] : i \in 1..n}
  <2>1. {j \in 1..n : j >= n - Nodes} = 1..n
    BY <1>a
  <2> QED
    BY <1>a, <2>1 DEF F
<1> QED
  BY <1>6, <1>9, <1>10

\* The two lists play the same part.
LEMMA SlEither ==
  ASSUME NEW next, NEW a, NEW b, NEW n \in Nat, NEW m \in Nat, NEW f, NEW g,
         SlAre(next, a, b, n, m, f, g)
  PROVE  SlAre(next, b, a, m, n, g, f)
  BY DEF SlAre

\* The head of the second list becomes the head of the first.
LEMMA SlMoves ==
  ASSUME NEW next \in [1..Nodes -> 1..Nodes \cup {NIL}], NEW a, NEW b,
         NEW n \in Nat, NEW m \in Nat, NEW f, NEW g, SlAre(next, a, b, n, m, f, g), b # NIL
  PROVE  /\ b \in 1..Nodes /\ m > 0
         /\ \E u \in [1..(n + 1) -> 1..Nodes], v \in [1..(m - 1) -> 1..Nodes] :
              SlAre([next EXCEPT ![b] = a], b, next[b], n + 1, m - 1, u, v)
<1> DEFINE new == [next EXCEPT ![b] = a]
           u == [i \in 1..(n + 1) |-> IF i = n + 1 THEN b ELSE f[i]]
           v == [j \in 1..(m - 1) |-> g[j]]
<1>a. Nodes \in Nat /\ NIL \notin 1..Nodes
  BY NodesAssumption
<1>1. /\ n + m = Nodes /\ f \in [1..n -> 1..Nodes] /\ g \in [1..m -> 1..Nodes]
      /\ a = (IF n = 0 THEN NIL ELSE f[n]) /\ b = (IF m = 0 THEN NIL ELSE g[m])
      /\ \A i \in 1..n : next[f[i]] = IF i = 1 THEN NIL ELSE f[i - 1]
      /\ \A i \in 1..m : next[g[i]] = IF i = 1 THEN NIL ELSE g[i - 1]
  BY DEF SlAre, SlIsList
<1>2. /\ \A i, j \in 1..n : f[i] = f[j] => i = j
      /\ \A i, j \in 1..m : g[i] = g[j] => i = j
      /\ \A i \in 1..n, j \in 1..m : f[i] # g[j]
      /\ \A k \in 1..Nodes : (\E i \in 1..n : f[i] = k) \/ (\E j \in 1..m : g[j] = k)
  BY DEF SlAre, SlIsList
<1>3. m > 0 /\ b = g[m] /\ m \in 1..m /\ b \in 1..Nodes
  BY <1>1
<1>4. /\ \A i \in 1..n : f[i] # b
      /\ \A j \in 1..(m - 1) : j \in 1..m /\ g[j] # b
  BY <1>2, <1>3
<1>5. u \in [1..(n + 1) -> 1..Nodes] /\ v \in [1..(m - 1) -> 1..Nodes]
  <2>1. \A i \in 1..(n + 1) : i # n + 1 => i \in 1..n
    OBVIOUS
  <2>2. \A i \in 1..(n + 1) : u[i] \in 1..Nodes
    BY <1>1, <1>3, <2>1
  <2> QED
    BY <1>1, <1>4, <2>2
<1>6. /\ u[n + 1] = b /\ n + 1 \in 1..(n + 1) /\ \A i \in 1..n : u[i] = f[i] /\ i \in 1..(n + 1)
      /\ \A i \in 1..(n + 1) : i = n + 1 \/ i \in 1..n
      /\ \A j \in 1..(m - 1) : v[j] = g[j] /\ j \in 1..m
  OBVIOUS
<1>7. new[b] = a /\ \A x \in 1..Nodes : x # b => new[x] = next[x]
  BY <1>3
<1> HIDE DEF new, u, v
<1>8. SlIsList(new, b, n + 1, u)
  <2>1. ASSUME NEW i \in 1..(n + 1) PROVE new[u[i]] = IF i = 1 THEN NIL ELSE u[i - 1]
    <3>1. CASE i = n + 1
      <4>1. n = 0 => a = NIL
        BY <1>1
      <4>2. n # 0 => a = f[n] /\ n \in 1..n
        BY <1>1
      <4> QED
        BY <1>6, <1>7, <3>1, <4>1, <4>2
    <3>2. CASE i \in 1..n
      <4>1. new[u[i]] = next[f[i]]
        BY <1>1, <1>4, <1>6, <1>7, <3>2
      <4>2. i # 1 => i - 1 \in 1..n
        BY <3>2
      <4> QED
        BY <1>1, <1>6, <3>2, <4>1, <4>2
    <3> QED
      BY <1>6, <3>1, <3>2
  <2>2. ASSUME NEW i \in 1..(n + 1), NEW j \in 1..(n + 1), u[i] = u[j] PROVE i = j
    <3>1. CASE i = n + 1 /\ j = n + 1
      BY <3>1
    <3>2. CASE i \in 1..n /\ j \in 1..n
      BY <1>2, <1>6, <2>2, <3>2
    <3>3. CASE (i = n + 1 /\ j \in 1..n) \/ (j = n + 1 /\ i \in 1..n)
      BY <1>4, <1>6, <2>2, <3>3
    <3> QED
      BY <1>6, <3>1, <3>2, <3>3
  <2>3. b = IF n + 1 = 0 THEN NIL ELSE u[n + 1]
    BY <1>6
  <2> QED
    BY <1>5, <2>1, <2>2, <2>3 DEF SlIsList
<1>9. SlIsList(new, next[b], m - 1, v)
  <2>1. next[b] = IF m = 1 THEN NIL ELSE g[m - 1]
    BY <1>1, <1>3
  <2>2. next[b] = IF m - 1 = 0 THEN NIL ELSE v[m - 1]
    <3>1. m # 1 => m - 1 \in 1..(m - 1) /\ m - 1 # 0
      BY <1>3
    <3>2. m = 1 => m - 1 = 0
      OBVIOUS
    <3> QED
      BY <1>6, <2>1, <3>1, <3>2
  <2>3. ASSUME NEW i \in 1..(m - 1) PROVE new[v[i]] = IF i = 1 THEN NIL ELSE v[i - 1]
    <3>1. new[v[i]] = next[g[i]] /\ i \in 1..m
      BY <1>1, <1>4, <1>6, <1>7
    <3>2. i # 1 => i - 1 \in 1..(m - 1)
      OBVIOUS
    <3> QED
      BY <1>1, <1>6, <3>1, <3>2
  <2>4. \A i, j \in 1..(m - 1) : v[i] = v[j] => i = j
    BY <1>2, <1>6
  <2> QED
    BY <1>5, <2>2, <2>3, <2>4 DEF SlIsList
<1>10. \A i \in 1..(n + 1), j \in 1..(m - 1) : u[i] # v[j]
  BY <1>2, <1>4, <1>6
<1>11. ASSUME NEW k \in 1..Nodes
       PROVE  (\E i \in 1..(n + 1) : u[i] = k) \/ (\E j \in 1..(m - 1) : v[j] = k)
  <2>1. CASE \E i \in 1..n : f[i] = k
    BY <1>6, <2>1
  <2>2. ASSUME NEW j \in 1..m, g[j] = k
        PROVE (\E i \in 1..(n + 1) : u[i] = k) \/ (\E i \in 1..(m - 1) : v[i] = k)
    <3>1. CASE j = m
      BY <1>3, <1>6, <2>2, <3>1
    <3>2. CASE j # m
      <4>1. j \in 1..(m - 1)
        BY <3>2
      <4> QED
        BY <1>6, <2>2, <4>1
    <3> QED
      BY <3>1, <3>2
  <2> QED
    BY <1>2, <2>1, <2>2
<1>12. (n + 1) + (m - 1) = Nodes
  BY <1>1
<1>13. SlAre(new, b, next[b], n + 1, m - 1, u, v)
  BY <1>8, <1>9, <1>10, <1>11, <1>12 DEF SlAre
<1> QED
  BY <1>3, <1>5, <1>13 DEF new

\* The moved nodes as a set of pairs, so that they can be counted.
LEMMA SlHeldIs ==
  ASSUME SlType
  PROVE  /\ \A p \in Workers : SlOwes(p) \in 0..WorkUnit
         /\ IsFiniteSet(Workers \X (1..WorkUnit)) /\ SlHeld \subseteq Workers \X (1..WorkUnit)
         /\ Cardinality(Workers \X (1..WorkUnit)) = WorkUnit * Cardinality(Workers)
         /\ IsFiniteSet(SlHeld) /\ Cardinality(SlHeld) \in Nat
<1>a. WorkUnit \in Nat /\ IsFiniteSet(Workers)
  BY NodesAssumption, WorkersAssumption
<1>1. \A p \in Workers : SlOwes(p) \in 0..WorkUnit
  BY <1>a DEF SlType, SlOwes
<1>2. IsFiniteSet(1..WorkUnit) /\ Cardinality(1..WorkUnit) = WorkUnit
  BY <1>a, FS_Interval
<1>3. /\ IsFiniteSet(Workers \X (1..WorkUnit))
      /\ Cardinality(Workers \X (1..WorkUnit)) = Cardinality(Workers) * Cardinality(1..WorkUnit)
  BY <1>a, <1>2, FS_Product
<1>4. Cardinality(Workers) \in Nat
  BY <1>a, FS_CardinalityType
<1>5. Cardinality(Workers \X (1..WorkUnit)) = WorkUnit * Cardinality(Workers)
  BY <1>a, <1>2, <1>3, <1>4
<1>6. SlHeld \subseteq Workers \X (1..WorkUnit)
  BY DEF SlHeld
<1>7. IsFiniteSet(SlHeld) /\ Cardinality(SlHeld) \in Nat
  BY <1>3, <1>6, FS_Subset, FS_CardinalityType
<1> QED
  BY <1>1, <1>3, <1>5, <1>6, <1>7

LEMMA SlGains ==
  ASSUME SlType, NEW p \in Workers, SlOwes(p) < WorkUnit, SlOwes(p)' = SlOwes(p) + 1,
         \A q \in Workers : q # p => SlOwes(q)' = SlOwes(q)
  PROVE  Cardinality(SlHeld') = Cardinality(SlHeld) + 1
<1>a. WorkUnit \in Nat
  BY NodesAssumption
<1>1. \A q \in Workers : SlOwes(q) \in 0..WorkUnit
  BY SlHeldIs
<1>2. <<p, SlOwes(p) + 1>> \in Workers \X (1..WorkUnit)
  BY <1>a, <1>1
<1>3. <<p, SlOwes(p) + 1>> \notin SlHeld
  BY <1>1 DEF SlHeld
<1>4. ASSUME NEW x \in Workers \X (1..WorkUnit)
      PROVE  x \in SlHeld' <=> x \in SlHeld \/ x = <<p, SlOwes(p) + 1>>
  <2>1. PICK q \in Workers, k \in 1..WorkUnit : x = <<q, k>>
    OBVIOUS
  <2>2. x \in SlHeld <=> k <= SlOwes(q)
    BY <2>1 DEF SlHeld
  <2>3. x \in SlHeld' <=> k <= SlOwes(q)'
    BY <2>1 DEF SlHeld
  <2>4. CASE q = p
    <3>1. k <= SlOwes(p)' <=> k <= SlOwes(p) \/ k = SlOwes(p) + 1
      BY <1>1
    <3> QED
      BY <2>1, <2>2, <2>3, <2>4, <3>1
  <2>5. CASE q # p
    BY <2>1, <2>2, <2>3, <2>5
  <2> QED
    BY <2>4, <2>5
<1>5. SlHeld' \subseteq Workers \X (1..WorkUnit) /\ SlHeld \subseteq Workers \X (1..WorkUnit)
  BY DEF SlHeld
<1>6. SlHeld' = SlHeld \cup {<<p, SlOwes(p) + 1>>}
  BY <1>2, <1>4, <1>5
<1> QED
  BY <1>3, <1>6, SlHeldIs, FS_AddElement

LEMMA SlLoses ==
  ASSUME SlType, NEW p \in Workers, SlOwes(p) > 0, SlOwes(p)' = SlOwes(p) - 1,
         \A q \in Workers : q # p => SlOwes(q)' = SlOwes(q)
  PROVE  Cardinality(SlHeld') = Cardinality(SlHeld) - 1
<1>a. WorkUnit \in Nat
  BY NodesAssumption
<1>1. \A q \in Workers : SlOwes(q) \in 0..WorkUnit
  BY SlHeldIs
<1>2. <<p, SlOwes(p)>> \in Workers \X (1..WorkUnit)
  BY <1>a, <1>1
<1>3. <<p, SlOwes(p)>> \in SlHeld
  BY <1>1, <1>2 DEF SlHeld
<1>4. ASSUME NEW x \in Workers \X (1..WorkUnit)
      PROVE  x \in SlHeld' <=> x \in SlHeld /\ x # <<p, SlOwes(p)>>
  <2>1. PICK q \in Workers, k \in 1..WorkUnit : x = <<q, k>>
    OBVIOUS
  <2>2. x \in SlHeld <=> k <= SlOwes(q)
    BY <2>1 DEF SlHeld
  <2>3. x \in SlHeld' <=> k <= SlOwes(q)'
    BY <2>1 DEF SlHeld
  <2>4. CASE q = p
    <3>1. k <= SlOwes(p)' <=> k <= SlOwes(p) /\ k # SlOwes(p)
      BY <1>1
    <3> QED
      BY <2>1, <2>2, <2>3, <2>4, <3>1
  <2>5. CASE q # p
    BY <2>1, <2>2, <2>3, <2>5
  <2> QED
    BY <2>4, <2>5
<1>5. SlHeld' \subseteq Workers \X (1..WorkUnit) /\ SlHeld \subseteq Workers \X (1..WorkUnit)
  BY DEF SlHeld
<1>6. SlHeld' = SlHeld \ {<<p, SlOwes(p)>>}
  BY <1>2, <1>4, <1>5
<1> QED
  BY <1>3, <1>6, SlHeldIs, FS_RemoveElement

\* A step that moves no node.
LEMMA SlStays ==
  ASSUME SlBalance, UNCHANGED <<slNext, slList, slFree>>,
         \A q \in Workers : SlOwes(q)' = SlOwes(q)
  PROVE  SlBalance'
<1>1. SlHeld' = SlHeld
  BY DEF SlHeld
<1>2. \A n \in 0..Nodes : SlLists(n)' <=> SlLists(n)
  BY DEF SlLists
<1> QED
  BY <1>1, <1>2 DEF SlBalance

LEMMA SlInitInv == SlInit => SlInv
<1> SUFFICES ASSUME SlInit PROVE SlInv
  OBVIOUS
<1>a. Nodes \in Nat /\ WorkUnit \in Nat /\ NIL \notin 1..Nodes /\ Boss \notin Workers
  BY NodesAssumption, WorkersAssumption
<1>1. \A p \in Workers : slPc[p] = "unborn" /\ slI[p] = 0
  BY <1>a DEF SlInit
<1>2. SlType
  BY <1>a, <1>1 DEF SlInit, SlType, SlLabels
<1>3. SlGuarded
  BY <1>1 DEF SlGuarded
<1>4. Cardinality(SlHeld) = 0
  <2>1. SlHeld = {}
    BY <1>a, <1>1 DEF SlHeld, SlOwes
  <2> QED
    BY <2>1, FS_EmptySet
<1>5. SlLists(0)
  <2> DEFINE f == [i \in 1..0 |-> 1]
             g == [i \in 1..Nodes |-> Nodes + 1 - i]
  <2>1. f \in [1..0 -> 1..Nodes] /\ g \in [1..Nodes -> 1..Nodes]
    BY <1>a
  <2>2. SlIsList(slNext, slList, 0, f)
    BY <2>1 DEF SlIsList, SlInit
  <2>3. SlIsList(slNext, slFree, Nodes, g)
    <3>1. slFree = IF Nodes = 0 THEN NIL ELSE g[Nodes]
      BY <1>a DEF SlInit
    <3>2. ASSUME NEW i \in 1..Nodes PROVE slNext[g[i]] = IF i = 1 THEN NIL ELSE g[i - 1]
      <4>1. g[i] \in 1..Nodes /\ (g[i] = Nodes <=> i = 1) /\ g[i] + 1 = Nodes + 1 - (i - 1)
        BY <1>a
      <4>2. i # 1 => i - 1 \in 1..Nodes
        BY <1>a
      <4> QED
        BY <4>1, <4>2 DEF SlInit
    <3>3. \A i, j \in 1..Nodes : g[i] = g[j] => i = j
      BY <1>a
    <3> QED
      BY <2>1, <3>1, <3>2, <3>3 DEF SlIsList
  <2>4. ASSUME NEW k \in 1..Nodes PROVE \E j \in 1..Nodes : g[j] = k
    <3>1. Nodes + 1 - k \in 1..Nodes /\ Nodes + 1 - (Nodes + 1 - k) = k
      BY <1>a
    <3>2. g[Nodes + 1 - k] = k
      BY <3>1
    <3> QED
      BY <3>1, <3>2
  <2> HIDE DEF f, g
  <2>5. SlAre(slNext, slList, slFree, 0, Nodes, f, g)
    BY <1>a, <2>2, <2>3, <2>4 DEF SlAre
  <2>6. Nodes - 0 = Nodes
    BY <1>a
  <2> QED
    BY <2>1, <2>5, <2>6 DEF SlLists
<1>6. SlBalance
  BY <1>a, <1>4, <1>5 DEF SlBalance
<1>7. SlEnough
  BY <1>a DEF SlEnough, SlInit
<1> QED
  BY <1>2, <1>3, <1>6, <1>7 DEF SlInv

LEMMA SlNextInv == SlInv /\ [SlNextStep]_slVars => SlInv'
<1> SUFFICES ASSUME SlInv, [SlNextStep]_slVars PROVE SlInv'
  OBVIOUS
<1>a. Nodes \in Nat /\ WorkUnit \in Nat /\ NIL \notin 1..Nodes /\ Boss \notin Workers
  BY NodesAssumption, WorkersAssumption
<1>i. SlType /\ SlGuarded /\ SlBalance /\ SlEnough
  BY DEF SlInv
<1>t. /\ slNext \in [1..Nodes -> 1..Nodes \cup {NIL}] /\ slI \in [Workers -> 0..WorkUnit]
      /\ slN \in [Workers -> 1..Nodes \cup {NIL}]
      /\ slPc \in [Workers \cup {Boss} -> SlLabels \cup {"fork", "exited", "returned"}]
      /\ \A p \in Workers : slPc[p] \in SlLabels
  BY <1>i DEF SlType
<1>h. slList \in 1..Nodes \cup {NIL} /\ slFree \in 1..Nodes \cup {NIL}
  <2>1. PICK n \in 0..Nodes : SlLists(n)
    BY <1>i DEF SlBalance
  <2>2. PICK f \in [1..n -> 1..Nodes], g \in [1..(Nodes - n) -> 1..Nodes] :
          SlAre(slNext, slList, slFree, n, Nodes - n, f, g)
    BY <2>1 DEF SlLists
  <2>3. slList = (IF n = 0 THEN NIL ELSE f[n])
        /\ slFree = (IF Nodes - n = 0 THEN NIL ELSE g[Nodes - n])
    BY <2>2 DEF SlAre, SlIsList
  <2> QED
    BY <1>a, <2>3
<1>1. ASSUME NEW p \in Workers, SlFork(p) PROVE SlInv'
  <2>1. /\ slPc[Boss] = "fork" /\ slPc[p] = "unborn"
        /\ UNCHANGED <<slNext, slList, slFree, slLock, slI, slN>>
    BY <1>1 DEF SlFork
  <2>2. \/ slPc' = [slPc EXCEPT ![p] = "push"]
        \/ slPc' = [slPc EXCEPT ![Boss] = "exited"]
    BY <1>1 DEF SlFork, SlGoto
  <2>3. \A q \in Workers : slPc'[q] = slPc[q] \/ (slPc[q] = "unborn" /\ slPc'[q] = "push")
    BY <1>a, <1>t, <2>1, <2>2
  <2>4. SlType'
    BY <1>t, <2>1, <2>2, <2>3 DEF SlType, SlLabels
  <2>5. SlGuarded'
    BY <1>i, <2>1, <2>3 DEF SlGuarded
  <2>6. \A q \in Workers : SlOwes(q)' = SlOwes(q)
    BY <2>1, <2>3 DEF SlOwes
  <2>7. SlBalance'
    BY <1>i, <2>1, <2>6, SlStays
  <2>8. SlEnough'
    BY <1>a, <1>i, <1>t, <2>2 DEF SlEnough
  <2> QED
    BY <2>4, <2>5, <2>7, <2>8 DEF SlInv
<1>2. ASSUME NEW p \in Workers, SlPushLock(p) \/ SlPopLock(p) PROVE SlInv'
  <2>1. /\ slI[p] < WorkUnit /\ slLock = {} /\ slLock' = {p}
        /\ UNCHANGED <<slNext, slList, slFree, slI>>
    BY <1>2 DEF SlPushLock, SlPopLock, MutexLock
  <2>2. \/ /\ slPc[p] = "push" /\ slPc' = [slPc EXCEPT ![p] = "pushed"]
           /\ slN' = [slN EXCEPT ![p] = slFree]
        \/ /\ slPc[p] = "pop" /\ slPc' = [slPc EXCEPT ![p] = "popped"]
           /\ slN' = [slN EXCEPT ![p] = slList]
    BY <1>2 DEF SlPushLock, SlPopLock, SlGoto
  <2>3. /\ \/ slPc[p] = "push" /\ slPc'[p] = "pushed" /\ slN'[p] = slFree
           \/ slPc[p] = "pop" /\ slPc'[p] = "popped" /\ slN'[p] = slList
        /\ \A q \in Workers \cup {Boss} : q # p => slPc'[q] = slPc[q]
    BY <1>t, <2>2
  <2>4. SlType'
    BY SMTT(30), <1>a, <1>t, <1>h, <2>1, <2>2, <2>3 DEF SlType, SlLabels
  <2>5. SlGuarded'
    <3>1. \A q \in Workers : slPc[q] \notin {"pushed", "popped"}
      BY <1>i, <2>1 DEF SlGuarded
    <3> QED
      BY <1>i, <2>1, <2>3, <3>1 DEF SlGuarded
  <2>6. \A q \in Workers : SlOwes(q)' = SlOwes(q)
    BY <2>1, <2>3 DEF SlOwes
  <2>7. SlBalance'
    BY <1>i, <2>1, <2>6, SlStays
  <2>8. SlEnough'
    BY <1>i, <2>3 DEF SlEnough
  <2> QED
    BY <2>4, <2>5, <2>7, <2>8 DEF SlInv
<1>3. ASSUME NEW p \in Workers, SlPush(p) PROVE SlInv'
  <2>1. slPc[p] = "pushed" /\ slLock' = slLock \ {p} /\ slN' = slN
    BY <1>3 DEF SlPush, MutexUnlock
  <2>2. /\ slLock = {p} /\ slN[p] = slFree /\ slI[p] < WorkUnit
        /\ \A q \in Workers : q # p => slPc[q] \notin {"pushed", "popped"}
    BY <1>i, <2>1 DEF SlGuarded
  <2>o. SlOwes(p) = slI[p]
    BY <2>1 DEF SlOwes
  <2>3. CASE slFree = NIL
    <3>1. slPc' = [slPc EXCEPT ![p] = "aborted"] /\ UNCHANGED <<slNext, slList, slFree, slI>>
      BY <1>3, <2>2, <2>3 DEF SlPush, SlGoto
    <3>2. slPc'[p] = "aborted" /\ \A q \in Workers \cup {Boss} : q # p => slPc'[q] = slPc[q]
      BY <1>t, <3>1
    <3>3. SlType'
      BY <1>t, <2>1, <3>1, <3>2 DEF SlType, SlLabels
    <3>4. SlGuarded'
      BY <1>i, <2>1, <2>2, <3>1, <3>2 DEF SlGuarded
    <3>5. \A q \in Workers : SlOwes(q)' = SlOwes(q)
      BY <2>1, <3>1, <3>2 DEF SlOwes
    <3>6. SlBalance'
      BY <1>i, <3>1, <3>5, SlStays
    <3>7. ~(Nodes >= WorkUnit * Cardinality(Workers))
      <4>1. PICK n \in 0..Nodes : SlLists(n) /\ Cardinality(SlHeld) = n
        BY <1>i DEF SlBalance
      <4>2. PICK f \in [1..n -> 1..Nodes], g \in [1..(Nodes - n) -> 1..Nodes] :
              SlAre(slNext, slList, slFree, n, Nodes - n, f, g)
        BY <4>1 DEF SlLists
      <4>3. slFree = IF Nodes - n = 0 THEN NIL ELSE g[Nodes - n]
        BY <4>2 DEF SlAre, SlIsList
      <4>4. n = Nodes
        <5>1. Nodes - n # 0 => g[Nodes - n] \in 1..Nodes
          BY <1>a
        <5> QED
          BY <1>a, <2>3, <4>3, <5>1
      <4>5. <<p, SlOwes(p) + 1>> \in Workers \X (1..WorkUnit)
        BY <1>a, <1>t, <2>2, <2>o
      <4>6. <<p, SlOwes(p) + 1>> \notin SlHeld
        BY <1>t, <2>o DEF SlHeld
      <4>7. /\ IsFiniteSet(Workers \X (1..WorkUnit)) /\ SlHeld \subseteq Workers \X (1..WorkUnit)
            /\ Cardinality(Workers \X (1..WorkUnit)) = WorkUnit * Cardinality(Workers)
        BY <1>i, SlHeldIs
      <4>8. /\ Cardinality(SlHeld) <= Cardinality(Workers \X (1..WorkUnit))
            /\ Cardinality(SlHeld) # Cardinality(Workers \X (1..WorkUnit))
        BY <4>5, <4>6, <4>7, FS_Subset
      <4>9. Cardinality(Workers \X (1..WorkUnit)) \in Nat
        BY <4>7, FS_CardinalityType
      <4> QED
        BY <1>a, <4>1, <4>4, <4>7, <4>8, <4>9
    <3>8. SlEnough'
      BY <3>7 DEF SlEnough
    <3> QED
      BY <3>3, <3>4, <3>6, <3>8 DEF SlInv
  <2>4. CASE slFree # NIL
    <3>1. /\ slFree' = slNext[slFree] /\ slNext' = [slNext EXCEPT ![slFree] = slList]
          /\ slList' = slFree /\ slI' = [slI EXCEPT ![p] = @ + 1]
          /\ slPc' = [slPc EXCEPT ![p] = "push"]
      BY <1>3, <2>2, <2>4 DEF SlPush, SlGoto
    <3>2. /\ slPc'[p] = "push" /\ slI'[p] = slI[p] + 1
          /\ \A q \in Workers \cup {Boss} : q # p => slPc'[q] = slPc[q]
          /\ \A q \in Workers : q # p => slI'[q] = slI[q]
      BY <1>t, <3>1
    <3>3. SlType'
      <4>1. slI' \in [Workers -> 0..WorkUnit]
        BY <1>a, <1>t, <2>2, <3>1
      <4>2. slNext' \in [1..Nodes -> 1..Nodes \cup {NIL}]
        BY <1>t, <1>h, <3>1
      <4> QED
        BY <1>t, <2>1, <3>1, <3>2, <4>1, <4>2 DEF SlType, SlLabels
    <3>4. SlGuarded'
      BY <1>i, <2>1, <2>2, <3>2 DEF SlGuarded
    <3>5. SlOwes(p)' = SlOwes(p) + 1 /\ \A q \in Workers : q # p => SlOwes(q)' = SlOwes(q)
      BY <2>o, <3>2 DEF SlOwes
    <3>6. Cardinality(SlHeld') = Cardinality(SlHeld) + 1
      BY <1>i, <2>2, <2>o, <3>5, SlGains
    <3>7. SlBalance'
      <4>1. PICK n \in 0..Nodes : SlLists(n) /\ Cardinality(SlHeld) = n
        BY <1>i DEF SlBalance
      <4>2. PICK f \in [1..n -> 1..Nodes], g \in [1..(Nodes - n) -> 1..Nodes] :
              SlAre(slNext, slList, slFree, n, Nodes - n, f, g)
        BY <4>1 DEF SlLists
      <4>3. n \in Nat /\ Nodes - n \in Nat /\ Nodes - n - 1 = Nodes - (n + 1)
        BY <1>a
      <4>4. /\ Nodes - n > 0
            /\ \E u \in [1..(n + 1) -> 1..Nodes], v \in [1..(Nodes - n - 1) -> 1..Nodes] :
                 SlAre([slNext EXCEPT ![slFree] = slList], slFree, slNext[slFree],
                       n + 1, Nodes - n - 1, u, v)
        BY <1>t, <2>4, <4>2, <4>3, SlMoves
      <4>5. SlLists(n + 1)'
        BY <3>1, <4>3, <4>4 DEF SlLists
      <4>6. n + 1 \in 0..Nodes
        BY <1>a, <4>4
      <4> QED
        BY <3>6, <4>1, <4>5, <4>6 DEF SlBalance
    <3>8. SlEnough'
      BY <1>i, <3>2 DEF SlEnough
    <3> QED
      BY <3>3, <3>4, <3>7, <3>8 DEF SlInv
  <2> QED
    BY <2>3, <2>4
<1>4. ASSUME NEW p \in Workers, SlTurn(p) PROVE SlInv'
  <2>1. /\ slPc[p] = "push" /\ slI[p] = WorkUnit /\ slI' = [slI EXCEPT ![p] = 0]
        /\ slPc' = [slPc EXCEPT ![p] = "pop"]
        /\ UNCHANGED <<slNext, slList, slFree, slLock, slN>>
    BY <1>4 DEF SlTurn, SlGoto
  <2>2. /\ slPc'[p] = "pop" /\ slI'[p] = 0
        /\ \A q \in Workers \cup {Boss} : q # p => slPc'[q] = slPc[q]
        /\ \A q \in Workers : q # p => slI'[q] = slI[q]
    BY <1>t, <2>1
  <2>3. SlType'
    BY <1>a, <1>t, <2>1, <2>2 DEF SlType, SlLabels
  <2>4. SlGuarded'
    BY <1>i, <2>1, <2>2 DEF SlGuarded
  <2>5. \A q \in Workers : SlOwes(q)' = SlOwes(q)
    BY <1>a, <2>1, <2>2 DEF SlOwes
  <2>6. SlBalance'
    BY <1>i, <2>1, <2>5, SlStays
  <2>7. SlEnough'
    BY <1>i, <2>2 DEF SlEnough
  <2> QED
    BY <2>3, <2>4, <2>6, <2>7 DEF SlInv
<1>5. ASSUME NEW p \in Workers, SlPop(p) PROVE SlInv'
  <2>1. slPc[p] = "popped" /\ slN' = slN
    BY <1>5 DEF SlPop
  <2>2. /\ slLock = {p} /\ slN[p] = slList /\ slI[p] < WorkUnit
        /\ \A q \in Workers : q # p => slPc[q] \notin {"pushed", "popped"}
    BY <1>i, <2>1 DEF SlGuarded
  <2>3. SlOwes(p) = WorkUnit - slI[p] /\ SlOwes(p) > 0
    BY <1>a, <1>t, <2>1, <2>2 DEF SlOwes
  <2>4. PICK n \in 0..Nodes : SlLists(n) /\ Cardinality(SlHeld) = n
    BY <1>i DEF SlBalance
  <2>5. PICK f \in [1..n -> 1..Nodes], g \in [1..(Nodes - n) -> 1..Nodes] :
          SlAre(slNext, slList, slFree, n, Nodes - n, f, g)
    BY <2>4 DEF SlLists
  <2>6. n # 0
    <3>1. <<p, SlOwes(p)>> \in SlHeld
      BY <1>a, <1>t, <2>3 DEF SlHeld
    <3>2. IsFiniteSet(SlHeld)
      BY <1>i, SlHeldIs
    <3> QED
      BY <2>4, <3>1, <3>2, FS_EmptySet
  <2>7. slList # NIL
    <3>1. slList = f[n]
      BY <2>5, <2>6 DEF SlAre, SlIsList
    <3> QED
      BY <1>a, <2>6, <3>1
  <2>8. /\ slList' = slNext[slList] /\ slNext' = [slNext EXCEPT ![slList] = slFree]
        /\ slFree' = slList /\ slI' = [slI EXCEPT ![p] = @ + 1] /\ slLock' = slLock \ {p}
        /\ slPc' = [slPc EXCEPT ![p] = "pop"]
    BY <1>5, <2>2, <2>7 DEF SlPop, SlGoto, MutexUnlock
  <2>9. /\ slPc'[p] = "pop" /\ slI'[p] = slI[p] + 1
        /\ \A q \in Workers \cup {Boss} : q # p => slPc'[q] = slPc[q]
        /\ \A q \in Workers : q # p => slI'[q] = slI[q]
    BY <1>t, <2>8
  <2>10. SlType'
    <3>1. slI' \in [Workers -> 0..WorkUnit]
      BY <1>a, <1>t, <2>2, <2>8
    <3>2. slNext' \in [1..Nodes -> 1..Nodes \cup {NIL}]
      BY <1>t, <1>h, <2>8
    <3> QED
      BY <1>t, <2>1, <2>8, <2>9, <3>1, <3>2 DEF SlType, SlLabels
  <2>11. SlGuarded'
    BY <1>i, <2>1, <2>2, <2>9 DEF SlGuarded
  <2>12. SlOwes(p)' = SlOwes(p) - 1 /\ \A q \in Workers : q # p => SlOwes(q)' = SlOwes(q)
    BY <1>a, <1>t, <2>3, <2>9 DEF SlOwes
  <2>13. Cardinality(SlHeld') = Cardinality(SlHeld) - 1
    BY <1>i, <2>3, <2>12, SlLoses
  <2>14. SlBalance'
    <3>1. n \in Nat /\ Nodes - n \in Nat /\ Nodes - n + 1 = Nodes - (n - 1)
      BY <1>a
    <3>2. SlAre(slNext, slFree, slList, Nodes - n, n, g, f)
      BY <2>5, <3>1, SlEither
    <3>3. \E u \in [1..(Nodes - n + 1) -> 1..Nodes], v \in [1..(n - 1) -> 1..Nodes] :
            SlAre([slNext EXCEPT ![slList] = slFree], slList, slNext[slList],
                  Nodes - n + 1, n - 1, u, v)
      BY <1>t, <2>7, <3>1, <3>2, SlMoves
    <3>4. PICK u \in [1..(Nodes - n + 1) -> 1..Nodes], v \in [1..(n - 1) -> 1..Nodes] :
            SlAre(slNext', slFree', slList', Nodes - n + 1, n - 1, u, v)
      BY <2>8, <3>3
    <3>5. n - 1 \in Nat /\ Nodes - n + 1 \in Nat
      BY <1>a, <2>6
    <3>6. SlAre(slNext', slList', slFree', n - 1, Nodes - n + 1, v, u)
      BY <3>4, <3>5, SlEither
    <3>7. SlLists(n - 1)'
      BY <3>1, <3>6 DEF SlLists
    <3>8. n - 1 \in 0..Nodes
      BY <1>a, <2>6
    <3> QED
      BY <2>4, <2>13, <3>7, <3>8 DEF SlBalance
  <2>15. SlEnough'
    BY <1>i, <2>9 DEF SlEnough
  <2> QED
    BY <2>10, <2>11, <2>14, <2>15 DEF SlInv
<1>6. ASSUME NEW p \in Workers, SlExit(p) PROVE SlInv'
  <2>1. /\ slPc[p] = "pop" /\ slI[p] = WorkUnit /\ slPc' = [slPc EXCEPT ![p] = "done"]
        /\ UNCHANGED <<slNext, slList, slFree, slLock, slI, slN>>
    BY <1>6 DEF SlExit, SlGoto
  <2>2. slPc'[p] = "done" /\ \A q \in Workers \cup {Boss} : q # p => slPc'[q] = slPc[q]
    BY <1>t, <2>1
  <2>3. SlType'
    BY <1>t, <2>1, <2>2 DEF SlType, SlLabels
  <2>4. SlGuarded'
    BY <1>i, <2>1, <2>2 DEF SlGuarded
  <2>5. \A q \in Workers : SlOwes(q)' = SlOwes(q)
    BY <2>1, <2>2 DEF SlOwes
  <2>6. SlBalance'
    BY <1>i, <2>1, <2>5, SlStays
  <2>7. SlEnough'
    BY <1>i, <2>2 DEF SlEnough
  <2> QED
    BY <2>3, <2>4, <2>6, <2>7 DEF SlInv
<1>7. CASE SlWait
  <2>1. /\ slPc[Boss] = "fork" /\ \A p \in Workers : slPc[p] \in {"done", "aborted"}
        /\ slPc' = [slPc EXCEPT ![Boss] = IF slList = NIL THEN "returned" ELSE "aborted"]
        /\ UNCHANGED <<slNext, slList, slFree, slLock, slI, slN>>
    BY <1>7 DEF SlWait, SlGoto
  <2>2. \A q \in Workers : slPc'[q] = slPc[q]
    BY <1>a, <1>t, <2>1
  <2>3. slPc'[Boss] = IF slList = NIL THEN "returned" ELSE "aborted"
    BY <1>t, <2>1
  <2>4. SlType'
    BY <1>t, <2>1, <2>2 DEF SlType, SlLabels
  <2>5. SlGuarded'
    BY <1>i, <2>1, <2>2 DEF SlGuarded
  <2>6. \A q \in Workers : SlOwes(q)' = SlOwes(q)
    BY <2>1, <2>2 DEF SlOwes
  <2>7. SlBalance'
    BY <1>i, <2>1, <2>6, SlStays
  <2>8. ASSUME Nodes >= WorkUnit * Cardinality(Workers) PROVE slList = NIL
    <3>1. \A q \in Workers : slPc[q] = "done" /\ slI[q] = WorkUnit
      BY <1>i, <2>1, <2>8 DEF SlEnough, SlGuarded
    <3>2. \A q \in Workers : SlOwes(q) = 0
      BY <1>a, <3>1 DEF SlOwes
    <3>3. SlHeld = {}
      BY <1>a, <3>2 DEF SlHeld
    <3>4. Cardinality(SlHeld) = 0
      BY <3>3, FS_EmptySet
    <3>5. SlLists(0)
      BY <1>i, <3>4 DEF SlBalance
    <3> QED
      BY <3>5 DEF SlLists, SlAre, SlIsList
  <2>9. SlEnough'
    BY <1>i, <2>2, <2>3, <2>8 DEF SlEnough
  <2> QED
    BY <2>4, <2>5, <2>7, <2>9 DEF SlInv
<1>8. CASE UNCHANGED slVars
  <2>1. UNCHANGED <<slNext, slList, slFree, slLock, slPc, slI, slN>>
    BY <1>8 DEF slVars
  <2>2. \A q \in Workers : SlOwes(q)' = SlOwes(q)
    BY <2>1 DEF SlOwes
  <2>3. SlBalance'
    BY <1>i, <2>1, <2>2, SlStays
  <2> QED
    BY <1>i, <2>1, <2>3 DEF SlInv, SlType, SlGuarded, SlEnough
<1> QED
  BY <1>1, <1>2, <1>3, <1>4, <1>5, <1>6, <1>7, <1>8 DEF SlNextStep, SlChild

\* For any number of nodes, children and units of work: every node is on exactly
\* one of the two lists whenever the mutex is free, and with room for everybody
\* neither assertion of the program fails and no child finds the list empty.
THEOREM SlIsSafe == SlSpec => []SlSafe
<1>1. SlInv => SlSafe
  <2> SUFFICES ASSUME SlInv PROVE SlSafe
    OBVIOUS
  <2>a. Nodes \in Nat
    BY NodesAssumption
  <2>1. PICK n \in 0..Nodes : SlLists(n)
    BY DEF SlInv, SlBalance
  <2>2. PICK f \in [1..n -> 1..Nodes], g \in [1..(Nodes - n) -> 1..Nodes] :
          SlAre(slNext, slList, slFree, n, Nodes - n, f, g)
    BY <2>1 DEF SlLists
  <2>3. Nodes - n \in 0..Nodes
    BY <2>a
  <2>4. /\ SlChain(slList) = {f[i] : i \in 1..n}
        /\ SlChain(slFree) = {g[j] : j \in 1..(Nodes - n)}
    BY <2>2, <2>3, SlReaches DEF SlAre
  <2>5. /\ \A i \in 1..n, j \in 1..(Nodes - n) : f[i] # g[j]
        /\ \A k \in 1..Nodes : (\E i \in 1..n : f[i] = k) \/ (\E j \in 1..(Nodes - n) : g[j] = k)
    BY <2>2 DEF SlAre
  <2>6. SlChain(slList) \cup SlChain(slFree) = 1..Nodes
    BY <2>4, <2>5
  <2>7. SlChain(slList) \cap SlChain(slFree) = {}
    BY <2>4, <2>5
  <2> QED
    BY <2>6, <2>7 DEF SlSafe, SlInv, SlEnough
<1> QED
  BY <1>1, SlInitInv, SlNextInv, PTL DEF SlSpec

\* Pointers stay inside the mapping, and only children hold the mutex.
THEOREM SlTypeCorrect == SlSpec => []SlTypeOK
<1> DEFINE Locked == slLock \subseteq Workers
<1>1. SlInit => Locked
  BY DEF SlInit
<1>2. Locked /\ [SlNextStep]_slVars => Locked'
  BY DEF SlNextStep, SlWait, SlFork, SlChild, SlPushLock, SlPush, SlTurn, SlPopLock, SlPop,
         SlExit, MutexLock, MutexUnlock, slVars
<1>3. SlInv => slList \in 1..Nodes \cup {NIL} /\ slFree \in 1..Nodes \cup {NIL}
  <2> SUFFICES ASSUME SlInv
               PROVE  slList \in 1..Nodes \cup {NIL} /\ slFree \in 1..Nodes \cup {NIL}
    OBVIOUS
  <2>a. Nodes \in Nat
    BY NodesAssumption
  <2>1. PICK n \in 0..Nodes : SlLists(n)
    BY DEF SlInv, SlBalance
  <2>2. PICK f \in [1..n -> 1..Nodes], g \in [1..(Nodes - n) -> 1..Nodes] :
          SlAre(slNext, slList, slFree, n, Nodes - n, f, g)
    BY <2>1 DEF SlLists
  <2>3. /\ slList = IF n = 0 THEN NIL ELSE f[n]
        /\ slFree = IF Nodes - n = 0 THEN NIL ELSE g[Nodes - n]
    BY <2>2 DEF SlAre, SlIsList
  <2>4. (n # 0 => f[n] \in 1..Nodes) /\ (Nodes - n # 0 => g[Nodes - n] \in 1..Nodes)
    BY <2>a
  <2> QED
    BY <2>3, <2>4
<1>4. SlInv /\ Locked => SlTypeOK
  BY <1>3 DEF SlInv, SlType, SlLabels, SlTypeOK
<1> QED
  BY <1>1, <1>2, <1>4, SlInitInv, SlNextInv, PTL DEF SlSpec
----------------------------------------------------------------------------
(* The programs side by side.                                              *)

\* A step of the run is a step of one program and leaves the others alone.
LEMMA MCStep ==
  ASSUME [MCNext]_mcVars
  PROVE  /\ [SqNext]_sqVars /\ [CqNext]_cqVars /\ [CsNext]_csVars /\ [BarNext]_barVars
         /\ [PhNext]_phVars /\ [CbNext]_cbVars /\ [OpNext]_opVars /\ [OcNext]_ocVars
         /\ [FhNext]_fhVars /\ [SlNextStep]_slVars /\ [SwNext]_swVars
  BY DEF MCNext, mcVars, SqAlone, CqAlone, CsAlone, BarAlone, PhAlone, CbAlone, OpAlone,
         OcAlone, SlAlone, FhAlone, SwAlone

LEMMA MCPrograms ==
  MCSpec => /\ SqSpec /\ CqSpec /\ CsSpec /\ BarSpec /\ PhSpec /\ CbSpec
            /\ OpSpec /\ OcSpec /\ FhSpec /\ SlSpec /\ SwSpec
<1>1. MCInit => /\ SqInit /\ CqInit /\ CsInit /\ BarInit /\ PhInit /\ CbInit
                /\ OpInit /\ OcInit /\ FhInit /\ SlInit /\ SwInit
  BY DEF MCInit
<1> QED
  BY <1>1, MCStep, PTL
     DEF MCSpec, SqSpec, CqSpec, CsSpec, BarSpec, PhSpec, CbSpec, OpSpec, OcSpec, FhSpec,
         SlSpec, SwSpec

\* The type invariant of all the programs of the run, for every value of the constants.
THEOREM MCTypeCorrect == MCSpec => []MCTypeOK
<1>1. /\ SqTypeOK /\ CqTypeOK /\ CsTypeOK /\ BarTypeOK /\ PhTypeOK /\ CbTypeOK
      /\ OpTypeOK /\ OcTypeOK /\ SlTypeOK /\ FhTypeOK /\ SwTypeOK
      => MCTypeOK
  BY DEF MCTypeOK
<1> QED
  BY <1>1, MCPrograms, SqTypeCorrect, CqTypeCorrect, CsTypeCorrect, BarTypeCorrect,
     PhTypeCorrect, CbTypeCorrect, OpTypeCorrect, OcTypeCorrect, SlTypeCorrect,
     FhTypeCorrect, SwTypeCorrect, PTL

\* Both work queues implement the job pool, and no worker of the second pops
\* an empty list.
THEOREM MCRefinesPool == MCSpec => MCIsJobPool
  BY MCPrograms, SqRefinesPool, CqRefinesPool, CqPopSafe, PTL DEF MCIsJobPool

\* Both programs with ordered threads keep the order.
THEOREM MCInOrder == MCSpec => []MCOrders
<1>1. OpOrder /\ OcOrder => MCOrders
  BY DEF MCOrders
<1> QED
  BY <1>1, MCPrograms, OpPrintsInOrder, OcCallsInOrder, PTL
=============================================================================
